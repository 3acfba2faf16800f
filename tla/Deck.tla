--------------------------------- MODULE Deck ---------------------------------
(***************************************************************************)
(* Cards are numbers (deck.h, GameConfig's card namespace): a deck of      *)
(* RANKS * SUITS cards, of which 13 * 4 are real.  HandStrength counts     *)
(* suits in an array of four.                                              *)
(***************************************************************************)
EXTENDS Naturals

CONSTANTS RANKS, SUITS

ASSUME DeckAssumption == RANKS \in Nat /\ RANKS >= 5 /\ SUITS \in 1 .. 4

Suits == 0 .. SUITS - 1
Cards == 0 .. RANKS * SUITS - 1

deck_get_suit(card) == card % SUITS
deck_get_rank(card) == card \div SUITS
deck_make_card(suit, rank) == rank * SUITS + suit
=============================================================================
