------------------------------- MODULE MCDeal -------------------------------
(* Deal on decks of nine cards.                                            *)
EXTENDS Deal

MCCardsPerRound == <<2, 3, 1, 1>>

Card(rank, suit) == deck_make_card(suit, rank)
Aces == {Card(Ace, s) : s \in Suits}
Wheel == Aces \cup {Card(r, 0) : r \in 0 .. 3} \cup {Card(0, 1)}
Spades == {Card(r, 0) : r \in 0 .. 4} \cup {Card(Ace, 0), Card(1, 1), Card(1, 2), Card(4, 3)}

(* Every choice of the hole cards of player 0, and four places to cut the   *)
(* rest of the deck.                                                       *)
InOrder(S) == Ascending(S, <)
Cut(seq, k) == SubSeq(seq, k + 1, Len(seq)) \o SubSeq(seq, 1, k)
Orders(deck) ==
    {InOrder(h) \o Cut(InOrder(deck \ h), k) : h \in kSubset(2, deck), k \in {0, 2, 3, 5}}

MCShuffles == <<{Cut(InOrder(Wheel), 1)}, Orders(Wheel) \cup Orders(Spades)>>
=============================================================================
