----------------------------- MODULE HandStrength -----------------------------
(***************************************************************************)
(* Game/Utility/HandStrength.hpp: the category of a hand of up to seven    *)
(* cards, and what it may still become.  A card is its number, as in       *)
(* HandIndex; a hand is a set of them.  The highest rank is the ace.       *)
(***************************************************************************)
EXTENDS Deck, FiniteSets, FiniteSetsExt

rank_of(card) == deck_get_rank(card)
suit_of(card) == deck_get_suit(card)

RanksIn(cards) == {rank_of(c) : c \in cards}
InSuit(cards, s) == {c \in cards : suit_of(c) = s}

(* The ranks of a straight, from its lowest; the wheel has the ace below.  *)
Ace == RANKS - 1
WHEEL == {Ace} \cup 0 .. 3
Windows == {low .. low + 4 : low \in 0 .. RANKS - 5}

no_wheel(ranks) ==              \* Faulty: the ace is only high.
    \E w \in Windows : w \subseteq ranks
has_straight(ranks) == \E w \in Windows \cup {WHEEL} : w \subseteq ranks

(* How many ranks the hand has k cards of.                                 *)
RanksWith(cards, k) ==
    Cardinality({r \in RanksIn(cards) :
                    Cardinality({c \in cards : rank_of(c) = r}) = k})
Flushes(cards) == {s \in 0 .. SUITS - 1 : Cardinality(InSuit(cards, s)) >= 5}

(* What a hand makes; its category is the best of it.                      *)
makes(cards, category) ==
    LET pairs == RanksWith(cards, 2)
        trips == RanksWith(cards, 3)
    IN  CASE category = 9 -> \E s \in Flushes(cards) :
                                 has_straight(RanksIn(InSuit(cards, s)))
          [] category = 8 -> RanksWith(cards, 4) > 0
          [] category = 7 -> trips >= 2 \/ (trips > 0 /\ pairs > 0)
          [] category = 6 -> Flushes(cards) # {}
          [] category = 5 -> has_straight(RanksIn(cards))
          [] category = 4 -> trips > 0
          [] category = 3 -> pairs >= 2
          [] category = 2 -> pairs = 1
          [] OTHER        -> TRUE

hand_category(cards) ==
    IF Cardinality(cards) < 2 THEN 0
    ELSE Max({category \in 1 .. 9 : makes(cards, category)})

max_suit_count(cards) ==
    Max({Cardinality(InSuit(cards, s)) : s \in 0 .. SUITS - 1})

(* The windows that still can be filled in the streets to come.            *)
Threshold(n) == IF n <= 4 THEN 2 ELSE IF n >= 7 THEN 5 ELSE n - 2

straight_alive_windows(cards) ==
    IF Cardinality(cards) < 2 THEN 0
    ELSE Cardinality({w \in Windows \cup {WHEEL} :
             Cardinality(w \cap RanksIn(cards)) >= Threshold(Cardinality(cards))})

(* The ranks that would complete a straight.                               *)
straight_draw_outs(cards) ==
    IF Cardinality(cards) < 4 THEN 0
    ELSE Cardinality({r \in (0 .. RANKS - 1) \ RanksIn(cards) :
             has_straight(RanksIn(cards) \cup {r})})

overcard_count(hole, community) ==
    IF community = {} THEN 0
    ELSE Cardinality({c \in hole : rank_of(c) > Max(RanksIn(community))})
=============================================================================
