--------------------------------- MODULE Deal ---------------------------------
(***************************************************************************)
(* The cards of a hand: dealt and numbered all at once (CardData::         *)
(* initialize), shown street by street (Game::updateInfoSets), and turned  *)
(* into the card part of an observation (ObservationBuilder::build).  The  *)
(* betting in between is PokerEnvironment's.                               *)
(*                                                                         *)
(* Streets count from 0, as in the code; HandIndex counts them from 1.     *)
(***************************************************************************)
EXTENDS HandIndex, HandStrength

CONSTANT Shuffles               \* bound: for each hand of a run, the orders
                                \* of dealable_cards() it may be dealt in

ASSUME DealAssumption ==
    /\ CardsPerRound = <<2, 3, 1, 1>>           \* GameConfig::validate
    /\ Shuffles \in Seq(SUBSET Seq(Cards)) /\ Shuffles # <<>>
    /\ \A n \in DOMAIN Shuffles : \A deck \in Shuffles[n] :
          Len(deck) >= 9 /\ IsInjective(deck)

VARIABLES flopIndexer,  \* initialised with the first hand, then shared
          hands,        \* dealt so far
          rawCards, handHashes,
          round,
          shown,        \* the chance node of this street was played
          cardHashes    \* InfoSetData of each player, <<>> before the flop

dealVars == <<flopIndexer, hands, rawCards, handHashes, round, shown, cardHashes>>

Seats == {0, 1}
Streets == 0 .. 3
-----------------------------------------------------------------------------
(* The layout of rawCards.                                                 *)
HoleCards(raw, p) == {raw[2 * p + 1], raw[2 * p + 2]}
Board(raw, r) == {raw[i] : i \in 5 .. (CASE r = 0 -> 4 [] r = 1 -> 7
                                         [] r = 2 -> 8 [] OTHER -> 9)}
NewCards(raw, r) == Board(raw, r) \ Board(raw, r - 1)

(* The cards of a player, in the rounds hand_index_next_round is given.    *)
DealOf(raw, p) == <<HoleCards(raw, p), Board(raw, 1), NewCards(raw, 2), NewCards(raw, 3)>>

Hashes(raw, p) == [r \in Streets |-> hand_index(flopIndexer, SubSeq(DealOf(raw, p), 1, r + 1))]

Initialize(n) ==
    \E deck \in Shuffles[n] :
        /\ rawCards' = SubSeq(deck, 1, 9)
        /\ handHashes' = [p \in Seats |-> Hashes(rawCards', p)]

NothingShown == [p \in Seats |-> <<>>]

DealInit ==
    /\ flopIndexer = hand_indexer_init
    /\ hands = 1
    /\ \E deck \in Shuffles[1] : rawCards = SubSeq(deck, 1, 9)
    /\ handHashes = [p \in Seats |-> Hashes(rawCards, p)]
    /\ round = 0 /\ shown = FALSE /\ cardHashes = NothingShown

(* setCardHashFromDeck, for both players.                                  *)
DealChance ==
    /\ ~shown
    /\ shown' = TRUE
    /\ cardHashes' = [p \in Seats |-> Append(cardHashes[p], handHashes[p][round])]
    /\ UNCHANGED <<flopIndexer, hands, rawCards, handHashes, round>>

AdvanceRound ==
    /\ shown /\ round < 3
    /\ round' = round + 1 /\ shown' = FALSE
    /\ UNCHANGED <<flopIndexer, hands, rawCards, handHashes, cardHashes>>

(* GameContext::reset: a new hand, wherever the old one ended.             *)
InfoSetsReset == NothingShown

Reset == /\ shown /\ hands < Len(Shuffles)
         /\ hands' = hands + 1
         /\ Initialize(hands + 1)
         /\ round' = 0 /\ shown' = FALSE
         /\ cardHashes' = InfoSetsReset
         /\ UNCHANGED flopIndexer

DealDone == hands = Len(Shuffles) /\ round = 3 /\ shown /\ UNCHANGED dealVars

DealNext == DealChance \/ AdvanceRound \/ Reset \/ DealDone
DealSpec == DealInit /\ [][DealNext]_dealVars
-----------------------------------------------------------------------------
(* The hand features of an observation, a row per street.                  *)
NoFeatures == [category |-> 0, flushDraw |-> 0, outs |-> 0, alive |-> 0, overs |-> 0]

Least(a, b) == IF a <= b THEN a ELSE b

Features(hole, board) ==
    LET cards == hole \cup board
        category == hand_category(cards)
        straight == category \in {5, 9}
    IN  [category  |-> category,
         flushDraw |-> IF max_suit_count(cards) = 4 /\ category \notin {6, 9}
                       THEN 1 ELSE 0,
         outs      |-> IF straight THEN 0 ELSE Least(8, straight_draw_outs(cards)),
         alive     |-> IF straight THEN 0 ELSE Least(4, straight_alive_windows(cards)),
         overs     |-> overcard_count(hole, board)]

(* Faulty: the rows of the streets to come are filled in as well.          *)
EveryRow(raw, p, now) ==
    [r \in Streets |-> Features(HoleCards(raw, p), Board(raw, r))]
FeatureRows(raw, p, now) ==
    [r \in Streets |-> IF r > now THEN NoFeatures
                       ELSE Features(HoleCards(raw, p), Board(raw, r))]

(* The card part of build(), for player p to act on street now.            *)
Observation(raw, p, now) ==
    [hole |-> HoleCards(raw, p), community |-> Board(raw, now), round |-> now,
     seat |-> p, features |-> FeatureRows(raw, p, now)]

(* What PairAllInPolicy reads out of it.                                   *)
SeesPair(obs) ==
    /\ Cardinality(obs.hole) = 2
    /\ Cardinality({deck_get_rank(c) : c \in obs.hole}) = 1
-----------------------------------------------------------------------------
(***************************************************************************)
(* Properties.                                                             *)
(***************************************************************************)
Visible(p) == SubSeq(DealOf(rawCards, p), 1, round + 1)

Renamings == {pi \in [Suits -> Suits] : IsInjective(pi)}
Renamed(deal, pi) ==
    [r \in DOMAIN deal |->
        {deck_make_card(pi[deck_get_suit(c)], deck_get_rank(c)) : c \in deal[r]}]

(* Two hands have the same number exactly if they differ by the names of   *)
(* the suits: read back, a number gives the cards seen but for a renaming, *)
(* and whatever the suits are called the number is the same.  It is below  *)
(* the size of its street, and no number is wasted: those next to it are   *)
(* hands of their own.                                                     *)
Swapped(s) == [t \in Suits |-> IF t = s THEN s + 1 ELSE IF t = s + 1 THEN s ELSE t]

NumbersAreCanonical ==
    shown => \A p \in Seats :
        LET h     == handHashes[p][round]
            size  == hand_indexer_size(flopIndexer, round + 1)
            named == hand_unindex(flopIndexer, round + 1, h)
        IN  /\ h \in 0 .. size - 1
            /\ \E pi \in Renamings : Renamed(named, pi) = Visible(p)
            /\ \A s \in 0 .. SUITS - 2 :
                  hand_index(flopIndexer, Renamed(Visible(p), Swapped(s))) = h
            /\ \A i \in {h - 1, h + 1} \cap 0 .. size - 1 :
                  hand_index(flopIndexer, hand_unindex(flopIndexer, round + 1, i)) = i

(* Nothing a player cannot see shows: its info set is what the cards it    *)
(* sees give, and its observation stays what it is if two hidden cards     *)
(* change places.                                                          *)
HiddenFrom(p) == {i \in 1 .. 9 : rawCards[i] \notin HoleCards(rawCards, p)
                                                        \cup Board(rawCards, round)}
Exchanged(i, j) == [rawCards EXCEPT ![i] = rawCards[j], ![j] = rawCards[i]]

NothingHiddenShows ==
    shown => \A p \in Seats :
        LET obs == Observation(rawCards, p, round)
        IN  /\ cardHashes[p] = [r \in 1 .. round + 1 |->
                                   hand_index(flopIndexer, SubSeq(Visible(p), 1, r))]
            /\ \A i, j \in HiddenFrom(p) :
                  i < j => Observation(Exchanged(i, j), p, round) = obs

(* The category is that of the best five cards of the hand, told from how  *)
(* five cards repeat their ranks.                                          *)
FiveCardCategory(five) ==
    LET ranks == RanksIn(five)
        flush == Cardinality({suit_of(c) : c \in five}) = 1
        straight == /\ Cardinality(ranks) = 5
                    /\ \/ Max(ranks) - Min(ranks) = 4
                       \/ ranks \ {Ace} = 0 .. 3
        repeated == Max({k \in 1 .. 4 : RanksWith(five, k) > 0})
    IN  CASE straight /\ flush   -> 9
          [] repeated = 4        -> 8
          [] repeated = 3 /\ Cardinality(ranks) = 2 -> 7
          [] flush /\ ~straight  -> 6
          [] straight /\ ~flush  -> 5
          [] repeated = 3 /\ Cardinality(ranks) = 3 -> 4
          [] repeated = 2 /\ Cardinality(ranks) = 3 -> 3
          [] repeated = 2 /\ Cardinality(ranks) = 4 -> 2
          [] OTHER               -> 1

CategoryIsBestFive ==
    shown => \A p \in Seats :
        LET obs == Observation(rawCards, p, round)
            cards == obs.hole \cup obs.community
        IN  obs.features[round].category =
                IF round = 0 THEN (IF SeesPair(obs) THEN 2 ELSE 1)
                ELSE Max({FiveCardCategory(five) : five \in kSubset(5, cards)})

(* What a player makes is announced by the features of the street before:  *)
(* a flush by the flush draw, a straight by an out and a live window; and  *)
(* a category is never lost.                                               *)
DrawsAnnounced ==
    shown => \A p \in Seats :
        LET rows == Observation(rawCards, p, round).features
            cards(r) == HoleCards(rawCards, p) \cup Board(rawCards, r)
        IN  \A r \in 1 .. round - 1 :
                /\ rows[r].category <= rows[r + 1].category
                /\ (Flushes(cards(r)) = {} /\ Flushes(cards(r + 1)) # {})
                       => rows[r].flushDraw = 1
                /\ (~has_straight(RanksIn(cards(r))) /\ has_straight(RanksIn(cards(r + 1))))
                       => rows[r].outs > 0 /\ rows[r].alive > 0

(* So the feature rows tell of a hand what it is and what it may become.   *)
FeaturesTellTheHand == CategoryIsBestFive /\ DrawsAnnounced
=============================================================================
