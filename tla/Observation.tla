----------------------------- MODULE Observation -----------------------------
(***************************************************************************)
(* From an environment to the network: ObservationBuilder::build writes    *)
(* the state of the hand into one row of numbers, at the offsets of        *)
(* ObservationLayout::build, and ActorCritic cuts that row up again.       *)
(* Nothing but the offsets tells one number from another.                  *)
(*                                                                         *)
(* A feature is its numerator: the norms it is divided by are positive     *)
(* constants.  The hand features of the static block are Deal's and stay 0 *)
(* here; the network's layers are not modelled, only what reaches them.    *)
(***************************************************************************)
EXTENDS PokerEnvironment

CONSTANTS CardSlots,            \* size of the card namespace
          Hole,                 \* the cards of each seat
          Community,            \* and the board, in the order it is dealt
          Lengths               \* of the history blocks that are checked

ASSUME CardsAssumption ==
    /\ CardSlots \in Nat
    /\ \A p \in Seats : Hole[p] \subseteq 0 .. CardSlots - 1
    /\ Community \in Seq(0 .. CardSlots - 1) /\ Len(Community) = 5

ASSUME LengthsAssumption == Lengths \subseteq Nat \ {0}

(* BetHistoryConfig and RoundSummaryConfig: what a build varies.           *)
Configs == [history : BOOLEAN, length : Lengths, summary : BOOLEAN]

FeatBasic == 10
FeatHandStrength == 5 * 4
FeatStatic == FeatBasic + FeatHandStrength
FeatPerAction == 8
FeatPerRound == 4
-----------------------------------------------------------------------------
(***************************************************************************)
(* ObservationLayout::build.                                               *)
(***************************************************************************)
HistoryBlockDim(c) == IF c.history THEN c.length * (1 + FeatPerAction) ELSE 0
SummaryDim(c) == IF c.summary THEN 4 * FeatPerRound ELSE 0

StaticOffset == 2 * CardSlots
SummaryOffset == StaticOffset + FeatStatic
HistoryOffset(c) == SummaryOffset + SummaryDim(c)
TotalDim(c) == HistoryOffset(c) + HistoryBlockDim(c)
-----------------------------------------------------------------------------
(***************************************************************************)
(* ObservationBuilder::build.                                              *)
(***************************************************************************)
Bit(condition) == IF condition THEN 1 ELSE 0

(* Numbers written one after the other from an offset.                     *)
Written(offset, numbers) ==
    [i \in offset .. offset + Len(numbers) - 1 |-> numbers[i - offset + 1]]

Ones(positions) == [i \in positions |-> 1]

(* One set of numbers written over another.                                *)
Over(last, first) ==
    [i \in DOMAIN last \cup DOMAIN first |->
        IF i \in DOMAIN last THEN last[i] ELSE first[i]]

CommunityCount == CASE round = 0 -> 0 [] round = 1 -> 3 [] round = 2 -> 4
                    [] OTHER -> 5

CardFeatures ==
    Ones(Hole[player] \cup {CardSlots + Community[i] : i \in 1 .. CommunityCount})

BasicFeatures ==
    Written(StaticOffset,
            <<stacks[player], stacks[Other(player)], pot, bet.currentBet,
              raiseNum>>
            \o [i \in 1 .. 4 |-> Bit(i - 1 = round)] \o <<player>>)

(* write_round_summary.                                                    *)
ChipsOf(p, r) ==
    SumFunction([k \in DOMAIN betHistory |->
                    IF betHistory[k].player = p /\ betHistory[k].round = r
                    THEN betHistory[k].amount ELSE 0])

(* Faulty: the chips are those of the seats, not of the acting player.     *)
SummaryBySeat(r) ==
    <<ChipsOf(0, r), ChipsOf(1, r), Cardinality(RaisesOf(r)), Bit(LastAggressor(r) = player)>>

SummaryOfRound(r) ==
    <<ChipsOf(player, r), ChipsOf(Other(player), r), Cardinality(RaisesOf(r)),
      Bit(LastAggressor(r) = player)>>

RoundSummary ==
    Written(SummaryOffset, FlattenSeq([r \in 1 .. 4 |-> SummaryOfRound(r - 1)]))

(* write_history: a mask of what is there, then the tokens, row by row.    *)
Token(entry) ==
    <<entry.amount, entry.amount, Bit(entry.player = player), Bit(entry.aggressive)>>
    \o [i \in 1 .. 4 |-> Bit(entry.round = i - 1)]

(* Faulty: the oldest actions are kept.                                    *)
KeptOldest(c) == SubSeq(betHistory, 1, Min({Len(betHistory), c.length}))

Kept(c) == LET n == Min({Len(betHistory), c.length})
           IN  SubSeq(betHistory, Len(betHistory) - n + 1, Len(betHistory))

History(c) ==
    Over(Written(HistoryOffset(c) + c.length,
                 FlattenSeq([i \in DOMAIN Kept(c) |-> Token(Kept(c)[i])])),
         Written(HistoryOffset(c), [i \in DOMAIN Kept(c) |-> 1]))

Nothing == [i \in {} |-> 0]

(* What is written last stands.                                            *)
Build(c) == Over(IF c.history THEN History(c) ELSE Nothing,
            Over(IF c.summary THEN RoundSummary ELSE Nothing,
            Over(BasicFeatures,
            Over(CardFeatures, [i \in 0 .. TotalDim(c) - 1 |-> 0]))))
-----------------------------------------------------------------------------
(***************************************************************************)
(* ActorCritic::forward, up to its layers.                                 *)
(***************************************************************************)
(* The constructor.                                                        *)
Accepts(c, obsDim) == TotalDim(c) = obsDim

Narrow(row, start, length) == [i \in 1 .. length |-> row[start + i - 1]]

(* build_trunk_input: what the towers see beside the encoded history.      *)
TrunkInput(c, obs) ==
    Narrow(obs, 0, StaticOffset + FeatStatic)
    \o (IF c.summary THEN Narrow(obs, SummaryOffset, SummaryDim(c)) ELSE <<>>)

(* HistoryEncoder::forward: attention reaches the tokens that the mask     *)
(* leaves in.                                                              *)
Attended(c, obs) ==
    LET block == Narrow(obs, HistoryOffset(c), HistoryBlockDim(c))
        mask == SubSeq(block, 1, c.length)
        tokens == [i \in 1 .. c.length |->
                      SubSeq(block, c.length + (i - 1) * FeatPerAction + 1,
                                    c.length + i * FeatPerAction)]
    IN  [i \in {j \in DOMAIN mask : mask[j] = 1} |-> tokens[i]]
-----------------------------------------------------------------------------
(***************************************************************************)
(* Properties.                                                             *)
(***************************************************************************)
(* The constructor compares one number, and that is enough: two            *)
(* configurations of the same dimension cut a row in the same places.      *)
SameCuts(c, d) == /\ c.history = d.history /\ c.summary = d.summary
                  /\ c.history => c.length = d.length

OneNumberTellsTheLayout ==
    phase = "action" =>
        \A c, d \in Configs : Accepts(c, TotalDim(d)) => SameCuts(c, d)

(* Builder and network have a copy each of the two settings.  The networks *)
(* that take a row of the builder's:                                       *)
Readers(d) == {c \in Configs : Accepts(c, TotalDim(d))}

(* A token read back, in the terms of the seat that acts.                  *)
Told(token) ==
    [mine |-> token[3] = 1, aggressive |-> token[4] = 1, amount |-> token[1],
     rounds |-> {r \in Streets : token[5 + r] = 1}]
Meant(entry) ==
    [mine |-> entry.player = player, aggressive |-> entry.aggressive,
     amount |-> entry.amount, rounds |-> {entry.round}]

(* What attention reaches is the betting of the hand: all of it, or the    *)
(* last actions if the block is too short, in order and without holes.     *)
LastActionsReachTheNetwork ==
    phase = "action" =>
        \A d \in {b \in Configs : b.history} : \A c \in Readers(d) :
            LET n == Min({Len(betHistory), d.length})
                tokens == Attended(c, Build(d))
            IN  /\ DOMAIN tokens = 1 .. n
                /\ \A i \in 1 .. n :
                      Told(tokens[i]) = Meant(betHistory[Len(betHistory) - n + i])

(* The parts of the input tell one hand.  The static features and the      *)
(* round summary account for the same chips and the same raises, and so do *)
(* the tokens when none was dropped: whichever seat acts, on every street, *)
(* with the blinds nowhere in the history.                                 *)
InputTellsOneHand ==
    phase = "action" =>
        \A d \in {b \in Configs : b.summary} : \A c \in Readers(d) :
            LET obs == Build(d)
                input == TrunkInput(c, obs)
                basic(i) == input[StaticOffset + i]
                summary(r, i) ==
                    input[StaticOffset + FeatStatic + FeatPerRound * r + i]
                total(i) == summary(0, i) + summary(1, i) + summary(2, i) + summary(3, i)
                tokens == Attended(c, obs)
                paid(mine, r) ==
                    SumFunctionOnSet([i \in DOMAIN tokens |-> tokens[i][1]],
                                     {i \in DOMAIN tokens :
                                         tokens[i][3] = mine /\ tokens[i][5 + r] = 1})
            IN  /\ Len(input) = TotalDim(d) - HistoryBlockDim(d)
                /\ {i \in 0 .. CardSlots - 1 : input[i + 1] = 1} = Hole[basic(10)]
                /\ basic(1) = InitialStack - Blind(basic(10)) - total(1)
                /\ basic(2) = InitialStack - Blind(Other(basic(10))) - total(2)
                /\ basic(3) = 2 * InitialStack - basic(1) - basic(2)
                /\ basic(5) = total(3)
                /\ summary(round, 4) = 1 <=> bet.lastRaiser = basic(10)
                /\ (d.history /\ Len(betHistory) <= d.length) =>
                      \A r \in Streets : /\ paid(1, r) = summary(r, 1)
                                         /\ paid(0, r) = summary(r, 2)
=============================================================================
