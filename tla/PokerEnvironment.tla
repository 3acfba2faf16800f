-------------------------- MODULE PokerEnvironment --------------------------
(***************************************************************************)
(* src/poker_env.cpp: one hand behind a fixed set of action indices.       *)
(* step() looks its argument up in the action table, appends to the        *)
(* betting history, takes the transition, deals any chance node and        *)
(* rebuilds the table.  A chance node exists only inside a call, so that   *)
(* phase = "chance" says that step() or reset() has not returned.          *)
(*                                                                         *)
(* A raise slot is named by its pot fraction in percent.                   *)
(***************************************************************************)
EXTENDS HandEngine, SequencesExt

VARIABLES actionTable,
          betHistory,
          thrown          \* the last call of this hand threw

envVars == <<vars, actionTable, betHistory, thrown>>

FoldSlot == 0
PassiveSlot == 1
ShoveSlot == 1000           \* allin_slot_
RaiseSlots == Percents \cup {s \in {ShoveSlot} : AllInSlot}
Slots == {FoldSlot, PassiveSlot} \cup RaiseSlots

ASSUME SlotAssumption == Percents \subseteq 2 .. 999

Empty == [kind |-> "none", amount |-> 0]
NoTable == [s \in Slots |-> Empty]

(* The size rebuild_action_table expects of a fraction: it cuts the        *)
(* product down to a whole number and then adds the bet, where the engine  *)
(* cuts the sum.                                                           *)
Expected(pct) == bet.currentBet
                 + ((pct * pot) \div 100 - (IF Lost(pct) THEN 1 ELSE 0))

(* The fractions it would match to a raise.                                *)
Fits(a) == {pct \in Percents : Expected(pct) = a.amount}

(* The slot it stores an action in: the first fraction that fits, and for  *)
(* a raise that fits none, the all-in slot.                                *)
(* Faulty: the search does not stop at the first fraction that fits.       *)
SlotsOfAll(a) ==
    CASE a.kind = "fold" -> {FoldSlot}
      [] a.kind \in {"check", "call"} -> {PassiveSlot}
      [] a.kind = "raise" /\ Fits(a) # {} -> Fits(a)
      [] OTHER -> {ShoveSlot}

SlotsOf(a) ==
    CASE a.kind = "fold" -> {FoldSlot}
      [] a.kind \in {"check", "call"} -> {PassiveSlot}
      [] a.kind = "raise" /\ Fits(a) # {} -> {Min(Fits(a))}
      [] OTHER -> {ShoveSlot}

(* Of several actions for one slot, the last of the menu stays: raises     *)
(* come in ascending order.  (No slot but the all-in slot gets several.)   *)
ActionTable ==
    [s \in Slots |->
        LET stored == {a \in Available : s \in SlotsOf(a)}
        IN  IF stored = {} THEN Empty
            ELSE CHOOSE a \in stored : \A b \in stored : b.amount <= a.amount]

(* compute_mask.                                                           *)
Legal(s) == actionTable[s] # Empty

(* What step() records, before the transition.                             *)
Entry(a) == [player |-> player, round |-> round, amount |-> a.amount,
             aggressive |-> a.kind = "raise"]
-----------------------------------------------------------------------------
(* A new environment, in its first reset().                                *)
EnvInit == /\ Init
           /\ actionTable = NoTable
           /\ betHistory = <<>>
           /\ thrown = FALSE

Reset == /\ phase # "chance"
         /\ ReInitialize
         /\ betHistory' = <<>>
         /\ thrown' = FALSE
         /\ UNCHANGED actionTable

(* Game::transition with an action of a player.                            *)
Play(a) == \/ a = Check /\ DoCheck
           \/ a = Fold /\ DoFold
           \/ a = Raise(a.amount) /\ DoRaise(a.amount)
           \/ a = Call(a.amount) /\ (\/ Limp(a.amount)
                                     \/ CallAllIn(a.amount)
                                     \/ CallClosesStreet(a.amount))

(* The end of step() and reset(): a finished hand keeps the table of its   *)
(* last decision.                                                          *)
RebuildIfPlaying ==
    actionTable' = IF phase' = "action" THEN ActionTable' ELSE actionTable

(* Faulty: the history is recorded after the transition.                   *)
StepRecordsLate(s) ==
    /\ phase # "chance"
    /\ Legal(s)
    /\ Play(actionTable[s])
    /\ betHistory' = Append(betHistory, [Entry(actionTable[s]) EXCEPT
                                           !.player = player', !.round = round'])
    /\ RebuildIfPlaying
    /\ UNCHANGED thrown

Step(s) ==
    /\ phase # "chance"
    /\ Legal(s)
    /\ Play(actionTable[s])
    /\ betHistory' = Append(betHistory, Entry(actionTable[s]))
    /\ RebuildIfPlaying
    /\ UNCHANGED thrown

(* The engine refuses the action after it was recorded: step() of a        *)
(* finished hand, whose table is stale.  Bound: once a hand.  (With an     *)
(* index that is empty or out of range, step() throws and changes nothing.)*)
StepThrows(s) ==
    /\ phase # "chance" /\ ~thrown
    /\ Legal(s)
    /\ actionTable[s] \notin Available
    /\ betHistory' = Append(betHistory, Entry(actionTable[s]))
    /\ thrown' = TRUE
    /\ UNCHANGED <<vars, actionTable>>

(* auto_advance_chance: every call that meets a chance node goes on so.    *)
AutoAdvance == /\ DealChance
               /\ RebuildIfPlaying
               /\ UNCHANGED <<betHistory, thrown>>

EnvNext == \/ Reset
           \/ \E s \in Slots : Step(s) \/ StepThrows(s)
           \/ AutoAdvance

EnvSpec == EnvInit /\ [][EnvNext]_envVars
-----------------------------------------------------------------------------
(***************************************************************************)
(* Properties.                                                             *)
(***************************************************************************)
HistoryEntry == [player : Seats, round : Streets, amount : Nat,
                 aggressive : BOOLEAN]
GameAction == [kind : {"none", "check", "fold", "call", "raise"}, amount : Nat]

EnvTypeOK == /\ TypeOK
             /\ actionTable \in [Slots -> GameAction]
             /\ betHistory \in Seq(HistoryEntry)
             /\ thrown \in BOOLEAN

(* The raises whose size engine and environment compute differently.       *)
Misread == {Raise(PotSize(pct)) : pct \in {p \in Percents : Found(p)}}

(* Whoever must act finds the legal actions of the engine in the table,    *)
(* each in one slot, and nothing else: the policy weighs no action twice,  *)
(* no masked-in index makes step() throw, and it can play all of the menu  *)
(* but for misread raises; never is an all-in lost that has its slot.      *)
Offered == {actionTable[s] : s \in {t \in Slots : Legal(t)}}
OneSlotPerAction ==
    phase = "action" =>
        /\ Offered \subseteq Available
        /\ Available \ Offered \subseteq
               Misread \ {r \in {Raise(stacks[player])} : AllInSlot}
        /\ \A s, t \in Slots :
               Legal(s) /\ actionTable[s] = actionTable[t] => s = t

(* The all-in slot holds the acting seat's whole stack; or a misread       *)
(* raise, when a pot fraction happens to be the whole stack.               *)
ShoveIsAllIn ==
    (phase = "action" /\ AllInSlot /\ Legal(ShoveSlot)
        /\ actionTable[ShoveSlot] # Raise(stacks[player])) =>
            /\ actionTable[ShoveSlot] \in Misread
            /\ \E pct \in Percents : actionTable[pct] = Raise(stacks[player])

(* So the indices of an environment are the engine's menu.                 *)
TableIsTheMenu == OneSlotPerAction /\ ShoveIsAllIn

(* The history that the observation is built from accounts for the chips:  *)
(* in a hand being played each seat has paid its blind and the amounts     *)
(* recorded for it (refunds come only at the end).                         *)
PaidBy(p) ==
    SumFunction([k \in DOMAIN betHistory |->
                    IF betHistory[k].player = p THEN betHistory[k].amount ELSE 0])

HistoryPaysTheStacks ==
    phase = "action" =>
        \A p \in Seats : stacks[p] = InitialStack - Blind(p) - PaidBy(p)

(* ... and it tells the raises of the street and who made the last one, as *)
(* write_round_summary reads them off it.                                  *)
RaisesOf(r) ==
    {k \in DOMAIN betHistory : betHistory[k].round = r /\ betHistory[k].aggressive}
LastAggressor(r) == IF RaisesOf(r) = {} THEN NoPlayer
                                        ELSE betHistory[Max(RaisesOf(r))].player

HistoryTellsTheStreet ==
    phase = "action" => /\ Cardinality(RaisesOf(round)) = bet.raiseCount
                        /\ LastAggressor(round) = bet.lastRaiser

(* Both, in one line of play: what the network is told of the betting is   *)
(* the betting of this hand.                                               *)
HistoryTellsTheHand == HistoryPaysTheStacks /\ HistoryTellsTheStreet

(* How long it gets: every street of a hand is a check or a limp, raises   *)
(* and one answer.                                                         *)
HistoryIsBounded == ~thrown => Len(betHistory) <= (River + 1) * (MaxRaises + 2)

(* What the drivers of an environment see of a hand is HandView.  Inside a *)
(* call, the deal that follows decides who is next.                        *)
View == INSTANCE HandView WITH
            actor <- IF phase # "chance" THEN player ELSE IF Preflop THEN 1 ELSE 0,
            taken <- IF thrown THEN Len(betHistory) - 1 ELSE Len(betHistory),
            over <- phase = "terminal"
ImplementsHandView == View!Spec
-----------------------------------------------------------------------------
(***************************************************************************)
(* The inductive invariants.                                               *)
(***************************************************************************)
(* The engine's, and the types.                                            *)
EnvInv == /\ IInv
          /\ actionTable \in [Slots -> GameAction]
          /\ betHistory \in Seq(HistoryEntry)
          /\ thrown \in BOOLEAN

(* The history through all of a hand: the chips also inside a call, no     *)
(* entry of a street that is still to come, and this street's raises.      *)
ChipsAreTold ==
    phase # "terminal" =>
        \A p \in Seats : stacks[p] = InitialStack - Blind(p) - PaidBy(p)
StreetsAreTold ==
    /\ phase = "chance" => \A k \in DOMAIN betHistory : betHistory[k].round < round
    /\ phase = "action" => \A k \in DOMAIN betHistory : betHistory[k].round =< round
    /\ HistoryTellsTheStreet
HistoryInv == ChipsAreTold /\ StreetsAreTold

(* ... and what the hand has in all: chips and raises.                     *)
RaisesTold == {k \in DOMAIN betHistory : betHistory[k].aggressive}
TotalsAreTold ==
    phase # "terminal" => ChipsConserved /\ raiseNum = Cardinality(RaisesTold)
=============================================================================
