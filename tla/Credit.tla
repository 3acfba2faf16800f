------------------------------- MODULE Credit -------------------------------
(***************************************************************************)
(* What a seat's column of a rollout tells of the hands its decisions were *)
(* taken in: the vocabulary in which the properties and the invariants of  *)
(* Training and BestResponse speak of a RolloutState.  A decision is its   *)
(* step and the hand it was taken in, counted from 0; results are the      *)
(* rewards of the hands finished so far, in player 0's frame.              *)
(***************************************************************************)
EXTENDS Integers, Sequences

Columns == INSTANCE RolloutState

OpenAt(steps) == [step : steps, value : Int, done : {0, 1}]
StoredAt(steps) == [step : steps, value : Int, done : {0, 1}, reward : Int]
DecisionAt(steps) == [step : steps, hand : Nat]
ColumnsAt(steps) ==
    [pending : [{0, 1} -> Seq(OpenAt(steps))], accumulated : [{0, 1} -> Int],
     nextDone : [{0, 1} -> {0, 1}], tailWasTerminal : [{0, 1} -> BOOLEAN],
     stored : [{0, 1} -> Seq(StoredAt(steps))]]

(* What hand number h has paid seat p: nothing while it goes on.           *)
Paid(results, p, h) ==
    IF h \notin DOMAIN results THEN 0
    ELSE IF p = 0 THEN results[h] ELSE -results[h]

(* The column's entries, and the pending one behind them.                  *)
At(pending, stored, t) == IF t <= Len(stored) THEN stored[t] ELSE pending[1]

(* The reward of the t-th of a seat's decisions: what the hand paid goes   *)
(* to the last one taken in it.                                            *)
Due(mine, results, p, t) ==
    IF t < Len(mine) /\ mine[t + 1].hand = mine[t].hand THEN 0
    ELSE Paid(results, p, mine[t].hand + 1)

(* A column tells the seat's decisions, what their hands have paid so far, *)
(* and where a new hand began.                                             *)
Tells(pending, stored, nextDone, mine, results, p) ==
    /\ Len(pending) <= 1 /\ Len(mine) = Len(stored) + Len(pending)
    /\ \A t \in 1 .. Len(mine) :
          /\ mine[t].hand <= Len(results)
          /\ At(pending, stored, t).step = mine[t].step
          /\ IF t = Len(mine)
             THEN nextDone = IF mine[t].hand = Len(results) THEN 0 ELSE 1
             ELSE /\ mine[t].hand <= mine[t + 1].hand
                  /\ At(pending, stored, t + 1).done =
                         IF mine[t].hand = mine[t + 1].hand THEN 0 ELSE 1
    /\ \A t \in 1 .. Len(stored) : stored[t].reward = Due(mine, results, p, t)

(* The last decision was taken in the hand that is being played.           *)
InHand(mine, results) == mine # <<>> /\ mine[Len(mine)].hand = Len(results)

(* A column while its rollout runs: what is pending belongs to the hand    *)
(* that is being played.                                                   *)
Keeps(pending, stored, nextDone, mine, results, p) ==
    /\ Tells(pending, stored, nextDone, mine, results, p)
    /\ pending # <<>> <=> InHand(mine, results)

(* Both seats' columns while the rollout runs, and when it has been cut;   *)
(* mine holds the decisions of each seat.                                  *)
DecisionHistories(steps, mine, results) ==
    mine \in [{0, 1} -> Seq(DecisionAt(steps))] /\ results \in Seq(Int)

Running(steps, r, mine, results) ==
    /\ r \in ColumnsAt(steps) /\ DecisionHistories(steps, mine, results)
    /\ \A p \in {0, 1} :
          /\ Keeps(r.pending[p], r.stored[p], r.nextDone[p], mine[p], results, p)
          /\ r.accumulated[p] = 0
          /\ mine[p] # <<>> /\ r.pending[p] = <<>> => r.tailWasTerminal[p]

Cut(steps, r, mine, results) ==
    /\ r \in ColumnsAt(steps) /\ DecisionHistories(steps, mine, results)
    /\ \A p \in {0, 1} :
          /\ r.pending[p] = <<>>
          /\ Tells(<<>>, r.stored[p], r.nextDone[p], mine[p], results, p)
          /\ mine[p] # <<>> => (r.tailWasTerminal[p] <=> ~InHand(mine[p], results))
=============================================================================
