------------------------------ MODULE Training ------------------------------
(***************************************************************************)
(* The training loop of PPOTrainer::train: a rollout (RolloutCollector::   *)
(* collect) over all environments, then the snapshot cadence of the        *)
(* opponent pool.  Composes OpponentManager with the RolloutState of each  *)
(* environment.                                                            *)
(*                                                                         *)
(* A rollout is NumSteps sweeps.  In a sweep every environment is stepped  *)
(* once, in any order (parallel_for: see StepThreadPool and Batch), and    *)
(* the sweep ends with the serial redraw of the opponents.  A hand is what *)
(* PokerEnvironment shows of it: who acts next, and the reward at its end. *)
(* Seat 1 opens a hand and never takes two decisions in a row (HandView).  *)
(***************************************************************************)
EXTENDS OpponentManager, Credit, Functions

CONSTANTS NumSteps,
          MaxUpdates,           \* bound: rollouts of a training run
          Rewards,              \* of a hand, in player 0's frame
          Critic,               \* value estimate at each step of a rollout
          Gamma, Lambda

ASSUME TrainingAssumption ==
    /\ NumSteps \in Nat \ {0} /\ MaxUpdates \in Nat
    /\ Rewards \subseteq Int
    /\ Critic \in [0 .. NumSteps -> Int]
    /\ Gamma \in Int /\ Lambda \in Int

VARIABLES phase,        \* "idle", "sweep", "flush", "update"
          update, step,
          stepped,      \* environments already stepped in this sweep
          didReset,
          player,       \* cur_player, carried from rollout to rollout
          rollout,      \* RolloutState of each environment
          advantages,
          hand,         \* history: hands each environment finished in this
                        \* rollout; the hand being played is number hand[e]
          results,      \* history: their rewards
          turns         \* history: the decisions of this rollout

historyVars == <<hand, results, turns>>
vars == <<managerVars, phase, update, step, stepped, didReset, player,
          rollout, advantages, historyVars>>

Seats == {0, 1}

NoAdvantages == [e \in Envs |-> [p \in Seats |-> <<>>]]

(* init_carry and reset_assignments.                                       *)
Init == /\ ManagerInit
        /\ phase = "idle" /\ update = 0 /\ step = 0
        /\ stepped = {} /\ didReset = {}
        /\ player = [e \in Envs |-> 1]
        /\ rollout = [e \in Envs |-> Columns!Fresh(0)]
        /\ advantages = NoAdvantages
        /\ hand = [e \in Envs |-> 0]
        /\ results = [e \in Envs |-> <<>>]
        /\ turns = [e \in Envs |-> <<>>]

(* The head of collect.  carry_done_ is zeroed when it is created and at   *)
(* the end of every rollout, and written nowhere else.                     *)
CarryDone == 0

StartRollout ==
    /\ phase = "idle" /\ update < MaxUpdates
    /\ phase' = "sweep" /\ step' = 0
    /\ stepped' = {} /\ didReset' = {}
    /\ PrepareRollout(update)
    /\ rollout' = [e \in Envs |-> Columns!Fresh(CarryDone)]
    /\ advantages' = NoAdvantages
    /\ hand' = [e \in Envs |-> 0]
    /\ results' = [e \in Envs |-> <<>>]
    /\ turns' = [e \in Envs |-> <<>>]
    /\ UNCHANGED <<update, player>>

(* step_body(e), up to env->step.                                          *)
Recorded(e) == IF ShouldRecord(e, player[e])
               THEN Columns!RecordStep(rollout[e], player[e], step, Critic[step])
               ELSE rollout[e]

Turn(e) == [seat |-> player[e], hand |-> hand[e], against |-> assigned[e],
            policy |-> ActingPolicy(e, player[e])]

BeginStep(e) ==
    /\ phase = "sweep" /\ e \notin stepped
    /\ stepped' = stepped \cup {e}
    /\ turns' = [turns EXCEPT ![e] = Append(@, Turn(e))]
    /\ UNCHANGED <<managerVars, phase, update, step, advantages>>

NextActors(p) == IF p = 1 THEN {0} ELSE Seats

HandGoesOn(e, next) ==
    /\ BeginStep(e)
    /\ player' = [player EXCEPT ![e] = next]
    /\ rollout' = [rollout EXCEPT ![e] = Columns!StepReward(Recorded(e), 0)]
    /\ UNCHANGED <<didReset, hand, results>>

HandEnds(e, reward) ==
    /\ BeginStep(e)
    /\ rollout' = [rollout EXCEPT
                      ![e] = Columns!FlushOnTerminal(Columns!StepReward(Recorded(e), reward))]
    /\ player' = [player EXCEPT ![e] = 1]       \* env->reset()
    /\ didReset' = didReset \cup {e}
    /\ hand' = [hand EXCEPT ![e] = @ + 1]
    /\ results' = [results EXCEPT ![e] = Append(@, reward)]

(* parallel_for has returned: the serial tail of a step.  did_reset is     *)
(* cleared as the next sweep begins.                                       *)
(* Faulty: did_reset is not cleared.                                       *)
EndSweepKeepsFlags ==
    /\ phase = "sweep" /\ stepped = Envs
    /\ OnEpisodeTerminal(didReset, update)
    /\ step' = step + 1
    /\ IF step' = NumSteps
       THEN phase' = "flush" /\ UNCHANGED stepped
       ELSE stepped' = {} /\ UNCHANGED phase
    /\ UNCHANGED <<update, didReset, player, rollout, advantages, historyVars>>

EndSweep ==
    /\ phase = "sweep" /\ stepped = Envs
    /\ OnEpisodeTerminal(didReset, update)
    /\ step' = step + 1
    /\ IF step' = NumSteps
       THEN phase' = "flush" /\ UNCHANGED <<stepped, didReset>>
       ELSE stepped' = {} /\ didReset' = {} /\ UNCHANGED phase
    /\ UNCHANGED <<update, player, rollout, advantages, historyVars>>

(* build_bootstrap: the critic's value of the carried observation, which   *)
(* is the next actor's, negated for the other seat.                        *)
Bootstrap(e, p) == IF p = player[e] THEN Critic[NumSteps] ELSE -Critic[NumSteps]

(* The end of collect.                                                     *)
FinishRollout ==
    /\ phase = "flush"
    /\ LET flushed == [e \in Envs |-> Columns!FlushOnRolloutEnd(rollout[e])]
       IN  /\ rollout' = flushed
           /\ advantages' = [e \in Envs |-> [p \in Seats |->
                  Columns!Advantages(Gamma, Lambda, flushed[e].stored[p],
                                     flushed[e].tailWasTerminal[p],
                                     Bootstrap(e, p))]]
    /\ phase' = "update"
    /\ UNCHANGED <<managerVars, update, step, stepped, didReset, player,
                   historyVars>>

(* update(), which reads the buffer, and maybe_snapshot.                   *)
Update ==
    /\ phase = "update"
    /\ MaybeSnapshot(update)
    /\ update' = update + 1
    /\ phase' = "idle"
    /\ UNCHANGED <<step, stepped, didReset, player, rollout, advantages,
                   historyVars>>

TrainingDone == phase = "idle" /\ update = MaxUpdates /\ UNCHANGED vars

RolloutStep == \/ StartRollout
               \/ \E e \in Envs :
                     \/ \E next \in NextActors(player[e]) : HandGoesOn(e, next)
                     \/ \E r \in Rewards : HandEnds(e, r)
               \/ EndSweep
               \/ FinishRollout

Next == RolloutStep \/ Update \/ TrainingDone

Spec == Init /\ [][Next]_vars
-----------------------------------------------------------------------------
(***************************************************************************)
(* Properties.                                                             *)
(***************************************************************************)
Open == OpenAt(0 .. NumSteps - 1)
Stored == StoredAt(0 .. NumSteps - 1)
States == ColumnsAt(0 .. NumSteps - 1)
Assignment == [seat : Seats, id : Nat]
Turns == [seat : Seats, hand : Nat, against : Assignment, policy : Nat]

(* The types, with the capacities: push() checks no bound, and the pool    *)
(* never holds more than max_size snapshots.                               *)
TypeOK ==
    /\ phase \in {"idle", "sweep", "flush", "update"}
    /\ update \in 0 .. MaxUpdates /\ step \in 0 .. NumSteps
    /\ stepped \subseteq Envs /\ didReset \subseteq stepped
    /\ player \in [Envs -> Seats]
    /\ rollout \in [Envs -> States]
    /\ \A e \in Envs, p \in Seats :
          /\ Len(rollout[e].pending[p]) <= 1
          /\ Len(rollout[e].stored[p]) <= NumSteps
          /\ DOMAIN advantages[e][p] \subseteq 1 .. NumSteps
    /\ nextId \in Nat \ {0} /\ snapshots \subseteq 1 .. nextId - 1
    /\ snapshots # {} => Cardinality(snapshots) <= MaxSize
    /\ seenCount \in Nat /\ Cardinality(snapshots) <= seenCount
    /\ rolloutIds \subseteq 1 .. nextId - 1
    /\ assigned \in [Envs -> Assignment]
    /\ hand \in [Envs -> Nat] /\ turns \in [Envs -> Seq(Turns)]

(* What both seats' columns of an environment hold, or will.               *)
Column(e, p) == rollout[e].stored[p] \o rollout[e].pending[p]
TurnAt(e, step0) == turns[e][step0 + 1]
LearnerDecided(turn) == turn.against.id = Live \/ turn.seat = turn.against.seat

(* No decision of the learner is lost, stored twice, out of order or for   *)
(* the other seat, whichever hands end on the way.                         *)
EveryDecisionStored ==
    \A e \in Envs, p \in Seats :
        LET column == Column(e, p)
        IN  /\ {column[i].step : i \in DOMAIN column} =
                   {s \in 0 .. Len(turns[e]) - 1 :
                        TurnAt(e, s).seat = p /\ LearnerDecided(TurnAt(e, s))}
            /\ \A i, j \in DOMAIN column :
                   i < j => column[i].step < column[j].step

(* PPO's ratio needs actions sampled from the network being trained: no    *)
(* stored action is one that a pool snapshot chose.                        *)
OnlyLiveActionsStored ==
    \A e \in Envs, p \in Seats : \A i \in DOMAIN Column(e, p) :
        TurnAt(e, Column(e, p)[i].step).policy = Live

(* One step of a hand's credit, told from the hands and their results and  *)
(* not from markers, accumulators and tail flags.                          *)
HandOf(e, transition) == TurnAt(e, transition.step).hand
Finished(e, h) == h < hand[e]
CarriedValue(e, p) ==
    IF player[e] = p THEN Critic[NumSteps] ELSE -Critic[NumSteps]

HandDelta(e, p, t) ==
    LET column == rollout[e].stored[p]
        h == HandOf(e, column[t])
    IN  (IF t < Len(column) /\ HandOf(e, column[t + 1]) = h
         THEN Gamma * column[t + 1].value
         ELSE IF Finished(e, h) THEN Paid(results[e], p, h + 1)
                                ELSE Gamma * CarriedValue(e, p))
        - column[t].value

(* The advantage of a transition sums the discounted errors of its own     *)
(* hand: no credit crosses a hand's end, a rollout's end is bootstrapped   *)
(* in the seat's own frame, and a reward reaches both seats' last actions. *)
Fade[n \in 0 .. NumSteps] == IF n = 0 THEN 1 ELSE Gamma * Lambda * Fade[n - 1]

RestOfHand(e, column, t) ==
    {k \in t .. Len(column) : HandOf(e, column[k]) = HandOf(e, column[t])}

AdvantagesStayInTheHand ==
    phase = "update" =>
        \A e \in Envs, p \in Seats :
            LET column == rollout[e].stored[p]
            IN  \A t \in DOMAIN column :
                    advantages[e][p][t] = SumFunction(
                        [k \in RestOfHand(e, column, t) |->
                            Fade[k - t] * HandDelta(e, p, k)])

(* The opponent and the learner's seat never change within a hand.         *)
OneOpponentPerHand ==
    \A e \in Envs : \A i, j \in DOMAIN turns[e] :
        turns[e][i].hand = turns[e][j].hand
            => turns[e][i].against = turns[e][j].against

(* The live policy stands in for a retired snapshot only in hands that     *)
(* were dealt in an earlier rollout.                                       *)
StaleOnlyIfCarried ==
    \A e \in Envs : \A i \in DOMAIN turns[e] :
        (~LearnerDecided(turns[e][i]) /\ turns[e][i].policy = Live)
            => turns[e][i].hand = 0

(* Hands dealt in a rollout meet at most max_unique_per_rollout snapshots. *)
Cap == Max({1, MaxUniquePerRollout})
FreshHandsMeetFewSnapshots ==
    Cardinality({id \in snapshots : \E e \in Envs : \E i \in DOMAIN turns[e] :
                    turns[e][i].hand > 0 /\ turns[e][i].against.id = id}) <= Cap

(* A retired id is never given to another snapshot: an environment that    *)
(* still holds it cannot meet the wrong network.                           *)
RetiredIdsNeverReturn ==
    [][snapshots' \subseteq snapshots \cup {i \in Nat : i >= nextId}]_vars
-----------------------------------------------------------------------------
(***************************************************************************)
(* The inductive invariant: the types, and what the flags mean in terms of *)
(* the decisions taken.                                                    *)
(***************************************************************************)
(* One decision a sweep, and at most one of them in a column.              *)
TurnsInStep ==
    /\ phase # "idle" => update < MaxUpdates
    /\ phase = "sweep" => step < NumSteps
    /\ \A e \in Envs :
          /\ Len(turns[e]) <= NumSteps
          /\ phase = "sweep" =>
                Len(turns[e]) = step + (IF e \in stepped THEN 1 ELSE 0)
          /\ \A p \in Seats : Len(rollout[e].stored[p]) + Len(rollout[e].pending[p])
                                  <= Len(turns[e])

(* The decisions of the hand being played were taken against the assigned  *)
(* opponent; a hand that has just been dealt has none.                     *)
TurnsOfThisHand ==
    \A e \in Envs : \A i \in DOMAIN turns[e] :
        /\ turns[e][i].hand <= hand[e]
        /\ turns[e][i].hand = hand[e] =>
              turns[e][i].against = assigned[e] /\ e \notin didReset

(* No id that was assigned or met is one still to be given.                *)
IdsAreOld ==
    \A e \in Envs :
        /\ assigned[e].id < nextId
        /\ \A i \in DOMAIN turns[e] : turns[e][i].against.id < nextId

(* In a rollout the sample stays in the pool, and is empty only if the     *)
(* pool is not in use; hands dealt in it meet nobody else.                 *)
Sampled(assignment) == assignment.id \in {Live} \cup rolloutIds

FreshHandsAreSampled ==
    /\ Cardinality(rolloutIds) <= Cap
    /\ \A e \in Envs : \A i \in DOMAIN turns[e] :
          turns[e][i].hand > 0 => Sampled(turns[e][i].against)
    /\ phase = "sweep" =>
          /\ rolloutIds \subseteq snapshots
          /\ PoolInUse(update) => rolloutIds # {}
          /\ \A e \in Envs \ didReset : hand[e] > 0 => Sampled(assigned[e])

Orderly == /\ TypeOK /\ TurnsInStep /\ TurnsOfThisHand /\ OneOpponentPerHand
           /\ IdsAreOld /\ FreshHandsAreSampled /\ StaleOnlyIfCarried

(* What the rewards, flags and accumulators mean in terms of the hands     *)
(* that the decisions were taken in.                                       *)
DecisionsOf(e, p) ==
    [k \in 1 .. Len(Column(e, p)) |->
        [step |-> Column(e, p)[k].step, hand |-> HandOf(e, Column(e, p)[k])]]

CreditOf(e) ==
    LET mine == [p \in Seats |-> DecisionsOf(e, p)]
    IN  /\ hand[e] = Len(results[e])
        /\ phase \in {"sweep", "flush"} =>
              Running(0 .. NumSteps - 1, rollout[e], mine, results[e])
        /\ phase = "update" =>
              /\ Cut(0 .. NumSteps - 1, rollout[e], mine, results[e])
              /\ \A p \in Seats : advantages[e][p] =
                    Columns!Advantages(Gamma, Lambda, rollout[e].stored[p],
                        rollout[e].tailWasTerminal[p], Bootstrap(e, p))

CreditFits == results \in [Envs -> Seq(Int)] /\ \A e \in Envs : CreditOf(e)

IInv == Orderly /\ CreditFits
=============================================================================
