----------------------------- MODULE TrainingRun -----------------------------
(***************************************************************************)
(* A training run as cmd_train starts it: PPOTrainer::train around the     *)
(* rollouts of Training, with what happens to the network in between.      *)
(* After a rollout one thread does all the rest in this order: update(),   *)
(* the log callback with its evaluations, maybe_snapshot and the refresh   *)
(* of the magnet, the older self that the policy is held to.               *)
(*                                                                         *)
(* Weights are named by a number: how many updates have changed them.  A   *)
(* rollout that recorded nothing changes nothing.                          *)
(***************************************************************************)
EXTENDS Training

CONSTANTS NumMinibatches,
          MagnetEvery,          \* magnet_update_every
          LeagueEvery,          \* snapshot_every of cmd_train
          BestResponseEvery     \* eval_every

BatchSize == Cardinality(Envs) * NumSteps

(* With fewer samples than minibatches the slices would be empty, and      *)
(* update() would never end.                                               *)
ASSUME RunAssumption ==
    /\ NumMinibatches \in 1 .. BatchSize
    /\ MagnetEvery \in Nat
    /\ LeagueEvery \in Nat \ {0} /\ BestResponseEvery \in Nat \ {0}

VARIABLES weights,      \* of the network
          magnet,       \* weights of the magnet
          frozen,       \* of each snapshot: the update it was taken after,
                        \* and its weights
          metrics,      \* rows of metrics.csv,
          evaluations,  \* and of league.csv and br.csv
          saved         \* weights in the model file, -1 before it is written

runVars == <<weights, magnet, frozen, metrics, evaluations, saved>>
allVars == <<vars, runVars>>

RunInit == /\ Init
           /\ weights = 0
           /\ magnet = 0            \* a clone of the initial network
           /\ frozen = [id \in {} |-> 0]
           /\ metrics = <<>> /\ evaluations = <<>>
           /\ saved = -1

Rollout == RolloutStep /\ UNCHANGED runVars

(* The samples of the buffer: flatten() joins both seats' columns.         *)
Samples == SumFunction([column \in Envs \X Seats |->
                           Len(rollout[column[1]].stored[column[2]])])

MinibatchSize == BatchSize \div NumMinibatches

(* The slices of an epoch's permutation: the last may be short.            *)
(* Faulty: a slice is taken only if it is whole.                           *)
WholeMinibatches(n) ==
    {start .. start + MinibatchSize - 1 :
        start \in {s \in 0 .. n - MinibatchSize : s % MinibatchSize = 0}}

Minibatches(n) ==
    {start .. Min({start + MinibatchSize, n}) - 1 :
        start \in {s \in 0 .. n - 1 : s % MinibatchSize = 0}}

(* An optimizer step for every slice of every epoch.                       *)
Trained == IF Minibatches(Samples) = {} THEN weights ELSE weights + 1

GlobalStep == (update + 1) * BatchSize

(* log_update.                                                             *)
MetricsRow == [update |-> update, step |-> GlobalStep, weights |-> Trained]

(* Faulty: the network is evaluated as it was before the update.           *)
EvaluatedBefore(kind) ==
    [kind |-> kind, update |-> update, step |-> GlobalStep, weights |-> weights]

Evaluated(kind) ==
    [kind |-> kind, update |-> update, step |-> GlobalStep, weights |-> Trained]

EvaluationDue(every) == update > 0 /\ update % every = 0

(* The callback: log_league, then log_best_response.                       *)
EvaluationRows ==
    (IF EvaluationDue(LeagueEvery) THEN <<Evaluated("league")>> ELSE <<>>)
    \o (IF EvaluationDue(BestResponseEvery) THEN <<Evaluated("br")>> ELSE <<>>)

(* What add_snapshot clones; an id that is kept keeps its weights.         *)
(* Faulty: the snapshots in use follow the network.                        *)
FrozenLive ==
    [id \in snapshots' |-> [update |-> update, weights |-> Trained]]

Frozen ==
    [id \in snapshots' |-> IF id \in snapshots THEN frozen[id]
                           ELSE [update |-> update, weights |-> Trained]]

MagnetDue == update > 0 /\ update % Max({1, MagnetEvery}) = 0

UpdateNetwork ==
    /\ Update
    /\ weights' = Trained
    /\ metrics' = Append(metrics, MetricsRow)
    /\ evaluations' = evaluations \o EvaluationRows
    /\ frozen' = Frozen
    /\ magnet' = IF MagnetDue THEN Trained ELSE magnet
    /\ UNCHANGED saved

(* train() has returned: a last league evaluation, and the model is saved. *)
SaveModel ==
    /\ phase = "idle" /\ update = MaxUpdates /\ saved = -1
    /\ evaluations' = Append(evaluations, [kind |-> "league", update |-> -1,
                                           step |-> -1, weights |-> weights])
    /\ saved' = weights
    /\ UNCHANGED <<vars, weights, magnet, frozen, metrics>>

RunDone == saved # -1 /\ UNCHANGED allVars

RunNext == Rollout \/ UpdateNetwork \/ SaveModel \/ RunDone

RunSpec == RunInit /\ [][RunNext]_allVars
-----------------------------------------------------------------------------
(***************************************************************************)
(* Properties.                                                             *)
(***************************************************************************)
(* An epoch uses every sample of the buffer exactly once, however many the *)
(* opponents' turns have left of a batch, and in no more slices than a     *)
(* full batch has.                                                         *)
EverySampleOncePerEpoch ==
    phase = "update" =>
        LET slices == Minibatches(Samples)
        IN  /\ Samples <= BatchSize
            /\ UNION slices = 0 .. Samples - 1
            /\ SumFunction([slice \in slices |-> Cardinality(slice)]) = Samples
            /\ \A slice \in slices : Cardinality(slice) \in 1 .. MinibatchSize
            /\ Cardinality(slices) <= Cardinality(Minibatches(BatchSize))

(* The magnet an update is held to is a past self of the network, and      *)
(* never more than magnet_update_every updates behind.                     *)
MagnetIsARecentSelf ==
    phase = "update" => weights - magnet \in 0 .. Max({1, MagnetEvery})

(* The opponents are past selves, a younger id never the older network:    *)
(* whatever slots the reservoir has overwritten, and while the network     *)
(* they were cloned from is trained on.                                    *)
SnapshotsArePastSelves ==
    /\ DOMAIN frozen = snapshots
    /\ \A i \in snapshots : frozen[i].weights <= weights
    /\ \A i, j \in snapshots :
          i < j => /\ frozen[i].update < frozen[j].update
                   /\ frozen[i].weights <= frozen[j].weights

(* The files tell one run: an evaluation row has the update and the step   *)
(* of a metrics row and was played with that row's weights, the very ones  *)
(* a snapshot of the same update holds; and the model that is saved is the *)
(* one of the last league row.                                             *)
FilesTellOneRun ==
    /\ \A i, j \in DOMAIN metrics :
          i < j => /\ metrics[i].update < metrics[j].update
                   /\ metrics[i].step < metrics[j].step
    /\ \A i \in DOMAIN evaluations :
          LET row == evaluations[i]
          IN  IF row.update = -1
              THEN i = Len(evaluations) /\ row.weights = saved
              ELSE /\ \E j \in DOMAIN metrics :
                        /\ metrics[j].update = row.update
                        /\ metrics[j].step = row.step
                        /\ metrics[j].weights = row.weights
                   /\ \A id \in snapshots : frozen[id].update = row.update
                                               => frozen[id].weights = row.weights
-----------------------------------------------------------------------------
(***************************************************************************)
(* The inductive invariant, with IInv.                                     *)
(***************************************************************************)
(* Snapshots were taken by earlier updates, in the order of their ids.     *)
SnapshotsAreOld ==
    /\ weights \in Nat
    /\ \A i \in snapshots : /\ frozen[i].update \in 0 .. update - 1
                            /\ frozen[i].weights \in Nat
    /\ SnapshotsArePastSelves

(* Since the magnet was refreshed there were at most as many updates as    *)
(* since the last multiple of its period.                                  *)
MagnetPeriod == Max({1, MagnetEvery})
MagnetFollows ==
    /\ magnet \in Nat /\ magnet <= weights
    /\ update = 0 => magnet = weights
    /\ update > 0 => \E q \in 0 .. update, d \in 1 .. MagnetPeriod :
                        update = q * MagnetPeriod + d /\ weights - magnet <= d

(* A metrics row for every update, and evaluation rows only for those; the *)
(* row without an update is written last.                                  *)
FilesInStep ==
    /\ metrics \in Seq([update : Nat, step : Nat, weights : Nat])
    /\ evaluations \in Seq([kind : {"league", "br"}, update : Nat \cup {-1},
                             step : Nat \cup {-1}, weights : Nat])
    /\ \A i \in DOMAIN metrics : /\ metrics[i].update \in 0 .. update - 1
                                /\ metrics[i].step \in 1 .. update * BatchSize
    /\ \A i \in DOMAIN evaluations :
          evaluations[i].update = -1 => saved # -1
    /\ saved # -1 => update = MaxUpdates
    /\ FilesTellOneRun
=============================================================================
