-------------------------- MODULE OpponentManager --------------------------
(***************************************************************************)
(* The snapshot pool and the per-environment opponent assignments of       *)
(* src/opponent_manager.cpp.  A snapshot is its id (the network behind it  *)
(* is abstracted); id 0 stands for the live policy.  The pool is enabled:  *)
(* disabled, it behaves as with SnapshotEvery = 0.                         *)
(***************************************************************************)
EXTENDS Integers, FiniteSets, FiniteSetsExt

CONSTANTS Envs,
          MaxSize, SnapshotEvery, WarmupUpdates, MaxUniquePerRollout

ASSUME EnvsAssumption == IsFiniteSet(Envs) /\ Envs # {}
ASSUME PoolAssumption ==
    /\ MaxSize \in Int /\ SnapshotEvery \in Int
    /\ WarmupUpdates \in Int /\ MaxUniquePerRollout \in Int

VARIABLES snapshots,      \* the ids in the pool
          nextId,
          seenCount,      \* offers made to the pool (Algorithm R)
          rolloutIds,     \* the ids this rollout may draw opponents from
          assigned        \* learner_seat_ and opp_id_ of each environment

poolVars == <<snapshots, nextId, seenCount>>
managerVars == <<poolVars, rolloutIds, assigned>>

Live == 0
SelfPlay == [seat |-> 0, id |-> Live]

ManagerInit == /\ snapshots = {}
               /\ nextId = 1
               /\ seenCount = 0
               /\ rolloutIds = {}
               /\ assigned = [e \in Envs |-> SelfPlay]

PoolInUse(update) == snapshots # {} /\ update >= WarmupUpdates

(* prepare_rollout: a new sample of distinct ids.                          *)
SampleSize == Min({Max({1, MaxUniquePerRollout}), Cardinality(snapshots)})

(* Faulty: the sample is not capped.                                       *)
PrepareRolloutUncapped(update) ==
    /\ rolloutIds' = IF PoolInUse(update) THEN snapshots ELSE {}
    /\ UNCHANGED <<poolVars, assigned>>

PrepareRollout(update) ==
    /\ IF PoolInUse(update)
       THEN rolloutIds' \in kSubset(SampleSize, snapshots)
       ELSE rolloutIds' = {}
    /\ UNCHANGED <<poolVars, assigned>>

(* What on_episode_terminal may assign: self-play, or either seat against  *)
(* an id of the sample (of the pool, should there be no sample).           *)
Assignments(update) ==
    {SelfPlay} \cup
        IF PoolInUse(update)
        THEN [seat : {0, 1},
              id : IF rolloutIds # {} THEN rolloutIds ELSE snapshots]
        ELSE {}

(* on_episode_terminal for every environment whose hand has ended.         *)
OnEpisodeTerminal(done, update) ==
    /\ \E drawn \in [done -> Assignments(update)] :
           assigned' = [e \in Envs |-> IF e \in done THEN drawn[e]
                                                     ELSE assigned[e]]
    /\ UNCHANGED <<poolVars, rolloutIds>>

(* Faulty: against the pool, the other seat is recorded.                   *)
ShouldRecordOther(e, acting) ==
    assigned[e].id = Live \/ acting # assigned[e].seat

ShouldRecord(e, acting) ==
    assigned[e].id = Live \/ acting = assigned[e].seat

(* Whose action apply_action_overrides leaves in the environment's slot:   *)
(* a retired id falls through to the live policy.                          *)
Overridden(e, acting) == /\ assigned[e].id # Live
                         /\ acting # assigned[e].seat
                         /\ assigned[e].id \in snapshots

ActingPolicy(e, acting) ==
    IF Overridden(e, acting) THEN assigned[e].id ELSE Live

(* add_snapshot.                                                           *)
AddSnapshot ==
    IF MaxSize <= 0 THEN UNCHANGED poolVars
    ELSE /\ seenCount' = seenCount + 1
         /\ \/ /\ Cardinality(snapshots) < MaxSize
               /\ snapshots' = snapshots \cup {nextId}
               /\ nextId' = nextId + 1
            \/ /\ Cardinality(snapshots) >= MaxSize     \* accepted
               /\ \E retired \in snapshots :
                      snapshots' = (snapshots \ {retired}) \cup {nextId}
               /\ nextId' = nextId + 1
            \/ /\ Cardinality(snapshots) >= MaxSize     \* turned down
               /\ seenCount' > MaxSize
               /\ UNCHANGED <<snapshots, nextId>>

SnapshotDue(update) == /\ SnapshotEvery > 0
                       /\ update > 0
                       /\ update >= WarmupUpdates
                       /\ update % SnapshotEvery = 0

MaybeSnapshot(update) ==
    /\ IF SnapshotDue(update) THEN AddSnapshot ELSE UNCHANGED poolVars
    /\ UNCHANGED <<rolloutIds, assigned>>
=============================================================================
