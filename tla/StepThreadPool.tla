--------------------------- MODULE StepThreadPool ---------------------------
(***************************************************************************)
(* The generation-based thread pool of include/rollout.h that steps the    *)
(* environments of a rollout.  One caller thread (the trainer) runs        *)
(* parallel_for and finally the destructor; the worker threads run         *)
(* worker_loop.  A step of the model is one critical section of the code,  *)
(* one atomic operation, one notify, or one call of the body; mu_, done_mu_*)
(* and the atomic index make each of them indivisible.                     *)
(*                                                                         *)
(* A thread inside condition_variable::wait is either about to take the    *)
(* mutex and evaluate the predicate ("check"), or asleep ("blocked").      *)
(***************************************************************************)
EXTENDS Integers, FiniteSets

CONSTANTS Workers,      \* the threads the constructor spawns
          MaxJobs,      \* bound: jobs of one parallel_for call
          MaxCalls      \* bound: parallel_for calls before the destructor

ASSUME WorkersAssumption == IsFiniteSet(Workers) /\ Workers # {}
ASSUME BoundsAssumption == MaxJobs \in Nat \ {0} /\ MaxCalls \in Nat

VARIABLES caller,       \* where the calling thread is
          generation, stopping, nJobs,          \* guarded by mu_
          nextIdx,                              \* the atomic index
          active,                               \* guarded by done_mu_
          wpc, myGen, wJobs, wIdx,              \* worker_loop's locals
          ran           \* history: runs of each job of the current call

callerVars == <<generation, stopping, nJobs>>
workerVars == <<wpc, myGen, wJobs, wIdx>>
vars == <<caller, callerVars, nextIdx, active, workerVars, ran>>

Slots == 0 .. MaxJobs - 1

Waiting == {"check", "blocked"}         \* inside done_cv_.wait
InCall == {"published", "armed"} \cup Waiting
Closing == {"stopping", "joining", "stopped"}

NumWorkers == Cardinality(Workers)

(* Workers that still owe the current generation their decrement.          *)
Busy == {w \in Workers : wpc[w] \in {"steal", "run", "finish"}}
Unstarted == {w \in Workers : wpc[w] \in Waiting /\ myGen[w] < generation}
Pending == Busy \cup Unstarted

(***************************************************************************)
(* cv_.notify_all().                                                       *)
(***************************************************************************)
WakeAll == [w \in Workers |-> IF wpc[w] = "blocked" THEN "check" ELSE wpc[w]]

Init == /\ caller = "idle"
        /\ generation = 0
        /\ stopping = FALSE
        /\ nJobs = 0
        /\ nextIdx = 0
        /\ active = 0
        /\ wpc = [w \in Workers |-> "check"]
        /\ myGen = [w \in Workers |-> 0]
        /\ wJobs = [w \in Workers |-> 0]
        /\ wIdx = [w \in Workers |-> 0]
        /\ ran = [j \in Slots |-> 0]

(***************************************************************************)
(* Faulty variants of the steps below, each a slip the code could have:    *)
(* the properties of this module are shown to tell them apart.             *)
(***************************************************************************)
(* next_idx_ is not rewound for the next batch.                            *)
PublishWithoutRewind(n) ==
    /\ caller = "idle"
    /\ generation < MaxCalls
    /\ n > 0
    /\ nJobs' = n
    /\ generation' = generation + 1
    /\ caller' = "published"
    /\ ran' = [j \in Slots |-> 0]
    /\ UNCHANGED <<stopping, nextIdx, active, workerVars>>

(* active_ armed with one worker too few.                                  *)
ArmOneTooFew ==
    /\ caller = "published"
    /\ active' = NumWorkers - 1
    /\ caller' = "armed"
    /\ UNCHANGED <<callerVars, nextIdx, workerVars, ran>>

(* A notify_all that wakes nobody.                                         *)
NotifyWorkersLost ==
    /\ caller = "armed"
    /\ caller' = "check"
    /\ UNCHANGED <<callerVars, nextIdx, active, workerVars, ran>>

NotifyStopLost ==
    /\ caller = "stopping"
    /\ caller' = "joining"
    /\ UNCHANGED <<callerVars, nextIdx, active, workerVars, ran>>

(* A decrement that forgets the notify_one.                                *)
FinishSilently(w) ==
    /\ wpc[w] = "finish"
    /\ active' = active - 1
    /\ wpc' = [wpc EXCEPT ![w] = "check"]
    /\ UNCHANGED <<caller, callerVars, nextIdx, myGen, wJobs, wIdx, ran>>

(***************************************************************************)
(* The calling thread.                                                     *)
(***************************************************************************)
(* First critical section of parallel_for, under mu_.                      *)
Publish(n) == /\ caller = "idle"
              /\ generation < MaxCalls
              /\ n > 0
              /\ nJobs' = n
              /\ nextIdx' = 0
              /\ generation' = generation + 1
              /\ caller' = "published"
              /\ ran' = [j \in Slots |-> 0]
              /\ UNCHANGED <<stopping, active, workerVars>>

(* Second critical section, under done_mu_: mu_ was released in between.   *)
Arm == /\ caller = "published"
       /\ active' = NumWorkers
       /\ caller' = "armed"
       /\ UNCHANGED <<callerVars, nextIdx, workerVars, ran>>

NotifyWorkers == /\ caller = "armed"
                 /\ wpc' = WakeAll
                 /\ caller' = "check"
                 /\ UNCHANGED <<callerVars, nextIdx, active,
                                myGen, wJobs, wIdx, ran>>

(* done_cv_.wait evaluates its predicate under done_mu_: return or sleep.  *)
CallerCheck == /\ caller = "check"
               /\ caller' = IF active = 0 THEN "idle" ELSE "blocked"
               /\ UNCHANGED <<callerVars, nextIdx, active, workerVars, ran>>

CallerSpurious == /\ caller = "blocked"
                  /\ caller' = "check"
                  /\ UNCHANGED <<callerVars, nextIdx, active, workerVars, ran>>

(* The destructor: raise the flag under mu_, notify_all, join.             *)
Stop == /\ caller = "idle"
        /\ stopping' = TRUE
        /\ generation' = generation + 1
        /\ caller' = "stopping"
        /\ UNCHANGED <<nJobs, nextIdx, active, workerVars, ran>>

NotifyStop == /\ caller = "stopping"
              /\ wpc' = WakeAll
              /\ caller' = "joining"
              /\ UNCHANGED <<callerVars, nextIdx, active,
                             myGen, wJobs, wIdx, ran>>

Join == /\ caller = "joining"
        /\ \A w \in Workers : wpc[w] = "exited"
        /\ caller' = "stopped"
        /\ UNCHANGED <<callerVars, nextIdx, active, workerVars, ran>>

CallerStep == Arm \/ NotifyWorkers \/ CallerCheck \/ NotifyStop \/ Join

(***************************************************************************)
(* A worker thread.                                                        *)
(***************************************************************************)
(* cv_.wait evaluates its predicate under mu_; in the same critical        *)
(* section the thread leaves, takes the batch, or goes to sleep.           *)
Exit(w) == /\ wpc[w] = "check"
           /\ stopping
           /\ wpc' = [wpc EXCEPT ![w] = "exited"]
           /\ UNCHANGED <<caller, callerVars, nextIdx, active,
                          myGen, wJobs, wIdx, ran>>

Take(w) == /\ wpc[w] = "check"
           /\ ~stopping
           /\ generation > myGen[w]
           /\ wpc' = [wpc EXCEPT ![w] = "steal"]
           /\ myGen' = [myGen EXCEPT ![w] = generation]
           /\ wJobs' = [wJobs EXCEPT ![w] = nJobs]
           /\ UNCHANGED <<caller, callerVars, nextIdx, active, wIdx, ran>>

Sleep(w) == /\ wpc[w] = "check"
            /\ ~stopping
            /\ ~(generation > myGen[w])
            /\ wpc' = [wpc EXCEPT ![w] = "blocked"]
            /\ UNCHANGED <<caller, callerVars, nextIdx, active,
                           myGen, wJobs, wIdx, ran>>

WorkerSpurious(w) == /\ wpc[w] = "blocked"
                     /\ wpc' = [wpc EXCEPT ![w] = "check"]
                     /\ UNCHANGED <<caller, callerVars, nextIdx, active,
                                    myGen, wJobs, wIdx, ran>>

(* i = next_idx_.fetch_add(1), and the loop test on the worker's own copy. *)
Steal(w) == /\ wpc[w] = "steal"
            /\ nextIdx' = nextIdx + 1
            /\ wIdx' = [wIdx EXCEPT ![w] = nextIdx]
            /\ wpc' = [wpc EXCEPT ![w] = IF nextIdx >= wJobs[w]
                                         THEN "finish" ELSE "run"]
            /\ UNCHANGED <<caller, callerVars, active, myGen, wJobs, ran>>

RunBody(w) == /\ wpc[w] = "run"
              /\ ran' = [ran EXCEPT ![wIdx[w]] = @ + 1]
              /\ wpc' = [wpc EXCEPT ![w] = "steal"]
              /\ UNCHANGED <<caller, callerVars, nextIdx, active,
                             myGen, wJobs, wIdx>>

(* --active_ under done_mu_; whoever reaches 0 notifies the caller.        *)
Finish(w) == /\ wpc[w] = "finish"
             /\ active' = active - 1
             /\ caller' = IF active' = 0 /\ caller = "blocked"
                          THEN "check" ELSE caller
             /\ wpc' = [wpc EXCEPT ![w] = "check"]
             /\ UNCHANGED <<callerVars, nextIdx, myGen, wJobs, wIdx, ran>>

WorkerStep(w) == Exit(w) \/ Take(w) \/ Sleep(w) \/ Steal(w) \/ RunBody(w)
                 \/ Finish(w)

(* The process has left the destructor.                                    *)
Terminated == caller = "stopped" /\ UNCHANGED vars

Next == \/ \E n \in 1 .. MaxJobs : Publish(n)
        \/ Stop
        \/ CallerStep
        \/ CallerSpurious
        \/ \E w \in Workers : WorkerStep(w) \/ WorkerSpurious(w)
        \/ Terminated

Spec == Init /\ [][Next]_vars

(* The scheduler runs every thread that can run.  Nothing obliges the      *)
(* trainer to call again, nor a condition variable to wake spuriously.     *)
Fairness == WF_vars(CallerStep) /\ \A w \in Workers : WF_vars(WorkerStep(w))

FairSpec == Spec /\ Fairness
-----------------------------------------------------------------------------
TypeOK ==
    /\ caller \in {"idle"} \cup InCall \cup Closing
    /\ generation \in Nat
    /\ stopping \in BOOLEAN
    /\ nJobs \in 0 .. MaxJobs
    /\ nextIdx \in Nat
    /\ active \in Int
    /\ wpc \in [Workers -> {"steal", "run", "finish", "exited"} \cup Waiting]
    /\ myGen \in [Workers -> Nat]
    /\ wJobs \in [Workers -> 0 .. MaxJobs]
    /\ wIdx \in [Workers -> Nat]
    /\ ran \in [Slots -> Nat]

(* The body captures the caller's frame by reference, so it may only run   *)
(* while parallel_for is on the stack, and it must be the body of that     *)
(* call: no worker is between taking a batch and its decrement after the   *)
(* call has returned, nor still on a previous batch.                       *)
NoBodyAfterReturn ==
    \A w \in Busy : caller \in InCall /\ myGen[w] = generation

(* Whenever parallel_for returns, every job of it has run exactly once.    *)
(* (active is overwritten after workers may already have decremented it:   *)
(* the caller must still never see 0 too early.)                           *)
ReturnMeansAllRan ==
    [][(caller \in InCall /\ caller' = "idle")
         => (\A j \in Slots : ran[j] = (IF j < nJobs THEN 1 ELSE 0))]_vars

(* The pool implements the batch its caller reasons with.                  *)
BatchOf == INSTANCE Batch WITH
              phase <- CASE caller = "idle" -> "idle"
                         [] caller \in InCall -> "call"
                         [] OTHER -> "closed",
              size <- nJobs,
              runs <- ran
ImplementsBatch == BatchOf!Spec

(* Once parallel_for waits, the surplus of active over the workers that    *)
(* still owe a decrement neither grows nor shrinks: a call that was armed  *)
(* with a surplus can never see active = 0.                                *)
Surplus == active - Cardinality(Pending)
SurplusIsFrozen ==
    [][(caller \in {"armed"} \cup Waiting /\ caller' \in InCall)
         => Surplus' = Surplus]_vars

(* Liveness.  Every published job is run, whatever the interleaving.       *)
AllRan == \A j \in Slots : j < nJobs => ran[j] = 1
EveryJobRuns == caller = "published" ~> AllRan

(* A call returns if no worker decremented active before Arm set it.       *)
CleanCallReturns == (caller = "armed" /\ Surplus = 0) ~> caller = "idle"

(* The destructor joins all threads: no worker sleeps through it.          *)
DestructorReturns == caller = "stopping" ~> caller = "stopped"

(* include/rollout.h:60 "Run body(i) for i in [0, n_jobs). Blocks until    *)
(* done.": a call to parallel_for returns.                                 *)
ParallelForReturns == caller \in InCall ~> caller = "idle"
-----------------------------------------------------------------------------
(***************************************************************************)
(* The inductive strengthening the proofs rest on.                         *)
(***************************************************************************)
(* Where the threads are in the life of a call and of the pool.            *)
Lifecycle ==
    /\ stopping <=> caller \in Closing
    /\ \A w \in Workers : wpc[w] = "exited" => stopping
    /\ \A w \in Workers : myGen[w] <= generation
    /\ caller = "idle" => \A w \in Workers : myGen[w] = generation
    /\ NoBodyAfterReturn
    /\ \A w \in Busy : wJobs[w] = nJobs

(* active never underestimates the workers still to come, once armed.      *)
ActiveCovers ==
    caller \in {"armed"} \cup Waiting => active >= Cardinality(Pending)

(* A job index below nextIdx is claimed by one worker or has been run once.*)
Claimed(j) == \E w \in Workers : wpc[w] = "run" /\ wIdx[w] = j

JobLedger ==
    /\ \A w \in Workers : wpc[w] = "run" =>
            /\ wIdx[w] \in Slots
            /\ wIdx[w] < nJobs
            /\ wIdx[w] < nextIdx
            /\ ran[wIdx[w]] = 0
    /\ \A v, w \in Workers :
            wpc[v] = "run" /\ wpc[w] = "run" /\ wIdx[v] = wIdx[w] => v = w
    /\ \A j \in Slots : ran[j] \in {0, 1}
    /\ \A j \in Slots : ran[j] = 1 => j < nextIdx /\ j < nJobs
    /\ \A j \in Slots : j < nextIdx /\ j < nJobs => ran[j] = 1 \/ Claimed(j)

(* A worker leaves the steal loop only when no index is left.              *)
Drained ==
    \A w \in Workers :
        (wpc[w] = "finish" \/ (wpc[w] \in Waiting /\ myGen[w] = generation))
            => nextIdx >= nJobs

(* The conjunction is inductive: it is what makes the one comparison       *)
(* active = 0 in done_cv_.wait equivalent to "every job has run".          *)
IInv == TypeOK /\ Lifecycle /\ ActiveCovers /\ JobLedger /\ Drained
=============================================================================
