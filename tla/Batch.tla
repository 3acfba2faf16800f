------------------------------- MODULE Batch -------------------------------
(***************************************************************************)
(* What StepThreadPool::parallel_for promises its caller: a call hands     *)
(* over n jobs, every job is run exactly once and by nobody outside the    *)
(* call, and the call returns only when all of them have been run.  The    *)
(* pool is closed once no call is in progress.                             *)
(***************************************************************************)
EXTENDS Naturals

CONSTANT MaxJobs        \* no call hands over more jobs than this

VARIABLES phase,        \* "idle", "call" or "closed"
          size,         \* number of jobs of the current (or last) call
          runs          \* how often each job of that call has been run

batchVars == <<phase, size, runs>>

Slots == 0 .. MaxJobs - 1

Init == /\ phase = "idle"
        /\ size = 0
        /\ runs = [j \in Slots |-> 0]

Begin(n) == /\ phase = "idle"
            /\ phase' = "call"
            /\ size' = n
            /\ runs' = [j \in Slots |-> 0]

RunOne(j) == /\ phase = "call"
             /\ j < size
             /\ runs[j] = 0
             /\ runs' = [runs EXCEPT ![j] = 1]
             /\ UNCHANGED <<phase, size>>

Return == /\ phase = "call"
          /\ \A j \in Slots : j < size => runs[j] = 1
          /\ phase' = "idle"
          /\ UNCHANGED <<size, runs>>

Close == /\ phase = "idle"
         /\ phase' = "closed"
         /\ UNCHANGED <<size, runs>>

Next == \/ \E n \in 1 .. MaxJobs : Begin(n)
        \/ \E j \in Slots : RunOne(j)
        \/ Return
        \/ Close

Spec == Init /\ [][Next]_batchVars
=============================================================================
