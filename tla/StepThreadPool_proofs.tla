----------------------- MODULE StepThreadPool_proofs -----------------------
(***************************************************************************)
(* Proofs about StepThreadPool for any finite set of workers, any number   *)
(* of jobs per call and any number of calls.                               *)
(***************************************************************************)
EXTENDS StepThreadPool, FiniteSetTheorems, TLAPS

(* Any set of workers is finite and no larger than the pool.               *)
LEMMA SubsetCard ==
    ASSUME NEW S \in SUBSET Workers
    PROVE  /\ IsFiniteSet(S)
           /\ Cardinality(S) \in Nat
           /\ NumWorkers \in Nat
           /\ Cardinality(S) <= NumWorkers
  BY WorkersAssumption, FS_Subset, FS_CardinalityType DEF NumWorkers

(* Removing the worker that decrements leaves one fewer pending.           *)
LEMMA RemoveOne ==
    ASSUME NEW S \in SUBSET Workers, NEW w \in S
    PROVE  Cardinality(S \ {w}) = Cardinality(S) - 1
  BY SubsetCard, FS_RemoveElement

(* A pool that owes nothing is a pool with no pending worker.              *)
LEMMA NonePending ==
    ASSUME NEW S \in SUBSET Workers, Cardinality(S) <= 0
    PROVE  S = {}
  BY SubsetCard, FS_EmptySet

LEMMA InitIInv == Init => IInv
<1> SUFFICES ASSUME Init PROVE IInv
  OBVIOUS
<1> USE DEF Init
<1>1. TypeOK
  <2>1. ran \in [Slots -> Nat]
    OBVIOUS
  <2>2. 0 \in 0 .. MaxJobs
    BY BoundsAssumption
  <2>3. wpc \in [Workers -> {"steal", "run", "finish", "exited"} \cup Waiting]
    BY DEF Waiting
  <2>4. wIdx \in [Workers -> Nat] /\ myGen \in [Workers -> Nat]
    OBVIOUS
  <2>5. wJobs \in [Workers -> 0 .. MaxJobs]
    BY <2>2
  <2>6. /\ caller \in {"idle"} \cup InCall \cup Closing
        /\ generation \in Nat /\ nextIdx \in Nat /\ active \in Int
    OBVIOUS
  <2>7. stopping \in BOOLEAN
    BY Zenon
  <2> HIDE DEF Init
  <2>8. nJobs \in 0 .. MaxJobs
    BY <2>2 DEF Init
  <2>9. QED
    BY <2>1, <2>3, <2>4, <2>5, <2>6, <2>7, <2>8 DEF TypeOK
<1>2. Lifecycle
  BY DEF Lifecycle, NoBodyAfterReturn, Busy, Closing
<1>3. ActiveCovers
  BY DEF ActiveCovers, Waiting
<1>4. JobLedger
  BY DEF JobLedger, Claimed, Slots
<1>5. Drained
  BY DEF Drained
<1>6. QED
  BY <1>1, <1>2, <1>3, <1>4, <1>5 DEF IInv

(* Every step keeps the types.                                             *)
LEMMA TypeStep == TypeOK /\ [Next]_vars => TypeOK'
<1> SUFFICES ASSUME TypeOK, [Next]_vars PROVE TypeOK'
  OBVIOUS
<1> USE DEF TypeOK, Waiting, InCall, Closing
<1>1. ASSUME NEW n \in 1 .. MaxJobs, Publish(n) PROVE TypeOK'
  BY <1>1, BoundsAssumption DEF Publish, workerVars, Slots
<1>2. CASE Stop
  BY <1>2 DEF Stop, workerVars
<1>3. CASE Arm
  BY <1>3, SubsetCard DEF Arm, callerVars, workerVars
<1>4. CASE NotifyWorkers
  BY <1>4 DEF NotifyWorkers, callerVars, WakeAll
<1>5. CASE CallerCheck
  BY <1>5 DEF CallerCheck, callerVars, workerVars
<1>6. CASE NotifyStop
  BY <1>6 DEF NotifyStop, callerVars, WakeAll
<1>7. CASE Join
  BY <1>7 DEF Join, callerVars, workerVars
<1>8. CASE CallerSpurious
  BY <1>8 DEF CallerSpurious, callerVars, workerVars
<1>9. ASSUME NEW w \in Workers, WorkerStep(w) PROVE TypeOK'
  <2>1. CASE Exit(w)
    BY <2>1 DEF Exit, callerVars
  <2>2. CASE Take(w)
    BY <2>2 DEF Take, callerVars
  <2>3. CASE Sleep(w)
    BY <2>3 DEF Sleep, callerVars
  <2>4. CASE Steal(w)
    BY <2>4 DEF Steal, callerVars
  <2>5. CASE RunBody(w)
    <3>1. ran' = [j \in Slots |-> IF j = wIdx[w] THEN ran[j] + 1 ELSE ran[j]]
      BY <2>5 DEF RunBody
    <3>2. ran' \in [Slots -> Nat]
      BY <3>1
    <3>3. QED
      BY <2>5, <3>2 DEF RunBody, callerVars
  <2>6. CASE Finish(w)
    BY <2>6 DEF Finish, callerVars
  <2>7. QED
    BY <1>9, <2>1, <2>2, <2>3, <2>4, <2>5, <2>6 DEF WorkerStep
<1>10. ASSUME NEW w \in Workers, WorkerSpurious(w) PROVE TypeOK'
  BY <1>10 DEF WorkerSpurious, callerVars
<1>11. CASE UNCHANGED vars
  BY <1>11 DEF vars, callerVars, workerVars
<1>12. QED
  BY <1>1, <1>2, <1>3, <1>4, <1>5, <1>6, <1>7, <1>8, <1>9, <1>10, <1>11
     DEF Next, CallerStep, Terminated

(* Type correctness of every reachable state.                              *)
THEOREM TypeCorrect == Spec => []TypeOK
<1>1. Init => TypeOK
  BY InitIInv DEF IInv
<1>2. QED
  BY <1>1, TypeStep, PTL DEF Spec
-----------------------------------------------------------------------------
(* The caller's steps preserve the inductive invariant.                    *)
LEMMA PublishStep ==
    ASSUME IInv, TypeOK', NEW n \in 1 .. MaxJobs, Publish(n)
    PROVE  IInv'
<1> USE DEF IInv, TypeOK, Publish, workerVars
<1>1. Lifecycle'
  BY DEF Lifecycle, NoBodyAfterReturn, Busy, InCall, Closing, Waiting
<1>2. ActiveCovers'
  BY DEF ActiveCovers, Waiting
<1>3. JobLedger'
  <2>1. \A w \in Workers : wpc[w] # "run"
    BY DEF Lifecycle, NoBodyAfterReturn, Busy, InCall, Waiting
  <2>2. ran' = [j \in Slots |-> 0] /\ nextIdx' = 0
    OBVIOUS
  <2>3. QED
    BY <2>1, <2>2 DEF JobLedger, Claimed, Slots
<1>4. Drained'
  BY DEF Drained, Lifecycle, NoBodyAfterReturn, Busy, InCall, Waiting
<1>5. QED
  BY <1>1, <1>2, <1>3, <1>4

LEMMA ArmStep ==
    ASSUME IInv, TypeOK', Arm
    PROVE  IInv'
<1> USE DEF IInv, TypeOK, Arm, callerVars, workerVars
<1>1. Lifecycle'
  BY DEF Lifecycle, NoBodyAfterReturn, Busy, InCall, Closing
<1>2. ActiveCovers'
  <2>1. Pending' \in SUBSET Workers
    BY DEF Pending, Busy, Unstarted
  <2>2. Cardinality(Pending') <= NumWorkers
    BY <2>1, SubsetCard
  <2>3. QED
    BY <2>2, SubsetCard, <2>1 DEF ActiveCovers
<1>3. JobLedger' /\ Drained'
  BY DEF JobLedger, Claimed, Drained
<1>4. QED
  BY <1>1, <1>2, <1>3

(* Waking threads moves them between the two places inside wait only.      *)
LEMMA WakeKeeps ==
    ASSUME TypeOK, wpc' = WakeAll, UNCHANGED <<generation, myGen>>
    PROVE  /\ Pending' = Pending
           /\ Busy' = Busy
           /\ \A w \in Workers :
                /\ wpc'[w] \in Waiting <=> wpc[w] \in Waiting
                /\ wpc'[w] \notin Waiting => wpc'[w] = wpc[w]
                /\ wpc[w] \notin Waiting => wpc'[w] = wpc[w]
<1>1. \A w \in Workers :
        wpc'[w] = IF wpc[w] = "blocked" THEN "check" ELSE wpc[w]
  BY DEF WakeAll
<1>2. QED
  BY <1>1 DEF Pending, Busy, Unstarted, Waiting

LEMMA NotifyWorkersStep ==
    ASSUME IInv, TypeOK', NotifyWorkers
    PROVE  IInv'
<1> USE DEF IInv, NotifyWorkers, callerVars
<1>0. /\ Pending' = Pending
      /\ Busy' = Busy
      /\ \A w \in Workers :
           /\ wpc'[w] \in Waiting <=> wpc[w] \in Waiting
           /\ wpc'[w] \notin Waiting => wpc'[w] = wpc[w]
           /\ wpc[w] \notin Waiting => wpc'[w] = wpc[w]
  BY WakeKeeps
<1>1. Lifecycle'
  BY <1>0 DEF Lifecycle, NoBodyAfterReturn, InCall, Closing, Waiting
<1>2. ActiveCovers'
  BY <1>0 DEF ActiveCovers, Waiting
<1>3. JobLedger'
  BY <1>0 DEF JobLedger, Claimed, Waiting
<1>4. Drained'
  BY <1>0 DEF Drained, Waiting
<1>5. QED
  BY <1>1, <1>2, <1>3, <1>4

(* The predicate of done_cv_.wait is sound: 0 means nobody is pending.     *)
LEMMA CallerCheckStep ==
    ASSUME IInv, TypeOK', CallerCheck
    PROVE  /\ IInv'
           /\ caller' = "idle" => \A j \in Slots : j < nJobs => ran[j] = 1
<1> USE DEF IInv, CallerCheck, callerVars, workerVars
<1>1. Pending \in SUBSET Workers /\ active >= Cardinality(Pending)
  BY DEF Pending, Busy, Unstarted, ActiveCovers, Waiting
<1>2. active = 0 => Pending = {}
  BY <1>1, NonePending
<1>3. active = 0 =>
        /\ Busy = {}
        /\ \A w \in Workers : wpc[w] \in Waiting /\ myGen[w] = generation
        /\ nextIdx >= nJobs
  <2>1. SUFFICES ASSUME active = 0
                 PROVE  /\ Busy = {}
                        /\ \A w \in Workers : wpc[w] \in Waiting
                                              /\ myGen[w] = generation
                        /\ nextIdx >= nJobs
    OBVIOUS
  <2>2. Busy = {} /\ Unstarted = {}
    BY <1>2, <2>1 DEF Pending
  <2>3. \A w \in Workers : wpc[w] # "exited"
    BY DEF Lifecycle, Closing
  <2>4. \A w \in Workers : wpc[w] \in Waiting
    BY <2>2, <2>3 DEF Busy, TypeOK
  <2>5. \A w \in Workers : myGen[w] = generation
    BY <2>2, <2>4 DEF Unstarted, TypeOK, Lifecycle
  <2>6. PICK w \in Workers : TRUE
    BY WorkersAssumption
  <2>7. nextIdx >= nJobs
    BY <2>4, <2>5, <2>6 DEF Drained
  <2>8. QED
    BY <2>2, <2>4, <2>5, <2>7
<1>4. Lifecycle'
  BY <1>3 DEF Lifecycle, NoBodyAfterReturn, Busy, InCall, Closing, Waiting
<1>5. ActiveCovers' /\ JobLedger' /\ Drained'
  BY <1>1 DEF ActiveCovers, JobLedger, Claimed, Drained, Pending, Busy,
              Unstarted, Waiting
<1>6. caller' = "idle" => \A j \in Slots : j < nJobs => ran[j] = 1
  <2>1. SUFFICES ASSUME active = 0, NEW j \in Slots, j < nJobs
                 PROVE  ran[j] = 1
    OBVIOUS
  <2>2. ~Claimed(j)
    BY <2>1, <1>3 DEF Claimed, Waiting
  <2>3. j < nextIdx
    BY <2>1, <1>3 DEF TypeOK, Slots
  <2>4. QED
    BY <2>1, <2>2, <2>3 DEF JobLedger
<1>7. QED
  BY <1>4, <1>5, <1>6

LEMMA StopSteps ==
    ASSUME IInv, TypeOK', Stop \/ NotifyStop \/ Join \/ CallerSpurious
    PROVE  IInv'
<1> USE DEF IInv, callerVars, workerVars
<1>1. CASE Stop
  <2>1. Lifecycle'
    BY <1>1 DEF Stop, Lifecycle, NoBodyAfterReturn, Busy, InCall, Closing,
                Waiting, TypeOK
  <2>2. ActiveCovers' /\ JobLedger'
    BY <1>1 DEF Stop, ActiveCovers, JobLedger, Claimed, Waiting
  <2>3. Drained'
    BY <1>1 DEF Stop, Drained, Lifecycle, NoBodyAfterReturn, Busy, InCall,
                Waiting, TypeOK
  <2>4. QED
    BY <2>1, <2>2, <2>3
<1>2. CASE NotifyStop
  <2>0. /\ Busy' = Busy
        /\ \A w \in Workers :
             /\ wpc'[w] \in Waiting <=> wpc[w] \in Waiting
             /\ wpc'[w] \notin Waiting => wpc'[w] = wpc[w]
             /\ wpc[w] \notin Waiting => wpc'[w] = wpc[w]
    BY <1>2, WakeKeeps DEF NotifyStop
  <2>1. Lifecycle'
    BY <1>2, <2>0 DEF NotifyStop, Lifecycle, NoBodyAfterReturn, InCall,
                      Closing, Waiting
  <2>2. ActiveCovers'
    BY <1>2 DEF NotifyStop, ActiveCovers, Waiting
  <2>3. JobLedger' /\ Drained'
    BY <1>2, <2>0 DEF NotifyStop, JobLedger, Claimed, Drained, Waiting
  <2>4. QED
    BY <2>1, <2>2, <2>3
<1>3. CASE Join
  BY <1>3 DEF Join, Lifecycle, NoBodyAfterReturn, Busy, InCall, Closing,
              Waiting, ActiveCovers, JobLedger, Claimed, Drained
<1>4. CASE CallerSpurious
  BY <1>4 DEF CallerSpurious, Lifecycle, NoBodyAfterReturn, Busy, InCall,
              Closing, Waiting, ActiveCovers, Pending, Unstarted, JobLedger,
              Claimed, Drained
<1>5. QED
  BY <1>1, <1>2, <1>3, <1>4

-----------------------------------------------------------------------------
(* The workers' steps preserve the inductive invariant.                    *)
LEMMA ExitSleepStep ==
    ASSUME IInv, TypeOK', NEW w \in Workers,
           Exit(w) \/ Sleep(w) \/ WorkerSpurious(w)
    PROVE  IInv'
<1> USE DEF IInv, TypeOK, callerVars, Waiting
<1>1. /\ UNCHANGED <<caller, callerVars, nextIdx, active, myGen, wJobs,
                     wIdx, ran>>
      /\ wpc[w] \in Waiting
      /\ wpc'[w] \in Waiting \/ (wpc'[w] = "exited" /\ stopping)
      /\ \A v \in Workers \ {w} : wpc'[v] = wpc[v]
  BY DEF Exit, Sleep, WorkerSpurious
<1>2. Lifecycle'
  BY <1>1 DEF Lifecycle, NoBodyAfterReturn, Busy
<1>3. ActiveCovers'
  <2>1. CASE stopping
    BY <1>1, <2>1 DEF ActiveCovers, Lifecycle, Closing
  <2>2. CASE ~stopping
    <3>1. Pending' = Pending
      BY <1>1, <2>2 DEF Pending, Busy, Unstarted
    <3>2. QED
      BY <1>1, <3>1 DEF ActiveCovers
  <2>3. QED
    BY <2>1, <2>2
<1>4. JobLedger'
  <2>1. \A v \in Workers : wpc'[v] = "run" <=> wpc[v] = "run"
    BY <1>1
  <2>2. QED
    BY <1>1, <2>1 DEF JobLedger, Claimed
<1>5. Drained'
  BY <1>1 DEF Drained
<1>6. QED
  BY <1>2, <1>3, <1>4, <1>5

(* Only a worker behind the generation can take a batch, hence only while  *)
(* a call is in progress.                                                  *)
LEMMA TakeStep ==
    ASSUME IInv, TypeOK', NEW w \in Workers, Take(w)
    PROVE  IInv'
<1> USE DEF IInv, TypeOK, Take, callerVars
<1>1. Lifecycle'
  <2>1. caller \in InCall
    BY DEF Lifecycle
  <2>2. QED
    BY <2>1 DEF Lifecycle, NoBodyAfterReturn, Busy
<1>2. ActiveCovers'
  <2>1. Pending' = Pending
    BY DEF Pending, Busy, Unstarted, Waiting
  <2>2. QED
    BY <2>1 DEF ActiveCovers
<1>3. JobLedger' /\ Drained'
  BY DEF JobLedger, Claimed, Drained, Waiting
<1>4. QED
  BY <1>1, <1>2, <1>3

(* fetch_add hands out each index once; the index it returns is unclaimed. *)
LEMMA StealStep ==
    ASSUME IInv, TypeOK', NEW w \in Workers, Steal(w)
    PROVE  IInv'
<1> USE DEF IInv, TypeOK, Steal, callerVars
<1>0. wJobs[w] = nJobs /\ caller \in InCall /\ myGen[w] = generation
  BY DEF Lifecycle, NoBodyAfterReturn, Busy
<1>1. Lifecycle'
  BY <1>0 DEF Lifecycle, NoBodyAfterReturn, Busy
<1>2. ActiveCovers'
  <2>1. Pending' = Pending
    BY DEF Pending, Busy, Unstarted, Waiting
  <2>2. QED
    BY <2>1 DEF ActiveCovers
<1>3. JobLedger'
  <2>1. CASE nextIdx >= nJobs
    <3>1. \A v \in Workers : (wpc'[v] = "run" <=> wpc[v] = "run")
                             /\ (wpc[v] = "run" => wIdx'[v] = wIdx[v])
      BY <1>0, <2>1
    <3>2. QED
      BY <2>1, <3>1 DEF JobLedger, Claimed, Slots
  <2>2. CASE nextIdx < nJobs
    <3>1. nextIdx \in Slots /\ wpc'[w] = "run" /\ wIdx'[w] = nextIdx
      BY <1>0, <2>2, BoundsAssumption DEF Slots
    <3>2. \A v \in Workers \ {w} : wpc'[v] = wpc[v] /\ wIdx'[v] = wIdx[v]
      OBVIOUS
    <3>3. ran[nextIdx] = 0
      BY <3>1 DEF JobLedger
    <3>4. \A v \in Workers : wpc'[v] = "run" =>
            /\ wIdx'[v] \in Slots /\ wIdx'[v] < nJobs
            /\ wIdx'[v] < nextIdx' /\ ran[wIdx'[v]] = 0
      BY <2>2, <3>1, <3>2, <3>3 DEF JobLedger
    <3>5. \A u, v \in Workers :
            wpc'[u] = "run" /\ wpc'[v] = "run" /\ wIdx'[u] = wIdx'[v] => u = v
      BY <3>1, <3>2 DEF JobLedger
    <3>6. \A j \in Slots :
            /\ ran[j] \in {0, 1}
            /\ ran[j] = 1 => j < nextIdx' /\ j < nJobs
      BY DEF JobLedger, Slots
    <3>7. ASSUME NEW j \in Slots, j < nextIdx', j < nJobs, ran[j] # 1
          PROVE  \E v \in Workers : wpc'[v] = "run" /\ wIdx'[v] = j
      <4>1. CASE j = nextIdx
        BY <3>1, <4>1
      <4>2. CASE j < nextIdx
        <5>1. PICK v \in Workers : wpc[v] = "run" /\ wIdx[v] = j
          BY <3>7, <4>2 DEF JobLedger, Claimed
        <5>2. QED
          BY <5>1, <3>2
      <4>3. QED
        BY <3>7, <4>1, <4>2 DEF Slots
    <3>8. QED
      BY <3>4, <3>5, <3>6, <3>7 DEF JobLedger, Claimed
  <2>3. QED
    BY <2>1, <2>2
<1>4. Drained'
  BY <1>0 DEF Drained, Waiting
<1>5. QED
  BY <1>1, <1>2, <1>3, <1>4

LEMMA RunBodyStep ==
    ASSUME IInv, TypeOK', NEW w \in Workers, RunBody(w)
    PROVE  /\ IInv'
           /\ wIdx[w] \in Slots /\ wIdx[w] < nJobs /\ ran[wIdx[w]] = 0
           /\ ran' = [ran EXCEPT ![wIdx[w]] = 1]
           /\ caller \in InCall
<1> USE DEF IInv, TypeOK, RunBody, callerVars
<1>0. /\ wIdx[w] \in Slots /\ wIdx[w] < nJobs /\ wIdx[w] < nextIdx
      /\ ran[wIdx[w]] = 0
      /\ caller \in InCall
  BY DEF JobLedger, Lifecycle, NoBodyAfterReturn, Busy
<1>1. ran' = [ran EXCEPT ![wIdx[w]] = 1]
  BY <1>0
<1>2. Lifecycle'
  BY <1>0 DEF Lifecycle, NoBodyAfterReturn, Busy
<1>3. ActiveCovers'
  <2>1. Pending' = Pending
    BY DEF Pending, Busy, Unstarted, Waiting
  <2>2. QED
    BY <2>1 DEF ActiveCovers
<1>4. JobLedger'
  <2>1. \A v \in Workers : wpc'[v] = "run" => v # w /\ wpc[v] = "run"
    OBVIOUS
  <2>2. \A v \in Workers : wpc'[v] = "run" => wIdx[v] # wIdx[w]
    BY <2>1 DEF JobLedger
  <2>3. \A j \in Slots : ran'[j] = IF j = wIdx[w] THEN 1 ELSE ran[j]
    BY <1>0, <1>1
  <2>4. ASSUME NEW j \in Slots, j < nextIdx, j < nJobs, ran'[j] # 1
        PROVE  \E v \in Workers : wpc'[v] = "run" /\ wIdx[v] = j
    <3>1. j # wIdx[w] /\ ran[j] # 1
      BY <2>3, <2>4
    <3>2. PICK v \in Workers : wpc[v] = "run" /\ wIdx[v] = j
      BY <2>4, <3>1 DEF JobLedger, Claimed
    <3>3. QED
      BY <3>1, <3>2
  <2>5. QED
    BY <1>0, <2>1, <2>2, <2>3, <2>4 DEF JobLedger, Claimed
<1>5. Drained'
  BY DEF Drained, Waiting
<1>6. QED
  BY <1>0, <1>1, <1>2, <1>3, <1>4, <1>5

(* The decrement and the pending set lose one together.                    *)
LEMMA FinishStep ==
    ASSUME IInv, TypeOK', NEW w \in Workers, Finish(w)
    PROVE  /\ IInv'
           /\ Pending' = Pending \ {w} /\ w \in Pending
           /\ caller \in InCall /\ caller' \in InCall
           /\ caller = "published" <=> caller' = "published"
<1> USE DEF IInv, TypeOK, Finish, callerVars
<1>0. caller \in InCall /\ myGen[w] = generation /\ nextIdx >= nJobs
  BY DEF Lifecycle, NoBodyAfterReturn, Busy, Drained
<1>1. caller' \in InCall /\ (caller = "published" <=> caller' = "published")
  BY <1>0 DEF InCall, Waiting
<1>2. Lifecycle'
  BY <1>0, <1>1 DEF Lifecycle, NoBodyAfterReturn, Busy, InCall, Closing,
                    Waiting
<1>3. Pending' = Pending \ {w} /\ w \in Pending /\ Pending \in SUBSET Workers
  BY <1>0 DEF Pending, Busy, Unstarted, Waiting
<1>4. ActiveCovers'
  <2>1. SUFFICES ASSUME caller' \in {"armed"} \cup Waiting
                 PROVE  active' >= Cardinality(Pending')
    BY DEF ActiveCovers
  <2>2. caller \in {"armed"} \cup Waiting
    BY <2>1, <1>0 DEF Waiting, InCall
  <2>3. Cardinality(Pending') = Cardinality(Pending) - 1
    BY <1>3, RemoveOne
  <2>4. Cardinality(Pending) \in Nat
    BY <1>3, SubsetCard
  <2>5. QED
    BY <2>2, <2>3, <2>4 DEF ActiveCovers
<1>5. JobLedger'
  BY DEF JobLedger, Claimed
<1>6. Drained'
  BY <1>0 DEF Drained
<1>7. QED
  BY <1>0, <1>1, <1>2, <1>3, <1>4, <1>5, <1>6

LEMMA StutterStep == IInv /\ UNCHANGED vars => IInv'
  BY DEF IInv, TypeOK, Lifecycle, NoBodyAfterReturn, Busy, ActiveCovers,
         Pending, Unstarted, JobLedger, Claimed, Drained, vars, callerVars,
         workerVars

(* The invariant is inductive.                                             *)
LEMMA IInvStep == IInv /\ [Next]_vars => IInv'
<1> SUFFICES ASSUME IInv, [Next]_vars PROVE IInv'
  OBVIOUS
<1>0. TypeOK'
  BY TypeStep DEF IInv
<1>1. ASSUME NEW n \in 1 .. MaxJobs, Publish(n) PROVE IInv'
  BY <1>0, <1>1, PublishStep
<1>2. CASE Stop \/ NotifyStop \/ Join \/ CallerSpurious
  BY <1>0, <1>2, StopSteps
<1>3. CASE Arm \/ NotifyWorkers \/ CallerCheck
  BY <1>0, <1>3, ArmStep, NotifyWorkersStep, CallerCheckStep
<1>4. ASSUME NEW w \in Workers, WorkerStep(w) \/ WorkerSpurious(w) PROVE IInv'
  BY <1>0, <1>4, ExitSleepStep, TakeStep, StealStep, RunBodyStep, FinishStep
     DEF WorkerStep
<1>5. CASE UNCHANGED vars
  BY <1>5, StutterStep
<1>6. QED
  BY <1>1, <1>2, <1>3, <1>4, <1>5 DEF Next, CallerStep, Terminated

(* Every reachable state satisfies the inductive invariant.                *)
THEOREM Invariance == Spec => []IInv
  BY InitIInv, IInvStep, PTL DEF Spec

(* No worker holds the body of a call that has returned.                   *)
THEOREM BodiesStayInTheCall == Spec => []NoBodyAfterReturn
<1>1. IInv => NoBodyAfterReturn
  BY DEF IInv, Lifecycle
<1>2. QED
  BY <1>1, Invariance, PTL
-----------------------------------------------------------------------------
(* A return step finds every job of the call run exactly once.             *)
LEMMA ReturnStep ==
    ASSUME IInv, [Next]_vars, caller \in InCall, caller' = "idle"
    PROVE  /\ CallerCheck
           /\ \A j \in Slots : ran[j] = (IF j < nJobs THEN 1 ELSE 0)
<1>0. TypeOK'
  BY TypeStep DEF IInv
<1>1. CallerCheck
  <2>1. ASSUME NEW w \in Workers, WorkerStep(w) \/ WorkerSpurious(w)
        PROVE  caller' # "idle"
    BY <2>1 DEF WorkerStep, Exit, Take, Sleep, Steal, RunBody, Finish,
                WorkerSpurious, InCall, Waiting
  <2>2. QED
    BY <2>1 DEF Next, Publish, Stop, CallerStep, Arm, NotifyWorkers,
                NotifyStop, Join, CallerSpurious, Terminated, vars, InCall,
                Waiting
<1>2. \A j \in Slots : j < nJobs => ran[j] = 1
  BY <1>0, <1>1, CallerCheckStep
<1>3. ASSUME NEW j \in Slots, ~(j < nJobs) PROVE ran[j] = 0
  <2>1. ran[j] \in {0, 1} /\ (ran[j] = 1 => j < nJobs)
    BY DEF IInv, JobLedger
  <2>2. QED
    BY <2>1, <1>3
<1>4. QED
  BY <1>1, <1>2, <1>3

(* parallel_for never returns early and never runs a job twice.            *)
THEOREM NoEarlyReturn == Spec => ReturnMeansAllRan
<1>1. IInv /\ [Next]_vars =>
        [(caller \in InCall /\ caller' = "idle")
            => (\A j \in Slots : ran[j] = (IF j < nJobs THEN 1 ELSE 0))]_vars
  BY ReturnStep
<1>2. QED
  BY <1>1, Invariance, PTL DEF Spec, ReturnMeansAllRan

(* Each step of the pool is a step of the batch or changes none of it.     *)
LEMMA BatchStep == IInv /\ [Next]_vars => [BatchOf!Next]_(BatchOf!batchVars)
<1> SUFFICES ASSUME IInv, [Next]_vars
             PROVE  [BatchOf!Next]_(BatchOf!batchVars)
  OBVIOUS
<1> DEFINE Phase == CASE caller = "idle" -> "idle"
                      [] caller \in InCall -> "call"
                      [] OTHER -> "closed"
<1>0. TypeOK' /\ BatchOf!Slots = Slots
  BY TypeStep DEF IInv, BatchOf!Slots, Slots
<1>P. /\ caller = "idle" => Phase = "idle"
      /\ caller \in InCall => Phase = "call"
      /\ caller \in Closing => Phase = "closed"
      /\ caller' = "idle" => Phase' = "idle"
      /\ caller' \in InCall => Phase' = "call"
      /\ caller' \in Closing => Phase' = "closed"
  BY DEF InCall, Closing, Waiting
<1> HIDE DEF Phase
<1> USE DEF BatchOf!Next, BatchOf!batchVars
<1>1. ASSUME NEW n \in 1 .. MaxJobs, Publish(n)
      PROVE  BatchOf!Begin(n)
  <2>1. Phase = "idle" /\ Phase' = "call"
    BY <1>1, <1>P DEF Publish, InCall
  <2>2. QED
    BY <1>0, <1>1, <2>1 DEF Publish, BatchOf!Begin, Phase
<1>2. CASE Stop
  <2>1. Phase = "idle" /\ Phase' = "closed"
    BY <1>2, <1>P DEF Stop, Closing
  <2>2. BatchOf!Close
    BY <1>2, <2>1 DEF Stop, BatchOf!Close, Phase
  <2>3. QED
    BY <2>2
<1>3. CASE CallerCheck /\ caller' = "idle"
  <2>1. Phase = "call" /\ Phase' = "idle"
    BY <1>3, <1>P DEF CallerCheck, InCall, Waiting
  <2>2. \A j \in Slots : j < nJobs => ran[j] = 1
    BY <1>0, <1>3, CallerCheckStep
  <2>3. BatchOf!Return
    BY <1>0, <1>3, <2>1, <2>2 DEF CallerCheck, callerVars, BatchOf!Return,
                                  Phase
  <2>4. QED
    BY <2>3
<1>4. ASSUME \/ Arm \/ NotifyWorkers \/ NotifyStop \/ Join \/ CallerSpurious
             \/ CallerCheck /\ caller' # "idle"
      PROVE  UNCHANGED BatchOf!batchVars
  <2>1. Phase' = Phase
    BY <1>4, <1>P DEF Arm, NotifyWorkers, NotifyStop, Join, CallerSpurious,
                      CallerCheck, InCall, Closing, Waiting
  <2>2. QED
    BY <1>4, <2>1 DEF Arm, NotifyWorkers, NotifyStop, Join, CallerSpurious,
                      CallerCheck, callerVars, Phase
<1>5. ASSUME NEW w \in Workers, RunBody(w)
      PROVE  BatchOf!RunOne(wIdx[w])
  <2>1. /\ wIdx[w] \in Slots /\ wIdx[w] < nJobs /\ ran[wIdx[w]] = 0
        /\ ran' = [ran EXCEPT ![wIdx[w]] = 1]
        /\ caller \in InCall
    BY <1>0, <1>5, RunBodyStep
  <2>2. Phase = "call" /\ Phase' = "call"
    BY <1>5, <1>P, <2>1 DEF RunBody
  <2>3. QED
    BY <1>5, <2>1, <2>2 DEF RunBody, callerVars, BatchOf!RunOne, Phase
<1>6. ASSUME NEW w \in Workers, Finish(w)
      PROVE  UNCHANGED BatchOf!batchVars
  <2>1. caller \in InCall /\ caller' \in InCall
    BY <1>0, <1>6, FinishStep
  <2>2. Phase' = Phase
    BY <1>P, <2>1
  <2>3. QED
    BY <1>6, <2>2 DEF Finish, callerVars, Phase
<1>7. ASSUME NEW w \in Workers,
             Exit(w) \/ Take(w) \/ Sleep(w) \/ Steal(w) \/ WorkerSpurious(w)
      PROVE  UNCHANGED BatchOf!batchVars
  BY <1>7 DEF Exit, Take, Sleep, Steal, WorkerSpurious, callerVars
<1>8. CASE UNCHANGED vars
  BY <1>8 DEF vars, callerVars
<1>9. ASSUME NEW w \in Workers, WorkerStep(w) \/ WorkerSpurious(w)
      PROVE  [BatchOf!Next]_(BatchOf!batchVars)
  <2>1. CASE RunBody(w)
    BY <2>1, <1>0, <1>5, RunBodyStep
  <2>2. CASE ~RunBody(w)
    BY <2>2, <1>6, <1>7, <1>9 DEF WorkerStep
  <2>3. QED
    BY <2>1, <2>2
<1>10. QED
  BY <1>1, <1>2, <1>3, <1>4, <1>8, <1>9 DEF Next, CallerStep, Terminated

(* parallel_for implements the batch its caller reasons with: each job is  *)
(* run exactly once between the call and its return.                       *)
THEOREM PoolImplementsBatch == Spec => ImplementsBatch
<1>1. Init => BatchOf!Init
  BY DEF Init, BatchOf!Init, BatchOf!Slots, Slots, InCall, Waiting
<1>2. QED
  BY <1>1, BatchStep, Invariance, PTL DEF Spec, ImplementsBatch, BatchOf!Spec
-----------------------------------------------------------------------------
(* While a call is armed or waits, active and the number of workers that   *)
(* owe a decrement move together.                                          *)
LEMMA SurplusStep ==
    ASSUME IInv, [Next]_vars,
           caller \in {"armed"} \cup Waiting, caller' \in InCall
    PROVE  Surplus' = Surplus
<1>0. TypeOK' /\ ~stopping /\ caller \in InCall
  BY TypeStep DEF IInv, Lifecycle, InCall, Closing, Waiting
<1>1. ASSUME Pending' = Pending, active' = active
      PROVE  Surplus' = Surplus
  BY <1>1 DEF Surplus
<1>2. CASE NotifyWorkers
  BY <1>1, <1>2, WakeKeeps DEF NotifyWorkers, callerVars, IInv
<1>3. CASE CallerCheck \/ CallerSpurious \/ UNCHANGED vars
  BY <1>1, <1>3 DEF CallerCheck, CallerSpurious, callerVars, workerVars, vars,
                    Pending, Busy, Unstarted
<1>4. ASSUME NEW w \in Workers,
             Sleep(w) \/ Take(w) \/ Steal(w) \/ RunBody(w) \/ WorkerSpurious(w)
      PROVE  Surplus' = Surplus
  <2>1. /\ active' = active /\ generation' = generation
        /\ \A v \in Workers \ {w} : wpc'[v] = wpc[v] /\ myGen'[v] = myGen[v]
        /\ w \in Pending <=> w \in Pending'
    BY <1>4 DEF Sleep, Take, Steal, RunBody, WorkerSpurious, callerVars,
                Pending, Busy, Unstarted, Waiting, IInv, TypeOK, Lifecycle,
                NoBodyAfterReturn
  <2>2. Pending' = Pending
    BY <2>1 DEF Pending, Busy, Unstarted
  <2>3. QED
    BY <1>1, <2>1, <2>2
<1>5. ASSUME NEW w \in Workers, Finish(w)
      PROVE  Surplus' = Surplus
  <2>1. Pending' = Pending \ {w} /\ w \in Pending
    BY <1>0, <1>5, FinishStep
  <2>2. Pending \in SUBSET Workers
    BY DEF Pending, Busy, Unstarted
  <2>3. Cardinality(Pending') = Cardinality(Pending) - 1
        /\ Cardinality(Pending) \in Nat
    BY <2>1, <2>2, RemoveOne, SubsetCard
  <2>4. QED
    BY <1>5, <2>3 DEF Finish, Surplus, IInv, TypeOK
<1>6. QED
  BY <1>0, <1>2, <1>3, <1>4, <1>5
     DEF Next, Publish, Stop, CallerStep, Arm, NotifyStop, Join, Terminated,
         WorkerStep, Exit, InCall, Waiting

(* A call that was armed with active above the pending workers keeps that  *)
(* surplus for ever: it can never see 0.                                   *)
THEOREM SurplusNeverDrains == Spec => SurplusIsFrozen
<1>1. IInv /\ [Next]_vars =>
        [(caller \in {"armed"} \cup Waiting /\ caller' \in InCall)
            => Surplus' = Surplus]_vars
  BY SurplusStep
<1>2. QED
  BY <1>1, Invariance, PTL DEF Spec, SurplusIsFrozen
=============================================================================
