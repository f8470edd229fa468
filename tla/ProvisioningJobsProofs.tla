----------------------- MODULE ProvisioningJobsProofs -----------------------
(***************************************************************************)
(* What holds of ProvisioningJobs for every set of replicas and jobs and   *)
(* every bound on cancels, faults and crashes, and of the SecretOverlay of *)
(* a worker's process for every set of inline calls.                       *)
(***************************************************************************)
EXTENDS ProvisioningJobs, SecretOverlay, TLAPS

USE DEF Terminal, Statuses, WorkerSteps

\* Who has which job in hand, and what that says of its row.  A row that is
\* still to be claimed never has been, which is why nothing is claimed twice.
Ownership ==
    /\ \A r \in Replicas : job[r] = NoJob <=> pc[r] \in {"down", "idle"}
    /\ \A r \in Replicas : job[r] # NoJob => claims[job[r]] = 1
    /\ \A r \in Replicas : pc[r] \notin {"saving", "clearing"} => memStatus[r] = "running"
    /\ \A j \in Jobs : jobStatus[j] \in {"absent", "queued"} => claims[j] = 0
    /\ \A j \in Jobs : claims[j] = 0 => jobStatus[j] \in {"absent", "queued", "canceled"}
    /\ \A j \in Jobs : staleCancels[j] > 0 => jobStatus[j] # "absent"
    /\ AtMostOnce

\* Until one of the two breaches, the guard names the job in hand, and its row
\* says "running" or what runJob's record says.
Mutex ==
    breaches = {} =>
        /\ \A r \in Replicas : job[r] # NoJob => activeJob = job[r]
        /\ \A r \in Replicas :
              job[r] # NoJob => jobStatus[job[r]] \in {"running", memStatus[r]}

IInv == TypeOK /\ Ownership /\ Mutex /\ GuardHasHolder
-----------------------------------------------------------------------------
(* Type correctness. *)

LEMMA TypeInit == Init => TypeOK
BY NoJobAssumption DEF Init, TypeOK

LEMMA TypeStep == TypeOK /\ [Next]_vars => TypeOK'
<1> SUFFICES ASSUME TypeOK, [Next]_vars PROVE TypeOK'
  OBVIOUS
<1> USE DEF TypeOK, dbVars, workerVars, Fault, GoTo
<1>1. CASE UNCHANGED vars
  BY <1>1 DEF vars
<1>2. ASSUME NEW j \in Jobs, Caller(j) PROVE TypeOK'
  <2>0. CASE StampJob(j) BY <2>0 DEF StampJob
  <2>1. CASE EnqueueJob(j) BY <2>1 DEF EnqueueJob
  <2>2. CASE RequestCancelRunning(j) BY <2>2 DEF RequestCancelRunning
  <2>3. CASE RequestCancelRead(j) BY <2>3 DEF RequestCancelRead
  <2>4. CASE RequestCancelWrite(j) BY <2>4 DEF RequestCancelWrite
  <2>5. CASE RequestCancelRollback(j) BY <2>5 DEF RequestCancelRollback
  <2>6. QED BY <1>2, <2>0, <2>1, <2>2, <2>3, <2>4, <2>5 DEF Caller
<1>3. ASSUME NEW r \in Replicas, Worker(r) PROVE TypeOK'
  <2>1. ASSUME NEW j \in Jobs, Claim(r, j) PROVE TypeOK'
    BY <2>1 DEF Claim, ClaimRow
  <2>2. CASE StartDispatch(r) BY <2>2 DEF StartDispatch
  <2>3. CASE FinishDispatch(r) BY <2>3 DEF FinishDispatch, Outcomes
  <2>4. CASE SaveFinal(r) BY <2>4 DEF SaveFinal, SaveJob
  <2>5. CASE ClearActive(r) BY <2>5 DEF ClearActive, Release, Forget
  <2>6. CASE Boot(r) BY <2>6 DEF Boot, Recovered
  <2>7. QED BY <1>3, <2>1, <2>2, <2>3, <2>4, <2>5, <2>6 DEF Worker
<1>4. ASSUME NEW r \in Replicas, Accident(r) PROVE TypeOK'
  <2>1. ASSUME NEW j \in Jobs, ClaimAnswerLost(r, j) PROVE TypeOK'
    BY <2>1 DEF ClaimAnswerLost, ClaimRow
  <2>2. CASE StartFails(r) BY <2>2 DEF StartFails
  <2>3. CASE SaveProgress(r) BY <2>3 DEF SaveProgress, SaveJob
  <2>4. CASE PollCancel(r) BY <2>4 DEF PollCancel
  <2>5. CASE SaveFinalFails(r) BY <2>5 DEF SaveFinalFails
  <2>6. CASE ClearActiveFails(r) BY <2>6 DEF ClearActiveFails, Release, Forget
  <2>7. CASE Crash(r) BY <2>7 DEF Crash, Forget
  <2>8. QED BY <1>4, <2>1, <2>2, <2>3, <2>4, <2>5, <2>6, <2>7 DEF Accident
<1>5. QED
  BY <1>1, <1>2, <1>3, <1>4 DEF Next

\* Every variable keeps its type, whatever fails and in whatever order.
THEOREM TypeCorrect == Spec => []TypeOK
<1>1. QED
  BY TypeInit, TypeStep, PTL DEF Spec
-----------------------------------------------------------------------------
(* Ownership. *)

LEMMA OwnershipInit == Init => Ownership
BY NoJobAssumption DEF Init, Ownership, AtMostOnce, Executing

LEMMA OwnershipStep ==
    ASSUME TypeOK, Ownership, [Next]_vars
    PROVE  Ownership'
<1> USE NoJobAssumption
    DEF TypeOK, Ownership, AtMostOnce, Executing, dbVars, workerVars, Fault, GoTo
<1>1. CASE UNCHANGED vars
  BY <1>1 DEF vars
<1>2. ASSUME NEW j \in Jobs, Caller(j) PROVE Ownership'
  <2>0. CASE StampJob(j) BY <2>0 DEF StampJob
  <2>1. CASE EnqueueJob(j) BY <2>1 DEF EnqueueJob
  <2>2. CASE RequestCancelRunning(j) BY <2>2 DEF RequestCancelRunning
  <2>3. CASE RequestCancelRead(j) BY <2>3 DEF RequestCancelRead
  <2>4. CASE RequestCancelWrite(j) BY <2>4 DEF RequestCancelWrite
  <2>5. CASE RequestCancelRollback(j) BY <2>5 DEF RequestCancelRollback
  <2>6. QED BY <1>2, <2>0, <2>1, <2>2, <2>3, <2>4, <2>5 DEF Caller
<1>3. ASSUME NEW r \in Replicas, Worker(r) PROVE Ownership'
  <2>1. ASSUME NEW j \in Jobs, Claim(r, j) PROVE Ownership'
    BY <2>1 DEF Claim, ClaimRow, OldestQueued, Queued
  <2>2. CASE StartDispatch(r) BY <2>2 DEF StartDispatch
  <2>3. CASE FinishDispatch(r) BY <2>3 DEF FinishDispatch, Outcomes
  <2>4. CASE SaveFinal(r) BY <2>4 DEF SaveFinal, SaveJob
  <2>5. CASE ClearActive(r) BY <2>5 DEF ClearActive, Release, Forget
  <2>6. CASE Boot(r) BY <2>6 DEF Boot, Recovered
  <2>7. QED BY <1>3, <2>1, <2>2, <2>3, <2>4, <2>5, <2>6 DEF Worker
<1>4. ASSUME NEW r \in Replicas, Accident(r) PROVE Ownership'
  <2>1. ASSUME NEW j \in Jobs, ClaimAnswerLost(r, j) PROVE Ownership'
    BY <2>1 DEF ClaimAnswerLost, ClaimRow, OldestQueued, Queued
  <2>2. CASE StartFails(r) BY <2>2 DEF StartFails
  <2>3. CASE SaveProgress(r) BY <2>3 DEF SaveProgress, SaveJob
  <2>4. CASE PollCancel(r) BY <2>4 DEF PollCancel
  <2>5. CASE SaveFinalFails(r) BY <2>5 DEF SaveFinalFails
  <2>6. CASE ClearActiveFails(r) BY <2>6 DEF ClearActiveFails, Release, Forget
  <2>7. CASE Crash(r) BY <2>7 DEF Crash, Forget
  <2>8. QED BY <1>4, <2>1, <2>2, <2>3, <2>4, <2>5, <2>6, <2>7 DEF Accident
<1>5. QED
  BY <1>1, <1>2, <1>3, <1>4 DEF Next

-----------------------------------------------------------------------------
(* The guard. *)

LEMMA MutexInit == Init => Mutex
BY DEF Init, Mutex

LEMMA MutexStep ==
    ASSUME TypeOK, Ownership, Mutex, [Next]_vars
    PROVE  Mutex'
<1> USE NoJobAssumption
    DEF TypeOK, Ownership, AtMostOnce, Mutex, Executing, dbVars, workerVars, Fault, GoTo
<1>1. CASE UNCHANGED vars
  BY <1>1 DEF vars
<1>2. ASSUME NEW j \in Jobs, Caller(j) PROVE Mutex'
  <2>0. CASE StampJob(j) BY <2>0 DEF StampJob
  <2>1. CASE EnqueueJob(j) BY <2>1 DEF EnqueueJob
  <2>2. CASE RequestCancelRunning(j) BY <2>2 DEF RequestCancelRunning
  <2>3. CASE RequestCancelRead(j) BY <2>3 DEF RequestCancelRead
  <2>4. CASE RequestCancelWrite(j) BY <2>4 DEF RequestCancelWrite
  <2>5. CASE RequestCancelRollback(j) BY <2>5 DEF RequestCancelRollback
  <2>6. QED BY <1>2, <2>0, <2>1, <2>2, <2>3, <2>4, <2>5 DEF Caller
<1>3. ASSUME NEW r \in Replicas, Worker(r) PROVE Mutex'
  <2>1. ASSUME NEW j \in Jobs, Claim(r, j) PROVE Mutex'
    BY <2>1 DEF Claim, ClaimRow, OldestQueued, Queued
  <2>2. CASE StartDispatch(r) BY <2>2 DEF StartDispatch
  <2>3. CASE FinishDispatch(r) BY <2>3 DEF FinishDispatch, Outcomes
  <2>4. CASE SaveFinal(r) BY <2>4 DEF SaveFinal, SaveJob
  <2>5. CASE ClearActive(r) BY <2>5 DEF ClearActive, Release, Forget
  <2>6. CASE Boot(r) BY <2>6 DEF Boot, Recovered
  <2>7. QED BY <1>3, <2>1, <2>2, <2>3, <2>4, <2>5, <2>6 DEF Worker
<1>4. ASSUME NEW r \in Replicas, Accident(r) PROVE Mutex'
  <2>1. ASSUME NEW j \in Jobs, ClaimAnswerLost(r, j) PROVE Mutex'
    BY <2>1 DEF ClaimAnswerLost, ClaimRow, OldestQueued, Queued
  <2>2. CASE StartFails(r) BY <2>2 DEF StartFails
  <2>3. CASE SaveProgress(r) BY <2>3 DEF SaveProgress, SaveJob
  <2>4. CASE PollCancel(r) BY <2>4 DEF PollCancel
  <2>5. CASE SaveFinalFails(r) BY <2>5 DEF SaveFinalFails
  <2>6. CASE ClearActiveFails(r) BY <2>6 DEF ClearActiveFails, Release, Forget
  <2>7. CASE Crash(r) BY <2>7 DEF Crash, Forget
  <2>8. QED BY <1>4, <2>1, <2>2, <2>3, <2>4, <2>5, <2>6, <2>7 DEF Accident
<1>5. QED
  BY <1>1, <1>2, <1>3, <1>4 DEF Next

LEMMA HolderInit == Init => GuardHasHolder
BY DEF Init, GuardHasHolder

LEMMA HolderStep ==
    ASSUME TypeOK, Ownership, GuardHasHolder, [Next]_vars
    PROVE  GuardHasHolder'
<1> USE NoJobAssumption
    DEF TypeOK, Ownership, GuardHasHolder, Holds, dbVars, workerVars, Fault, GoTo
<1>1. CASE UNCHANGED vars
  BY <1>1 DEF vars
<1>2. ASSUME NEW j \in Jobs, Caller(j) PROVE GuardHasHolder'
  <2>0. CASE StampJob(j) BY <2>0 DEF StampJob
  <2>1. CASE EnqueueJob(j) BY <2>1 DEF EnqueueJob
  <2>2. CASE RequestCancelRunning(j) BY <2>2 DEF RequestCancelRunning
  <2>3. CASE RequestCancelRead(j) BY <2>3 DEF RequestCancelRead
  <2>4. CASE RequestCancelWrite(j) BY <2>4 DEF RequestCancelWrite
  <2>5. CASE RequestCancelRollback(j) BY <2>5 DEF RequestCancelRollback
  <2>6. QED BY <1>2, <2>0, <2>1, <2>2, <2>3, <2>4, <2>5 DEF Caller
<1>3. ASSUME NEW r \in Replicas, Worker(r) PROVE GuardHasHolder'
  <2>1. ASSUME NEW j \in Jobs, Claim(r, j) PROVE GuardHasHolder'
    BY <2>1 DEF Claim, ClaimRow, OldestQueued, Queued
  <2>2. CASE StartDispatch(r) BY <2>2 DEF StartDispatch
  <2>3. CASE FinishDispatch(r) BY <2>3 DEF FinishDispatch, Outcomes
  <2>4. CASE SaveFinal(r) BY <2>4 DEF SaveFinal, SaveJob
  <2>5. CASE ClearActive(r) BY <2>5 DEF ClearActive, Release, Forget
  <2>6. CASE Boot(r) BY <2>6 DEF Boot, Recovered
  <2>7. QED BY <1>3, <2>1, <2>2, <2>3, <2>4, <2>5, <2>6 DEF Worker
<1>4. ASSUME NEW r \in Replicas, Accident(r) PROVE GuardHasHolder'
  <2>1. ASSUME NEW j \in Jobs, ClaimAnswerLost(r, j) PROVE GuardHasHolder'
    BY <2>1 DEF ClaimAnswerLost, ClaimRow, OldestQueued, Queued
  <2>2. CASE StartFails(r) BY <2>2 DEF StartFails
  <2>3. CASE SaveProgress(r) BY <2>3 DEF SaveProgress, SaveJob
  <2>4. CASE PollCancel(r) BY <2>4 DEF PollCancel
  <2>5. CASE SaveFinalFails(r) BY <2>5 DEF SaveFinalFails
  <2>6. CASE ClearActiveFails(r) BY <2>6 DEF ClearActiveFails, Release, Forget
  <2>7. CASE Crash(r) BY <2>7 DEF Crash, Forget
  <2>8. QED BY <1>4, <2>1, <2>2, <2>3, <2>4, <2>5, <2>6, <2>7 DEF Accident
<1>5. QED
  BY <1>1, <1>2, <1>3, <1>4 DEF Next
-----------------------------------------------------------------------------
(* The inductive invariant, and what follows from it. *)

LEMMA Invariance == Spec => []IInv
<1>1. Init => IInv
  BY TypeInit, OwnershipInit, MutexInit, HolderInit DEF IInv
<1>2. IInv /\ [Next]_vars => IInv'
  BY TypeStep, OwnershipStep, MutexStep, HolderStep DEF IInv
<1>3. QED
  BY <1>1, <1>2, PTL DEF Spec

\* No job is claimed twice, nor held by two replicas, whatever fails, dies,
\* boots or is canceled meanwhile.
THEOREM ClaimedOnce == Spec => []AtMostOnce
<1>1. IInv => AtMostOnce
  BY DEF IInv, Ownership
<1>2. QED
  BY <1>1, Invariance, PTL

\* Executions overlap only after one of the two breaches: the broker_state row
\* is a mutex for any number of replicas otherwise.
THEOREM Serial == Spec => []SerialUnlessBreached
<1>1. IInv => SerialUnlessBreached
  <2> SUFFICES ASSUME IInv, breaches = {},
                      NEW q \in Replicas, NEW r \in Replicas,
                      Executing(q), Executing(r)
               PROVE  q = r
    BY DEF SerialUnlessBreached
  <2>1. job[q] # NoJob /\ job[r] # NoJob
    BY DEF IInv, Ownership, Executing
  <2>2. job[q] = job[r]
    BY <2>1 DEF IInv, Mutex
  <2>3. QED
    BY <2>1, <2>2 DEF IInv, Ownership, AtMostOnce
<1>2. QED
  BY <1>1, Invariance, PTL

\* The guard is left behind only by a failed call or by a replica that is down.
THEOREM GuardReleased == Spec => []GuardHasHolder
<1>1. IInv => GuardHasHolder
  BY DEF IInv
<1>2. QED
  BY <1>1, Invariance, PTL
\* A cancel that reads "queued" is the only breach but the boot of a replica
\* beside another: where none is under way at a claim, what the comment of claim
\* says of the state-row lock holds (jobs_cancel_race shows that it is needed).
THEOREM SerialWithoutCancels == ASSUME MaxCancels = 0 PROVE Spec => []SerialUnlessBoot
<1> DEFINE NoCancel == /\ \A j \in Jobs : staleCancels[j] = 0
                       /\ "cancel" \notin breaches
<1>1. Init => NoCancel
  BY DEF Init
<1>2. IInv /\ NoCancel /\ [Next]_vars => NoCancel'
  <2> SUFFICES ASSUME IInv, NoCancel, [Next]_vars PROVE NoCancel'
    OBVIOUS
  <2>1. ASSUME NEW j \in Jobs, RequestCancelRead(j) PROVE FALSE
    BY <2>1 DEF RequestCancelRead
  <2>2. ASSUME NEW j \in Jobs, RequestCancelWrite(j) \/ RequestCancelRollback(j) PROVE FALSE
    BY <2>2 DEF RequestCancelWrite, RequestCancelRollback
  <2>3. ASSUME NEW j \in Jobs, Caller(j) PROVE UNCHANGED <<staleCancels, breaches>>
    BY <2>1, <2>2, <2>3 DEF Caller, StampJob, EnqueueJob, RequestCancelRunning
  <2>4. ASSUME NEW r \in Replicas, Boot(r) PROVE NoCancel'
    BY <2>4 DEF Boot
  <2>5. ASSUME NEW r \in Replicas, Worker(r), ~Boot(r)
        PROVE  UNCHANGED <<staleCancels, breaches>>
    BY <2>5 DEF Worker, Claim, ClaimRow, StartDispatch, FinishDispatch, SaveFinal,
                ClearActive
  <2>6. ASSUME NEW r \in Replicas, Accident(r) PROVE UNCHANGED <<staleCancels, breaches>>
    BY <2>6 DEF Accident, SaveProgress, PollCancel, Crash, ClaimAnswerLost, ClaimRow,
                StartFails, SaveFinalFails, ClearActiveFails
  <2>7. CASE UNCHANGED vars
    BY <2>7 DEF vars
  <2>8. QED
    BY <2>3, <2>4, <2>5, <2>6, <2>7 DEF Next
<1>3. IInv /\ NoCancel => breaches = {} \/ "boot" \in breaches
  BY DEF IInv, TypeOK
<1>4. SerialUnlessBreached /\ (breaches = {} \/ "boot" \in breaches) => SerialUnlessBoot
  BY DEF SerialUnlessBreached, SerialUnlessBoot
<1>5. QED
  <2> HIDE DEF NoCancel
  <2> QED
    BY <1>1, <1>2, <1>3, <1>4, Serial, Invariance, PTL DEF Spec

-----------------------------------------------------------------------------
(* Finality. *)

\* A final status is rewritten by no step but the breaches.
Final(j) == jobStatus[j] \in Terminal => jobStatus'[j] = jobStatus[j]

LEMMA FinalStep ==
    ASSUME TypeOK, Ownership, Mutex, [Next]_vars, breaches' = {},
           NEW i \in Jobs
    PROVE  Final(i)
<1> USE NoJobAssumption
    DEF TypeOK, Ownership, Mutex, Final, Executing, dbVars, workerVars, Fault, GoTo
<1>1. CASE UNCHANGED vars
  BY <1>1 DEF vars
<1>2. ASSUME NEW j \in Jobs, Caller(j) PROVE Final(i)
  <2>0. CASE StampJob(j) BY <2>0 DEF StampJob
  <2>1. CASE EnqueueJob(j) BY <2>1 DEF EnqueueJob
  <2>2. CASE RequestCancelRunning(j) BY <2>2 DEF RequestCancelRunning
  <2>3. CASE RequestCancelRead(j) BY <2>3 DEF RequestCancelRead
  <2>4. CASE RequestCancelWrite(j) BY <2>4 DEF RequestCancelWrite
  <2>5. CASE RequestCancelRollback(j) BY <2>5 DEF RequestCancelRollback
  <2>6. QED BY <1>2, <2>0, <2>1, <2>2, <2>3, <2>4, <2>5 DEF Caller
<1>3. ASSUME NEW r \in Replicas, Worker(r) PROVE Final(i)
  <2>1. ASSUME NEW j \in Jobs, Claim(r, j) PROVE Final(i)
    BY <2>1 DEF Claim, ClaimRow, OldestQueued, Queued
  <2>2. CASE StartDispatch(r) BY <2>2 DEF StartDispatch
  <2>3. CASE FinishDispatch(r) BY <2>3 DEF FinishDispatch, Outcomes
  <2>4. CASE SaveFinal(r) BY <2>4 DEF SaveFinal, SaveJob
  <2>5. CASE ClearActive(r) BY <2>5 DEF ClearActive, Release, Forget
  <2>6. CASE Boot(r) BY <2>6 DEF Boot, Recovered
  <2>7. QED BY <1>3, <2>1, <2>2, <2>3, <2>4, <2>5, <2>6 DEF Worker
<1>4. ASSUME NEW r \in Replicas, Accident(r) PROVE Final(i)
  <2>1. ASSUME NEW j \in Jobs, ClaimAnswerLost(r, j) PROVE Final(i)
    BY <2>1 DEF ClaimAnswerLost, ClaimRow, OldestQueued, Queued
  <2>2. CASE StartFails(r) BY <2>2 DEF StartFails
  <2>3. CASE SaveProgress(r) BY <2>3 DEF SaveProgress, SaveJob
  <2>4. CASE PollCancel(r) BY <2>4 DEF PollCancel
  <2>5. CASE SaveFinalFails(r) BY <2>5 DEF SaveFinalFails
  <2>6. CASE ClearActiveFails(r) BY <2>6 DEF ClearActiveFails, Release, Forget
  <2>7. CASE Crash(r) BY <2>7 DEF Crash, Forget
  <2>8. QED BY <1>4, <2>1, <2>2, <2>3, <2>4, <2>5, <2>6, <2>7 DEF Accident
<1>5. QED
  BY <1>1, <1>2, <1>3, <1>4 DEF Next

\* A status shown as final stays, except across the two breaches.
THEOREM Finality == Spec => FinalUnlessBreached
<1>1. IInv /\ [Next]_vars =>
        [breaches' = {} => \A j \in Jobs :
            jobStatus[j] \in Terminal => jobStatus'[j] = jobStatus[j]]_vars
  BY FinalStep DEF IInv, Final
<1>2. QED
  BY <1>1, Invariance, PTL DEF Spec, FinalUnlessBreached

-----------------------------------------------------------------------------
(* The queue implements OneShotQueue. *)

LEMMA PromiseInit == Init => Promise!Init
BY NoJobAssumption DEF Init, Promise!Init, PhaseOf, Phase, Executing

LEMMA PhaseMoves ==
    ASSUME NEW j \in Jobs, NEW from, NEW to, Phase(j) = from, Phase(j)' = to,
           \A i \in Jobs : i # j => Phase(i)' = Phase(i)
    PROVE  Promise!Move(j, from, to)
BY DEF Promise!Move, PhaseOf

LEMMA PhaseStays ==
    ASSUME \A i \in Jobs : Phase(i)' = Phase(i)
    PROVE  PhaseOf' = PhaseOf
BY DEF PhaseOf

\* The worker of r stops executing its job: the job is finished.
LEMMA ExecutionEnds ==
    ASSUME TypeOK, Ownership, NEW r \in Replicas, Executing(r), ~Executing(r)',
           \A q \in Replicas : q # r => job'[q] = job[q] /\ pc'[q] = pc[q],
           job'[r] \in {job[r], NoJob},
           UNCHANGED <<jobStatus, createdAt, enqueued, staleCancels, breaches>>
    PROVE  [Promise!Next]_(Promise!vars)
<1>1. PICK j \in Jobs : j = job[r]
  BY NoJobAssumption DEF TypeOK, Ownership, Executing
<1>2. claims[j] = 1 /\ jobStatus[j] \notin {"absent", "queued"}
  BY <1>1, NoJobAssumption DEF TypeOK, Ownership, Executing
<1>3. Phase(j) = "working"
  BY <1>1, <1>2 DEF Phase, Holds
<1>4. \A q \in Replicas : q # r => job[q] # j
  BY <1>1, NoJobAssumption DEF Ownership, AtMostOnce
<1>5. Phase(j)' = "finished"
  <2>1. \A q \in Replicas : ~(Holds(q, j)' /\ Executing(q)')
    BY <1>1, <1>4 DEF Holds
  <2>2. QED
    BY <1>2, <2>1 DEF Phase
<1>6. ASSUME NEW i \in Jobs, i # j PROVE Phase(i)' = Phase(i)
  <2>1. ASSUME NEW q \in Replicas
        PROVE  Holds(q, i)' /\ Executing(q)' <=> Holds(q, i) /\ Executing(q)
    BY <1>1, <1>6, NoJobAssumption DEF Holds, Executing
  <2>2. QED
    BY <2>1 DEF Phase
<1>7. Promise!Finish(j)
  BY <1>1, <1>3, <1>5, <1>6, PhaseMoves DEF Promise!Finish
<1>8. QED
  BY <1>1, <1>7 DEF Promise!Next

LEMMA PromiseStep ==
    ASSUME TypeOK, Ownership, Mutex, [Next]_vars
    PROVE  [Promise!Next]_(Promise!vars)
<1> USE NoJobAssumption
    DEF TypeOK, Ownership, Executing, Holds, dbVars, workerVars, Fault, GoTo
<1> DEFINE Goal == [Promise!Next]_(Promise!vars)
           Withdrawing == {j \in Jobs : staleCancels[j] > 0}
<1>1. ASSUME \A i \in Jobs : Phase(i)' = Phase(i),
             UNCHANGED <<createdAt, enqueued, staleCancels, breaches>>
      PROVE  Goal
  BY <1>1, PhaseStays DEF Promise!vars
<1>2. ASSUME \A i \in Jobs : Phase(i)' = Phase(i), breaches' # {},
             UNCHANGED <<createdAt, enqueued, staleCancels>>
      PROVE  Goal
  BY <1>2, PhaseStays DEF Promise!Next, Promise!Relax
<1>3. CASE UNCHANGED vars
  BY <1>1, <1>3 DEF vars, Phase
<1>4. ASSUME NEW j \in Jobs, Caller(j) PROVE Goal
  <2>0. CASE StampJob(j)
    <3>1. \A i \in Jobs : Phase(i)' = Phase(i)
      BY <2>0 DEF StampJob, Phase
    <3>2. PhaseOf[j] = "absent"
      BY <2>0 DEF StampJob, PhaseOf, Phase
    <3>3. Promise!Draw(j)
      BY <2>0, <3>1, <3>2, PhaseStays DEF StampJob, Promise!Draw
    <3>4. QED
      BY <3>3 DEF Promise!Next
  <2>1. CASE EnqueueJob(j)
    <3>1. Promise!Move(j, "absent", "waiting")
      BY <2>1, PhaseMoves DEF EnqueueJob, Phase
    <3>2. Promise!Submit(j)
      BY <2>1, <3>1 DEF EnqueueJob, Promise!Submit
    <3>3. QED
      BY <3>2 DEF Promise!Next
  <2>2. CASE RequestCancelRunning(j)
    BY <1>1, <2>2 DEF RequestCancelRunning, Phase
  <2>3. CASE RequestCancelRead(j)
    <3>1. \A i \in Jobs : Phase(i)' = Phase(i)
      BY <2>3 DEF RequestCancelRead, Phase
    <3>2. PhaseOf[j] = "waiting"
      BY <2>3 DEF RequestCancelRead, PhaseOf, Phase
    <3>3. Withdrawing' = Withdrawing \cup {j}
      BY <2>3 DEF RequestCancelRead
    <3>4. Promise!Withdraw(j)
      BY <2>3, <3>1, <3>2, <3>3, PhaseStays DEF RequestCancelRead, Promise!Withdraw
    <3>5. QED
      BY <3>4 DEF Promise!Next
  <2>4. CASE RequestCancelWrite(j)
    <3>1. \A i \in Jobs : i # j => Phase(i)' = Phase(i)
      BY <2>4 DEF RequestCancelWrite, Phase
    <3>2. UNCHANGED <<createdAt, enqueued>>
      BY <2>4 DEF RequestCancelWrite
    <3>3. Withdrawing' \in {Withdrawing, Withdrawing \ {j}}
      BY <2>4 DEF RequestCancelWrite
    <3>4. CASE jobStatus[j] = "queued"
      <4>1. \A r \in Replicas : job[r] # j
        BY <3>4
      <4>2. Phase(j) = "waiting" /\ Phase(j)' = "finished"
        BY <2>4, <3>4, <4>1 DEF RequestCancelWrite, Phase
      <4>3. breaches' = breaches
        BY <2>4, <3>4 DEF RequestCancelWrite
      <4>4. Promise!Drop(j)
        BY <3>1, <3>2, <3>3, <4>2, <4>3, PhaseMoves DEF Promise!Drop
      <4>5. QED
        BY <4>4 DEF Promise!Next
    <3>5. CASE jobStatus[j] # "queued"
      <4>1. \A i \in Jobs : Phase(i)' = Phase(i)
        BY <2>4, <3>1, <3>5 DEF RequestCancelWrite, Phase
      <4>2. PhaseOf' = PhaseOf
        BY <4>1, PhaseStays
      <4>3. breaches' = breaches \/ breaches' # {}
        BY <2>4 DEF RequestCancelWrite
      <4>4. CASE Withdrawing' = Withdrawing
        BY <3>2, <4>2, <4>3, <4>4 DEF Promise!vars, Promise!Next, Promise!Relax
      <4>5. CASE Withdrawing' = Withdrawing \ {j}
        <5>1. Promise!Relent(j)
          BY <3>2, <4>2, <4>3, <4>5 DEF Promise!Relent
        <5>2. QED
          BY <5>1 DEF Promise!Next
      <4>6. QED
        BY <3>3, <4>4, <4>5
    <3>6. QED
      BY <3>4, <3>5
  <2>5. CASE RequestCancelRollback(j)
    <3>1. \A i \in Jobs : Phase(i)' = Phase(i)
      BY <2>5 DEF RequestCancelRollback, Phase
    <3>2. UNCHANGED <<createdAt, enqueued, breaches>>
      BY <2>5 DEF RequestCancelRollback
    <3>3. Withdrawing' \in {Withdrawing, Withdrawing \ {j}}
      BY <2>5 DEF RequestCancelRollback
    <3>4. CASE Withdrawing' = Withdrawing
      BY <3>1, <3>2, <3>4, PhaseStays DEF Promise!vars
    <3>5. CASE Withdrawing' = Withdrawing \ {j}
      <4>1. Promise!Relent(j)
        BY <3>1, <3>2, <3>5, PhaseStays DEF Promise!Relent
      <4>2. QED
        BY <4>1 DEF Promise!Next
    <3>6. QED
      BY <3>3, <3>4, <3>5
  <2>6. QED
    BY <1>4, <2>0, <2>1, <2>2, <2>3, <2>4, <2>5 DEF Caller
<1>5. ASSUME NEW r \in Replicas, Worker(r) PROVE Goal
  <2>1. ASSUME NEW j \in Jobs, Claim(r, j) PROVE Goal
    <3>1. \A q \in Replicas : job[q] # j
      BY <2>1 DEF Claim, ClaimRow, OldestQueued, Queued
    <3>2. Phase(j) = "waiting" /\ Phase(j)' = "working"
      BY <2>1, <3>1 DEF Claim, ClaimRow, OldestQueued, Queued, Phase
    <3>3. ASSUME NEW i \in Jobs, i # j PROVE Phase(i)' = Phase(i)
      <4>1. job[r] = NoJob
        BY <2>1 DEF Claim
      <4>2. ASSUME NEW q \in Replicas
            PROVE  Holds(q, i)' /\ Executing(q)' <=> Holds(q, i) /\ Executing(q)
        BY <2>1, <3>3, <4>1 DEF Claim
      <4>3. jobStatus'[i] = jobStatus[i]
        BY <2>1, <3>3 DEF Claim, ClaimRow
      <4>4. QED
        BY <4>2, <4>3 DEF Phase
    <3>4. UNCHANGED <<createdAt, enqueued, staleCancels, breaches>>
      BY <2>1 DEF Claim, ClaimRow
    <3>5. \A i \in Jobs \ Withdrawing : PhaseOf[i] = "waiting" => createdAt[j] <= createdAt[i]
      BY <2>1 DEF Claim, ClaimRow, OldestQueued, Queued, PhaseOf, Phase
    <3>6. breaches # {} \/ \A i \in Jobs : PhaseOf[i] # "working"
      <4> SUFFICES ASSUME breaches = {}, NEW i \in Jobs PROVE Phase(i) # "working"
        BY DEF PhaseOf
      <4>1. \A q \in Replicas : job[q] = NoJob
        BY <2>1 DEF Claim, ClaimRow, Mutex
      <4>2. QED
        BY <4>1 DEF Phase
    <3>7. Promise!Begin(j)
      BY <3>2, <3>3, <3>4, <3>5, <3>6, PhaseMoves DEF Promise!Begin
    <3>8. QED
      BY <3>7 DEF Promise!Next
  <2>2. CASE StartDispatch(r) BY <1>1, <2>2 DEF StartDispatch, Phase
  <2>3. CASE FinishDispatch(r) BY <2>3, ExecutionEnds DEF FinishDispatch
  <2>4. CASE SaveFinal(r) BY <1>1, <2>4 DEF SaveFinal, SaveJob, Phase
  <2>5. CASE ClearActive(r) BY <1>1, <2>5 DEF ClearActive, Release, Forget, Phase
  <2>6. CASE Boot(r)
    <3>1. \A i \in Jobs : Phase(i)' = Phase(i)
      BY <2>6 DEF Boot, Recovered, Phase
    <3>2. QED
      BY <1>1, <1>2, <2>6, <3>1 DEF Boot
  <2>7. QED
    BY <1>5, <2>1, <2>2, <2>3, <2>4, <2>5, <2>6 DEF Worker
<1>6. ASSUME NEW r \in Replicas, Accident(r) PROVE Goal
  <2>1. ASSUME NEW j \in Jobs, ClaimAnswerLost(r, j) PROVE Goal
    <3>1. \A q \in Replicas : job[q] # j
      BY <2>1 DEF ClaimAnswerLost, ClaimRow, OldestQueued, Queued
    <3>2. Phase(j) = "waiting" /\ Phase(j)' = "finished"
      BY <2>1, <3>1 DEF ClaimAnswerLost, ClaimRow, OldestQueued, Queued, Phase
    <3>3. \A i \in Jobs : i # j => Phase(i)' = Phase(i)
      BY <2>1 DEF ClaimAnswerLost, ClaimRow, Phase
    <3>4. Promise!Drop(j)
      BY <2>1, <3>2, <3>3, PhaseMoves DEF Promise!Drop, ClaimAnswerLost, ClaimRow
    <3>5. QED
      BY <3>4 DEF Promise!Next
  <2>2. CASE StartFails(r) BY <2>2, ExecutionEnds DEF StartFails
  <2>3. CASE SaveProgress(r) BY <1>1, <2>3 DEF SaveProgress, SaveJob, Phase
  <2>4. CASE PollCancel(r) BY <1>1, <2>4 DEF PollCancel, Phase
  <2>5. CASE SaveFinalFails(r) BY <1>1, <2>5 DEF SaveFinalFails, Phase
  <2>6. CASE ClearActiveFails(r) BY <1>1, <2>6 DEF ClearActiveFails, Release, Forget, Phase
  <2>7. CASE Crash(r)
    <3>1. CASE Executing(r)
      BY <2>7, <3>1, ExecutionEnds DEF Crash, Forget
    <3>2. CASE ~Executing(r)
      BY <1>1, <2>7, <3>2 DEF Crash, Forget, Phase
    <3>3. QED
      BY <3>1, <3>2
  <2>8. QED
    BY <1>6, <2>1, <2>2, <2>3, <2>4, <2>5, <2>6, <2>7 DEF Accident
<1>7. QED
  BY <1>3, <1>4, <1>5, <1>6 DEF Next

\* Whatever happens to the database calls and the processes, the users of the
\* table see a OneShotQueue.
THEOREM Refinement == Spec => KeepsPromise
<1>1. IInv /\ [Next]_vars => [Promise!Next]_(Promise!vars)
  BY PromiseStep DEF IInv
<1>2. QED
  BY <1>1, PromiseInit, Invariance, PTL DEF Spec, KeepsPromise, Promise!Spec

-----------------------------------------------------------------------------
(* The secret overlay of a worker's process, for any number of inline calls. *)

\* Whoever owns the overlay is at work under it.
OwnerAtWork ==
    /\ overlay = Job => jobStep = "dispatching"
    /\ \A c \in InlineCalls : overlay = c => callStep[c] = "primed"

\* A call that found no active job is under way beside a job only if it was
\* there when the job was claimed.
NoneUnderWay ==
    jobStep \in {"hydrating", "dispatching"} /\ ~raced
        => \A c \in InlineCalls : ~UnderWay(c)

OverlayIInv == OverlayTypeOK /\ OwnerAtWork /\ NoneUnderWay /\ JobKeepsSecretsUnlessRaced

LEMMA InitOverlayIInv == OverlayInit => OverlayIInv
BY OwnersAssumption DEF OverlayInit, OverlayIInv, OverlayTypeOK, OwnerAtWork, NoneUnderWay,
    JobKeepsSecretsUnlessRaced, UnderWay, CallSteps

LEMMA NextOverlayIInv == OverlayIInv /\ [OverlayNext]_overlayVars => OverlayIInv'
<1>1. SUFFICES ASSUME OverlayIInv, [OverlayNext]_overlayVars PROVE OverlayIInv'
  OBVIOUS
<1> USE OwnersAssumption
<1> USE DEF OverlayIInv, OverlayTypeOK, OwnerAtWork, NoneUnderWay, JobKeepsSecretsUnlessRaced,
            UnderWay, CallSteps
<1>2. CASE ClaimJob
  BY <1>1, <1>2 DEF ClaimJob
<1>3. CASE InstallJob
  BY <1>1, <1>3 DEF InstallJob
<1>4. CASE EndJob
  BY <1>1, <1>4 DEF EndJob
<1>5. CASE ReleaseJob
  BY <1>1, <1>5 DEF ReleaseJob
<1>6. ASSUME NEW c \in InlineCalls, PrimeCall(c) PROVE OverlayIInv'
  BY <1>1, <1>6 DEF PrimeCall, CallTo, FoundIdle
<1>7. ASSUME NEW c \in InlineCalls, InstallCall(c) PROVE OverlayIInv'
  BY <1>1, <1>7 DEF InstallCall, CallTo
<1>8. ASSUME NEW c \in InlineCalls, PrimeFails(c) PROVE OverlayIInv'
  BY <1>1, <1>8 DEF PrimeFails, CallTo
<1>9. ASSUME NEW c \in InlineCalls, ReleaseCall(c) PROVE OverlayIInv'
  BY <1>1, <1>9 DEF ReleaseCall, CallTo
<1>10. ASSUME NEW c \in InlineCalls, EndPassing(c) PROVE OverlayIInv'
  BY <1>1, <1>10 DEF EndPassing, CallTo
<1>11. CASE UNCHANGED overlayVars
  BY <1>1, <1>11 DEF overlayVars
<1>12. QED
  BY <1>1, <1>2, <1>3, <1>4, <1>5, <1>6, <1>7, <1>8, <1>9, <1>10, <1>11 DEF OverlayNext

LEMMA OverlayInvariance == OverlaySpec => []OverlayIInv
BY InitOverlayIInv, NextOverlayIInv, PTL DEF OverlaySpec

\* Every variable keeps its type; in particular the guard is set exactly while a
\* job is in hand.
THEOREM OverlayTypeCorrect == OverlaySpec => []OverlayTypeOK
<1>1. OverlayIInv => OverlayTypeOK
  BY DEF OverlayIInv
<1>2. QED
  BY <1>1, OverlayInvariance, PTL

\* The overlay is empty whenever neither the job nor a call is at work under it.
THEOREM LeavesNothing == OverlaySpec => []NothingLeftBehind
<1>1. OverlayIInv => NothingLeftBehind
  BY DEF OverlayIInv, OverlayTypeOK, OwnerAtWork, NothingLeftBehind
<1>2. QED
  BY <1>1, OverlayInvariance, PTL

\* A job keeps its secrets unless a call was under way when it was claimed.
THEOREM JobKeeps == OverlaySpec => []JobKeepsSecretsUnlessRaced
<1>1. OverlayIInv => JobKeepsSecretsUnlessRaced
  BY DEF OverlayIInv
<1>2. QED
  BY <1>1, OverlayInvariance, PTL
=============================================================================
