-------------------------- MODULE ProvisioningJobs --------------------------
(***************************************************************************)
(* The provisioning job queue: rows of provisioning_jobs and the           *)
(* broker_state row in Postgres, the API replicas that each run a          *)
(* ProvisioningJobWorker (jobWorker.ts), and the callers of enqueueJob and *)
(* requestCancel (provisioningService.ts).                                 *)
(*                                                                         *)
(* One action is one committed transaction or one stretch of a worker      *)
(* between two awaits.  requestCancel is two actions: in READ COMMITTED    *)
(* its plain SELECT holds nothing until its UPDATE, which then locks the   *)
(* row until the commit.  So is enqueueJob: NOW() is the time at which its *)
(* transaction began, and its row is seen when the transaction commits.    *)
(***************************************************************************)
EXTENDS Naturals

CONSTANTS
    Replicas,       \* the API processes that run a worker
    Jobs,           \* the ids enqueueJob may create
    NoJob,          \* broker_state.active_job_id IS NULL
    MaxCancels,     \* bound: requestCancel calls of one job in flight at once
    FaultyCalls,    \* which of the calls in Calls may fail
    MaxFaults,      \* bound: database calls that fail
    MaxCrashes      \* bound: times a replica stops or dies

\* The transactions whose failure the code survives, by what they are part of.
Calls == {"cancel", "claim", "start", "save", "clear"}

ASSUME NoJobAssumption == NoJob \notin Jobs
ASSUME FaultyCallsAssumption == FaultyCalls \subseteq Calls
ASSUME BoundsAssumption == {MaxCancels, MaxFaults, MaxCrashes} \subseteq Nat

VARIABLES
    jobStatus,          \* provisioning_jobs.status ("absent": no such row yet)
    cancelRequested,    \* provisioning_jobs.cancel_requested
    createdAt,          \* provisioning_jobs.created_at (0: not stamped yet)
    enqueued,           \* the clock of created_at: the rows stamped so far
    activeJob,          \* broker_state.active_job_id
    pc,                 \* pc[r]: where the worker of replica r is
    job,                \* job[r]: the id of runJob's JobRecord
    memStatus,          \* memStatus[r]: the status of runJob's JobRecord
    aborted,            \* aborted[r]: the cancel poll has aborted the job
    staleCancels,       \* requestCancel calls that have read "queued" for j
    claims,             \* history: how often j has been claimed
    breaches,           \* history: "cancel" once a cancel was written over a
                        \* claimed job, "boot" once a replica has booted
                        \* while another one had a job in hand
    faults, crashes     \* how much of the bounds is used up

dbVars == <<jobStatus, cancelRequested, createdAt, enqueued, activeJob>>
workerVars == <<pc, job, memStatus, aborted>>
vars == <<dbVars, workerVars, staleCancels, claims, breaches, faults, crashes>>

Terminal == {"succeeded", "failed", "canceled"}
Statuses == {"absent", "queued", "running"} \cup Terminal
WorkerSteps == {"down", "idle", "claimed", "dispatching", "saving", "clearing"}

TypeOK ==
    /\ jobStatus \in [Jobs -> Statuses]
    /\ cancelRequested \in [Jobs -> BOOLEAN]
    /\ createdAt \in [Jobs -> Nat]
    /\ enqueued \in Nat
    /\ activeJob \in Jobs \cup {NoJob}
    /\ pc \in [Replicas -> WorkerSteps]
    /\ job \in [Replicas -> Jobs \cup {NoJob}]
    /\ memStatus \in [Replicas -> {"running"} \cup Terminal]
    /\ aborted \in [Replicas -> BOOLEAN]
    /\ staleCancels \in [Jobs -> Nat]
    /\ claims \in [Jobs -> Nat]
    /\ breaches \subseteq {"cancel", "boot"}
    /\ faults \in Nat
    /\ crashes \in Nat

Init ==
    /\ jobStatus = [j \in Jobs |-> "absent"]
    /\ cancelRequested = [j \in Jobs |-> FALSE]
    /\ createdAt = [j \in Jobs |-> 0]
    /\ enqueued = 0
    /\ activeJob = NoJob
    /\ pc = [r \in Replicas |-> "down"]
    /\ job = [r \in Replicas |-> NoJob]
    /\ memStatus = [r \in Replicas |-> "running"]
    /\ aborted = [r \in Replicas |-> FALSE]
    /\ staleCancels = [j \in Jobs |-> 0]
    /\ claims = [j \in Jobs |-> 0]
    /\ breaches = {}
    /\ faults = 0
    /\ crashes = 0

\* A database call throws.
Fault(call) ==
    /\ call \in FaultyCalls
    /\ faults < MaxFaults
    /\ faults' = faults + 1

-----------------------------------------------------------------------------
(* The callers of the service. *)

\* enqueueJob's transaction begins, which is what created_at will say ...
StampJob(j) ==
    /\ jobStatus[j] = "absent"
    /\ createdAt[j] = 0
    /\ enqueued' = enqueued + 1
    /\ createdAt' = [createdAt EXCEPT ![j] = enqueued + 1]
    /\ UNCHANGED <<jobStatus, cancelRequested, activeJob, workerVars, staleCancels,
                   claims, breaches, faults, crashes>>

\* ... and commits: a fresh row, "queued".
EnqueueJob(j) ==
    /\ jobStatus[j] = "absent"
    /\ createdAt[j] > 0
    /\ jobStatus' = [jobStatus EXCEPT ![j] = "queued"]
    /\ UNCHANGED <<cancelRequested, createdAt, enqueued, activeJob, workerVars,
                   staleCancels, claims, breaches, faults, crashes>>

\* requestCancel reads "running": the flag the worker polls is raised.
RequestCancelRunning(j) ==
    /\ jobStatus[j] = "running"
    /\ cancelRequested' = [cancelRequested EXCEPT ![j] = TRUE]
    /\ UNCHANGED <<jobStatus, createdAt, enqueued, activeJob, workerVars,
                   staleCancels, claims, breaches, faults, crashes>>

\* requestCancel reads "queued" and has not written yet.
RequestCancelRead(j) ==
    /\ jobStatus[j] = "queued"
    /\ staleCancels[j] < MaxCancels
    /\ staleCancels' = [staleCancels EXCEPT ![j] = @ + 1]
    /\ UNCHANGED <<dbVars, workerVars, claims, breaches, faults, crashes>>

\* Its UPDATEs: by id alone, whatever the status has become meanwhile.
RequestCancelWrite(j) ==
    /\ staleCancels[j] > 0
    /\ staleCancels' = [staleCancels EXCEPT ![j] = @ - 1]
    /\ jobStatus' = [jobStatus EXCEPT ![j] = "canceled"]
    /\ cancelRequested' = [cancelRequested EXCEPT ![j] = TRUE]
    /\ activeJob' = IF activeJob = j THEN NoJob ELSE activeJob
    /\ breaches' = breaches \cup (IF claims[j] > 0 THEN {"cancel"} ELSE {})
    /\ UNCHANGED <<createdAt, enqueued, workerVars, claims, faults, crashes>>

\* Its transaction rolls back instead.
RequestCancelRollback(j) ==
    /\ staleCancels[j] > 0
    /\ Fault("cancel")
    /\ staleCancels' = [staleCancels EXCEPT ![j] = @ - 1]
    /\ UNCHANGED <<dbVars, workerVars, claims, breaches, crashes>>

-----------------------------------------------------------------------------
(* The worker of a replica. *)

Queued == {j \in Jobs : jobStatus[j] = "queued"}

\* Defect: ORDER BY created_at DESC.
NewestQueued(j) ==
    /\ j \in Queued
    /\ \A i \in Queued : createdAt[i] <= createdAt[j]

\* SKIP LOCKED: a row that a cancel has updated and not committed is passed over.
OldestQueued(j) ==
    /\ j \in Queued
    /\ \A i \in Queued : createdAt[j] <= createdAt[i] \/ staleCancels[i] > 0

\* Defect: the row lock on broker_state is taken but its value is not looked at.
ClaimRowUnguarded(j) ==
    /\ OldestQueued(j)
    /\ jobStatus' = [jobStatus EXCEPT ![j] = "running"]
    /\ activeJob' = j
    /\ claims' = [claims EXCEPT ![j] = @ + 1]
    /\ UNCHANGED <<cancelRequested, createdAt, enqueued, staleCancels, breaches,
                   crashes>>

\* claim()'s transaction: the broker_state row is the mutex, the oldest queued
\* row becomes "running", and the guard is set with it.
ClaimRow(j) ==
    /\ activeJob = NoJob
    /\ OldestQueued(j)
    /\ jobStatus' = [jobStatus EXCEPT ![j] = "running"]
    /\ activeJob' = j
    /\ claims' = [claims EXCEPT ![j] = @ + 1]
    /\ UNCHANGED <<cancelRequested, createdAt, enqueued, staleCancels, breaches,
                   crashes>>

Claim(r, j) ==
    /\ pc[r] = "idle"
    /\ ClaimRow(j)
    /\ pc' = [pc EXCEPT ![r] = "claimed"]
    /\ job' = [job EXCEPT ![r] = j]
    /\ UNCHANGED <<memStatus, aborted, faults>>

\* The claim commits but its answer is lost: "claim failed", and nobody runs j.
ClaimAnswerLost(r, j) ==
    /\ pc[r] = "idle"
    /\ ClaimRow(j)
    /\ Fault("claim")
    /\ UNCHANGED workerVars

GoTo(r, step) == pc' = [pc EXCEPT ![r] = step]

\* runJob up to the call of dispatch: setActiveJob(job.id), then the signal and
\* the secret overlay.
StartDispatch(r) ==
    /\ pc[r] = "claimed"
    /\ GoTo(r, "dispatching")
    /\ activeJob' = job[r]
    /\ UNCHANGED <<jobStatus, cancelRequested, createdAt, enqueued, job, memStatus,
                   aborted, staleCancels, claims, breaches, faults, crashes>>

\* setActiveJob or hydrateAll throws: the job fails before its dispatch.
StartFails(r) ==
    /\ pc[r] = "claimed"
    /\ Fault("start")
    /\ GoTo(r, "saving")
    /\ memStatus' = [memStatus EXCEPT ![r] = "failed"]
    /\ activeJob' \in {activeJob, job[r]}
    /\ UNCHANGED <<jobStatus, cancelRequested, createdAt, enqueued, job, aborted,
                   staleCancels, claims, breaches, crashes>>

SaveJob(r) == jobStatus' = [jobStatus EXCEPT ![job[r]] = memStatus[r]]

\* A log line persists the record, status and all: one of the dispatch, perhaps
\* late in the chain of writes, or one of the poll that outlives its timer.
SaveProgress(r) ==
    /\ pc[r] \in {"dispatching", "saving", "clearing"}
    /\ SaveJob(r)
    /\ UNCHANGED <<cancelRequested, createdAt, enqueued, activeJob, workerVars,
                   staleCancels, claims, breaches, faults, crashes>>

\* cancelTimer: the flag is seen and the running step is aborted.
PollCancel(r) ==
    /\ pc[r] = "dispatching"
    /\ cancelRequested[job[r]]
    /\ ~aborted[r]
    /\ aborted' = [aborted EXCEPT ![r] = TRUE]
    /\ UNCHANGED <<dbVars, pc, job, memStatus, staleCancels, claims, breaches,
                   faults, crashes>>

\* How dispatch can end: it returns (an abort may come too late), or throws.
Outcomes(r) == {"succeeded", IF aborted[r] THEN "canceled" ELSE "failed"}

FinishDispatch(r) ==
    /\ pc[r] = "dispatching"
    /\ GoTo(r, "saving")
    /\ \E s \in Outcomes(r) : memStatus' = [memStatus EXCEPT ![r] = s]
    /\ UNCHANGED <<dbVars, job, aborted, staleCancels, claims, breaches, faults,
                   crashes>>

\* The finally block: await persist() ...
SaveFinal(r) ==
    /\ pc[r] = "saving"
    /\ GoTo(r, "clearing")
    /\ SaveJob(r)
    /\ UNCHANGED <<cancelRequested, createdAt, enqueued, activeJob, job, memStatus,
                   aborted, staleCancels, claims, breaches, faults, crashes>>

\* ... whose failure is only logged ...
SaveFinalFails(r) ==
    /\ pc[r] = "saving"
    /\ Fault("save")
    /\ GoTo(r, "clearing")
    /\ UNCHANGED <<dbVars, job, memStatus, aborted, staleCancels, claims, breaches,
                   crashes>>

\* The record and the abort signal of runJob are garbage.
Forget(r) ==
    /\ job' = [job EXCEPT ![r] = NoJob]
    /\ memStatus' = [memStatus EXCEPT ![r] = "running"]
    /\ aborted' = [aborted EXCEPT ![r] = FALSE]

Release(r) == GoTo(r, "idle") /\ Forget(r)

\* Defect: the guard is not released.
ClearActiveForgotten(r) ==
    /\ pc[r] = "clearing"
    /\ Release(r)
    /\ UNCHANGED <<dbVars, staleCancels, claims, breaches, faults, crashes>>

\* ... and await setActiveJob(null), which clears the guard whoever holds it ...
ClearActive(r) ==
    /\ pc[r] = "clearing"
    /\ Release(r)
    /\ activeJob' = NoJob
    /\ UNCHANGED <<jobStatus, cancelRequested, createdAt, enqueued, staleCancels,
                   claims, breaches, faults, crashes>>

\* ... and whose failure the loop logs as "runJob crashed" before it goes on.
ClearActiveFails(r) ==
    /\ pc[r] = "clearing"
    /\ Fault("clear")
    /\ Release(r)
    /\ UNCHANGED <<dbVars, staleCancels, claims, breaches, crashes>>

\* The process dies wherever it is (idle: it may also have been stopped).
Crash(r) ==
    /\ pc[r] # "down"
    /\ crashes < MaxCrashes
    /\ crashes' = crashes + 1
    /\ GoTo(r, "down")
    /\ Forget(r)
    /\ UNCHANGED <<dbVars, staleCancels, claims, breaches, faults>>

\* Defects of recoverOrphans: the interrupted job is queued again; it gets a
\* status the table's CHECK refuses; every claimed row is failed, done or not;
\* the guard is left as it is.
RecoveredRequeued(s) == IF s = "running" THEN "queued" ELSE s

RecoveredInterrupted(s) == IF s = "running" THEN "interrupted" ELSE s

RecoveredAllFailed(s) == IF s \in {"absent", "queued"} THEN s ELSE "failed"

BootKeepsGuard(r) ==
    /\ pc[r] = "down"
    /\ GoTo(r, "idle")
    /\ jobStatus' = [j \in Jobs |->
            IF jobStatus[j] = "running" THEN "failed" ELSE jobStatus[j]]
    /\ UNCHANGED <<cancelRequested, createdAt, enqueued, activeJob, job, memStatus,
                   aborted, staleCancels, claims, breaches, faults, crashes>>

\* What recoverOrphans makes of a status.
Recovered(s) == IF s = "running" THEN "failed" ELSE s

\* start(): recoverOrphans fails every running row and clears the guard, then
\* the claim loop begins.
Boot(r) ==
    /\ pc[r] = "down"
    /\ GoTo(r, "idle")
    /\ jobStatus' = [j \in Jobs |-> Recovered(jobStatus[j])]
    /\ activeJob' = NoJob
    /\ breaches' = breaches \cup
            (IF \E q \in Replicas : job[q] # NoJob THEN {"boot"} ELSE {})
    /\ UNCHANGED <<cancelRequested, createdAt, enqueued, job, memStatus, aborted,
                   staleCancels, claims, faults, crashes>>

-----------------------------------------------------------------------------
Caller(j) ==
    \/ StampJob(j)
    \/ EnqueueJob(j)
    \/ RequestCancelRunning(j)
    \/ RequestCancelRead(j)
    \/ RequestCancelWrite(j)
    \/ RequestCancelRollback(j)

Worker(r) ==
    \/ \E j \in Jobs : Claim(r, j)
    \/ StartDispatch(r)
    \/ FinishDispatch(r)
    \/ SaveFinal(r)
    \/ ClearActive(r)
    \/ Boot(r)

\* What the worker is never bound to do.
Accident(r) ==
    \/ \E j \in Jobs : ClaimAnswerLost(r, j)
    \/ StartFails(r)
    \/ SaveProgress(r)
    \/ PollCancel(r)
    \/ SaveFinalFails(r)
    \/ ClearActiveFails(r)
    \/ Crash(r)

Next ==
    \/ \E j \in Jobs : Caller(j)
    \/ \E r \in Replicas : Worker(r) \/ Accident(r)

Spec == Init /\ [][Next]_vars

\* The loop runs as long as the process does, a dead process is restarted, and
\* a dispatch ends (runCommand's children exit or are killed).
Fairness == \A r \in Replicas : WF_vars(Worker(r))

FairSpec == Spec /\ Fairness

-----------------------------------------------------------------------------
(* Properties. *)

\* A replica has a job in hand from its claim to the end of runJob.
Holds(r, j) == job[r] = j
Executing(r) == pc[r] \in {"claimed", "dispatching"}

\* No job is ever claimed twice, nor in the hands of two replicas, across
\* crashes, boots that overlap a run, lost answers and stale cancels: terraform
\* is never applied a second time for one request.
AtMostOnce ==
    /\ \A j \in Jobs : claims[j] <= 1
    /\ \A q, r \in Replicas : job[q] = job[r] /\ job[r] # NoJob => q = r

\* Two jobs are executed at once only after a cancel that had read "queued" was
\* written over a claimed job, or a replica booted while another had a job in
\* hand: apart from those two, the broker_state row is a mutex.
SerialUnlessBreached ==
    breaches # {} \/ \A q, r \in Replicas : Executing(q) /\ Executing(r) => q = r

\* "The state-row lock is what prevents two replicas from each seeing no
\* running job and claiming different rows" (claim): no cancel breaks it.
SerialUnlessBoot ==
    "boot" \in breaches \/ \A q, r \in Replicas : Executing(q) /\ Executing(r) => q = r

\* The guard names a job that nobody has in hand only because a database call
\* failed or because the replica that had it is down: nothing else can leave
\* the queue shut.
GuardHasHolder ==
    \/ activeJob = NoJob
    \/ \E r \in Replicas : Holds(r, activeJob)
    \/ faults > 0
    \/ \E r \in Replicas : pc[r] = "down"

\* The status a user has been shown as final stays, unless one of the two
\* breaches above has occurred: late log writes, boot recovery and the
\* worker's own save never rewrite it.
FinalUnlessBreached ==
    [][breaches' = {} => \A j \in Jobs :
            jobStatus[j] \in Terminal => jobStatus'[j] = jobStatus[j]]_vars

\* Every queued job comes to an end, provided that no database call fails: a
\* setActiveJob(null) that fails leaves the guard set, and although the loop lives
\* on ("keep the claim loop alive") nothing is claimed again.
EveryJobSettles ==
    \/ <>(faults > 0)
    \/ \A j \in Jobs : jobStatus[j] = "queued" ~> jobStatus[j] \in Terminal

\* The queue as its users see it.
Phase(j) ==
    CASE jobStatus[j] = "absent" -> "absent"
      [] jobStatus[j] = "queued" -> "waiting"
      [] OTHER -> IF \E r \in Replicas : Holds(r, j) /\ Executing(r)
                  THEN "working" ELSE "finished"

PhaseOf == [j \in Jobs |-> Phase(j)]

Promise == INSTANCE OneShotQueue
    WITH phase <- PhaseOf, ticket <- createdAt, tickets <- enqueued,
         withdrawing <- {j \in Jobs : staleCancels[j] > 0},
         relaxed <- (breaches # {})

\* The table, the guard row and the workers implement OneShotQueue: a job once
\* claimed never waits again, and jobs are claimed in the order of created_at
\* except past a row whose cancel is in flight, whatever fails or dies.
KeepsPromise == Promise!Spec
=============================================================================
