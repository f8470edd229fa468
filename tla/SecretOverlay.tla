---------------------------- MODULE SecretOverlay ----------------------------
(***************************************************************************)
(* The overlay of secrets in one API process (utils/secretSource.ts): a    *)
(* global that the job worker installs for its job (jobWorker.ts) and that *)
(* the broker's inline provider calls, power actions, credential checks    *)
(* and reconciliations, install for themselves when no job is active       *)
(* (resourceBroker.ts).  While it is empty, a lookup falls back to the     *)
(* environment of the process.                                             *)
(*                                                                         *)
(* An action ends at an await.  A call starts here where it primes the     *)
(* overlay; the check for an active job that some calls make before it     *)
(* changes nothing and may be arbitrarily old by then.                     *)
(*                                                                         *)
(* Its proofs stand beside those of the worker's jobs, hence the names.    *)
(***************************************************************************)
EXTENDS Naturals

CONSTANTS
    InlineCalls,    \* the inline provider calls that may be under way
    Job,            \* the overlay's owner while it is the job's
    Nobody          \* overlay === null

ASSUME OwnersAssumption == Job \notin InlineCalls /\ Nobody \notin InlineCalls \cup {Job}

VARIABLES
    overlay,        \* who has installed the overlay
    jobActive,      \* broker_state.active_job_id is set
    jobStep,        \* where runJob is
    callStep,       \* callStep[c]: where the inline call c is
    raced           \* history: a call that found no active job was still under
                    \* way when the job in hand was claimed

overlayVars == <<overlay, jobActive, jobStep, callStep, raced>>

\* "primed": at work under an overlay of its own; "passing": at work, having
\* found a job active.
CallSteps == {"idle", "hydrating", "primed", "passing"}

OverlayTypeOK ==
    /\ overlay \in InlineCalls \cup {Job, Nobody}
    /\ jobActive \in BOOLEAN
    /\ jobStep \in {"none", "hydrating", "dispatching", "saving"}
    /\ callStep \in [InlineCalls -> CallSteps]
    /\ raced \in BOOLEAN
    /\ jobActive <=> jobStep # "none"

OverlayInit ==
    /\ overlay = Nobody
    /\ jobActive = FALSE
    /\ jobStep = "none"
    /\ callStep = [c \in InlineCalls |-> "idle"]
    /\ raced = FALSE

UnderWay(c) == callStep[c] \in {"hydrating", "primed"}

-----------------------------------------------------------------------------
(* The job. *)

\* claim and the start of runJob, to its await of hydrateAll.
ClaimJob ==
    /\ jobStep = "none"
    /\ jobStep' = "hydrating"
    /\ jobActive' = TRUE
    /\ raced' = \E c \in InlineCalls : UnderWay(c)
    /\ UNCHANGED <<overlay, callStep>>

\* installSecretOverlay; the dispatch begins.
InstallJob ==
    /\ jobStep = "hydrating"
    /\ jobStep' = "dispatching"
    /\ overlay' = Job
    /\ UNCHANGED <<jobActive, callStep, raced>>

\* The dispatch ends, or hydrateAll throws: the finally block clears the overlay
\* whoever it belongs to, before it saves the job ...
EndJob ==
    /\ jobStep \in {"hydrating", "dispatching"}
    /\ jobStep' = "saving"
    /\ overlay' = Nobody
    /\ UNCHANGED <<jobActive, callStep, raced>>

\* Defect: the guard is not released with it.
ReleaseJobForgotten ==
    /\ jobStep = "saving"
    /\ jobStep' = "none"
    /\ raced' = FALSE
    /\ UNCHANGED <<overlay, jobActive, callStep>>

\* ... and releases the guard.
ReleaseJob ==
    /\ jobStep = "saving"
    /\ jobStep' = "none"
    /\ jobActive' = FALSE
    /\ raced' = FALSE
    /\ UNCHANGED <<overlay, callStep>>

-----------------------------------------------------------------------------
(* The inline calls. *)

CallTo(c, s) == callStep' = [callStep EXCEPT ![c] = s]

\* Defect: the active job is not looked at.
FoundIdleAlways == TRUE

FoundIdle == ~jobActive

\* primeSecretOverlayForInlineProviderAction reads the state: with a job active
\* the call goes ahead under the job's overlay.
PrimeCall(c) ==
    /\ callStep[c] = "idle"
    /\ CallTo(c, IF FoundIdle THEN "hydrating" ELSE "passing")
    /\ UNCHANGED <<overlay, jobActive, jobStep, raced>>

InstallCall(c) ==
    /\ callStep[c] = "hydrating"
    /\ CallTo(c, "primed")
    /\ overlay' = c
    /\ UNCHANGED <<jobActive, jobStep, raced>>

\* hydrateAll throws: nothing has been installed, and nothing is cleared.
PrimeFails(c) ==
    /\ callStep[c] = "hydrating"
    /\ CallTo(c, "idle")
    /\ UNCHANGED <<overlay, jobActive, jobStep, raced>>

\* Defect: an early return passes the release by.
ReleaseCallForgotten(c) ==
    /\ callStep[c] = "primed"
    /\ CallTo(c, "idle")
    /\ UNCHANGED <<overlay, jobActive, jobStep, raced>>

\* releaseSecrets in the finally block.
ReleaseCall(c) ==
    /\ callStep[c] = "primed"
    /\ CallTo(c, "idle")
    /\ overlay' = Nobody
    /\ UNCHANGED <<jobActive, jobStep, raced>>

\* The same of a call that found a job: the release does nothing.
EndPassing(c) ==
    /\ callStep[c] = "passing"
    /\ CallTo(c, "idle")
    /\ UNCHANGED <<overlay, jobActive, jobStep, raced>>

-----------------------------------------------------------------------------
OverlayNext ==
    \/ ClaimJob \/ InstallJob \/ EndJob \/ ReleaseJob
    \/ \E c \in InlineCalls :
        \/ PrimeCall(c)
        \/ InstallCall(c)
        \/ PrimeFails(c)
        \/ ReleaseCall(c)
        \/ EndPassing(c)

OverlaySpec == OverlayInit /\ [][OverlayNext]_overlayVars

-----------------------------------------------------------------------------
(* Properties. *)

\* No decrypted secret outlives the job or the call it was installed for.
NothingLeftBehind ==
    jobStep # "dispatching" /\ (\A c \in InlineCalls : callStep[c] # "primed")
        => overlay = Nobody

\* "If a job is already active its overlay is in place, so this is a no-op to
\* avoid tearing it down" (primeSecretOverlayForInlineProviderAction).  A
\* dispatching job has its secrets unless a call that had found no active job
\* was still under way when the job was claimed: no number of calls that begin
\* later takes them away.
JobKeepsSecretsUnlessRaced ==
    jobStep = "dispatching" => overlay = Job \/ raced
=============================================================================
