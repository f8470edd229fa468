-------------------------- MODULE ResourceLifecycle --------------------------
(***************************************************************************)
(* The resources of one deployment instance: the rows of                   *)
(* provisioned_resources that the broker keeps (resourceBroker.ts,         *)
(* postgresStateRepository.ts), the machines the cloud really has, the     *)
(* lifecycle job that creates and destroys them (one at a time, see        *)
(* ProvisioningJobs), the calls that run inline beside it (reconcile.ts,   *)
(* the power actions), and the deletion of the instance (instances.ts).    *)
(*                                                                         *)
(* A row is a status and the provider's id of the machine; a machine is    *)
(* the number of the incarnation that is live.  An action of the job is    *)
(* one provider call or the rows it writes before or after it; patchResource *)
(* of an inline call is its SELECT and its UPSERT, two actions, for it     *)
(* takes no lock between them.                                             *)
(***************************************************************************)
EXTENDS Naturals

CONSTANTS
    Resources,      \* the resources of the deployment's config
    Rank,           \* Rank[r]: the place of r in it
    MaxBirths,      \* MaxBirths[r], bound: machines ever created for r
    Palo,           \* those whose adapter writes statuses of its own: VM-Series
                    \* and Panorama
    Skips,          \* those whose action does nothing: Ubuntu servers outside of AWS
    Inlines,        \* the inline calls in the model: a subset of InlineKinds
    Inlined,        \* bound: the resources they are about
    Deletes         \* whether the instance may be deleted

InlineKinds == {"reconcile", "power"}

ASSUME RankAssumption ==
    /\ Rank \in [Resources -> Nat]
    /\ \A q, r \in Resources : Rank[q] = Rank[r] => q = r
ASSUME AdaptersAssumption ==
    Palo \subseteq Resources /\ Skips \subseteq Resources \ Palo
ASSUME InlinesAssumption ==
    Inlines \subseteq InlineKinds /\ Inlined \subseteq Resources
ASSUME DeletesAssumption == Deletes \in BOOLEAN
ASSUME BirthsAssumption == MaxBirths \in [Resources -> Nat]

None == 0           \* no machine; no provider_resource_id

VARIABLES
    instance,       \* the deployments row exists
    status,         \* status[r]: lifecycle_status ("absent": no such row)
    providerId,     \* providerId[r]: provider_resource_id
    live,           \* live[r]: the machine the cloud has for r
    births,         \* births[r]: the machines created for r so far
    kind,           \* what the running job does ("none": no job)
    todo,           \* the targets it has not finished with
    step,           \* how far it is with the current one
    inline,         \* inline[r]: how far an inline call about r is
    seenId,         \* seenId[r]: the provider id in the record it was given
    row,            \* row[r]: the row its patchResource has read
    deleting,       \* deleteDeploymentInstance has counted no live resource
    vanished,       \* history: ready machines that died outside of the broker
    unchecked,      \* history: resources without a machine whose row an action
                    \* that does nothing has made ready
    raced           \* history: which inline write came too late, see Races

rows == <<status, providerId>>
jobVars == <<kind, todo, step>>
inlineVars == <<inline, seenId, row>>
history == <<vanished, unchecked, raced>>
vars == <<instance, rows, live, births, jobVars, inlineVars, deleting, history>>

\* "applying" stands for idle, terraform_applying and what the adapters write
\* during an up or an action; "destroying" for destroy_requested and terraform_destroying.
Statuses == {"absent", "applying", "ready", "destroying", "destroyed"}
Kinds == {"up", "deploy", "down", "deprovision", "run-action"}
Steps == {"next", "applying", "applied", "created", "destroying", "gone", "acting"}
Rows == [status : Statuses, id : Nat]

\* How an inline write can be late: reconcile marks a row destroyed that has
\* got another machine since the listing; a patch puts back a row that has been
\* rewritten since its SELECT; an instance is deleted that has been deployed
\* again since the count.
Races == {"mark", "patch", "delete"}

TypeOK ==
    /\ instance \in BOOLEAN
    /\ status \in [Resources -> Statuses]
    /\ providerId \in [Resources -> Nat]
    /\ live \in [Resources -> Nat]
    /\ births \in [Resources -> Nat]
    /\ kind \in Kinds \cup {"none"}
    /\ todo \subseteq Resources
    /\ step \in Steps
    /\ inline \in [Resources -> {"idle", "listed", "power", "missing",
                                 "patching", "marking"}]
    /\ seenId \in [Resources -> Nat]
    /\ row \in [Resources -> Rows]
    /\ deleting \in BOOLEAN
    /\ vanished \subseteq Resources /\ unchecked \subseteq Resources
    /\ raced \subseteq Races

Row(r) == [status |-> status[r], id |-> providerId[r]]

Init ==
    /\ instance = TRUE
    /\ status = [r \in Resources |-> "absent"]
    /\ providerId = [r \in Resources |-> None]
    /\ live = [r \in Resources |-> None]
    /\ births = [r \in Resources |-> 0]
    /\ kind = "none"
    /\ todo = {}
    /\ step = "next"
    /\ inline = [r \in Resources |-> "idle"]
    /\ seenId = [r \in Resources |-> None]
    /\ row = [r \in Resources |-> [status |-> "absent", id |-> None]]
    /\ deleting = FALSE
    /\ vanished = {} /\ unchecked = {} /\ raced = {}

-----------------------------------------------------------------------------
(* The lifecycle job. *)

\* dispatch: a job about one resource, or about the whole deployment.
StartJob(k, targets) ==
    /\ kind = "none"
    /\ instance
    /\ IF k \in {"deploy", "deprovision"}
       THEN targets = Resources
       ELSE \E r \in Resources : targets = {r}
    /\ kind' = k
    /\ todo' = targets
    /\ step' = "next"
    /\ UNCHANGED <<instance, rows, live, births, inlineVars, deleting, history>>

\* Resources are deployed in the order of the config and torn down in reverse.
Current(r) ==
    /\ r \in todo
    /\ \A q \in todo : IF kind = "deprovision" THEN Rank[q] <= Rank[r]
                                               ELSE Rank[r] <= Rank[q]

At(kinds, s, r) == kind \in kinds /\ step = s /\ Current(r)

\* Defect: the lifecycle gets the name the power state has.
PatchTerminated(r, s, id) ==
    /\ status' = [status EXCEPT ![r] = IF s = "destroyed" THEN "terminated" ELSE s]
    /\ providerId' = [providerId EXCEPT ![r] = id]

Patch(r, s, id) ==
    /\ status' = [status EXCEPT ![r] = s]
    /\ providerId' = [providerId EXCEPT ![r] = id]

Goto(s) == step' = s /\ UNCHANGED <<kind, todo>>

NextTarget(r) ==
    /\ todo' = todo \ {r}
    /\ step' = "next"
    /\ UNCHANGED kind

\* up: the row is written anew, without the provider id it may have had ...
UpBegin(r) ==
    /\ At({"up", "deploy"}, "next", r)
    /\ instance
    /\ Patch(r, "applying", None)
    /\ Goto("applying")
    /\ UNCHANGED <<instance, live, births, inlineVars, deleting, history>>

\* ... terraform apply creates the machine, keeps it or replaces it ...
Apply(r) ==
    /\ At({"up", "deploy"}, "applying", r)
    /\ \/ live[r] # None /\ UNCHANGED <<live, births>>
       \/ /\ births[r] < MaxBirths[r]
          /\ births' = [births EXCEPT ![r] = @ + 1]
          /\ live' = [live EXCEPT ![r] = births[r] + 1]
    /\ vanished' = vanished \ {r}
    /\ Goto("applied")
    /\ UNCHANGED <<instance, rows, inlineVars, deleting, unchecked, raced>>

\* ... whose id an adapter may note before the broker does ("vm_created") ...
UpCreated(r) ==
    /\ At({"up", "deploy"}, "applied", r)
    /\ r \in Palo
    /\ status[r] # "absent"
    /\ Patch(r, "applying", births[r])
    /\ Goto("created")
    /\ UNCHANGED <<instance, live, births, inlineVars, deleting, history>>

\* ... and the row is patched with the id terraform has put out.
UpReady(r) ==
    /\ \E s \in {"applied", "created"} : At({"up", "deploy"}, s, r)
    /\ status[r] # "absent"
    /\ Patch(r, "ready", births[r])
    /\ unchecked' = unchecked \ {r}
    /\ NextTarget(r)
    /\ UNCHANGED <<instance, live, births, inlineVars, deleting, vanished, raced>>

\* Defect: a resource whose apply has failed is skipped as well.
TornDownIfReady(r) == status[r] \in {"ready", "destroying"}

\* deprovision passes over a resource without a row or already destroyed; a
\* "down" job needs the row alone.
TornDown(r) ==
    /\ status[r] # "absent"
    /\ kind = "deprovision" => status[r] # "destroyed"

SkipDown(r) ==
    /\ At({"deprovision"}, "next", r)
    /\ ~TornDown(r)
    /\ NextTarget(r)
    /\ UNCHANGED <<instance, rows, live, births, inlineVars, deleting, history>>

\* Defect: the row says what is going on only once it is over.
DownBeginQuietly(r) ==
    /\ At({"down", "deprovision"}, "next", r)
    /\ instance
    /\ TornDown(r)
    /\ Goto("destroying")
    /\ UNCHANGED <<instance, rows, live, births, inlineVars, deleting, history>>

\* down: destroy_requested and terraform_destroying ...
DownBegin(r) ==
    /\ At({"down", "deprovision"}, "next", r)
    /\ instance
    /\ TornDown(r)
    /\ Patch(r, "destroying", providerId[r])
    /\ Goto("destroying")
    /\ UNCHANGED <<instance, live, births, inlineVars, deleting, history>>

\* ... terraform destroy, by workspace ...
Destroy(r) ==
    /\ At({"down", "deprovision"}, "destroying", r)
    /\ live' = [live EXCEPT ![r] = None]
    /\ Goto("gone")
    /\ UNCHANGED <<instance, rows, births, inlineVars, deleting, history>>

\* ... and destroyed.
DownDone(r) ==
    /\ At({"down", "deprovision"}, "gone", r)
    /\ status[r] # "absent"
    /\ Patch(r, "destroyed", providerId[r])
    /\ NextTarget(r)
    /\ UNCHANGED <<instance, live, births, inlineVars, deleting, history>>

\* runAction of a row in any status: the adapter writes a status of its own
\* ("panos_configuring"), or needs the record's provider id, or returns ...
Act(r) ==
    /\ At({"run-action"}, "next", r)
    /\ instance
    /\ status[r] # "absent"
    /\ IF r \in Palo
       THEN Patch(r, "applying", providerId[r])
       ELSE UNCHANGED rows /\ (r \in Skips \/ providerId[r] # None)
    /\ Goto("acting")
    /\ UNCHANGED <<instance, live, births, inlineVars, deleting, history>>

\* ... it works on the machine, which fails if there is none, and the row is
\* ready, as it is if the adapter has done nothing.
ActDone(r) ==
    /\ At({"run-action"}, "acting", r)
    /\ status[r] # "absent"
    /\ r \in Skips \/ live[r] # None
    /\ Patch(r, "ready", providerId[r])
    /\ unchecked' = IF r \in Skips /\ live[r] = None THEN unchecked \cup {r}
                                                   ELSE unchecked \ {r}
    /\ NextTarget(r)
    /\ UNCHANGED <<instance, live, births, inlineVars, deleting, vanished, raced>>

\* A provider call or a patch throws, the job is canceled, or the process dies:
\* the rows stay as they are.
JobFails ==
    /\ todo # {}
    /\ kind' = "none"
    /\ todo' = {}
    /\ step' = "next"
    /\ UNCHANGED <<instance, rows, live, births, inlineVars, deleting, history>>

JobSucceeds ==
    /\ kind # "none"
    /\ todo = {}
    /\ kind' = "none"
    /\ UNCHANGED <<instance, rows, live, births, todo, step, inlineVars, deleting, history>>

-----------------------------------------------------------------------------
(* The calls that run beside it. *)

\* listResources without the destroyed, or requireResource of a power action.
Listable(r) == status[r] \notin {"absent", "destroyed"}

\* An inline call has been given the record of r.
InlineRead(r) ==
    /\ Inlines # {} /\ r \in Inlined
    /\ inline[r] = "idle"
    /\ Listable(r)
    /\ inline' = [inline EXCEPT ![r] = "listed"]
    /\ seenId' = [seenId EXCEPT ![r] = providerId[r]]
    /\ UNCHANGED <<instance, rows, live, births, jobVars, row, deleting, history>>

\* Defect: a record without a provider id is taken for a vanished one.
FoundMissingUnknown(r) == live[r] # seenId[r] \/ seenId[r] = None

\* describeResource of a record without an id is "unknown".
FoundMissing(r) == seenId[r] # None /\ live[r] # seenId[r]

\* The provider answers for the id in that record: a power state to store, ...
InlinePower(r) ==
    /\ inline[r] = "listed"
    /\ seenId[r] # None
    /\ "power" \in Inlines \/ live[r] = seenId[r]
    /\ inline' = [inline EXCEPT ![r] = "power"]
    /\ UNCHANGED <<instance, rows, live, births, jobVars, seenId, row, deleting, history>>

\* ... or, under credentials found good, that it is missing.
InlineMissing(r) ==
    /\ inline[r] = "listed"
    /\ "reconcile" \in Inlines
    /\ FoundMissing(r)
    /\ inline' = [inline EXCEPT ![r] = "missing"]
    /\ UNCHANGED <<instance, rows, live, births, jobVars, seenId, row, deleting, history>>

InlineEnd(r) ==
    /\ inline' = [inline EXCEPT ![r] = "idle"]
    /\ seenId' = [seenId EXCEPT ![r] = None]
    /\ row' = [row EXCEPT ![r] = [status |-> "absent", id |-> None]]

\* Nothing to store, bad credentials, an error, or a row that is gone.
InlineDrop(r) ==
    /\ inline[r] # "idle"
    /\ InlineEnd(r)
    /\ UNCHANGED <<instance, rows, live, births, jobVars, deleting, history>>

\* patchResource: SELECT ...
InlinePatchRead(r) ==
    /\ inline[r] \in {"power", "missing"}
    /\ status[r] # "absent"
    /\ row' = [row EXCEPT ![r] = Row(r)]
    /\ inline' = [inline EXCEPT ![r] =
                    IF @ = "power" THEN "patching" ELSE "marking"]
    /\ UNCHANGED <<instance, rows, live, births, jobVars, seenId, deleting, history>>

\* ... and UPSERT of the whole row, with the patch merged in.
InlinePatchWrite(r) ==
    /\ inline[r] \in {"patching", "marking"}
    /\ instance
    /\ Patch(r, IF inline[r] = "marking" THEN "destroyed" ELSE row[r].status,
             row[r].id)
    /\ raced' = raced
            \cup (IF row[r] # Row(r) THEN {"patch"} ELSE {})
            \cup (IF inline[r] = "marking" /\ row[r].id # seenId[r]
                  THEN {"mark"} ELSE {})
    /\ InlineEnd(r)
    /\ UNCHANGED <<instance, live, births, jobVars, deleting, vanished, unchecked>>

\* Defect: the resources are not counted.
DeletableAlways == TRUE

Deletable == \A r \in Resources : status[r] \in {"absent", "destroyed"}

\* deleteDeploymentInstance: it counts what is live ...
DeleteCheck ==
    /\ Deletes
    /\ instance
    /\ Deletable
    /\ deleting' = TRUE
    /\ UNCHANGED <<instance, rows, live, births, jobVars, inlineVars, history>>

\* ... and deletes the rows and the deployment.
DeleteCommit ==
    /\ deleting
    /\ deleting' = FALSE
    /\ instance' = FALSE
    /\ status' = [r \in Resources |-> "absent"]
    /\ providerId' = [r \in Resources |-> None]
    /\ raced' = raced \cup (IF Deletable THEN {} ELSE {"delete"})
    /\ UNCHANGED <<live, births, jobVars, inlineVars, vanished, unchecked>>

\* Somebody removes the machine in the cloud's own console.
Vanish(r) ==
    /\ live[r] # None
    /\ live' = [live EXCEPT ![r] = None]
    /\ vanished' = vanished \cup {r}
    /\ UNCHANGED <<instance, rows, births, jobVars, inlineVars, deleting, unchecked,
                   raced>>

-----------------------------------------------------------------------------
Job ==
    \/ \E k \in Kinds, targets \in SUBSET Resources : StartJob(k, targets)
    \/ \E r \in Resources :
        \/ UpBegin(r)
        \/ Apply(r)
        \/ UpCreated(r)
        \/ UpReady(r)
        \/ SkipDown(r)
        \/ DownBegin(r)
        \/ Destroy(r)
        \/ DownDone(r)
        \/ Act(r)
        \/ ActDone(r)
    \/ JobFails
    \/ JobSucceeds

Inline(r) ==
    \/ InlineRead(r)
    \/ InlinePower(r)
    \/ InlineMissing(r)
    \/ InlineDrop(r)
    \/ InlinePatchRead(r)
    \/ InlinePatchWrite(r)

Next ==
    \/ Job
    \/ \E r \in Resources : Inline(r) \/ Vanish(r)
    \/ DeleteCheck
    \/ DeleteCommit

Spec == Init /\ [][Next]_vars

-----------------------------------------------------------------------------
(* Properties. *)

Orphaned(r) == live[r] # None /\ status[r] \in {"absent", "destroyed"}

\* A machine that runs (and is paid for) has a row that says so, through failed
\* and canceled jobs, crashes, replacements and reconciliation: only an inline
\* write that came too late (see Races) makes the broker forget one.
NoOrphanUnlessRaced == raced # {} \/ \A r \in Resources : ~Orphaned(r)

\* The inline calls "run inline like power-state refreshes rather than as
\* lifecycle jobs, and are safe during an active job" (resourceBroker.ts): the
\* same without the exception for them, once the job has ended.
NoOrphan ==
    "delete" \in raced \/ kind # "none" \/ \A r \in Resources : ~Orphaned(r)

\* A row that says ready has its machine, unless it was removed by hand, an
\* inline write came too late, or the row was made ready by an action that does
\* nothing and asks for no machine (Ubuntu servers outside of AWS): a failed up
\* or down, a destroyed resource and an action that fails never say ready.
ReadyIsLive ==
    \A r \in Resources :
        status[r] = "ready" =>
            live[r] # None \/ r \in vanished \/ r \in unchecked \/ raced # {}

\* A deprovision that succeeds leaves nothing behind, whatever jobs failed
\* before it.
DeprovisionLeavesNothing ==
    [][kind = "deprovision" /\ JobSucceeds /\ raced = {}
            => \A r \in Resources : live[r] = None]_vars

\* Reconciliation marks a row destroyed only if the machine is gone: a row whose
\* apply is in progress, or has failed half way, is never taken for one whose
\* machine has vanished.
MarkedOnlyIfGone ==
    [][\A r \in Resources :
        /\ inline[r] = "marking" /\ status[r] # "destroyed"
        /\ status'[r] = "destroyed"
        /\ raced' = {}
        => live[r] = None]_vars
=============================================================================
