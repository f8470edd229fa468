# A specification of CRAM

CRAM is a CRM for a sales engineer: a Fastify API over Postgres (row-level
security, one transaction per call of `withUser`), a SolidJS web client with an
offline mode, an MCP server and an agent over the same services, a provisioning
broker that runs terraform for demo environments, an Electron and an iOS shell,
and a number of command-line tools.

Most of it is CRUD: one transaction per request, no state between requests.
This project is about the parts that keep state across steps which can
interleave, fail or die between one another. Paths below are relative to the
repository; `P` is `api/src/services/provisioning`.

## Inventory

| Component | State | Operations and partners | What makes it correct |
|---|---|---|---|
| Job queue and worker (`P/jobWorker.ts`, `P/provisioningService.ts`) | `provisioning_jobs`, `broker_state.active_job_id`, the worker's JobRecord | `enqueueJob`, `requestCancel` from HTTP and MCP; claim, run, save, release by each replica's worker; `recoverOrphans` at boot | a job is run at most once, one at a time, oldest first; a final status stays; the guard is released; a queued job ends |
| Resource lifecycle (`P/resourceBroker.ts`, `P/state`, `P/resources`) | `provisioned_resources`, the clouds, terraform's workspaces | up, down, run-action, deploy, deprovision inside a job | no machine runs unrecorded; a ready row has its machine; a deprovision leaves nothing |
| Reconciliation and power (`P/reconcile.ts`, broker) | the same rows | inline, beside a job | marks only what is gone; does not disturb a job |
| Instances (`P/config/instances.ts`) | `deployments` | create, edit, delete | none is deleted with live resources |
| Secret overlay (`P/utils/secretSource.ts`) | one global of the process | installed by the job and by inline calls | a job keeps its secrets; none is left behind |
| Command runner (`P/utils/index.ts`, `jobSignal.ts`) | one global abort signal | cancel kills the child | kills the job's child and no other |
| Tunnels (`P/rdpTunnelManager.ts`) | map of tunnels, port pools, timers | open, close, TTL, exit of the forward | a port has one tunnel; a tunnel that listens is listed; a closed one is closed |
| Broker events (`P/events.ts`, `gui/src/lib/provisioningEvents.ts`) | subscribers, the GUI's copy | published after each commit; SSE with reconnection | the GUI converges on the database |
| Scheduler (`api/src/services/scheduler`) | `scheduled_task_runs` | tick, claim, finish per period on every replica; the task refreshes the favorites' news | a period fires at most once; completed means that all was tried |
| Account news (`services/news`) | `account_news`, `account_news_settings.last_status`, the set `inFlight` of each `NewsService` | clicks, agents' clicks and the daily task; mark, fetch, replace, settle | one snapshot at a time; a status "refreshing" is settled by somebody |
| Offline write queue (`gui/src/lib/writeQueue.ts`, `offline.ts`) | signals, localStorage | edits in Offline mode; flushes by toggle, event and start; replay | an accepted edit is not lost, lands in order, and is not sent twice without cause |
| Read cache and sync (`gui/src/lib/offline.ts`) | IndexedDB snapshot | `syncNow`, cached GETs | a snapshot is complete or absent |
| Meeting notes (`gui/src/lib/meetingDraft.ts`, `FloatingMeetingNotes.tsx`) | draft in localStorage, editor, timers, server row, parked saves | keystrokes, autosave, the button, loss of the window, both modes | what was typed last is somewhere, and the status says where |
| Agent (`api/src/agent`, `services/agent`, `gui/src/pages/Agent.tsx`) | `agent_sessions.messages`, a copy of it in each turn, `running()` in each window | load, the tool loop, one save per turn; cancel, delete | each call has its result; nothing is dropped; a turn answers or errs; a window gets its input back |
| Meetings (`services/meetings`, `services/merge/handlers/meetings.ts`), and the accounts they hang on | `meetings`, `accounts` | create, edit, move, assign, delete, merge | no note vanishes unasked |
| Calendar import (`services/calendar-import`) | the same rows | import per day, repeated or concurrent | a re-import adds nothing and overwrites nothing |
| Desktop scheduler (`client/src/meeting-scheduler.mjs`) | durable schedule, notified set | refresh, notify, persist | each start is announced at least once |
| Contacts, notes, threads, themes, opportunities, vendors, products, memories, search, the merges of other records, backup, export, krisp-webhook, todoist, outreach, events, mobile, scripts | their tables and files | CRUD, input and output | one transaction per request |

The hard behaviours are in the first rows: several replicas with one guard row;
a `SELECT` and an `UPDATE` without a lock between them; a process that dies in
the middle of terraform; calls that run inline beside the job; transactions
that write back whole rows read without a lock; a turn of the agent that goes on
after its user has left; and in the client a queue whose drain awaits the network
with a private copy of it, and saves that start beside one another.
`PROJECT.json` lists the hazards at their lines.

## Modules

| Module | Models |
|---|---|
| `OneShotQueue` | the promise of the job queue: tickets, one begin per job, lowest ticket first, one at a time |
| `ProvisioningJobs` | the queue: rows, guard, replicas, callers, failures; its refinement of `OneShotQueue` |
| `ProvisioningJobsProofs` | the inductive invariants and theorems of the queue and of the overlay |
| `ResourceLifecycle` | one deployment's rows and machines, its job, the inline calls, the deletion of the instance |
| `ResourceLifecycleProofs` | its inductive invariant and theorems |
| `SecretOverlay` | the overlay of one process, its job and its inline calls |
| `Tunnels` | the tunnel manager: records, map, port pools, children and proxies |
| `TunnelsProofs` | its inductive invariant and theorems |
| `WriteQueue` | the offline queue of one window, the replay and the server |
| `WriteQueueProofs` | its inductive invariant and theorems |
| `MeetingNotes`, `MeetingNotesProofs` | one floating notes window, its draft and its saves; invariant and theorems |
| `Meetings`, `MeetingsProofs` | the meetings of one user under imports, edits, moves, merges and deletions; invariant and theorems |
| `AgentSessions`, `AgentSessionsProofs` | one conversation, its turns and its windows; invariant and theorems |
| `NewsRefresh`, `NewsRefreshProofs` | the scheduler's claims and the refreshes of news over several processes and the services in each; invariant and theorems |
| `MC...` | the small instances TLC checks |

The components compose through what each leaves open for the other.
`ProvisioningJobs` establishes that one job runs at a time (up to its breaches);
`ResourceLifecycle` has one job, and `SecretOverlay` one job per process.
`Tunnels` shares nothing with them but the broker's records, which it reads once.
The operators called *Defect* are small changes of the code (a guard dropped, a
status mistaken, an order reversed). No action uses them: replacing the
operator that follows by one of them breaks the property they are listed with.

### ProvisioningJobs

An action is a committed transaction or a stretch of a worker between two
awaits. `pc[r]` walks through `loop` and `runJob`: idle (polling), claimed,
dispatching, saving (the `finally` block's `persist`), clearing
(`setActiveJob(null)`). `memStatus[r]` is the status in the worker's record,
which a save writes whatever the row says. Points that matter:

* `withUser` runs in READ COMMITTED. `requestCancel` is a read
  (`staleCancels[j]`) and a write by id alone. While it has written and not
  committed it locks the row, and `claim` passes over locked rows (SKIP LOCKED):
  `OldestQueued` lets a claim pass over a row with a cancel in flight.
* `created_at` is `NOW()`, the time of BEGIN: `StampJob` precedes `EnqueueJob`,
  and a row may appear that is older than one already claimed.
* `claim` is one action: the `broker_state` row is locked throughout.
* `recoverOrphans` is unscoped: it fails every running row.
* Each database call of the worker or of a cancel may fail; a claim may commit
  and its answer be lost; a replica may die wherever it is. A crash takes the
  terraform child with it.
* A log line saves the record, also when the outcome is already in it and, by a
  poll that outlives its timer, after the final save. A poll that outlives
  even `setActiveJob(null)` rewrites the same status and is left out, and so is
  a cancel flag raised on a job that has just ended: nobody reads it.

`breaches` records the two ways in which the mutex is given up: a cancel
written over a claimed job, and a boot while another replica has a job.
The comment of `recoverOrphans` names the second as future work; the first is a
finding. The conditional properties say that there are no others.

### ResourceLifecycle

A row is its status and the provider's id. The job's patches are atomic: each
rewrites every field that is modelled, so reading the row first makes no
difference. A patch of an inline call does not, and is two actions,
`InlinePatchRead` and `InlinePatchWrite`. Two patches in a row without a
provider call between them are one action. `applying` stands for idle,
terraform_applying and the statuses that adapters write; `destroying` for
destroy_requested and terraform_destroying. The adapters of the firewalls and of
Panorama (`Palo`) write some of their own: "vm_created" with the machine's id,
before the row is ready (`UpCreated`), and a "panos_..." status before the work of an
action. `runAction` takes a row in any status and makes it ready. The actions of
most resources need the machine, that of an Ubuntu server outside of AWS (`Skips`)
returns at once, and `unchecked` names those it has made ready without a machine. Terraform's apply
keeps the machine, creates it or replaces it; whatever fails, is canceled or
dies afterwards is `JobFails`, which leaves rows and machines as they are. One
inline call per resource is in flight at a time, and the existence probe is that
of AWS and GCP: a record without an id is unknown, any other id than the live machine's
is missing. The parameters of a job, and the workflow steps with conditions that run
actions inside a deploy, are left out: a deploy takes the resources in config order, a deprovision in
reverse, skipping what has no row or is destroyed.

`raced` records how an inline write can come too late (`Races`).

### SecretOverlay

`overlay` is its owner. An inline call reads the guard, awaits `hydrateAll`,
installs, awaits the provider and clears; the job does the same without looking.
`raced` is set by a claim that finds a call under way. The legacy
`ResourceBroker.runJob`, which no route calls, is left out. The names that
`ProvisioningJobs` has as well (`Spec`, `TypeOK`) are prefixed, since one module
holds the proofs about both.

### Tunnels

A target is a resource and a protocol; `Host` gives its hostname (and protocol),
which the clones of a deployment share, and `Id` the key of the map, which is
made of the hostname. An open that `Finds` a tunnel of the hostname is handed it
(`OpenExisting`), and `lent` remembers those that asked for another resource. Any
other call of `open()` is a number and owns a record. `step[c]` is what the call
awaits: the probes of the public and of the local port, the provider's forward,
`waitForTcp`, `listen`. A port is managed while an open record of the *map* has
it, and busy while somebody listens on it or probes it. The map is looked up before
the await of a probe, and the record is listed when the local probe has answered
(`SelectLocalPort`), so two opens can choose one public port, and one local port if
they probe it one right after the other: then `overtaken` has the port, and for a
while two proxies stand before the forward of whichever child binds it. The child is
outside: it binds its port if it is free, ends when it likes (`onExit` then
stops the record) and, told to end, may hold the port on (`ending`).
`server.close` waits for the last client, who is not modelled: `stop` may finish
at once or leave the proxy `draining` for as long as it takes, and deletes the
map's entry by key when it finishes. The timer may fire whenever it is set.
Which free port is picked makes no difference and is left open; a port refused
was busy when it was looked at (`NoPort`). An open that fails before its first await
changes nothing and is left out.

`crossed` names the keys on which calls overlapped, `cut` the calls whose
record was stopped before they returned. The code does not protect either: a
cut record goes on to say running (rdpTunnelManager.ts:190), unlisted and not to
be closed any more, or, when its `listen` then fails, keeps its forward, since `stop` finds it closed; and a record opened
while the last one drains loses its entry when that one is done.

### WriteQueue

Edits are numbers. `queue` is the signal, `stored` is localStorage,
`pending` the replay's own copy, `rejected` its list of refusals, which becomes
`rejectedWrites` when the loop ends. A request ends as done, refused or broken
off; broken off, it may have arrived, may arrive later (`abandoned`), or never.
A request that arrives later lands over what was sent after its retry: the one
way in which edits of the queue land out of order (`LandsInOrderUnlessLate`),
although writeQueue.ts:149-150 says there is none (see "Known exceptions").
A reload keeps `stored` alone. An Online edit lands at once: its own failures
are reported to the user and are outside of the queue. One window is modelled.

### MeetingNotes

`body`, `phase` and `userEdited` are the editor's, `timer` its `autosaveTimer`,
and `strays` counts pending timers whose handle was overwritten: when a save is
answered and the text has moved on, the timer is armed without clearing the one
the edit has armed, so two saves may start. `save[s]` is a PUT: `Land` is the
server's, `SaveAnswered` the continuation, `SaveFails` the catch block; a
request that was broken off is `adrift` and may land later. `Park` is `apiFetch`
in Offline mode, whose `WriteQueuedError` ends in the same catch block; `Replay`
is `WriteQueue` seen from here. The window may be closed or die anywhere and
opens on the draft. `overlapped` is set when a save begins beside one that is
not settled: then the older text may land last, and with the draft dropped by
the answer to the newer one, that is all that is left
(FloatingMeetingNotes.tsx:122). `leftToUser` names the cases in which the editor
arms no timer: a draft shown as loaded, Offline mode, a meeting not loaded, a
failed save, nothing but white space.

### Meetings

A service call is its reads and then, in one step, its writes and commit. Where
the writes do not depend on what was read, the two are one action (create,
delete, `reassignAccount`); `update`, `assignAccount` and the merge
write what they have read, and are two. `Taken` is the pair of unique indexes. An
import resolves its domains one by one, without a transaction around them, so
that another import, a status or a deletion may come between; then a row is
inserted, or its blanks are filled. An update may also give the row another file
name, an event's as well, and is rolled back where that name is taken; without
one it writes back the name it has read (meetings.ts:291). `moved` collects the
events whose row has got another place or file name, or whose account has changed,
so that a re-import does not find it under its name and makes a second meeting
(see "Known exceptions"). An account changes when the guests or a status do
(`Displaced`): for the imports to come, and for one under way, which goes by the
guest list it began with and the statuses it finds. `kept` is what a reader would expect to see. The
code protects neither an edit against an edit or merge (meetings.ts:316,
merge/handlers/meetings.ts:130), nor two merges of the same pair in opposite
directions, which leave two tombstones: there, `kept` gives up what is lost
(`Stale`). A backfill fills tombstones as well.

### AgentSessions

`pc[t]` walks through `runAgent`; `messages[t]` is its copy of the list and
`session` the row. A window has at most one turn (`waits`), and is rid of it
when the user cancels; the server looks at `signal.aborted` before each request
and each call, and whether the abort has got there depends on when the runtime
emits the request's `close` event, so `Abort` may happen and need not. Until it
does, the turn goes on, and the next one of the same window runs beside it:
the later save drops the other's messages. `crowded` records that, and two
windows on one session; `cut` a turn that was aborted, perhaps between two calls of one
reply, which is saved with calls that have no results. A turn that answers in
its last iteration also says "hit max iterations". A crash ends all turns
without a save.

### NewsRefresh

`sched[r]` is a replica's loop: the claim inserts the row of the period
(`ON CONFLICT DO NOTHING`), may commit and its answer be lost; then the task
lists the favorites, passing over a failure to (`TaskCannotList`), and refreshes
one after the other. `refresh[c]` is a call of the pipeline, from a click, an
agent's tool or the task, and belongs to an instance of `NewsService`: a process
has one for its routes and its scheduler (`Own`), and one more for every turn of
an agent (agent/mcp-client.ts:108), `MaxTurns` of them. `InFlight` is the set of
one instance; refreshes of one account by two of them run side by side, in one
process as in two. The MCP server's own process is one that never claims. A
replacement is two steps, since under READ COMMITTED its DELETE sees what is
committed when it begins: two services that replace the articles at once leave
both snapshots (`overlapped`), where the comment at news.ts:89-92 expects that
the last one wins. A death
leaves "refreshing" and "running" behind with the period consumed, and an
exception of one `runRefresh` ends the task for the remaining favorites; a click
that meets a refresh which has just written its outcome leaves "refreshing",
too (`broken`).

## Runs

| Run | Question | Bounds |
|---|---|---|
| `jobs` | safety, liveness and refinement of the queue | 2 replicas, 2 jobs, 1 stale cancel per job, 1 failed call of any kind, 1 crash; 0.8 million states |
| `jobs_cancel_race` | can a cancel break the mutex? (yes) | 2 replicas, 2 jobs, no failure and no crash |
| `write_queue` | nothing lost, ordered, once, drained | 4 edits, queue of 2, 1 failure, 1 reload; 0.3 million states |
| `writequeue_lost` | is an edit made during a replay kept? (no) | 3 edits, no failure and no reload |
| `lifecycle` | no forgotten machine, ready means live, deprovision leaves nothing | a firewall and an Ubuntu server outside of AWS, the server replaced once, inline calls about the server, 1 deletion; 4.8 million states |
| `reconcile_race` | is reconciliation safe during a job? (no) | 1 resource, 2 machines |
| `overlay` | secrets kept and cleared | 3 inline calls, up to their permutation |
| `tunnels` | own forward, nothing left, expiring, listed | 3 records, 3 resources of which 2 are clones, 2 public and 2 local ports; the third record is the second one for its hostname and is opened when the first open is over; 2.1 million states |
| `notes` | the last keystroke is somewhere, the status is true, autosaves settle | 3 edits of 2 texts or white space, 2 saves at once, 1 parked |
| `meetings` | one meeting per event, no note lost, imports overwrite nothing | 2 accounts, a customer and one that is a partner or not there yet, 1 event, 3 rows, 2 imports, 3 requests, 2 at once; 0.8 million states |
| `agent` | history grows, calls are paired, no silent end, windows are freed | 2 windows, 2 turns, 2 iterations, 1 nudge, 2 calls, 1 crash |
| `news` | one fire per period, one snapshot, statuses settle | 2 processes with 2 services each, 2 accounts, 2 refreshes, 2 periods; 2.1 million states |

Why the bounds are enough: two replicas and two jobs are what a broken mutex
takes, and a job that waits while another one runs, fails or is canceled is what
order and liveness take; one failure at any place is followed by recovery, and
together with one crash and one cancel it gives the combinations. A queue of two
with four edits fills, drains and fills again. Two incarnations of a machine are
what it takes to confuse them. Two records are what it takes to confuse ports,
forwards or clones; three are two for one hostname, which race or follow each
other, beside one for another. Two saves at once and three
edits give a save that is outrun and one that starts beside it. Three rows and
three requests give a merge beside an edit and an import that meets the result.
Two turns of two iterations give a reply after results, a nudge and the limit.
Two refreshes, two processes and two services in each give the three kinds of
overlap (one service's, which `inFlight` excludes, one process's and two
processes'), two periods a claim after a lost one. The theorems remove the bounds, and the restriction of the
accounts that `MCMeetings` begins with, for all but the liveness properties.
`CHECK_DEADLOCK` is off where the system may stop: every job done and no call
left in the bounds.

## Fairness

* `ProvisioningJobs`: weak fairness of each worker's own steps. The loop runs as
  long as the process does, a process that dies is restarted by its supervisor,
  and a dispatch ends, since `runCommand` waits for a child that exits or is
  killed. No fairness of callers, cancel polls or failures.
* `ResourceLifecycle`, `SecretOverlay`, `Tunnels`, `Meetings`, `NewsRefresh`:
  safety only.
* `MeetingNotes`: a timer fires, the server applies what reaches it, and an
  applied request is answered or fails. No fairness of the user or of failures.
* `AgentSessions`: a turn under way goes on: the request to the model ends by a
  reply or by the HTTP client's timeout, a tool's call by its result or the MCP
  client's timeout, and the loop is bounded. No fairness of windows, so nothing
  forces a cancel, nor of `Crash`.
* `WriteQueue`: a fetch settles, its continuation runs, and so does the start's
  timer. No fairness of the user, of failures, or of late arrivals.

`EveryJobSettles` excuses a failed database call, and `OnlineDrains` a failed
request: see the known exceptions.

## Proofs

Checked by TLAPS for every value of the constants under the named assumptions
of each module (`NoJob` is no job, bounds are naturals, ranks are distinct, the
owners of the overlay are distinct, accounts are numbers above 0, events and
notes are different texts).

* `ProvisioningJobsProofs`. `IInv` is typing, `Ownership` (a replica has a job
  in hand exactly from claim to release; the job of a replica has been claimed
  once; a row yet to be claimed never has been), `Mutex` (until a breach the
  guard names the job in hand, and its row says "running" or what the worker's
  record says) and `GuardHasHolder`. `AtMostOnce` alone is not inductive: that a
  claimed row never becomes "queued" again is what keeps a second claim away.
  `Finality` needs the second half of `Mutex`: a save rewrites a status only by
  itself. `Refinement` maps the table to `OneShotQueue` with the
  phase of a job read off its row and its holder, `created_at` as ticket and the
  cancels in flight as withdrawals. `SerialWithoutCancels` pins the finding of
  `jobs_cancel_race` to its cause: where no cancel reads "queued" (`MaxCancels`
  is 0), jobs overlap only after a boot beside a running job.
* `ResourceLifecycleProofs`: the invariant relates the job's step to the row and
  the machine of its current target, and the seen ids and read rows of inline
  calls to what they were read from. Orphans, ready rows, the sweep of a
  deprovision and the marks of a reconciliation follow. `NoOrphansWithoutInlines`
  is the counterpart of `reconcile_race`: where there are no inline calls, the
  property that it finds violated holds of any deployment and any failures.
* The overlay, in `ProvisioningJobsProofs`: its owner is in the step that owns it.
* `MeetingNotesProofs`: while saves have not overlapped, at most one save or
  parked text is unsettled (`OneUnsettled`) and, without a draft, carries what
  the server has (`Harmless`). `StatusIsTrue` needs to know in addition what the
  editor shows, and what a GET under way may bring (`Shown`).
* `AgentSessionsProofs`: besides the pairing of the row, every turn's own list
  is paired up to its last message (`Pairs`), its step agrees with the kind of
  that message (`Works`) and, until turns are crowded, its list has the row as a
  prefix (`Prefixed`) and it is the only one under way (`OneTurn`).
  `HistoryGrows` and `NeverEndsSilently` are action properties of the same
  invariant.
* `NewsRefreshProofs`: `inFlight` keeps refreshes of one service apart
  (`Exclusive`); an account without overlap has one replacement under way at
  most, and that one has seen all there is (`Snapshots`), which is why it leaves
  its own alone.
* `TunnelsProofs`: a record that was not cut is as far as its call (`Progress`);
  a key that was not crossed has one record alive (`OneAlive`) and lists it
  (`OpenIsListed`); and then the lookup in the map sees
  every record that may yet bind its port (`ManagedPort`), so that no two have the
  same and none has one that is being probed, unless it was `overtaken`
  (`OwnPorts`), and whoever answers `waitForTcp` is the record's own child. Without
  the first three the last is not inductive: an unlisted record's port is handed out
  again.
* `WriteQueueProofs`: what the replay has left is a prefix of the queue (`Prefix`)
  and what lies behind it was queued during the replay (`Behind`), so that the
  write of the remainder drops no other edit; the queue is sorted (`Ordered`)
  and a request given up is no younger than any entry (`Late`), so that nothing
  lands ahead of an older entry, however late it arrives (`QueuedInOrder`); and
  until something fails only the entry whose answer is awaited has landed
  (`Unsent`). Neither `NothingLostUnlessRaced` nor `LandsOnce` is inductive without
  these, and `LandsInOrderUnlessLate` is a property of the steps of their states:
  what is sent is the head of the queue, so nothing younger has landed.

* `MeetingsProofs`, in three parts. `Typed` adds to the types what a request
  holds on to: the row it has read is there or deleted, and is not made anew
  (`Reading`). With it `NotesStayVisible` is inductive, and `ImportKeepsEdits`
  follows. `Once` is the invariant under `ImportedOnce`: the indexes leave one
  live row per name and account (`Unique`), an import under way is bound for where
  one that begins now would go (`Headed`), and a row that has the text of an event, or
  that a request would write it to, has that event's file name and is in that
  event's account (`Sourced`), each for the events that are not in `moved`. An
  update that renames the row keeps `Unique` by being refused where the name is
  taken, and `Sourced` because the event counts as moved.
  `ImportedOnce` alone is not inductive: an insert would find a copy elsewhere.
  `Headed` corrected the model. An import with an outdated guest list is redirected
  by a status although the event itself is not, and then makes a second meeting;
  `Displaced` used to leave that out, and TLC's instance had no partner to show it.

Only model-checked: liveness (`EveryJobSettles`, `OnlineDrains`, `AutosaveSettles`,
`WindowsAreFreed`), which is out of the prover's reach. Every invariant and action property of the passing
runs is a theorem.

## Findings

Three statements of the repository that the code does not keep, each the subject
of a run with a counterexample: the cancel that breaks the mutex
(`jobs_cancel_race`), the edit overwritten by a replay (`writequeue_lost`) and
the reconciliation that overwrites a job's row (`reconcile_race`).
`PROJECT.json` quotes the lines.

## Known exceptions

What the conditional properties excuse is what the code does: each exception is
a history variable of its module and a sentence of its section above. Four of
them contradict a comment of the source; TLC finds a counterexample at once when
the property is stated without them:

* writeQueue.ts:149-150 says that the replay stops at the first failure, "so two
  edits to the same record can never land out of order". A request that was
  broken off (a fetch that throws, a 504 of a proxy) is sent again, the entries
  behind it land, and then it may be carried out after all, over them
  (`abandoned` in `LandsInOrderUnlessLate`).
* config/instances.ts:7-11 says that the clones of a deployment are "each fully
  isolated", with "no record clash even when two instances keep the template's
  hostname". `open()` also finds a tunnel by hostname and protocol
  (rdpTunnelManager.ts:104), so an open for one clone's resource is handed the
  endpoint of another one's: `ReachesItsOwnUnlessRaced` promises a resource with
  the same hostname, and no more.
* calendar-import.ts:37-41 says "Re-import is idempotent", "re-sending a day" is
  "skipped" "rather than duplicating". A meeting that was moved to another account,
  renamed (meetings.ts:291) or merged has left the index that this rests on, and is
  imported again (`moved` in `ImportedOnce`); so is a deleted one, and one whose
  guests or their accounts' statuses change, also while an import of it is under
  way. meetings.ts:162-166 has `findByFilename` for the first case, which the
  calendar import does not call.
* news.ts:90-92 says that "a rare duplicate refresh is harmless (the snapshot is
  replaced wholesale, so the last writer just wins)". Two services that replace
  the articles at once leave both snapshots, and one process has several
  services, since an agent's turn makes its own (agent/mcp-client.ts:108;
  `overlapped` in `OneSnapshotUnlessOverlapped`).

Beside these and the findings, a maintainer may want to know of the following:

* A failed `setActiveJob(null)` (jobWorker.ts:244) leaves the guard set: the
  loop lives on and claims nothing until a restart.
* A final save that fails (jobWorker.ts:243) is only logged: the job's row says
  "running" until the next restart.
* After a 5xx the queue says "will retry" (writeQueue.ts:186), but only a toggle
  of the mode, an `online` event or a reload flushes it again.
* An inline call that found no job clears the overlay of the job claimed while
  it ran (resourceBroker.ts:924).
* A verification of an Ubuntu server outside of AWS makes its row ready whether or
  not there is a machine, and also when the row says destroyed
  (ubuntuServerResourceAdapter.ts:212).
* Two tunnels opened at once may take one local port (rdpTunnelManager.ts:121, 250),
  and one of them leads to the other's resource until its own child gives up.
* A tunnel closed while it opens goes on to listen, unlisted
  (rdpTunnelManager.ts:190).
* A notes window whose saves overlap may end with the older text on the server
  and no draft.
* A cancelled turn of the agent runs on, and the later save wins.

## Not modelled, and the plan

1. The write queue with two windows over one localStorage, and the read cache
   with `syncNow`.
2. The desktop scheduler (`client/src/meeting-scheduler.mjs`): refresh, notify,
   persist, with deaths between them.
3. The job signal beside inline calls (`P/utils/index.ts`).
4. Contacts and attendees in `Meetings`.
5. A composition of `ProvisioningJobs` with `ResourceLifecycle`: what two jobs
   at once do to the rows after a breach.

Cloud adapters, terraform itself, encryption, routes, CRUD services, the
command-line tools, the mobile shell and the scripts stay out: they are input
and output, or a single transaction. `PROJECT.json` names each with its reason.
