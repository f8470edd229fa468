------------------------------ MODULE Meetings ------------------------------
(***************************************************************************)
(* The meetings of one user in PostgreSQL, and who writes them: the        *)
(* calendar import (calendar-import.ts), which resolves the account of an  *)
(* event from its guests and inserts a row under a file name made of the   *)
(* event's id, or fills the blanks of the row that has it; edits, moves    *)
(* and deletions (meetings.ts); and the merge of two rows                  *)
(* (merge/handlers/meetings.ts), which leaves the source as a tombstone.   *)
(*                                                                         *)
(* A service call is one transaction (withUser).  Its reads come first and *)
(* see what is committed then; nothing locks what they have read, and the  *)
(* writes that follow, with the commit, are one step here: no one sees     *)
(* them before it, and who writes one of their rows waits for it.          *)
(*                                                                         *)
(* An account stands for its domain, numbered in the order in which the    *)
(* customers of an event compete for it; 0 is the partition of the rows    *)
(* without an account.  A body is the set of the texts in it: the          *)
(* description of the event it was made from, and notes.  Attendees,       *)
(* titles and the Krisp id are left out.                                   *)
(***************************************************************************)
EXTENDS Naturals, FiniteSets

CONSTANTS
    Accounts,       \* the business domains, 1..n
    Events,         \* the calendar's events
    Notes,          \* what the user may write, each once
    Rows,           \* the ids of meetings
    Deliveries,     \* the imports of an event that may be under way at once
    Requests,       \* the user's requests that may be
    MaxDeliveries,  \* bound: imports begun
    MaxRequests     \* bound: requests begun

Internal == 0
Partitions == Accounts \cup {Internal}

ASSUME AccountsAssumption == Accounts \subseteq Nat \ {Internal} /\ IsFiniteSet(Accounts)
ASSUME TextsAssumption == Events \cap Notes = {} /\ "none" \notin Events \cup Notes
ASSUME RowsAssumption == IsFiniteSet(Rows)
ASSUME BoundsAssumption == {MaxDeliveries, MaxRequests} \subseteq Nat

VARIABLES
    account,        \* account[a]: no such account, a customer or a partner
    guests,         \* guests[e]: the business domains invited to e
    row,            \* row[i]: the meetings
    delivery,       \* delivery[d]: an import of an event
    request,        \* request[u]: a request of the user
    deliveries, requests,   \* counted for the bounds
    moved,          \* history: events whose row has got another place or name, or
                    \* whose account has changed or was mistaken
    kept            \* history: the notes that ought to be in a live row

vars == <<account, guests, row, delivery, request, deliveries, requests, moved, kept>>

NoRow == [state |-> "free", part |-> Internal, file |-> "none", times |-> "none",
          body |-> {}]
NoDelivery == [step |-> "idle", event |-> "none", todo |-> {}, part |-> Internal]
NoRequest == [step |-> "idle", row |-> "none", seen |-> NoRow, other |-> "none",
              otherSeen |-> NoRow]

\* "tomb": deleted_at is set; "gone": the row was deleted.
RowType == [state : {"free", "live", "tomb", "gone"}, part : Partitions,
            file : Events \cup {"none"}, times : {"none", "calendar", "user"},
            body : SUBSET (Events \cup Notes)]

TypeOK ==
    /\ account \in [Accounts -> {"absent", "account", "partner"}]
    /\ guests \in [Events -> SUBSET Accounts]
    /\ row \in [Rows -> RowType]
    /\ \A i \in Rows : row[i].part # Internal => account[row[i].part] # "absent"
    /\ delivery \in [Deliveries ->
          [step : {"idle", "resolving", "creating", "filling"},
           event : Events \cup {"none"}, todo : SUBSET Accounts, part : Partitions]]
    /\ request \in [Requests ->
          [step : {"idle", "editing", "assigning", "merging"},
           row : Rows \cup {"none"}, seen : RowType,
           other : Rows \cup {"none"}, otherSeen : RowType]]
    /\ deliveries \in 0..MaxDeliveries /\ requests \in 0..MaxRequests
    /\ moved \subseteq Events
    /\ kept \subseteq Notes

Init ==
    /\ account \in [Accounts -> {"absent", "account", "partner"}]
    /\ guests \in [Events -> SUBSET Accounts]
    /\ row = [i \in Rows |-> NoRow]
    /\ delivery = [d \in Deliveries |-> NoDelivery]
    /\ request = [u \in Requests |-> NoRequest]
    /\ deliveries = 0 /\ requests = 0
    /\ moved = {} /\ kept = {}

Live(i) == row[i].state = "live"
Exists(i) == row[i].state \in {"live", "tomb"}

\* Defect: one index on (account_id, filename), in which NULLs are distinct.
TakenInAccounts(p, f, S) ==
    p # Internal /\ f # "none" /\ \E i \in S : Live(i) /\ row[i].part = p /\ row[i].file = f

\* The index on (account_id, filename), and on (user_id, filename) where there
\* is no account, both of live rows: what makes an insert or update fail.
Taken(p, f, S) == f # "none" /\ \E i \in S : Live(i) /\ row[i].part = p /\ row[i].file = f

\* The account that an event would be given: the customer among its guests that
\* comes first, and none if all are partners.
Winner(acct, S) ==
    LET customers == {a \in S : acct[a] # "partner"}
    IN  IF customers = {} THEN Internal
        ELSE CHOOSE a \in customers : \A b \in customers : a <= b

\* Where an import that has come to d goes with the accounts as in acct.
Destination(acct, d) == IF d.part # Internal THEN d.part ELSE Winner(acct, d.todo)

\* The events that acct and who would place elsewhere than now, in an import
\* that begins or in one under way.
Displaced(acct, who) ==
    {e \in Events :
        \/ Winner(acct, who[e]) # Winner(account, guests[e])
        \/ \E d \in Deliveries :
              /\ delivery[d].event = e
              /\ Destination(acct, delivery[d]) # Destination(account, delivery[d])}

\* The notes some live row of r shows.
Shown(r) == Notes \cap UNION {r[i].body : i \in {j \in Rows : r[j].state = "live"}}

-----------------------------------------------------------------------------
(* The calendar import: _importOne. *)

\* A delivery of the day's export, or a repeated one, comes to the event.
BeginImport(d, e) ==
    /\ delivery[d].step = "idle"
    /\ deliveries < MaxDeliveries
    /\ deliveries' = deliveries + 1
    /\ delivery' = [delivery EXCEPT ![d] =
          [step |-> "resolving", event |-> e, todo |-> guests[e], part |-> Internal]]
    /\ UNCHANGED <<account, guests, row, request, requests, moved, kept>>

EndImport(d) == delivery' = [delivery EXCEPT ![d] = NoDelivery]

\* The next domain is resolved: getByDomain, and for a customer that has no
\* account, findOrCreate, which two imports at once may both come to.  The first
\* customer is the one that counts.
Resolve(d) ==
    /\ delivery[d].step = "resolving"
    /\ \E a \in delivery[d].todo :
          /\ \A b \in delivery[d].todo : a <= b
          /\ account' = [account EXCEPT ![a] = IF @ = "absent" THEN "account" ELSE @]
          /\ delivery' = [delivery EXCEPT
                ![d].todo = @ \ {a},
                ![d].part = IF @ = Internal /\ account[a] # "partner" THEN a ELSE @]
    /\ UNCHANGED <<guests, row, request, deliveries, requests, moved, kept>>

\* getByDomain fails, which counts as no account: findOrCreate then finds the
\* one there is, a partner's as well.
ResolveBlind(d) ==
    /\ delivery[d].step = "resolving"
    /\ \E a \in delivery[d].todo :
          /\ \A b \in delivery[d].todo : a <= b
          /\ account[a] = "partner"
          /\ delivery' = [delivery EXCEPT
                ![d].todo = @ \ {a}, ![d].part = IF @ = Internal THEN a ELSE @]
    /\ moved' = moved \cup {delivery[d].event}
    /\ UNCHANGED <<account, guests, row, request, deliveries, requests, kept>>

Resolved(d) ==
    /\ delivery[d].step = "resolving"
    /\ delivery[d].todo = {}
    /\ delivery' = [delivery EXCEPT ![d].step = "creating"]
    /\ UNCHANGED <<account, guests, row, request, deliveries, requests, moved, kept>>

\* Anything may fail on the way: the account created meanwhile by another
\* import, deleted, a contact deleted.  The event is reported as an error.
ImportFails(d) ==
    /\ delivery[d].step # "idle"
    /\ EndImport(d)
    /\ UNCHANGED <<account, guests, row, request, deliveries, requests, moved, kept>>

PartitionExists(p) == p # Internal => account[p] # "absent"

\* meetingsService.create.
CreateMeeting(d) ==
    LET part == delivery[d].part
        event == delivery[d].event
    IN  /\ delivery[d].step = "creating"
        /\ PartitionExists(part)
        /\ ~Taken(part, event, Rows)
        /\ \E i \in Rows :
              /\ row[i].state = "free"
              /\ row' = [row EXCEPT ![i] =
                    [state |-> "live", part |-> part, file |-> event,
                     times |-> "calendar", body |-> {event}]]
        /\ EndImport(d)
        /\ UNCHANGED <<account, guests, request, deliveries, requests, moved, kept>>

\* The insert fails on the index: the event has been imported before.
Duplicate(d) ==
    /\ delivery[d].step = "creating"
    /\ Taken(delivery[d].part, delivery[d].event, Rows)
    /\ delivery' = [delivery EXCEPT ![d].step = "filling"]
    /\ UNCHANGED <<account, guests, row, request, deliveries, requests, moved, kept>>

\* Defect: the calendar's times replace the user's.
BackfillOverwrites(d) ==
    /\ delivery[d].step = "filling"
    /\ row' = [i \in Rows |->
          IF Exists(i) /\ row[i].part = delivery[d].part /\ row[i].file = delivery[d].event
          THEN [row[i] EXCEPT !.times = "calendar"] ELSE row[i]]
    /\ EndImport(d)
    /\ UNCHANGED <<account, guests, request, deliveries, requests, moved, kept>>

\* backfillCalendarFields: one UPDATE, of tombstones as well.
Backfill(d) ==
    /\ delivery[d].step = "filling"
    /\ row' = [i \in Rows |->
          IF /\ Exists(i)
             /\ row[i].part = delivery[d].part
             /\ row[i].file = delivery[d].event
             /\ row[i].times = "none"
          THEN [row[i] EXCEPT !.times = "calendar"] ELSE row[i]]
    /\ EndImport(d)
    /\ UNCHANGED <<account, guests, request, deliveries, requests, moved, kept>>

-----------------------------------------------------------------------------
(* The user's requests. *)

Count == requests < MaxRequests /\ requests' = requests + 1

\* A meeting made by hand, with a file name of its own.
WriteMeeting(p, n) ==
    /\ Count
    /\ PartitionExists(p)
    /\ n \notin kept
    /\ \E i \in Rows :
          /\ row[i].state = "free"
          /\ row' = [row EXCEPT ![i] = [state |-> "live", part |-> p, file |-> "none",
                                        times |-> "none", body |-> {n}]]
    /\ kept' = kept \cup {n}
    /\ UNCHANGED <<account, guests, delivery, request, deliveries, moved>>

\* update: the row as it is read, and all of its columns written back but the
\* account's.
BeginEdit(u, i) ==
    /\ request[u].step = "idle"
    /\ Count
    /\ Live(i)
    /\ request' = [request EXCEPT ![u] =
          [NoRequest EXCEPT !.step = "editing", !.row = i, !.seen = row[i]]]
    /\ UNCHANGED <<account, guests, row, delivery, deliveries, moved, kept>>

Stale(u) ==
    \/ row[request[u].row] # request[u].seen
    \/ request[u].step = "merging" /\ row[request[u].other] # request[u].otherSeen

EndRequest(u) == request' = [request EXCEPT ![u] = NoRequest]

\* The event that a row is of.
EventOf(r) == {r.file} \cap Events

\* The times are set, cleared or left, a note is added or not, and the file name
\* is the one read or another.  All is rolled back where that one is taken.
CommitEdit(u, times, added, file) ==
    LET i == request[u].row
    IN  /\ request[u].step = "editing"
        /\ added \cap kept = {}
        /\ IF Live(i) /\ Taken(row[i].part, file, Rows \ {i})
           THEN UNCHANGED <<row, moved, kept>>
           ELSE /\ row' = IF Exists(i)
                          THEN [row EXCEPT ![i].times = times,
                                           ![i].body = request[u].seen.body \cup added,
                                           ![i].file = file]
                          ELSE row
                /\ moved' = moved \cup (EventOf(row[i]) \ {file})
                /\ kept' = IF Stale(u) THEN kept \cap Shown(row') ELSE kept \cup added
        /\ EndRequest(u)
        /\ UNCHANGED <<account, guests, delivery, deliveries, requests>>

\* delete: the row is gone, and the notes with it.
DeleteMeeting(i) ==
    /\ Count
    /\ Live(i)
    /\ row' = [row EXCEPT ![i] = [NoRow EXCEPT !.state = "gone"]]
    /\ kept' = kept \cap Shown(row')
    /\ UNCHANGED <<account, guests, delivery, request, deliveries, moved>>

\* reassignAccount: refused where the file name is taken.
Reassign(i, p) ==
    /\ Count
    /\ Live(i)
    /\ PartitionExists(p)
    /\ ~Taken(p, row[i].file, Rows \ {i})
    /\ row' = [row EXCEPT ![i].part = p]
    /\ moved' = IF p = row[i].part THEN moved ELSE moved \cup EventOf(row[i])
    /\ UNCHANGED <<account, guests, delivery, request, deliveries, kept>>

\* assignAccount: only a row without an account, as it is read.
BeginAssign(u, i) ==
    /\ request[u].step = "idle"
    /\ Count
    /\ Live(i) /\ row[i].part = Internal
    /\ request' = [request EXCEPT ![u] =
          [NoRequest EXCEPT !.step = "assigning", !.row = i, !.seen = row[i]]]
    /\ UNCHANGED <<account, guests, row, delivery, deliveries, moved, kept>>

CommitAssign(u, p) ==
    LET i == request[u].row
    IN  /\ request[u].step = "assigning"
        /\ p # Internal
        /\ IF Exists(i) /\ account[p] # "absent"
              /\ ~(Live(i) /\ Taken(p, row[i].file, Rows \ {i}))
           THEN /\ row' = [row EXCEPT ![i].part = p]
                /\ moved' = moved \cup EventOf(row[i])
           ELSE UNCHANGED <<row, moved>>
        /\ EndRequest(u)
        /\ UNCHANGED <<account, guests, delivery, deliveries, requests, kept>>

-----------------------------------------------------------------------------
(* The merge of one meeting into another: apply. *)

BeginMerge(u, base, source) ==
    /\ request[u].step = "idle"
    /\ Count
    /\ base # source
    /\ Live(base) /\ Live(source)
    /\ request' = [request EXCEPT ![u] =
          [step |-> "merging", row |-> base, seen |-> row[base],
           other |-> source, otherSeen |-> row[source]]]
    /\ UNCHANGED <<account, guests, row, delivery, deliveries, moved, kept>>

\* The body that the user has chosen to have.
Combined(u, side) ==
    CASE side = "base" -> request[u].seen.body
      [] side = "source" -> request[u].otherSeen.body
      [] side = "both" -> request[u].seen.body \cup request[u].otherSeen.body

\* The rows once the source is a tombstone and the base, if it still exists,
\* has what was chosen of both.
Merged(u, p, side, times) ==
    [i \in Rows |->
        CASE i = request[u].other /\ Exists(i) -> [row[i] EXCEPT !.state = "tomb"]
          [] i = request[u].row /\ Exists(i) ->
                [row[i] EXCEPT !.part = p, !.times = times,
                               !.body = Combined(u, side)]
          [] OTHER -> row[i]]

\* Refused, and rolled back, where the base's file name is taken in its new place
\* or the account is gone.
MergeRefused(u, p) ==
    LET base == request[u].row
    IN  Exists(base) /\ ( \/ ~PartitionExists(p)
                          \/ /\ Live(base)
                             /\ Taken(p, row[base].file,
                                      Rows \ {base, request[u].other}))

\* Defect: no transaction, the source is a tombstone when the base is refused.
CommitMergeHalfway(u, p, side, times) ==
    /\ request[u].step = "merging"
    /\ p \in {request[u].seen.part, request[u].otherSeen.part}
    /\ times \in {request[u].seen.times, request[u].otherSeen.times}
    /\ row' = IF MergeRefused(u, p)
              THEN [i \in Rows |-> IF i = request[u].other /\ Exists(i)
                                   THEN [row[i] EXCEPT !.state = "tomb"] ELSE row[i]]
              ELSE Merged(u, p, side, times)
    /\ kept' = IF Stale(u) THEN kept \cap Shown(row')
               ELSE kept \ ((request[u].seen.body \cup request[u].otherSeen.body)
                            \ Combined(u, side))
    /\ moved' = moved \cup EventOf(request[u].otherSeen) \cup EventOf(request[u].seen)
    /\ EndRequest(u)
    /\ UNCHANGED <<account, guests, delivery, deliveries, requests>>

CommitMerge(u, p, side, times) ==
    /\ request[u].step = "merging"
    /\ p \in {request[u].seen.part, request[u].otherSeen.part}
    /\ times \in {request[u].seen.times, request[u].otherSeen.times}
    /\ IF MergeRefused(u, p) THEN UNCHANGED <<row, moved, kept>>
       ELSE /\ row' = Merged(u, p, side, times)
            /\ kept' = IF Stale(u) THEN kept \cap Shown(row')
                       ELSE kept \ ((request[u].seen.body \cup request[u].otherSeen.body)
                                    \ Combined(u, side))
            /\ moved' = moved \cup EventOf(request[u].otherSeen)
                              \cup (IF p = row[request[u].row].part THEN {}
                                    ELSE EventOf(row[request[u].row]))
    /\ EndRequest(u)
    /\ UNCHANGED <<account, guests, delivery, deliveries, requests>>

-----------------------------------------------------------------------------
(* The accounts and the calendar. *)

\* accounts.patch: an account becomes a partner, or a customer again.
ChangeStatus(a) ==
    /\ Count
    /\ account[a] # "absent"
    /\ account' = [account EXCEPT ![a] = IF @ = "partner" THEN "account" ELSE "partner"]
    /\ moved' = moved \cup Displaced(account', guests)
    /\ UNCHANGED <<guests, row, delivery, request, deliveries, kept>>

\* Defect: its meetings stay.
DeleteAccountAlone(a) ==
    /\ Count
    /\ account[a] # "absent"
    /\ account' = [account EXCEPT ![a] = "absent"]
    /\ moved' = moved \cup Displaced(account', guests)
    /\ UNCHANGED <<guests, row, delivery, request, deliveries, kept>>

\* accounts.delete: its meetings go with it.
DeleteAccount(a) ==
    /\ Count
    /\ account[a] # "absent"
    /\ account' = [account EXCEPT ![a] = "absent"]
    /\ row' = [i \in Rows |-> IF Exists(i) /\ row[i].part = a
                              THEN [NoRow EXCEPT !.state = "gone"] ELSE row[i]]
    /\ moved' = moved \cup Displaced(account', guests)
    /\ kept' = kept \cap Shown(row')
    /\ UNCHANGED <<guests, delivery, request, deliveries>>

\* Someone is invited, or no longer.
ChangeGuests(e, S) ==
    /\ Count
    /\ S # guests[e]
    /\ guests' = [guests EXCEPT ![e] = S]
    /\ moved' = moved \cup Displaced(account, guests')
    /\ UNCHANGED <<account, row, delivery, request, deliveries, kept>>

Next ==
    \/ \E d \in Deliveries :
          \/ \E e \in Events : BeginImport(d, e)
          \/ Resolve(d) \/ ResolveBlind(d) \/ Resolved(d) \/ ImportFails(d)
          \/ CreateMeeting(d) \/ Duplicate(d) \/ Backfill(d)
    \/ \E p \in Partitions, n \in Notes : WriteMeeting(p, n)
    \/ \E i \in Rows : DeleteMeeting(i) \/ \E p \in Partitions : Reassign(i, p)
    \/ \E u \in Requests :
          \/ \E i \in Rows : BeginEdit(u, i) \/ BeginAssign(u, i)
          \/ \E i, j \in Rows : BeginMerge(u, i, j)
          \/ \E times \in {"none", "user", request[u].seen.times}, n \in Notes,
                file \in {"none", request[u].seen.file} \cup Events :
                CommitEdit(u, times, {}, file) \/ CommitEdit(u, times, {n}, file)
          \/ \E p \in Partitions :
                \/ CommitAssign(u, p)
                \/ \E side \in {"base", "source", "both"},
                      times \in {"none", "calendar", "user"} : CommitMerge(u, p, side, times)
    \/ \E a \in Accounts : ChangeStatus(a) \/ DeleteAccount(a)
    \/ \E e \in Events, S \in SUBSET Accounts : ChangeGuests(e, S)

Spec == Init /\ [][Next]_vars

-----------------------------------------------------------------------------
(* Properties *)

\* Re-import is idempotent (calendar-import.ts): however often and however concurrently an event is
\* delivered, one live meeting has its description, unless its row was moved,
\* merged or given another file name, or the account it resolves to has changed or
\* was mistaken, which the comment there does not except.
ImportedOnce ==
    \A e \in Events \ moved :
        Cardinality({i \in Rows : Live(i) /\ e \in row[i].body}) <= 1

\* A note the user has saved is in a live meeting until a deletion or a choice
\* of the other side's notes in a merge takes it away, unless an edit or a merge
\* was committed over what another had written since it read.
NotesStayVisible == kept \subseteq Shown(row)

\* An import only ever fills blanks: what the user has set on a meeting, and
\* where it was put, no import changes, whatever else is under way.
ImportKeepsEdits ==
    [][delivery' # delivery =>
          \A i \in Rows : row[i].state # "free" =>
              /\ [row'[i] EXCEPT !.times = row[i].times] = row[i]
              /\ row[i].times # "none" => row'[i].times = row[i].times]_vars
=============================================================================
