--------------------------- MODULE MeetingsProofs ---------------------------
(***************************************************************************)
(* Proofs about Meetings, for any accounts, events, notes, rows, imports   *)
(* and requests.  The invariant comes in three parts, each inductive with  *)
(* the ones before it: the types, with what an import and a request under  *)
(* way hold on to; the notes; and where the rows of an event are.          *)
(***************************************************************************)
EXTENDS Meetings, FiniteSetTheorems, TLAPS

\* A row that does not exist is in no account.
Placed == \A i \in Rows : Exists(i) \/ row[i].part = Internal

\* What an import has come to.
Coming(d) ==
    /\ delivery[d].step # "idle" => delivery[d].event \in Events
    /\ delivery[d].step # "resolving" => delivery[d].todo = {}

\* r is what a request has read of row i.
Read(i, r) ==
    /\ i \in Rows
    /\ r.state = "live"
    /\ row[i].state # "free"

Reading(u) ==
    /\ request[u].step # "idle" => Read(request[u].row, request[u].seen)
    /\ request[u].step = "merging" =>
          /\ Read(request[u].other, request[u].otherSeen)
          /\ request[u].row # request[u].other

UnderWay == (\A d \in Deliveries : Coming(d)) /\ (\A u \in Requests : Reading(u))

Typed == TypeOK /\ Placed /\ UnderWay

DeliveryType == [step : {"idle", "resolving", "creating", "filling"},
                 event : Events \cup {"none"}, todo : SUBSET Accounts, part : Partitions]

RequestType == [step : {"idle", "editing", "assigning", "merging"},
                row : Rows \cup {"none"}, seen : RowType,
                other : Rows \cup {"none"}, otherSeen : RowType]

-----------------------------------------------------------------------------
(* The records of the state. *)

LEMMA NoRowIsRow == NoRow \in RowType
BY DEF NoRow, RowType, Partitions

LEMMA NoDeliveryIsDelivery == NoDelivery \in DeliveryType
BY DEF NoDelivery, DeliveryType, Partitions

LEMMA NoRequestIsRequest == NoRequest \in RequestType
BY NoRowIsRow DEF NoRequest, RequestType

-----------------------------------------------------------------------------
(* The types, and what is under way. *)

\* Rows are not made anew.
KeepsRows == \A i \in Rows : row[i].state # "free" => row'[i].state # "free"

\* What TypeOK says, under the names of the types.
LEMMA Fields ==
    TypeOK <=> /\ account \in [Accounts -> {"absent", "account", "partner"}]
               /\ guests \in [Events -> SUBSET Accounts]
               /\ row \in [Rows -> RowType]
               /\ \A i \in Rows : row[i].part # Internal => account[row[i].part] # "absent"
               /\ delivery \in [Deliveries -> DeliveryType]
               /\ request \in [Requests -> RequestType]
               /\ deliveries \in 0..MaxDeliveries /\ requests \in 0..MaxRequests
               /\ moved \subseteq Events
               /\ kept \subseteq Notes
BY DEF TypeOK, DeliveryType, RequestType

LEMMA ReadKept ==
    ASSUME KeepsRows, NEW i, NEW r, Read(i, r)
    PROVE  Read(i, r)'
BY DEF KeepsRows, Read

\* Nothing under way is disturbed by a step that begins and ends none.
LEMMA UnderWayKept ==
    ASSUME UnderWay, KeepsRows, UNCHANGED <<delivery, request>>
    PROVE  UnderWay'
<1>1. ASSUME NEW d \in Deliveries PROVE Coming(d)'
    BY DEF UnderWay, Coming
<1>2. ASSUME NEW u \in Requests PROVE Reading(u)'
    BY ReadKept DEF UnderWay, Reading
<1> QED
    BY <1>1, <1>2 DEF UnderWay

\* An import goes on to x, or ends.
LEMMA ImportGoesOn ==
    ASSUME Typed, KeepsRows, UNCHANGED request, NEW d \in Deliveries, NEW x \in DeliveryType,
           delivery' = [delivery EXCEPT ![d] = x],
           x.step # "idle" => x.event \in Events,
           x.step # "resolving" => x.todo = {}
    PROVE  UnderWay' /\ delivery' \in [Deliveries -> DeliveryType]
<1>1. delivery \in [Deliveries -> DeliveryType]
    BY Fields DEF Typed
<1>2. ASSUME NEW c \in Deliveries PROVE Coming(c)'
    BY <1>1 DEF Typed, UnderWay, Coming
<1>3. ASSUME NEW u \in Requests PROVE Reading(u)'
    BY ReadKept DEF Typed, UnderWay, Reading
<1> QED
    BY <1>1, <1>2, <1>3 DEF UnderWay

LEMMA ImportEnds ==
    ASSUME Typed, KeepsRows, UNCHANGED request, NEW d \in Deliveries, EndImport(d)
    PROVE  UnderWay' /\ delivery' \in [Deliveries -> DeliveryType]
BY NoDeliveryIsDelivery, ImportGoesOn DEF EndImport, NoDelivery

\* A request goes on to x, or ends.
LEMMA RequestGoesOn ==
    ASSUME Typed, KeepsRows, UNCHANGED delivery, NEW u \in Requests, NEW x \in RequestType,
           request' = [request EXCEPT ![u] = x],
           x.step # "idle" => Read(x.row, x.seen),
           x.step = "merging" => Read(x.other, x.otherSeen) /\ x.row # x.other
    PROVE  UnderWay' /\ request' \in [Requests -> RequestType]
<1>1. request \in [Requests -> RequestType]
    BY Fields DEF Typed
<1>2. ASSUME NEW d \in Deliveries PROVE Coming(d)'
    BY DEF Typed, UnderWay, Coming
<1>3. ASSUME NEW v \in Requests PROVE Reading(v)'
    <2>1. CASE v = u
        <3>1. request'[v] = x
            BY <1>1, <2>1
        <3> QED
            BY <3>1, ReadKept DEF Reading
    <2>2. CASE v # u
        <3>1. request'[v] = request[v]
            BY <1>1, <2>2
        <3> QED
            BY <3>1, ReadKept DEF Typed, UnderWay, Reading
    <2> QED
        BY <2>1, <2>2
<1> QED
    BY <1>1, <1>2, <1>3 DEF UnderWay

LEMMA RequestEnds ==
    ASSUME Typed, KeepsRows, UNCHANGED delivery, NEW u \in Requests, EndRequest(u)
    PROVE  UnderWay' /\ request' \in [Requests -> RequestType]
BY NoRequestIsRequest, RequestGoesOn DEF EndRequest, NoRequest

-----------------------------------------------------------------------------
(* What the writers do to the rows. *)

\* A row keeps its type, is in an account only if both exist, and once it is
\* there is not made anew and does not come back.
SoundRow(i) ==
    /\ row'[i] \in RowType
    /\ row'[i].part # Internal =>
          account'[row'[i].part] # "absent" /\ row'[i].state \in {"live", "tomb"}
    /\ row[i].state # "free" =>
          /\ row'[i].state # "free"
          /\ row'[i].state \in {"live", "tomb"} => Exists(i)

SoundRows == row' \in [Rows -> RowType] /\ \A i \in Rows : SoundRow(i)

\* What can be said of a row before a step.
LEMMA RowBefore ==
    ASSUME Typed, NEW i \in Rows
    PROVE  /\ row \in [Rows -> RowType]
           /\ row[i] \in RowType
           /\ row[i].part # Internal => account[row[i].part] # "absent" /\ Exists(i)
BY Fields DEF Typed, Placed

\* A row left as it is, and one whose times alone change, stay sound where no
\* account goes.
LEMMA SameRowIsSound ==
    ASSUME Typed, NEW i \in Rows,
           \A a \in Accounts : account[a] # "absent" => account'[a] # "absent",
           \/ row'[i] = row[i]
           \/ \E t \in {"none", "calendar", "user"} : row'[i] = [row[i] EXCEPT !.times = t]
    PROVE  SoundRow(i)
<1>1. /\ row[i] \in RowType
      /\ row[i].part # Internal => account[row[i].part] # "absent" /\ Exists(i)
    BY RowBefore
<1>2. /\ row'[i] \in RowType /\ row'[i].part = row[i].part
      /\ row'[i].state = row[i].state
    <2>1. CASE row'[i] = row[i]
        BY <1>1, <2>1
    <2>2. ASSUME NEW t \in {"none", "calendar", "user"}, row'[i] = [row[i] EXCEPT !.times = t]
          PROVE  /\ row'[i] \in RowType /\ row'[i].part = row[i].part
                 /\ row'[i].state = row[i].state
        BY <1>1, <2>2 DEF RowType
    <2> QED
        BY <2>1, <2>2
<1>3. row[i].part # Internal => row[i].part \in Accounts
    BY <1>1 DEF RowType, Partitions
<1> QED
    BY <1>1, <1>2, <1>3 DEF SoundRow, Exists

LEMMA SoundIsKept ==
    ASSUME SoundRows
    PROVE  KeepsRows
BY DEF SoundRows, SoundRow, KeepsRows

\* The types after a step, from those of its parts.
LEMMA TypedAfter ==
    ASSUME SoundRows, UnderWay',
           account' \in [Accounts -> {"absent", "account", "partner"}],
           guests' \in [Events -> SUBSET Accounts],
           delivery' \in [Deliveries -> DeliveryType],
           request' \in [Requests -> RequestType],
           deliveries' \in 0..MaxDeliveries, requests' \in 0..MaxRequests,
           moved' \subseteq Events, kept' \subseteq Notes
    PROVE  Typed'
<1>1. TypeOK'
    BY DEF SoundRows, SoundRow, TypeOK, DeliveryType, RequestType
<1>2. Placed'
    BY DEF SoundRows, SoundRow, Placed, Exists
<1> QED
    BY <1>1, <1>2 DEF Typed

\* The rows of a step that leaves them, and the accounts there are, alone.
LEMMA RowsLeftAlone ==
    ASSUME Typed, UNCHANGED row,
           \A a \in Accounts : account[a] # "absent" => account'[a] # "absent"
    PROVE  SoundRows
<1>1. row' \in [Rows -> RowType]
    BY Fields DEF Typed
<1>2. ASSUME NEW i \in Rows PROVE SoundRow(i)
    BY SameRowIsSound
<1> QED
    BY <1>1, <1>2 DEF SoundRows

LEMMA CreateMeetingRows ==
    ASSUME Typed, NEW d \in Deliveries, CreateMeeting(d)
    PROVE  SoundRows
<1>1. PICK i \in Rows :
        /\ row[i].state = "free"
        /\ row' = [row EXCEPT ![i] =
              [state |-> "live", part |-> delivery[d].part, file |-> delivery[d].event,
               times |-> "calendar", body |-> {delivery[d].event}]]
    BY DEF CreateMeeting
<1>2. /\ account' = account /\ PartitionExists(delivery[d].part)
      /\ delivery[d].event \in Events /\ delivery[d].part \in Partitions
    BY Fields DEF CreateMeeting, Typed, UnderWay, Coming, DeliveryType
<1>3. row \in [Rows -> RowType]
    BY Fields DEF Typed
<1>4. row' \in [Rows -> RowType]
    BY <1>1, <1>2, <1>3 DEF RowType
<1>5. SoundRow(i)
    BY <1>1, <1>2, <1>3, <1>4 DEF SoundRow, PartitionExists
<1>6. ASSUME NEW j \in Rows, j # i PROVE SoundRow(j)
    BY <1>1, <1>2, <1>3, <1>6, SameRowIsSound
<1> QED
    BY <1>4, <1>5, <1>6 DEF SoundRows

LEMMA BackfillRows ==
    ASSUME Typed, NEW d \in Deliveries, Backfill(d)
    PROVE  SoundRows
<1>1. row \in [Rows -> RowType] /\ account' = account
    BY Fields DEF Typed, Backfill
<1>2. ASSUME NEW i \in Rows
      PROVE  row'[i] = row[i] \/ row'[i] = [row[i] EXCEPT !.times = "calendar"]
    BY DEF Backfill
<1>3. ASSUME NEW i \in Rows PROVE SoundRow(i)
    BY <1>1, <1>2, SameRowIsSound
<1>4. row' = [i \in Rows |-> row'[i]]
    BY DEF Backfill
<1>5. row' \in [Rows -> RowType]
    BY <1>3, <1>4 DEF SoundRow
<1> QED
    BY <1>3, <1>5 DEF SoundRows

LEMMA WriteMeetingRows ==
    ASSUME Typed, NEW p \in Partitions, NEW n \in Notes, WriteMeeting(p, n)
    PROVE  SoundRows
<1>1. PICK i \in Rows :
        /\ row[i].state = "free"
        /\ row' = [row EXCEPT ![i] = [state |-> "live", part |-> p, file |-> "none",
                                      times |-> "none", body |-> {n}]]
    BY DEF WriteMeeting
<1>2. account' = account /\ PartitionExists(p)
    BY DEF WriteMeeting
<1>3. row \in [Rows -> RowType]
    BY Fields DEF Typed
<1>4. row' \in [Rows -> RowType]
    BY <1>1, <1>3 DEF RowType
<1>5. SoundRow(i)
    BY <1>1, <1>2, <1>3, <1>4 DEF SoundRow, PartitionExists
<1>6. ASSUME NEW j \in Rows, j # i PROVE SoundRow(j)
    BY <1>1, <1>2, <1>3, <1>6, SameRowIsSound
<1> QED
    BY <1>4, <1>5, <1>6 DEF SoundRows

LEMMA CommitEditRows ==
    ASSUME Typed, NEW u \in Requests,
           NEW times \in {"none", "user", request[u].seen.times},
           NEW added \in SUBSET Notes,
           NEW file \in {"none", request[u].seen.file} \cup Events,
           CommitEdit(u, times, added, file)
    PROVE  SoundRows
<1> DEFINE i == request[u].row
           b == request[u].seen.body \cup added
<1>1. /\ row \in [Rows -> RowType] /\ account' = account
      /\ \/ row' = row
         \/ Exists(i) /\ row' = [row EXCEPT ![i].times = times, ![i].body = b,
                                           ![i].file = file]
    BY Fields DEF Typed, CommitEdit
<1>2. i \in Rows
    BY DEF CommitEdit, Typed, UnderWay, Reading, Read
<1>3. request[u].seen \in RowType
    BY Fields DEF Typed, RequestType
<1>4. /\ times \in {"none", "calendar", "user"} /\ b \in SUBSET (Events \cup Notes)
      /\ file \in Events \cup {"none"}
    BY <1>3 DEF RowType
<1> HIDE DEF i, b
<1>5. CASE /\ Exists(i)
           /\ row' = [row EXCEPT ![i].times = times, ![i].body = b, ![i].file = file]
    <2>1. row'[i] = [[[row[i] EXCEPT !.times = times] EXCEPT !.body = b] EXCEPT !.file = file]
        BY <1>1, <1>2, <1>5
    <2>2. /\ row[i] \in RowType
          /\ row[i].part # Internal => account[row[i].part] # "absent"
        BY <1>2, RowBefore
    <2>3. /\ row'[i] \in RowType /\ row'[i].part = row[i].part
          /\ row'[i].state = row[i].state
        BY <1>4, <2>1, <2>2 DEF RowType
    <2>4. SoundRow(i)
        BY <1>1, <1>5, <2>2, <2>3 DEF SoundRow, Exists
    <2>5. ASSUME NEW j \in Rows, j # i PROVE SoundRow(j)
        BY <1>1, <1>2, <1>5, <2>5, SameRowIsSound
    <2>6. row' \in [Rows -> RowType]
        <3>1. row' = [j \in Rows |-> row'[j]]
            BY <1>1, <1>5
        <3> QED
            BY <2>4, <2>5, <3>1 DEF SoundRow
    <2> QED
        BY <2>4, <2>5, <2>6 DEF SoundRows
<1>6. CASE row' = row
    BY <1>1, <1>6, RowsLeftAlone
<1> QED
    BY <1>1, <1>5, <1>6

\* A row that is deleted.
LEMMA DeletedRowIsSound ==
    ASSUME Typed, NEW i \in Rows, row'[i] = [NoRow EXCEPT !.state = "gone"]
    PROVE  SoundRow(i)
<1>1. row'[i] \in RowType /\ row'[i].part = Internal /\ row'[i].state = "gone"
    BY NoRowIsRow DEF NoRow, RowType
<1> QED
    BY <1>1 DEF SoundRow

LEMMA DeleteMeetingRows ==
    ASSUME Typed, NEW i \in Rows, DeleteMeeting(i)
    PROVE  SoundRows
<1>1. row \in [Rows -> RowType] /\ account' = account
    BY Fields DEF Typed, DeleteMeeting
<1>2. row' = [row EXCEPT ![i] = [NoRow EXCEPT !.state = "gone"]]
    BY DEF DeleteMeeting
<1>3. SoundRow(i)
    BY <1>1, <1>2, DeletedRowIsSound
<1>4. ASSUME NEW j \in Rows, j # i PROVE SoundRow(j)
    BY <1>1, <1>2, <1>4, SameRowIsSound
<1>5. row' = [j \in Rows |-> row'[j]]
    BY <1>1, <1>2
<1>6. row' \in [Rows -> RowType]
    BY <1>3, <1>4, <1>5 DEF SoundRow
<1> QED
    BY <1>3, <1>4, <1>6 DEF SoundRows

\* A row that exists moves to p.
LEMMA MoveRows ==
    ASSUME Typed, account' = account, NEW i \in Rows, NEW p \in Partitions,
           Exists(i), PartitionExists(p), row' = [row EXCEPT ![i].part = p]
    PROVE  SoundRows
<1>1. row \in [Rows -> RowType] /\ row[i] \in RowType
    BY RowBefore
<1>2. row'[i] = [row[i] EXCEPT !.part = p]
    BY <1>1
<1>3. /\ row'[i] \in RowType /\ row'[i].part = p
      /\ row'[i].state = row[i].state
    BY <1>1, <1>2 DEF RowType
<1>4. SoundRow(i)
    BY <1>3 DEF SoundRow, Exists, PartitionExists
<1>5. ASSUME NEW j \in Rows, j # i PROVE SoundRow(j)
    BY <1>1, <1>5, SameRowIsSound
<1>6. row' = [j \in Rows |-> row'[j]]
    BY <1>1
<1>7. row' \in [Rows -> RowType]
    BY <1>4, <1>5, <1>6 DEF SoundRow
<1> QED
    BY <1>4, <1>5, <1>7 DEF SoundRows

LEMMA ReassignRows ==
    ASSUME Typed, NEW i \in Rows, NEW p \in Partitions, Reassign(i, p)
    PROVE  SoundRows
BY MoveRows DEF Reassign, Live, Exists

LEMMA CommitAssignRows ==
    ASSUME Typed, NEW u \in Requests, NEW p \in Partitions, CommitAssign(u, p)
    PROVE  SoundRows
<1> DEFINE i == request[u].row
<1>1. i \in Rows /\ account' = account
    BY DEF CommitAssign, Typed, UnderWay, Reading, Read
<1>2. CASE UNCHANGED row
    BY <1>1, <1>2, RowsLeftAlone
<1>3. CASE ~UNCHANGED row
    <2>1. Exists(i) /\ PartitionExists(p) /\ row' = [row EXCEPT ![i].part = p]
        BY <1>3 DEF CommitAssign, PartitionExists
    <2> QED
        BY <1>1, <2>1, MoveRows
<1> QED
    BY <1>2, <1>3

LEMMA CommitMergeRows ==
    ASSUME Typed, NEW u \in Requests, NEW p \in Partitions,
           NEW side \in {"base", "source", "both"},
           NEW times \in {"none", "calendar", "user"}, CommitMerge(u, p, side, times)
    PROVE  SoundRows
<1> DEFINE base == request[u].row
           source == request[u].other
           b == Combined(u, side)
<1>1. row \in [Rows -> RowType] /\ account' = account
    BY Fields DEF Typed, CommitMerge
<1>2. b \in SUBSET (Events \cup Notes)
    <2>1. /\ request[u].seen.body \in SUBSET (Events \cup Notes)
          /\ request[u].otherSeen.body \in SUBSET (Events \cup Notes)
        BY Fields DEF Typed, RequestType, RowType
    <2> QED
        BY <2>1 DEF Combined
<1> HIDE DEF b
<1>3. CASE MergeRefused(u, p)
    BY <1>1, <1>3, RowsLeftAlone DEF CommitMerge
<1>4. CASE ~MergeRefused(u, p)
    <2> DEFINE R(i) ==
              CASE i = source /\ Exists(i) -> [row[i] EXCEPT !.state = "tomb"]
                [] i = base /\ Exists(i) ->
                      [row[i] EXCEPT !.part = p, !.times = times, !.body = b]
                [] OTHER -> row[i]
    <2>1. row' = [i \in Rows |-> R(i)]
        BY <1>4 DEF CommitMerge, Merged, b
    <2>2. base # source
        BY DEF CommitMerge, Typed, UnderWay, Reading
    <2>3. Exists(base) => PartitionExists(p)
        BY <1>4 DEF MergeRefused
    <2> HIDE DEF base, source
    <2>4. ASSUME NEW i \in Rows PROVE SoundRow(i)
        <3>1. /\ row[i] \in RowType
              /\ row[i].part # Internal => account[row[i].part] # "absent" /\ Exists(i)
            BY RowBefore
        <3>2. CASE i = source /\ Exists(i)
            <4>1. row'[i] = [row[i] EXCEPT !.state = "tomb"]
                BY <2>1, <2>2, <3>2
            <4>2. /\ row'[i] \in RowType /\ row'[i].part = row[i].part
                  /\ row'[i].state = "tomb"
                BY <3>1, <4>1 DEF RowType
            <4> QED
                BY <1>1, <3>1, <3>2, <4>2 DEF SoundRow
        <3>3. CASE i = base /\ Exists(i)
            <4>1. row'[i] = [row[i] EXCEPT !.part = p, !.times = times, !.body = b]
                BY <2>1, <2>2, <3>3
            <4>2. /\ row'[i] \in RowType /\ row'[i].part = p
                  /\ row'[i].state = row[i].state
                BY <1>2, <3>1, <4>1 DEF RowType
            <4> QED
                BY <1>1, <2>3, <3>3, <4>2 DEF SoundRow, Exists, PartitionExists
        <3>4. CASE ~((i = source \/ i = base) /\ Exists(i))
            <4>1. row'[i] = row[i]
                BY <2>1, <3>4
            <4> QED
                BY <1>1, <4>1, SameRowIsSound
        <3> QED
            BY <3>2, <3>3, <3>4
    <2>5. row' = [i \in Rows |-> row'[i]]
        <3> HIDE DEF R
        <3> QED
            BY <2>1
    <2>6. row' \in [Rows -> RowType]
        BY <2>4, <2>5 DEF SoundRow
    <2> QED
        BY <2>4, <2>6 DEF SoundRows
<1> QED
    BY <1>3, <1>4

LEMMA DeleteAccountRows ==
    ASSUME Typed, NEW a \in Accounts, DeleteAccount(a)
    PROVE  SoundRows
<1>1. /\ account \in [Accounts -> {"absent", "account", "partner"}]
      /\ account' = [account EXCEPT ![a] = "absent"]
      /\ row' = [i \in Rows |-> IF Exists(i) /\ row[i].part = a
                                THEN [NoRow EXCEPT !.state = "gone"] ELSE row[i]]
    BY Fields DEF Typed, DeleteAccount
<1>2. ASSUME NEW i \in Rows PROVE SoundRow(i)
    <2>1. /\ row[i] \in RowType
          /\ row[i].part # Internal => account[row[i].part] # "absent" /\ Exists(i)
        BY RowBefore
    <2>2. CASE Exists(i) /\ row[i].part = a
        BY <1>1, <2>2, DeletedRowIsSound
    <2>3. CASE row[i].part # a
        <3>1. row'[i] = row[i]
            BY <1>1, <2>3
        <3>2. row[i].part # Internal => account'[row[i].part] # "absent"
            BY <1>1, <2>1, <2>3 DEF RowType, Partitions
        <3> QED
            BY <2>1, <3>1, <3>2 DEF SoundRow, Exists
    <2>4. CASE row[i].part = a /\ ~Exists(i)
        BY <2>1, <2>4, AccountsAssumption DEF Internal
    <2> QED
        BY <2>2, <2>3, <2>4
<1>3. row' = [i \in Rows |-> row'[i]]
    BY <1>1
<1>4. row' \in [Rows -> RowType]
    BY <1>2, <1>3 DEF SoundRow
<1> QED
    BY <1>2, <1>4 DEF SoundRows

-----------------------------------------------------------------------------
(* The types, inductively. *)

LEMMA InitTyped == Init => Typed
<1> SUFFICES ASSUME Init PROVE Typed
    OBVIOUS
<1>1. MaxDeliveries \in Nat /\ MaxRequests \in Nat
    BY BoundsAssumption
<1>2. \A i \in Rows : row[i] = NoRow
    BY DEF Init
<1>3. TypeOK
    <2>1. account \in [Accounts -> {"absent", "account", "partner"}]
        BY DEF Init
    <2>2. row \in [Rows -> RowType] /\ \A i \in Rows : row[i].part = Internal
        BY NoRowIsRow DEF Init, NoRow
    <2>3. delivery \in [Deliveries -> DeliveryType] /\ request \in [Requests -> RequestType]
        BY NoDeliveryIsDelivery, NoRequestIsRequest DEF Init
    <2>4. deliveries \in 0..MaxDeliveries /\ requests \in 0..MaxRequests
        BY <1>1 DEF Init
    <2>5. guests \in [Events -> SUBSET Accounts] /\ moved = {} /\ kept = {}
        BY DEF Init
    <2> QED
        BY <2>1, <2>2, <2>3, <2>4, <2>5, Fields
<1>4. Placed
    BY <1>2 DEF Placed, NoRow
<1>5. UnderWay
    BY DEF Init, UnderWay, Coming, Reading, NoDelivery, NoRequest
<1> QED
    BY <1>3, <1>4, <1>5 DEF Typed

\* The steps of an import.
LEMMA ImportTyped ==
    ASSUME Typed, NEW d \in Deliveries,
           \/ \E e \in Events : BeginImport(d, e)
           \/ Resolve(d) \/ ResolveBlind(d) \/ Resolved(d) \/ ImportFails(d)
           \/ CreateMeeting(d) \/ Duplicate(d) \/ Backfill(d)
    PROVE  Typed'
<1> USE DEF Typed
<1>1. /\ account \in [Accounts -> {"absent", "account", "partner"}]
      /\ guests \in [Events -> SUBSET Accounts]
      /\ delivery \in [Deliveries -> DeliveryType]
      /\ request \in [Requests -> RequestType]
      /\ deliveries \in 0..MaxDeliveries /\ requests \in 0..MaxRequests
      /\ moved \subseteq Events /\ kept \subseteq Notes
    BY Fields
<1>2. /\ delivery[d] \in DeliveryType
      /\ delivery[d].step # "idle" => delivery[d].event \in Events
      /\ delivery[d].step # "resolving" => delivery[d].todo = {}
    BY <1>1 DEF UnderWay, Coming
<1>3. ASSUME NEW e \in Events, BeginImport(d, e) PROVE Typed'
    <2> DEFINE x == [step |-> "resolving", event |-> e, todo |-> guests[e], part |-> Internal]
    <2>1. SoundRows
        BY <1>3, RowsLeftAlone DEF BeginImport
    <2>2. x \in DeliveryType /\ delivery' = [delivery EXCEPT ![d] = x]
        BY <1>1, <1>3 DEF BeginImport, DeliveryType, Partitions
    <2>3. UnderWay' /\ delivery' \in [Deliveries -> DeliveryType]
        <3> HIDE DEF x
        <3>1. x.step = "resolving" /\ x.event \in Events
            BY DEF x
        <3> QED
            BY <1>3, <2>1, <2>2, <3>1, SoundIsKept, ImportGoesOn DEF BeginImport
    <2>4. deliveries' \in 0..MaxDeliveries
        BY <1>1, <1>3, BoundsAssumption DEF BeginImport
    <2> QED
        BY <1>1, <1>3, <2>1, <2>3, <2>4, TypedAfter DEF BeginImport
<1>4. CASE Resolve(d)
    <2>1. PICK a \in delivery[d].todo :
            /\ account' = [account EXCEPT ![a] = IF @ = "absent" THEN "account" ELSE @]
            /\ delivery' = [delivery EXCEPT
                  ![d].todo = @ \ {a},
                  ![d].part = IF @ = Internal /\ account[a] # "partner" THEN a ELSE @]
        BY <1>4 DEF Resolve
    <2> DEFINE x == [delivery[d] EXCEPT
                !.todo = @ \ {a},
                !.part = IF @ = Internal /\ account[a] # "partner" THEN a ELSE @]
    <2>2. a \in Accounts /\ account' \in [Accounts -> {"absent", "account", "partner"}]
        BY <1>1, <1>2, <2>1 DEF DeliveryType
    <2>3. SoundRows
        BY <1>1, <1>4, <2>1, <2>2, RowsLeftAlone DEF Resolve
    <2>4. x \in DeliveryType /\ x.step = "resolving" /\ x.event = delivery[d].event
        BY <1>2, <1>4, <2>2 DEF Resolve, DeliveryType, Partitions
    <2>5. delivery' = [delivery EXCEPT ![d] = x]
        BY <1>1, <1>2, <2>1 DEF DeliveryType
    <2> HIDE DEF x
    <2>6. UnderWay' /\ delivery' \in [Deliveries -> DeliveryType]
        BY <1>2, <1>4, <2>3, <2>4, <2>5, SoundIsKept, ImportGoesOn DEF Resolve
    <2> QED
        BY <1>1, <1>4, <2>2, <2>3, <2>6, TypedAfter DEF Resolve
<1>5. CASE ResolveBlind(d)
    <2>1. PICK a \in delivery[d].todo :
            delivery' = [delivery EXCEPT
                ![d].todo = @ \ {a}, ![d].part = IF @ = Internal THEN a ELSE @]
        BY <1>5 DEF ResolveBlind
    <2> DEFINE x == [delivery[d] EXCEPT
                !.todo = @ \ {a}, !.part = IF @ = Internal THEN a ELSE @]
    <2>2. a \in Accounts
        BY <1>2, <2>1 DEF DeliveryType
    <2>3. SoundRows
        BY <1>5, RowsLeftAlone DEF ResolveBlind
    <2>4. x \in DeliveryType /\ x.step = "resolving" /\ x.event = delivery[d].event
        BY <1>2, <1>5, <2>2 DEF ResolveBlind, DeliveryType, Partitions
    <2>5. delivery' = [delivery EXCEPT ![d] = x]
        BY <1>1, <1>2, <2>1 DEF DeliveryType
    <2> HIDE DEF x
    <2>6. UnderWay' /\ delivery' \in [Deliveries -> DeliveryType]
        BY <1>2, <1>5, <2>3, <2>4, <2>5, SoundIsKept, ImportGoesOn DEF ResolveBlind
    <2>7. moved' \subseteq Events
        BY <1>1, <1>2, <1>5 DEF ResolveBlind
    <2> QED
        BY <1>1, <1>5, <2>3, <2>6, <2>7, TypedAfter DEF ResolveBlind
<1>6. CASE Resolved(d)
    <2> DEFINE x == [delivery[d] EXCEPT !.step = "creating"]
    <2>1. SoundRows
        BY <1>6, RowsLeftAlone DEF Resolved
    <2>2. /\ x \in DeliveryType /\ x.step = "creating" /\ x.todo = {}
          /\ x.event = delivery[d].event
        BY <1>2, <1>6 DEF Resolved, DeliveryType
    <2>3. delivery' = [delivery EXCEPT ![d] = x]
        BY <1>1, <1>6 DEF Resolved, DeliveryType
    <2> HIDE DEF x
    <2>4. UnderWay' /\ delivery' \in [Deliveries -> DeliveryType]
        BY <1>2, <1>6, <2>1, <2>2, <2>3, SoundIsKept, ImportGoesOn DEF Resolved
    <2> QED
        BY <1>1, <1>6, <2>1, <2>4, TypedAfter DEF Resolved
<1>7. CASE ImportFails(d)
    <2>1. SoundRows
        BY <1>7, RowsLeftAlone DEF ImportFails
    <2>2. UnderWay' /\ delivery' \in [Deliveries -> DeliveryType]
        BY <1>7, <2>1, SoundIsKept, ImportEnds DEF ImportFails
    <2> QED
        BY <1>1, <1>7, <2>1, <2>2, TypedAfter DEF ImportFails
<1>8. CASE CreateMeeting(d)
    <2>1. SoundRows
        BY <1>8, CreateMeetingRows
    <2>2. UnderWay' /\ delivery' \in [Deliveries -> DeliveryType]
        BY <1>8, <2>1, SoundIsKept, ImportEnds DEF CreateMeeting
    <2> QED
        BY <1>1, <1>8, <2>1, <2>2, TypedAfter DEF CreateMeeting
<1>9. CASE Duplicate(d)
    <2> DEFINE x == [delivery[d] EXCEPT !.step = "filling"]
    <2>1. SoundRows
        BY <1>9, RowsLeftAlone DEF Duplicate
    <2>2. /\ x \in DeliveryType /\ x.step = "filling" /\ x.todo = {}
          /\ x.event = delivery[d].event
        BY <1>2, <1>9 DEF Duplicate, DeliveryType
    <2>3. delivery' = [delivery EXCEPT ![d] = x]
        BY <1>1, <1>9 DEF Duplicate, DeliveryType
    <2> HIDE DEF x
    <2>4. UnderWay' /\ delivery' \in [Deliveries -> DeliveryType]
        BY <1>2, <1>9, <2>1, <2>2, <2>3, SoundIsKept, ImportGoesOn DEF Duplicate
    <2> QED
        BY <1>1, <1>9, <2>1, <2>4, TypedAfter DEF Duplicate
<1>10. CASE Backfill(d)
    <2>1. SoundRows
        BY <1>10, BackfillRows
    <2>2. UnderWay' /\ delivery' \in [Deliveries -> DeliveryType]
        BY <1>10, <2>1, SoundIsKept, ImportEnds DEF Backfill
    <2> QED
        BY <1>1, <1>10, <2>1, <2>2, TypedAfter DEF Backfill
<1> QED
    BY <1>3, <1>4, <1>5, <1>6, <1>7, <1>8, <1>9, <1>10

\* The steps of the user's requests.
LEMMA RequestTyped ==
    ASSUME Typed, NEW u \in Requests,
           \/ \E i \in Rows : BeginEdit(u, i) \/ BeginAssign(u, i)
           \/ \E i, j \in Rows : BeginMerge(u, i, j)
           \/ \E times \in {"none", "user", request[u].seen.times}, n \in Notes,
                 file \in {"none", request[u].seen.file} \cup Events :
                 CommitEdit(u, times, {}, file) \/ CommitEdit(u, times, {n}, file)
           \/ \E p \in Partitions :
                 \/ CommitAssign(u, p)
                 \/ \E side \in {"base", "source", "both"},
                       times \in {"none", "calendar", "user"} : CommitMerge(u, p, side, times)
    PROVE  Typed'
<1> USE DEF Typed
<1>1. /\ account \in [Accounts -> {"absent", "account", "partner"}]
      /\ guests \in [Events -> SUBSET Accounts]
      /\ row \in [Rows -> RowType]
      /\ delivery \in [Deliveries -> DeliveryType]
      /\ request \in [Requests -> RequestType]
      /\ deliveries \in 0..MaxDeliveries /\ requests \in 0..MaxRequests
      /\ moved \subseteq Events /\ kept \subseteq Notes
    BY Fields
<1>2. ASSUME Count PROVE requests' \in 0..MaxRequests
    BY <1>1, <1>2, BoundsAssumption DEF Count
<1>3. ASSUME NEW i \in Rows, Live(i) PROVE Read(i, row[i])
    BY <1>3 DEF Live, Read
<1>4. NoRow \in RowType /\ \A i \in Rows : row[i] \in RowType
    BY <1>1, NoRowIsRow
<1>5. ASSUME NEW i \in Rows, BeginEdit(u, i) PROVE Typed'
    <2> DEFINE x == [NoRequest EXCEPT !.step = "editing", !.row = i, !.seen = row[i]]
    <2>1. SoundRows
        BY <1>5, RowsLeftAlone DEF BeginEdit
    <2>2. x \in RequestType /\ x.step = "editing" /\ x.row = i /\ x.seen = row[i]
        BY <1>4 DEF NoRequest, RequestType
    <2>3. request' = [request EXCEPT ![u] = x] /\ Read(i, row[i])
        BY <1>3, <1>5 DEF BeginEdit
    <2> HIDE DEF x
    <2>4. UnderWay' /\ request' \in [Requests -> RequestType]
        BY <1>5, <2>1, <2>2, <2>3, SoundIsKept, RequestGoesOn DEF BeginEdit
    <2> QED
        BY <1>1, <1>2, <1>5, <2>1, <2>4, TypedAfter DEF BeginEdit
<1>6. ASSUME NEW i \in Rows, BeginAssign(u, i) PROVE Typed'
    <2> DEFINE x == [NoRequest EXCEPT !.step = "assigning", !.row = i, !.seen = row[i]]
    <2>1. SoundRows
        BY <1>6, RowsLeftAlone DEF BeginAssign
    <2>2. x \in RequestType /\ x.step = "assigning" /\ x.row = i /\ x.seen = row[i]
        BY <1>4 DEF NoRequest, RequestType
    <2>3. request' = [request EXCEPT ![u] = x] /\ Read(i, row[i])
        BY <1>3, <1>6 DEF BeginAssign
    <2> HIDE DEF x
    <2>4. UnderWay' /\ request' \in [Requests -> RequestType]
        BY <1>6, <2>1, <2>2, <2>3, SoundIsKept, RequestGoesOn DEF BeginAssign
    <2> QED
        BY <1>1, <1>2, <1>6, <2>1, <2>4, TypedAfter DEF BeginAssign
<1>7. ASSUME NEW i \in Rows, NEW j \in Rows, BeginMerge(u, i, j) PROVE Typed'
    <2> DEFINE x == [step |-> "merging", row |-> i, seen |-> row[i],
                     other |-> j, otherSeen |-> row[j]]
    <2>1. SoundRows
        BY <1>7, RowsLeftAlone DEF BeginMerge
    <2>2. /\ x \in RequestType /\ x.step = "merging" /\ x.row = i /\ x.seen = row[i]
          /\ x.other = j /\ x.otherSeen = row[j]
        BY <1>4 DEF RequestType
    <2>3. /\ request' = [request EXCEPT ![u] = x] /\ i # j
          /\ Read(i, row[i]) /\ Read(j, row[j])
        BY <1>3, <1>7 DEF BeginMerge
    <2> HIDE DEF x
    <2>4. UnderWay' /\ request' \in [Requests -> RequestType]
        BY <1>7, <2>1, <2>2, <2>3, SoundIsKept, RequestGoesOn DEF BeginMerge
    <2> QED
        BY <1>1, <1>2, <1>7, <2>1, <2>4, TypedAfter DEF BeginMerge
<1>8. ASSUME NEW times \in {"none", "user", request[u].seen.times}, NEW added \in SUBSET Notes,
             NEW file \in {"none", request[u].seen.file} \cup Events,
             CommitEdit(u, times, added, file)
      PROVE  Typed'
    <2>1. SoundRows
        BY <1>8, CommitEditRows
    <2>2. UnderWay' /\ request' \in [Requests -> RequestType]
        BY <1>8, <2>1, SoundIsKept, RequestEnds DEF CommitEdit
    <2>3. moved' \subseteq Events /\ kept' \subseteq Notes
        BY <1>1, <1>8 DEF CommitEdit, EventOf
    <2> QED
        BY <1>1, <1>8, <2>1, <2>2, <2>3, TypedAfter DEF CommitEdit
<1>9. ASSUME NEW p \in Partitions, CommitAssign(u, p) PROVE Typed'
    <2>1. SoundRows
        BY <1>9, CommitAssignRows
    <2>2. UnderWay' /\ request' \in [Requests -> RequestType]
        BY <1>9, <2>1, SoundIsKept, RequestEnds DEF CommitAssign
    <2>3. moved' \subseteq Events
        BY <1>1, <1>9 DEF CommitAssign, EventOf
    <2> QED
        BY <1>1, <1>9, <2>1, <2>2, <2>3, TypedAfter DEF CommitAssign
<1>10. ASSUME NEW p \in Partitions, NEW side \in {"base", "source", "both"},
              NEW times \in {"none", "calendar", "user"}, CommitMerge(u, p, side, times)
       PROVE  Typed'
    <2>1. SoundRows
        BY <1>10, CommitMergeRows
    <2>2. UnderWay' /\ request' \in [Requests -> RequestType]
        BY <1>10, <2>1, SoundIsKept, RequestEnds DEF CommitMerge
    <2>3. moved' \subseteq Events /\ kept' \subseteq Notes
        BY <1>1, <1>10 DEF CommitMerge, EventOf
    <2> QED
        BY <1>1, <1>10, <2>1, <2>2, <2>3, TypedAfter DEF CommitMerge
<1>11. ASSUME NEW times \in {"none", "user", request[u].seen.times}, NEW n \in Notes,
              NEW file \in {"none", request[u].seen.file} \cup Events,
              CommitEdit(u, times, {}, file) \/ CommitEdit(u, times, {n}, file)
       PROVE  Typed'
    BY <1>8, <1>11
<1> QED
    BY <1>5, <1>6, <1>7, <1>9, <1>10, <1>11

\* The steps that one transaction makes at once.
LEMMA WriteTyped ==
    ASSUME Typed,
           \/ \E p \in Partitions, n \in Notes : WriteMeeting(p, n)
           \/ \E i \in Rows : DeleteMeeting(i) \/ \E p \in Partitions : Reassign(i, p)
           \/ \E a \in Accounts : ChangeStatus(a) \/ DeleteAccount(a)
           \/ \E e \in Events, S \in SUBSET Accounts : ChangeGuests(e, S)
    PROVE  Typed'
<1> USE DEF Typed
<1>1. /\ account \in [Accounts -> {"absent", "account", "partner"}]
      /\ guests \in [Events -> SUBSET Accounts]
      /\ row \in [Rows -> RowType]
      /\ delivery \in [Deliveries -> DeliveryType]
      /\ request \in [Requests -> RequestType]
      /\ deliveries \in 0..MaxDeliveries /\ requests \in 0..MaxRequests
      /\ moved \subseteq Events /\ kept \subseteq Notes
    BY Fields
<1>2. ASSUME Count PROVE requests' \in 0..MaxRequests
    BY <1>1, <1>2, BoundsAssumption DEF Count
<1>3. \A acct, who : Displaced(acct, who) \subseteq Events
    BY DEF Displaced
<1>4. ASSUME NEW p \in Partitions, NEW n \in Notes, WriteMeeting(p, n) PROVE Typed'
    <2>1. SoundRows
        BY <1>4, WriteMeetingRows
    <2>2. UnderWay'
        BY <1>4, <2>1, SoundIsKept, UnderWayKept DEF WriteMeeting
    <2> QED
        BY <1>1, <1>2, <1>4, <2>1, <2>2, TypedAfter DEF WriteMeeting
<1>5. ASSUME NEW i \in Rows, DeleteMeeting(i) PROVE Typed'
    <2>1. SoundRows
        BY <1>5, DeleteMeetingRows
    <2>2. UnderWay'
        BY <1>5, <2>1, SoundIsKept, UnderWayKept DEF DeleteMeeting
    <2> QED
        BY <1>1, <1>2, <1>5, <2>1, <2>2, TypedAfter DEF DeleteMeeting
<1>6. ASSUME NEW i \in Rows, NEW p \in Partitions, Reassign(i, p) PROVE Typed'
    <2>1. SoundRows
        BY <1>6, ReassignRows
    <2>2. UnderWay'
        BY <1>6, <2>1, SoundIsKept, UnderWayKept DEF Reassign
    <2>3. moved' \subseteq Events
        BY <1>1, <1>6 DEF Reassign, EventOf
    <2> QED
        BY <1>1, <1>2, <1>6, <2>1, <2>2, <2>3, TypedAfter DEF Reassign
<1>7. ASSUME NEW a \in Accounts, ChangeStatus(a) PROVE Typed'
    <2>1. /\ account' \in [Accounts -> {"absent", "account", "partner"}]
          /\ \A b \in Accounts : account[b] # "absent" => account'[b] # "absent"
        BY <1>1, <1>7 DEF ChangeStatus
    <2>2. SoundRows
        BY <1>7, <2>1, RowsLeftAlone DEF ChangeStatus
    <2>3. UnderWay'
        BY <1>7, <2>2, SoundIsKept, UnderWayKept DEF ChangeStatus
    <2>4. moved' \subseteq Events
        BY <1>1, <1>3, <1>7 DEF ChangeStatus
    <2> QED
        BY <1>1, <1>2, <1>7, <2>1, <2>2, <2>3, <2>4, TypedAfter DEF ChangeStatus
<1>8. ASSUME NEW a \in Accounts, DeleteAccount(a) PROVE Typed'
    <2>1. SoundRows
        BY <1>8, DeleteAccountRows
    <2>2. UnderWay'
        BY <1>8, <2>1, SoundIsKept, UnderWayKept DEF DeleteAccount
    <2>3. moved' \subseteq Events /\ account' \in [Accounts -> {"absent", "account", "partner"}]
        BY <1>1, <1>3, <1>8 DEF DeleteAccount
    <2>4. kept' \subseteq Notes
        BY <1>1, <1>8 DEF DeleteAccount
    <2> QED
        BY <1>1, <1>2, <1>8, <2>1, <2>2, <2>3, <2>4, TypedAfter DEF DeleteAccount
<1>9. ASSUME NEW e \in Events, NEW S \in SUBSET Accounts, ChangeGuests(e, S) PROVE Typed'
    <2>1. SoundRows
        BY <1>9, RowsLeftAlone DEF ChangeGuests
    <2>2. UnderWay'
        BY <1>9, <2>1, SoundIsKept, UnderWayKept DEF ChangeGuests
    <2>3. moved' \subseteq Events /\ guests' \in [Events -> SUBSET Accounts]
        BY <1>1, <1>3, <1>9 DEF ChangeGuests
    <2> QED
        BY <1>1, <1>2, <1>9, <2>1, <2>2, <2>3, TypedAfter DEF ChangeGuests
<1> QED
    BY <1>4, <1>5, <1>6, <1>7, <1>8, <1>9

LEMMA NextTyped == Typed /\ [Next]_vars => Typed'
<1> SUFFICES ASSUME Typed, [Next]_vars PROVE Typed'
    OBVIOUS
<1>1. CASE Next
    BY <1>1, ImportTyped, RequestTyped, WriteTyped DEF Next
<1>2. CASE UNCHANGED vars
    <2>1. SoundRows
        BY <1>2, RowsLeftAlone DEF vars
    <2>2. UnderWay'
        BY <1>2, <2>1, SoundIsKept, UnderWayKept DEF vars, Typed
    <2> QED
        BY <1>2, <2>1, <2>2, Fields, TypedAfter DEF vars, Typed
<1> QED
    BY <1>1, <1>2

\* Every variable keeps its type, and every meeting is in an account there is.
THEOREM TypeCorrect == Spec => []TypeOK
<1>1. Typed => TypeOK
    BY DEF Typed
<1> QED
    BY <1>1, InitTyped, NextTyped, PTL DEF Spec

-----------------------------------------------------------------------------
(* The notes. *)

LEMMA InShown ==
    ASSUME NEW r, NEW n
    PROVE  n \in Shown(r) <=>
              n \in Notes /\ \E i \in Rows : r[i].state = "live" /\ n \in r[i].body
BY DEF Shown

\* Notes stay visible where live rows stay live and keep their bodies.
LEMMA BodiesKept ==
    ASSUME NotesStayVisible, kept' = kept,
           \A i \in Rows : Live(i) => row'[i].state = "live" /\ row'[i].body = row[i].body
    PROVE  NotesStayVisible'
<1>1. Shown(row) \subseteq Shown(row')
    BY InShown DEF Live
<1> QED
    BY <1>1 DEF NotesStayVisible

\* A row of which only the place or the times change has the body it had.
LEMMA SameBody ==
    ASSUME NEW r \in RowType, NEW q,
           \/ q = r
           \/ \E p \in Partitions : q = [r EXCEPT !.part = p]
           \/ \E t \in {"none", "calendar", "user"} : q = [r EXCEPT !.times = t]
    PROVE  q.state = r.state /\ q.body = r.body /\ q.file = r.file
BY DEF RowType

LEMMA ImportKeepsNotes ==
    ASSUME Typed, NotesStayVisible, NEW d \in Deliveries,
           \/ \E e \in Events : BeginImport(d, e)
           \/ Resolve(d) \/ ResolveBlind(d) \/ Resolved(d) \/ ImportFails(d)
           \/ CreateMeeting(d) \/ Duplicate(d) \/ Backfill(d)
    PROVE  NotesStayVisible'
<1>1. row \in [Rows -> RowType]
    BY Fields DEF Typed
<1>2. CASE \/ \E e \in Events : BeginImport(d, e)
           \/ Resolve(d) \/ ResolveBlind(d) \/ Resolved(d) \/ ImportFails(d) \/ Duplicate(d)
    <2>1. UNCHANGED <<row, kept>>
        BY <1>2 DEF BeginImport, Resolve, ResolveBlind, Resolved, ImportFails, Duplicate
    <2> QED
        BY <2>1, BodiesKept DEF Live
<1>3. CASE CreateMeeting(d)
    <2>1. kept' = kept /\ \A i \in Rows : row[i].state # "free" => row'[i] = row[i]
        BY <1>1, <1>3 DEF CreateMeeting
    <2> QED
        BY <2>1, BodiesKept DEF Live
<1>4. CASE Backfill(d)
    <2>1. kept' = kept
        BY <1>4 DEF Backfill
    <2>2. ASSUME NEW i \in Rows
          PROVE  row'[i].state = row[i].state /\ row'[i].body = row[i].body
        <3>1. row'[i] = row[i] \/ row'[i] = [row[i] EXCEPT !.times = "calendar"]
            BY <1>4 DEF Backfill
        <3> QED
            BY <1>1, <3>1, SameBody
    <2> QED
        BY <2>1, <2>2, BodiesKept DEF Live
<1> QED
    BY <1>2, <1>3, <1>4

\* An edit of what the row still is adds to it; the notes of any other are
\* looked for anew.
LEMMA CommitEditKeepsNotes ==
    ASSUME Typed, NotesStayVisible, NEW u \in Requests, NEW times,
           NEW added \in SUBSET Notes, NEW file, CommitEdit(u, times, added, file)
    PROVE  NotesStayVisible'
<1> DEFINE i == request[u].row
<1>1. row \in [Rows -> RowType]
    BY Fields DEF Typed
<1>2. i \in Rows /\ request[u].seen.state = "live"
    BY DEF CommitEdit, Typed, UnderWay, Reading, Read
<1> DEFINE refused == Live(i) /\ Taken(row[i].part, file, Rows \ {i})
<1>3. CASE refused
    BY <1>3, BodiesKept DEF CommitEdit, Live
<1>4. CASE ~refused /\ Stale(u)
    BY <1>4 DEF CommitEdit, NotesStayVisible
<1>5. CASE ~refused /\ ~Stale(u)
    <2>1. row[i] = request[u].seen /\ row[i].state = "live" /\ kept' = kept \cup added
        BY <1>2, <1>5 DEF Stale, CommitEdit
    <2>2. row' = [row EXCEPT ![i].times = times,
                             ![i].body = request[u].seen.body \cup added, ![i].file = file]
        BY <1>5, <2>1 DEF CommitEdit, Exists
    <2>3. row'[i] = [[[row[i] EXCEPT !.times = times] EXCEPT !.body = row[i].body \cup added]
                        EXCEPT !.file = file]
        BY <1>1, <1>2, <2>1, <2>2
    <2>4. row'[i].state = "live" /\ row'[i].body = row[i].body \cup added
        <3>1. row[i] \in RowType
            BY <1>1, <1>2
        <3> QED
            BY <2>1, <2>3, <3>1 DEF RowType
    <2>5. \A j \in Rows : j # i => row'[j] = row[j]
        BY <1>1, <1>2, <2>2
    <2>6. ASSUME NEW n \in kept' PROVE n \in Shown(row')
        <3>1. CASE n \in added
            BY <1>2, <2>4, <3>1, InShown
        <3>2. CASE n \in kept
            <4>1. PICK j \in Rows : row[j].state = "live" /\ n \in row[j].body
                BY <3>2, InShown DEF NotesStayVisible
            <4>2. row'[j].state = "live" /\ n \in row'[j].body
                BY <2>4, <2>5, <4>1
            <4>3. n \in Notes
                BY <3>2, InShown DEF NotesStayVisible
            <4> QED
                BY <4>2, <4>3, InShown
        <3> QED
            BY <2>1, <2>6, <3>1, <3>2
    <2> QED
        BY <2>6 DEF NotesStayVisible
<1> QED
    BY <1>3, <1>4, <1>5

LEMMA CommitMergeKeepsNotes ==
    ASSUME Typed, NotesStayVisible, NEW u \in Requests, NEW p, NEW side, NEW times,
           CommitMerge(u, p, side, times)
    PROVE  NotesStayVisible'
<1> DEFINE base == request[u].row
           source == request[u].other
           b == Combined(u, side)
           dropped == (request[u].seen.body \cup request[u].otherSeen.body) \ b
<1>1. row \in [Rows -> RowType]
    BY Fields DEF Typed
<1>2. /\ base \in Rows /\ request[u].seen.state = "live"
      /\ source \in Rows /\ request[u].otherSeen.state = "live"
      /\ base # source
    BY DEF CommitMerge, Typed, UnderWay, Reading, Read
<1>3. CASE MergeRefused(u, p)
    BY <1>3, BodiesKept DEF CommitMerge, Live
<1>4. CASE ~MergeRefused(u, p) /\ Stale(u)
    BY <1>4 DEF CommitMerge, NotesStayVisible
<1>5. CASE ~MergeRefused(u, p) /\ ~Stale(u)
    <2>1. /\ row[base] = request[u].seen /\ row[base].state = "live"
          /\ row[source] = request[u].otherSeen /\ row[source].state = "live"
        BY <1>2, <1>5 DEF Stale, CommitMerge
    <2>2. kept' = kept \ dropped /\ row' = Merged(u, p, side, times)
        BY <1>5 DEF CommitMerge
    <2>3. row'[base] = [row[base] EXCEPT !.part = p, !.times = times, !.body = b]
        BY <1>2, <2>1, <2>2 DEF Merged, Exists
    <2>4. row'[base].state = "live" /\ row'[base].body = b
        <3>1. row[base] \in RowType
            BY <1>1, <1>2
        <3> HIDE DEF b
        <3> QED
            BY <2>1, <2>3, <3>1 DEF RowType
    <2>5. \A j \in Rows : j # base /\ j # source => row'[j] = row[j]
        BY <2>2 DEF Merged
    <2> HIDE DEF b
    <2>6. ASSUME NEW n \in kept' PROVE n \in Shown(row')
        <3>1. n \in kept /\ n \notin dropped
            BY <2>2, <2>6
        <3>2. n \in Notes
            BY <3>1, InShown DEF NotesStayVisible
        <3>3. PICK j \in Rows : row[j].state = "live" /\ n \in row[j].body
            BY <3>1, InShown DEF NotesStayVisible
        <3>4. CASE j = base \/ j = source
            <4>1. n \in b
                BY <2>1, <3>1, <3>3, <3>4
            <4> QED
                BY <1>2, <2>4, <3>2, <4>1, InShown
        <3>5. CASE j # base /\ j # source
            BY <2>5, <3>2, <3>3, <3>5, InShown
        <3> QED
            BY <3>4, <3>5
    <2> QED
        BY <2>6 DEF NotesStayVisible
<1> QED
    BY <1>3, <1>4, <1>5

LEMMA NextKeepsNotes == Typed /\ NotesStayVisible /\ [Next]_vars => NotesStayVisible'
<1> SUFFICES ASSUME Typed, NotesStayVisible, [Next]_vars PROVE NotesStayVisible'
    OBVIOUS
<1>1. row \in [Rows -> RowType]
    BY Fields DEF Typed
<1>2. CASE UNCHANGED <<row, kept>>
    BY <1>2, BodiesKept DEF Live
<1>3. ASSUME NEW p \in Partitions, NEW n \in Notes, WriteMeeting(p, n) PROVE NotesStayVisible'
    <2>1. PICK i \in Rows :
            /\ row[i].state = "free"
            /\ row' = [row EXCEPT ![i] = [state |-> "live", part |-> p, file |-> "none",
                                          times |-> "none", body |-> {n}]]
        BY <1>3 DEF WriteMeeting
    <2>2. /\ row'[i].state = "live" /\ row'[i].body = {n}
          /\ \A j \in Rows : row[j].state = "live" => row'[j] = row[j]
        BY <1>1, <2>1
    <2>3. n \in Shown(row') /\ Shown(row) \subseteq Shown(row')
        BY <2>2, InShown
    <2> QED
        BY <1>3, <2>3 DEF WriteMeeting, NotesStayVisible
<1>4. ASSUME NEW i \in Rows, NEW p \in Partitions, Exists(i), kept' = kept,
             row' = [row EXCEPT ![i].part = p]
      PROVE  NotesStayVisible'
    <2>1. ASSUME NEW j \in Rows
          PROVE  row'[j].state = row[j].state /\ row'[j].body = row[j].body
        <3>1. row'[j] = row[j] \/ row'[j] = [row[j] EXCEPT !.part = p]
            BY <1>1, <1>4
        <3> QED
            BY <1>1, <3>1, SameBody
    <2> QED
        BY <1>4, <2>1, BodiesKept DEF Live
<1>5. ASSUME NEW i \in Rows, NEW p \in Partitions, Reassign(i, p) PROVE NotesStayVisible'
    BY <1>4, <1>5 DEF Reassign, Live, Exists
<1>6. ASSUME NEW u \in Requests, NEW p \in Partitions, CommitAssign(u, p) PROVE NotesStayVisible'
    <2>1. request[u].row \in Rows
        BY <1>6 DEF CommitAssign, Typed, UnderWay, Reading, Read
    <2> QED
        BY <1>2, <1>4, <1>6, <2>1 DEF CommitAssign
<1>7. ASSUME NEW i \in Rows, DeleteMeeting(i) PROVE NotesStayVisible'
    BY <1>7 DEF DeleteMeeting, NotesStayVisible
<1>8. ASSUME NEW a \in Accounts, DeleteAccount(a) PROVE NotesStayVisible'
    BY <1>8 DEF DeleteAccount, NotesStayVisible
<1>9. ASSUME NEW d \in Deliveries,
             \/ \E e \in Events : BeginImport(d, e)
             \/ Resolve(d) \/ ResolveBlind(d) \/ Resolved(d) \/ ImportFails(d)
             \/ CreateMeeting(d) \/ Duplicate(d) \/ Backfill(d)
      PROVE  NotesStayVisible'
    BY <1>9, ImportKeepsNotes
<1>10. ASSUME NEW u \in Requests,
              \/ \E i \in Rows : BeginEdit(u, i) \/ BeginAssign(u, i)
              \/ \E i, j \in Rows : BeginMerge(u, i, j)
       PROVE  UNCHANGED <<row, kept>>
    BY <1>10 DEF BeginEdit, BeginAssign, BeginMerge
<1>11. ASSUME \/ \E a \in Accounts : ChangeStatus(a)
              \/ \E e \in Events, S \in SUBSET Accounts : ChangeGuests(e, S)
              \/ UNCHANGED vars
       PROVE  UNCHANGED <<row, kept>>
    BY <1>11 DEF ChangeStatus, ChangeGuests, vars
<1>12. ASSUME NEW u \in Requests, NEW times \in {"none", "user", request[u].seen.times},
              NEW n \in Notes, NEW file \in {"none", request[u].seen.file} \cup Events,
              CommitEdit(u, times, {}, file) \/ CommitEdit(u, times, {n}, file)
       PROVE  NotesStayVisible'
    BY <1>12, CommitEditKeepsNotes
<1>13. ASSUME NEW u \in Requests, NEW p \in Partitions,
              NEW side \in {"base", "source", "both"},
              NEW times \in {"none", "calendar", "user"}, CommitMerge(u, p, side, times)
       PROVE  NotesStayVisible'
    BY <1>13, CommitMergeKeepsNotes
<1> QED
    BY <1>2, <1>3, <1>5, <1>6, <1>7, <1>8, <1>9, <1>10, <1>11, <1>12, <1>13 DEF Next

\* A note the user has saved stays in a live meeting until a deletion, or a
\* choice in a merge, takes it away, unless its row was written over by one who
\* had read it before (update, apply).
THEOREM NotesStay == Spec => []NotesStayVisible
<1>1. Init => NotesStayVisible
    BY DEF Init, NotesStayVisible
<1> QED
    BY <1>1, InitTyped, NextTyped, NextKeepsNotes, PTL DEF Spec

\* An import changes nothing of a meeting that is there but times it does not
\* have (_importOne, backfillCalendarFields), whatever else is under way.
THEOREM ImportOnlyFillsBlanks == Spec => ImportKeepsEdits
<1> DEFINE Blanks ==
        delivery' # delivery =>
            \A i \in Rows : row[i].state # "free" =>
                /\ [row'[i] EXCEPT !.times = row[i].times] = row[i]
                /\ row[i].times # "none" => row'[i].times = row[i].times
<1>1. ASSUME Typed, [Next]_vars PROVE [Blanks]_vars
    <2>1. row \in [Rows -> RowType]
        BY <1>1, Fields DEF Typed
    <2>2. ASSUME NEW r \in RowType
          PROVE  /\ [r EXCEPT !.times = r.times] = r
                 /\ [[r EXCEPT !.times = "calendar"] EXCEPT !.times = r.times] = r
                 /\ [r EXCEPT !.times = "calendar"].times = "calendar"
        BY DEF RowType
    <2>3. CASE UNCHANGED row
        BY <2>1, <2>2, <2>3
    <2>4. ASSUME NEW d \in Deliveries, CreateMeeting(d) PROVE Blanks
        <3>1. \A i \in Rows : row[i].state # "free" => row'[i] = row[i]
            BY <2>1, <2>4 DEF CreateMeeting
        <3> QED
            BY <2>1, <2>2, <3>1
    <2>5. ASSUME NEW d \in Deliveries, Backfill(d) PROVE Blanks
        <3>1. ASSUME NEW i \in Rows
              PROVE  \/ row'[i] = row[i]
                     \/ row[i].times = "none" /\ row'[i] = [row[i] EXCEPT !.times = "calendar"]
            BY <2>5 DEF Backfill
        <3> QED
            BY <2>1, <2>2, <3>1
    <2>6. CASE UNCHANGED delivery
        BY <2>6
    <2>7. ASSUME NEW d \in Deliveries,
                 \/ \E e \in Events : BeginImport(d, e)
                 \/ Resolve(d) \/ ResolveBlind(d) \/ Resolved(d) \/ ImportFails(d) \/ Duplicate(d)
          PROVE  UNCHANGED row
        BY <2>7 DEF BeginImport, Resolve, ResolveBlind, Resolved, ImportFails, Duplicate
    <2>8. ASSUME NEW u \in Requests,
                 \/ \E i \in Rows : BeginEdit(u, i) \/ BeginAssign(u, i)
                 \/ \E i, j \in Rows : BeginMerge(u, i, j)
                 \/ \E times \in {"none", "user", request[u].seen.times}, n \in Notes,
                       file \in {"none", request[u].seen.file} \cup Events :
                       CommitEdit(u, times, {}, file) \/ CommitEdit(u, times, {n}, file)
                 \/ \E p \in Partitions :
                       \/ CommitAssign(u, p)
                       \/ \E side \in {"base", "source", "both"},
                             times \in {"none", "calendar", "user"} :
                                CommitMerge(u, p, side, times)
          PROVE  UNCHANGED delivery
        BY <2>8 DEF BeginEdit, BeginAssign, BeginMerge, CommitEdit, CommitAssign, CommitMerge
    <2>9. ASSUME \/ \E p \in Partitions, n \in Notes : WriteMeeting(p, n)
                 \/ \E i \in Rows : DeleteMeeting(i) \/ \E p \in Partitions : Reassign(i, p)
                 \/ \E a \in Accounts : ChangeStatus(a) \/ DeleteAccount(a)
                 \/ \E e \in Events, S \in SUBSET Accounts : ChangeGuests(e, S)
                 \/ UNCHANGED vars
          PROVE  UNCHANGED delivery
        BY <2>9 DEF WriteMeeting, DeleteMeeting, Reassign, ChangeStatus, DeleteAccount,
                    ChangeGuests, vars
    <2> HIDE DEF Blanks
    <2> QED
        BY <1>1, <2>3, <2>4, <2>5, <2>6, <2>7, <2>8, <2>9 DEF Next
<1> QED
    BY <1>1, InitTyped, NextTyped, PTL DEF Spec, ImportKeepsEdits

-----------------------------------------------------------------------------
(* Where the rows of an event are. *)

\* No two live meetings have one file name in one account.
Unique ==
    \A i, j \in Rows :
        /\ Live(i) /\ Live(j)
        /\ row[i].file # "none" /\ row[i].file = row[j].file
        /\ row[i].part = row[j].part
        => i = j

\* The account that an import of e that begins now comes to.
Home(e) == Winner(account, guests[e])

\* Where an import is bound for.
Headed ==
    \A d \in Deliveries :
        delivery[d].step # "idle" /\ delivery[d].event \notin moved
            => Destination(account, delivery[d]) = Home(delivery[d].event)

\* Row i has the file name of e and is where e belongs.
Own(i, e) == row[i].file = e /\ row[i].part = Home(e)

\* The text of an event that is not moved is in rows of its own.
SourcedRow(i) == \A e \in Events \ moved : e \in row[i].body => Own(i, e)

\* What a request has read is still so of the row it would write it to; the
\* other one was the event's when it was read.
SourcedRequest(u) ==
    request[u].step # "idle" => \A e \in Events \ moved :
        /\ e \in request[u].seen.body /\ Exists(request[u].row) => Own(request[u].row, e)
        /\ e \in request[u].otherSeen.body => request[u].otherSeen.file = e

Sourced == (\A i \in Rows : SourcedRow(i)) /\ (\A u \in Requests : SourcedRequest(u))

Once == Unique /\ Headed /\ Sourced

Customers(f, S) == {a \in S : f[a] # "partner"}

First(C) == IF C = {} THEN Internal ELSE CHOOSE a \in C : \A b \in C : a <= b

LEMMA WinnerIsFirst ==
    ASSUME NEW f, NEW S
    PROVE  Winner(f, S) = First(Customers(f, S))
BY DEF Winner, First, Customers

\* The winner depends only on who is a partner.
LEMMA WinnerSame ==
    ASSUME NEW f, NEW g, NEW S, \A a \in S : f[a] = "partner" <=> g[a] = "partner"
    PROVE  Winner(f, S) = Winner(g, S)
<1>1. Customers(f, S) = Customers(g, S)
    BY DEF Customers
<1> QED
    BY <1>1, WinnerIsFirst

\* The first of the domains wins if it is a customer, and is passed over if not.
LEMMA WinnerFirst ==
    ASSUME NEW f, NEW S \in SUBSET Accounts, NEW a \in S, \A b \in S : a <= b
    PROVE  /\ f[a] # "partner" => Winner(f, S) = a
           /\ f[a] = "partner" => Winner(f, S \ {a}) = Winner(f, S)
<1> DEFINE customers == Customers(f, S)
<1>1. ASSUME f[a] # "partner" PROVE Winner(f, S) = a
    <2>1. a \in customers /\ \A b \in customers : a <= b
        BY <1>1 DEF Customers
    <2>2. \A c \in customers : (\A b \in customers : c <= b) => c = a
        <3>1. \A c \in customers : c \in Nat
            BY AccountsAssumption DEF Customers
        <3> QED
            BY <2>1, <3>1
    <2>3. (CHOOSE c \in customers : \A b \in customers : c <= b) = a
        BY <2>1, <2>2, Zenon
    <2> QED
        BY <2>1, <2>3, WinnerIsFirst DEF First
<1>2. ASSUME f[a] = "partner" PROVE Winner(f, S \ {a}) = Winner(f, S)
    <2>1. Customers(f, S \ {a}) = customers
        BY <1>2 DEF Customers
    <2> QED
        BY <2>1, WinnerIsFirst
<1> QED
    BY <1>1, <1>2

\* What has not been moved is where it was.
HomesKept ==
    /\ moved \subseteq moved'
    /\ \A e \in Events \ moved' : Winner(account', guests'[e]) = Home(e)

DestinationsKept ==
    \A d \in Deliveries :
        delivery[d].step # "idle" /\ delivery[d].event \notin moved'
            => Destination(account', delivery[d]) = Destination(account, delivery[d])

LEMMA AccountsLeftAlone ==
    ASSUME UNCHANGED <<account, guests>>, moved \subseteq moved'
    PROVE  HomesKept /\ DestinationsKept
BY DEF HomesKept, DestinationsKept, Home

\* A change of the accounts or the guests counts as a move of what it displaces.
LEMMA DisplacedIsMoved ==
    ASSUME Typed, moved' = moved \cup Displaced(account', guests')
    PROVE  HomesKept /\ DestinationsKept
<1>1. ASSUME NEW e \in Events \ moved'
      PROVE  /\ Winner(account', guests'[e]) = Winner(account, guests[e])
             /\ \A d \in Deliveries : delivery[d].event = e =>
                   Destination(account', delivery[d]) = Destination(account, delivery[d])
    <2>1. e \notin Displaced(account', guests')
        OBVIOUS
    <2> QED
        BY <2>1 DEF Displaced
<1>2. HomesKept
    BY <1>1 DEF HomesKept, Home
<1>3. DestinationsKept
    BY <1>1 DEF DestinationsKept, Typed, UnderWay, Coming
<1> QED
    BY <1>2, <1>3

LEMMA HeadedKept ==
    ASSUME Typed, Headed, HomesKept, DestinationsKept, UNCHANGED delivery
    PROVE  Headed'
<1> SUFFICES ASSUME NEW d \in Deliveries, delivery[d].step # "idle",
                    delivery[d].event \notin moved'
             PROVE  Destination(account', delivery[d]) = Winner(account', guests'[delivery[d].event])
    BY DEF Headed, Home
<1>1. delivery[d].event \in Events \ moved'
    BY DEF Typed, UnderWay, Coming
<1>2. Destination(account, delivery[d]) = Home(delivery[d].event)
    BY <1>1 DEF Headed, HomesKept
<1>3. Winner(account', guests'[delivery[d].event]) = Home(delivery[d].event)
    BY <1>1 DEF HomesKept, Home
<1> QED
    BY <1>2, <1>3 DEF DestinationsKept

\* Row i stays where it is under its file name, unless its event counts as moved.
StaysPut(i) ==
    \A e \in Events \ moved' :
        row[i].file = e => row'[i].file = e /\ row'[i].part = row[i].part

LEMMA OwnKept ==
    ASSUME HomesKept, NEW i, StaysPut(i), NEW e \in Events \ moved', Own(i, e)
    PROVE  Own(i, e)'
BY DEF HomesKept, StaysPut, Own, Home

\* A row that gets no more text.
LEMMA SourcedRowKept ==
    ASSUME HomesKept, NEW i \in Rows, SourcedRow(i), StaysPut(i),
           row'[i].body \subseteq row[i].body
    PROVE  SourcedRow(i)'
BY OwnKept DEF HomesKept, SourcedRow

\* The requests under way still write to rows that are where they were.
LEMMA SourcedRequestsKept ==
    ASSUME Typed, Sourced, HomesKept,
           \A i \in Rows : row[i].state # "free" /\ Exists(i)' => Exists(i) /\ StaysPut(i),
           \/ request' = request
           \/ \E u \in Requests : EndRequest(u)
    PROVE  \A u \in Requests : SourcedRequest(u)'
<1>1. request \in [Requests -> RequestType]
    BY Fields DEF Typed
<1>2. ASSUME NEW u \in Requests PROVE SourcedRequest(u)'
    <2>1. CASE request'[u] = NoRequest
        BY <2>1 DEF SourcedRequest, NoRequest
    <2>2. CASE request'[u] = request[u] /\ request[u].step # "idle"
        <3>1. PICK k \in Rows : k = request[u].row /\ row[k].state # "free"
            BY <2>2 DEF Typed, UnderWay, Reading, Read
        <3>2. SourcedRequest(u)
            BY DEF Sourced
        <3>3. ASSUME NEW e \in Events \ moved', e \in request[u].seen.body, Exists(k)'
              PROVE  Own(k, e)'
            <4>1. Exists(k) /\ StaysPut(k)
                BY <3>1, <3>3
            <4>2. Own(k, e)
                BY <2>2, <3>1, <3>2, <3>3, <4>1 DEF SourcedRequest, HomesKept
            <4> QED
                BY <4>1, <4>2, OwnKept
        <3>4. ASSUME NEW e \in Events \ moved', e \in request[u].otherSeen.body
              PROVE  request[u].otherSeen.file = e
            BY <2>2, <3>2, <3>4 DEF SourcedRequest, HomesKept
        <3> QED
            BY <2>2, <3>1, <3>3, <3>4 DEF SourcedRequest, Own, Home, Exists
    <2>3. CASE request'[u] = request[u] /\ request[u].step = "idle"
        BY <2>3 DEF SourcedRequest
    <2> QED
        BY <1>1, <2>1, <2>2, <2>3 DEF EndRequest
<1> QED
    BY <1>2

\* One file name has one live row still, where but one row, k, has come to be
\* where it is, and no other live row has its file name there.
LEMMA UniqueAfter ==
    ASSUME Unique, NEW k \in Rows,
           \A i \in Rows : i # k /\ Live(i)' =>
              Live(i) /\ row'[i].file = row[i].file /\ row'[i].part = row[i].part,
           \/ ~Live(k)'
           \/ row'[k].file = "none"
           \/ \A i \in Rows : ~(/\ i # k /\ Live(i)'
                                /\ row'[i].part = row'[k].part
                                /\ row'[i].file = row'[k].file)
    PROVE  Unique'
BY DEF Unique

LEMMA UniqueKept ==
    ASSUME Unique,
           \A i \in Rows : Live(i)' =>
              Live(i) /\ row'[i].file = row[i].file /\ row'[i].part = row[i].part
    PROVE  Unique'
BY DEF Unique

\* The invariant after a step that leaves all the rows alone.
LEMMA OnceWithSameRows ==
    ASSUME Typed, Once, HomesKept, Headed', UNCHANGED row,
           \A u \in Requests : SourcedRequest(u)'
    PROVE  Once'
<1>1. Unique'
    BY UniqueKept DEF Once, Live
<1>2. ASSUME NEW i \in Rows PROVE SourcedRow(i)'
    BY SourcedRowKept DEF Once, Sourced, StaysPut
<1> QED
    BY <1>1, <1>2 DEF Once, Sourced

\* The requests after a step that leaves all the rows alone.
LEMMA RequestsWithSameRows ==
    ASSUME Typed, Once, HomesKept, UNCHANGED row,
           request' = request \/ \E u \in Requests : EndRequest(u)
    PROVE  \A u \in Requests : SourcedRequest(u)'
<1>1. \A i \in Rows : row[i].state # "free" /\ Exists(i)' => Exists(i) /\ StaysPut(i)
    BY DEF Exists, StaysPut
<1> QED
    BY <1>1, SourcedRequestsKept DEF Once

\* The steps of an import up to its insert.
LEMMA ImportKeepsOnce ==
    ASSUME Typed, Once, NEW d \in Deliveries,
           \/ \E e \in Events : BeginImport(d, e)
           \/ Resolve(d) \/ ResolveBlind(d) \/ Resolved(d) \/ ImportFails(d) \/ Duplicate(d)
    PROVE  Once'
<1>1. /\ delivery \in [Deliveries -> DeliveryType]
      /\ account \in [Accounts -> {"absent", "account", "partner"}]
      /\ guests \in [Events -> SUBSET Accounts]
    BY Fields DEF Typed
<1>2. UNCHANGED <<row, request, guests>> /\ moved \subseteq moved'
    BY DEF BeginImport, Resolve, ResolveBlind, Resolved, ImportFails, Duplicate
<1>3. HomesKept => \A u \in Requests : SourcedRequest(u)'
    BY <1>2, RequestsWithSameRows
<1>4. /\ delivery[d] \in DeliveryType
      /\ delivery[d].step # "idle" => delivery[d].event \in Events
    BY <1>1 DEF Typed, UnderWay, Coming
<1>5. ASSUME HomesKept, DestinationsKept, NEW x, delivery' = [delivery EXCEPT ![d] = x],
             x.step # "idle" /\ x.event \notin moved' =>
                 Destination(account', x) = Winner(account', guests'[x.event])
      PROVE  Once'
    <2>1. ASSUME NEW c \in Deliveries, delivery'[c].step # "idle",
                 delivery'[c].event \notin moved'
          PROVE  Destination(account', delivery'[c]) = Winner(account', guests'[delivery'[c].event])
        <3>1. CASE c = d
            <4>1. delivery'[c] = x
                BY <1>1, <1>5, <3>1
            <4> QED
                BY <1>5, <2>1, <4>1 DEF Home
        <3>2. CASE c # d
            <4>1. delivery'[c] = delivery[c]
                BY <1>1, <1>5, <3>2
            <4>2. delivery[c].event \in Events \ moved'
                BY <2>1, <4>1 DEF Typed, UnderWay, Coming
            <4>3. Destination(account, delivery[c]) = Home(delivery[c].event)
                BY <1>2, <2>1, <4>1, <4>2 DEF Once, Headed
            <4>4. Winner(account', guests'[delivery[c].event]) = Home(delivery[c].event)
                BY <1>2, <1>5, <4>1, <4>2 DEF HomesKept, Home
            <4> QED
                BY <1>5, <2>1, <4>1, <4>2, <4>3, <4>4 DEF DestinationsKept, Home
        <3> QED
            BY <3>1, <3>2
    <2>2. Headed'
        BY <2>1 DEF Headed, Home
    <2> QED
        BY <1>2, <1>3, <1>5, <2>2, OnceWithSameRows
<1>6. ASSUME NEW e \in Events, BeginImport(d, e) PROVE Once'
    <2> DEFINE x == [step |-> "resolving", event |-> e, todo |-> guests[e], part |-> Internal]
    <2>1. HomesKept /\ DestinationsKept
        BY <1>6, AccountsLeftAlone DEF BeginImport
    <2>2. delivery' = [delivery EXCEPT ![d] = x] /\ account' = account
        BY <1>6 DEF BeginImport
    <2>3. Destination(account', x) = Winner(account', guests'[x.event])
        BY <1>2, <2>2 DEF Destination, Home
    <2> HIDE DEF x
    <2> QED
        BY <1>5, <2>1, <2>2, <2>3
<1>7. CASE Resolve(d)
    <2>1. PICK a \in delivery[d].todo :
            /\ \A b \in delivery[d].todo : a <= b
            /\ account' = [account EXCEPT ![a] = IF @ = "absent" THEN "account" ELSE @]
            /\ delivery' = [delivery EXCEPT
                  ![d].todo = @ \ {a},
                  ![d].part = IF @ = Internal /\ account[a] # "partner" THEN a ELSE @]
        BY <1>7 DEF Resolve
    <2> DEFINE x == [delivery[d] EXCEPT
                !.todo = @ \ {a},
                !.part = IF @ = Internal /\ account[a] # "partner" THEN a ELSE @]
    <2>2. a \in Accounts /\ delivery[d].todo \in SUBSET Accounts
        BY <1>4, <2>1 DEF DeliveryType
    <2>3. \A b \in Accounts : account[b] = "partner" <=> account'[b] = "partner"
        BY <1>1, <2>1, <2>2
    <2>4. \A S \in SUBSET Accounts : Winner(account', S) = Winner(account, S)
        BY <2>3, WinnerSame
    <2>5. moved' = moved
        BY <1>7 DEF Resolve
    <2>6. HomesKept
        BY <1>1, <1>2, <2>4, <2>5 DEF HomesKept, Home
    <2>7. DestinationsKept
        BY <1>1, <2>4 DEF DestinationsKept, Destination, DeliveryType
    <2>8. delivery' = [delivery EXCEPT ![d] = x]
        BY <1>1, <1>4, <2>1 DEF DeliveryType
    <2>9. /\ x.step = delivery[d].step /\ x.event = delivery[d].event
          /\ x.todo = delivery[d].todo \ {a}
          /\ x.part = IF delivery[d].part = Internal /\ account[a] # "partner"
                      THEN a ELSE delivery[d].part
        BY <1>4 DEF DeliveryType
    <2> HIDE DEF x
    <2>10. Destination(account', x) = Destination(account, delivery[d])
        <3>1. a # Internal
            BY <2>2, AccountsAssumption
        <3>2. /\ account[a] # "partner" => Winner(account, delivery[d].todo) = a
              /\ account[a] = "partner" =>
                    Winner(account, delivery[d].todo \ {a}) = Winner(account, delivery[d].todo)
            BY <2>1, <2>2, WinnerFirst
        <3>3. Winner(account', x.todo) = Winner(account, delivery[d].todo \ {a})
            BY <2>2, <2>4, <2>9
        <3> QED
            BY <2>9, <3>1, <3>2, <3>3 DEF Destination
    <2>11. x.step # "idle" /\ x.event \notin moved' => Destination(account', x) = Winner(account', guests'[x.event])
        <3> SUFFICES ASSUME delivery[d].step # "idle", delivery[d].event \notin moved'
                     PROVE  Destination(account', x) = Winner(account', guests'[delivery[d].event])
            BY <2>9
        <3>1. delivery[d].event \in Events \ moved'
            BY <1>4
        <3>2. Destination(account, delivery[d]) = Home(delivery[d].event)
            BY <2>5 DEF Once, Headed
        <3>3. Winner(account', guests'[delivery[d].event]) = Home(delivery[d].event)
            BY <1>1, <1>2, <2>4, <3>1 DEF Home, DeliveryType
        <3> QED
            BY <2>10, <3>2, <3>3
    <2> QED
        BY <1>5, <2>6, <2>7, <2>8, <2>11
<1>8. CASE ResolveBlind(d)
    <2>1. PICK a \in delivery[d].todo :
            delivery' = [delivery EXCEPT
                ![d].todo = @ \ {a}, ![d].part = IF @ = Internal THEN a ELSE @]
        BY <1>8 DEF ResolveBlind
    <2> DEFINE x == [delivery[d] EXCEPT
                !.todo = @ \ {a}, !.part = IF @ = Internal THEN a ELSE @]
    <2>2. HomesKept /\ DestinationsKept
        BY <1>8, AccountsLeftAlone DEF ResolveBlind
    <2>3. delivery' = [delivery EXCEPT ![d] = x]
        BY <1>1, <1>4, <2>1 DEF DeliveryType
    <2>4. x.event = delivery[d].event /\ delivery[d].event \in moved'
        BY <1>4, <1>8 DEF ResolveBlind, DeliveryType
    <2> HIDE DEF x
    <2> QED
        BY <1>5, <2>2, <2>3, <2>4
<1>9. ASSUME NEW s, s # "idle", delivery[d].step # "idle",
             UNCHANGED <<account, moved>>, delivery' = [delivery EXCEPT ![d].step = s]
      PROVE  Once'
    <2> DEFINE x == [delivery[d] EXCEPT !.step = s]
    <2>1. HomesKept /\ DestinationsKept
        BY <1>2, <1>9, AccountsLeftAlone
    <2>2. /\ delivery' = [delivery EXCEPT ![d] = x]
          /\ x.event = delivery[d].event /\ x.todo = delivery[d].todo
          /\ x.part = delivery[d].part
        BY <1>1, <1>4, <1>9 DEF DeliveryType
    <2> HIDE DEF x
    <2>3. x.event \notin moved' => Destination(account', x) = Winner(account', guests'[x.event])
        BY <1>2, <1>9, <2>2 DEF Once, Headed, Home, Destination
    <2> QED
        BY <1>5, <2>1, <2>2, <2>3
<1>10. CASE Resolved(d)
    BY <1>9, <1>10 DEF Resolved
<1>11. CASE Duplicate(d)
    BY <1>9, <1>11 DEF Duplicate
<1>12. CASE ImportFails(d)
    <2>1. HomesKept /\ DestinationsKept
        BY <1>12, AccountsLeftAlone DEF ImportFails
    <2>2. delivery' = [delivery EXCEPT ![d] = NoDelivery] /\ NoDelivery.step = "idle"
        BY <1>12 DEF ImportFails, EndImport, NoDelivery
    <2> QED
        BY <1>5, <2>1, <2>2
<1> QED
    BY <1>6, <1>7, <1>8, <1>10, <1>11, <1>12

LEMMA HeadedAtEnd ==
    ASSUME Typed, Headed, NEW d \in Deliveries, EndImport(d),
           UNCHANGED <<account, guests, moved>>
    PROVE  Headed'
<1>1. delivery \in [Deliveries -> DeliveryType]
    BY Fields DEF Typed
<1>2. ASSUME NEW c \in Deliveries PROVE delivery'[c] = delivery[c] \/ delivery'[c].step = "idle"
    BY <1>1 DEF EndImport, NoDelivery
<1> QED
    BY <1>2 DEF Headed, Home

\* The insert: the meeting is where the event belongs, and alone there.
LEMMA CreateMeetingKeepsOnce ==
    ASSUME Typed, Once, NEW d \in Deliveries, CreateMeeting(d)
    PROVE  Once'
<1> DEFINE e == delivery[d].event
           p == delivery[d].part
<1>1. /\ row \in [Rows -> RowType]
      /\ UNCHANGED <<account, guests, moved, request>>
      /\ delivery[d].step = "creating" /\ delivery[d].todo = {} /\ e \in Events
    BY Fields DEF CreateMeeting, Typed, UnderWay, Coming
<1>2. PICK k \in Rows :
        /\ row[k].state = "free"
        /\ row' = [row EXCEPT ![k] = [state |-> "live", part |-> p, file |-> e,
                                      times |-> "calendar", body |-> {e}]]
    BY DEF CreateMeeting
<1>3. /\ row'[k].state = "live" /\ row'[k].part = p /\ row'[k].file = e /\ row'[k].body = {e}
      /\ \A i \in Rows : i # k => row'[i] = row[i]
    BY <1>1, <1>2
<1>4. e \notin moved => p = Home(e)
    <2>1. Winner(account, {}) = Internal
        BY DEF Winner
    <2> QED
        BY <1>1, <2>1 DEF Once, Headed, Destination
<1>5. HomesKept
    BY <1>1, AccountsLeftAlone
<1>6. Headed'
    BY <1>1, HeadedAtEnd DEF CreateMeeting, Once
<1>7. ASSUME NEW i \in Rows PROVE SourcedRow(i)'
    <2>1. CASE i = k
        BY <1>1, <1>3, <1>4, <2>1 DEF SourcedRow, Own, Home
    <2>2. CASE i # k
        BY <1>3, <1>5, <2>2, SourcedRowKept DEF Once, Sourced, StaysPut
    <2> QED
        BY <2>1, <2>2
<1>8. Unique'
    <2>1. ~Taken(p, e, Rows) /\ e # "none"
        BY <1>1, TextsAssumption DEF CreateMeeting
    <2>2. \A i \in Rows : ~(/\ i # k /\ Live(i)'
                            /\ row'[i].part = row'[k].part
                            /\ row'[i].file = row'[k].file)
        BY <1>3, <2>1 DEF Taken, Live
    <2>3. \A i \in Rows : i # k /\ Live(i)' =>
              Live(i) /\ row'[i].file = row[i].file /\ row'[i].part = row[i].part
        BY <1>3 DEF Live
    <2> QED
        BY <2>2, <2>3, UniqueAfter DEF Once
<1>9. \A i \in Rows : row[i].state # "free" /\ Exists(i)' => Exists(i) /\ StaysPut(i)
    BY <1>2, <1>3 DEF Exists, StaysPut
<1> QED
    BY <1>1, <1>5, <1>6, <1>7, <1>8, <1>9, SourcedRequestsKept DEF Once, Sourced

LEMMA BackfillKeepsOnce ==
    ASSUME Typed, Once, NEW d \in Deliveries, Backfill(d)
    PROVE  Once'
<1>1. /\ row \in [Rows -> RowType]
      /\ UNCHANGED <<account, guests, moved, request>>
    BY Fields DEF Backfill, Typed
<1>2. ASSUME NEW i \in Rows
      PROVE  /\ row'[i].state = row[i].state /\ row'[i].body = row[i].body
             /\ row'[i].file = row[i].file /\ row'[i].part = row[i].part
    <2>1. row'[i] = row[i] \/ row'[i] = [row[i] EXCEPT !.times = "calendar"]
        BY DEF Backfill
    <2> QED
        BY <1>1, <2>1 DEF RowType
<1>3. HomesKept
    BY <1>1, AccountsLeftAlone
<1>4. Headed'
    BY <1>1, HeadedAtEnd DEF Backfill, Once
<1>5. ASSUME NEW i \in Rows PROVE SourcedRow(i)'
    BY <1>2, <1>3, SourcedRowKept DEF Once, Sourced, StaysPut
<1>6. Unique'
    BY <1>2, UniqueKept DEF Once, Live
<1>7. \A i \in Rows : Exists(i)' => Exists(i) /\ StaysPut(i)
    BY <1>2 DEF Exists, StaysPut
<1> QED
    BY <1>1, <1>3, <1>4, <1>5, <1>6, <1>7, SourcedRequestsKept DEF Once, Sourced

\* A meeting written by hand has no event's text.
LEMMA WriteMeetingKeepsOnce ==
    ASSUME Typed, Once, NEW p \in Partitions, NEW n \in Notes, WriteMeeting(p, n)
    PROVE  Once'
<1>1. /\ row \in [Rows -> RowType]
      /\ UNCHANGED <<account, guests, moved, request, delivery>>
    BY Fields DEF WriteMeeting, Typed
<1>2. PICK k \in Rows :
        /\ row[k].state = "free"
        /\ row' = [row EXCEPT ![k] = [state |-> "live", part |-> p, file |-> "none",
                                      times |-> "none", body |-> {n}]]
    BY DEF WriteMeeting
<1>3. /\ row'[k].state = "live" /\ row'[k].file = "none" /\ row'[k].body = {n}
      /\ \A i \in Rows : i # k => row'[i] = row[i]
    BY <1>1, <1>2
<1>4. HomesKept /\ Headed'
    BY <1>1, AccountsLeftAlone, HeadedKept DEF Once
<1>5. ASSUME NEW i \in Rows PROVE SourcedRow(i)'
    <2>1. CASE i = k
        BY <1>3, <2>1, TextsAssumption DEF SourcedRow
    <2>2. CASE i # k
        BY <1>3, <1>4, <2>2, SourcedRowKept DEF Once, Sourced, StaysPut
    <2> QED
        BY <2>1, <2>2
<1>6. Unique'
    <2>1. \A i \in Rows : i # k /\ Live(i)' =>
              Live(i) /\ row'[i].file = row[i].file /\ row'[i].part = row[i].part
        BY <1>3 DEF Live
    <2> QED
        BY <1>3, <2>1, UniqueAfter DEF Once
<1>7. \A i \in Rows : row[i].state # "free" /\ Exists(i)' => Exists(i) /\ StaysPut(i)
    BY <1>2, <1>3 DEF Exists, StaysPut
<1> QED
    BY <1>1, <1>4, <1>5, <1>6, <1>7, SourcedRequestsKept DEF Once, Sourced

\* An edit writes back what it has read of the row's own text, and takes no name
\* that is taken; one that gives the row another name counts as a move.
LEMMA CommitEditKeepsOnce ==
    ASSUME Typed, Once, NEW u \in Requests,
           NEW times \in {"none", "user", request[u].seen.times},
           NEW added \in SUBSET Notes,
           NEW file \in {"none", request[u].seen.file} \cup Events,
           CommitEdit(u, times, added, file)
    PROVE  Once'
<1> DEFINE b == request[u].seen.body \cup added
<1>1. PICK k \in Rows : k = request[u].row
    BY DEF CommitEdit, Typed, UnderWay, Reading, Read
<1>2. /\ row \in [Rows -> RowType]
      /\ UNCHANGED <<account, guests, delivery>>
      /\ EndRequest(u) /\ request[u].step = "editing"
      /\ moved \subseteq moved'
    BY Fields DEF CommitEdit, Typed
<1>3. HomesKept /\ Headed'
    BY <1>2, AccountsLeftAlone, HeadedKept DEF Once
<1>4. CASE row' = row
    BY <1>2, <1>3, <1>4, OnceWithSameRows, RequestsWithSameRows
<1>5. CASE row' # row
    <2>1. /\ Exists(k) /\ ~(Live(k) /\ Taken(row[k].part, file, Rows \ {k}))
          /\ row' = [row EXCEPT ![k].times = times, ![k].body = b, ![k].file = file]
          /\ EventOf(row[k]) \ {file} \subseteq moved'
        BY <1>1, <1>5 DEF CommitEdit
    <2> HIDE DEF b
    <2>2. \A i \in Rows : i # k => row'[i] = row[i]
        BY <1>2, <2>1
    <2>3. /\ row'[k].state = row[k].state /\ row'[k].body = b
          /\ row'[k].file = file /\ row'[k].part = row[k].part
        <3>1. /\ row'[k] = [[[row[k] EXCEPT !.times = times] EXCEPT !.body = b]
                               EXCEPT !.file = file]
              /\ row[k] \in RowType
            BY <1>2, <2>1
        <3> QED
            BY <3>1 DEF RowType
    <2>4. \A i \in Rows : StaysPut(i)
        BY <2>1, <2>2, <2>3 DEF StaysPut, EventOf
    <2>5. ASSUME NEW e \in Events \ moved', e \in b PROVE Own(k, e)'
        <3>1. e \in request[u].seen.body
            BY <2>5, TextsAssumption DEF b
        <3>2. Own(k, e)
            BY <1>1, <1>2, <2>1, <2>5, <3>1 DEF Once, Sourced, SourcedRequest
        <3> QED
            BY <1>3, <2>4, <3>2, OwnKept
    <2>6. SourcedRow(k)'
        <3>1. ASSUME NEW e \in Events \ moved', e \in row'[k].body PROVE Own(k, e)'
            BY <2>3, <2>5, <3>1
        <3> QED
            BY <3>1 DEF SourcedRow, Own, Home
    <2>7. ASSUME NEW i \in Rows, i # k PROVE SourcedRow(i)'
        BY <1>3, <2>2, <2>4, <2>7, SourcedRowKept DEF Once, Sourced
    <2>8. \A v \in Requests : SourcedRequest(v)'
        <3>1. \A i \in Rows : Exists(i)' => Exists(i)
            BY <2>1, <2>2 DEF Exists
        <3> QED
            BY <1>2, <1>3, <2>4, <3>1, SourcedRequestsKept DEF Once
    <2>9. Unique'
        <3>1. \A i \in Rows : i # k /\ Live(i)' =>
                  Live(i) /\ row'[i].file = row[i].file /\ row'[i].part = row[i].part
            BY <2>2 DEF Live
        <3>2. \/ ~Live(k)'
              \/ row'[k].file = "none"
              \/ \A i \in Rows : ~(/\ i # k /\ Live(i)'
                                   /\ row'[i].part = row'[k].part
                                   /\ row'[i].file = row'[k].file)
            BY <2>1, <2>2, <2>3 DEF Live, Taken
        <3> QED
            BY <3>1, <3>2, UniqueAfter DEF Once
    <2> QED
        BY <1>3, <2>6, <2>7, <2>8, <2>9 DEF Once, Sourced
<1> QED
    BY <1>4, <1>5

LEMMA DeleteMeetingKeepsOnce ==
    ASSUME Typed, Once, NEW k \in Rows, DeleteMeeting(k)
    PROVE  Once'
<1>1. /\ row \in [Rows -> RowType]
      /\ UNCHANGED <<account, guests, moved, request, delivery>>
      /\ row' = [row EXCEPT ![k] = [NoRow EXCEPT !.state = "gone"]]
    BY Fields DEF DeleteMeeting, Typed
<1>2. /\ row'[k].state = "gone" /\ row'[k].body = {}
      /\ \A i \in Rows : i # k => row'[i] = row[i]
    BY <1>1 DEF NoRow
<1>3. HomesKept /\ Headed'
    BY <1>1, AccountsLeftAlone, HeadedKept DEF Once
<1>4. ASSUME NEW i \in Rows PROVE SourcedRow(i)'
    <2>1. CASE i = k
        BY <1>2, <2>1 DEF SourcedRow
    <2>2. CASE i # k
        BY <1>2, <1>3, <2>2, SourcedRowKept DEF Once, Sourced, StaysPut
    <2> QED
        BY <2>1, <2>2
<1>5. Unique'
    BY <1>2, UniqueKept DEF Once, Live
<1>6. \A i \in Rows : Exists(i)' => Exists(i) /\ StaysPut(i)
    BY <1>2 DEF Exists, StaysPut
<1> QED
    BY <1>1, <1>3, <1>4, <1>5, <1>6, SourcedRequestsKept DEF Once, Sourced

\* A row that exists and moves to p, where no other has its file name.
LEMMA MoveKeepsOnce ==
    ASSUME Typed, Once, UNCHANGED <<account, guests, delivery>>,
           request' = request \/ \E u \in Requests : EndRequest(u),
           NEW k \in Rows, NEW p \in Partitions,
           row' = [row EXCEPT ![k].part = p],
           ~(Live(k) /\ Taken(p, row[k].file, Rows \ {k})),
           moved \subseteq moved',
           p = row[k].part \/ EventOf(row[k]) \subseteq moved'
    PROVE  Once'
<1>1. row \in [Rows -> RowType] /\ row[k] \in RowType
    BY RowBefore
<1>2. /\ row'[k].state = row[k].state /\ row'[k].body = row[k].body
      /\ row'[k].file = row[k].file /\ row'[k].part = p
      /\ \A i \in Rows : i # k => row'[i] = row[i]
    <2>1. row'[k] = [row[k] EXCEPT !.part = p]
        BY <1>1
    <2> QED
        BY <1>1, <2>1 DEF RowType
<1>3. HomesKept /\ Headed'
    BY AccountsLeftAlone, HeadedKept DEF Once
<1>4. ASSUME NEW i \in Rows
      PROVE  /\ StaysPut(i) /\ row'[i].body = row[i].body
             /\ Exists(i)' => Exists(i)
    BY <1>2 DEF StaysPut, EventOf, Exists
<1>5. ASSUME NEW i \in Rows PROVE SourcedRow(i)'
    BY <1>3, <1>4, SourcedRowKept DEF Once, Sourced
<1>6. Unique'
    <2>1. \A i \in Rows : i # k /\ Live(i)' =>
              Live(i) /\ row'[i].file = row[i].file /\ row'[i].part = row[i].part
        BY <1>2 DEF Live
    <2>2. \/ ~Live(k)'
          \/ row'[k].file = "none"
          \/ \A i \in Rows : ~(/\ i # k /\ Live(i)'
                               /\ row'[i].part = row'[k].part
                               /\ row'[i].file = row'[k].file)
        BY <1>2 DEF Live, Taken
    <2> QED
        BY <2>1, <2>2, UniqueAfter DEF Once
<1> QED
    BY <1>3, <1>4, <1>5, <1>6, SourcedRequestsKept DEF Once, Sourced

LEMMA AssignKeepsOnce ==
    ASSUME Typed, Once, NEW u \in Requests, NEW p \in Partitions, CommitAssign(u, p)
    PROVE  Once'
<1>1. PICK k \in Rows : k = request[u].row
    BY DEF CommitAssign, Typed, UnderWay, Reading, Read
<1>2. UNCHANGED <<account, guests, delivery>> /\ EndRequest(u)
    BY DEF CommitAssign
<1>3. CASE UNCHANGED <<row, moved>>
    <2>1. HomesKept /\ Headed'
        BY <1>2, <1>3, AccountsLeftAlone, HeadedKept DEF Once
    <2> QED
        BY <1>2, <1>3, <2>1, OnceWithSameRows, RequestsWithSameRows
<1>4. CASE ~UNCHANGED <<row, moved>>
    <2>1. /\ ~(Live(k) /\ Taken(p, row[k].file, Rows \ {k}))
          /\ row' = [row EXCEPT ![k].part = p]
          /\ moved' = moved \cup EventOf(row[k])
        BY <1>1, <1>4 DEF CommitAssign
    <2> QED
        BY <1>2, <2>1, MoveKeepsOnce
<1> QED
    BY <1>3, <1>4

LEMMA ReassignKeepsOnce ==
    ASSUME Typed, Once, NEW k \in Rows, NEW p \in Partitions, Reassign(k, p)
    PROVE  Once'
BY MoveKeepsOnce DEF Reassign

\* A merge that is made: the source is a tombstone, its event's text is moved
\* to the base, and the base alone may be somewhere else than before.
LEMMA MergeKeepsOnce ==
    ASSUME Typed, Once, NEW u \in Requests, NEW p, NEW side \in {"base", "source", "both"},
           NEW times, CommitMerge(u, p, side, times)
    PROVE  Once'
<1> DEFINE b == Combined(u, side)
<1>1. PICK base \in Rows, source \in Rows :
        base = request[u].row /\ source = request[u].other /\ base # source
    BY DEF CommitMerge, Typed, UnderWay, Reading, Read
<1>2. /\ UNCHANGED <<account, guests, delivery>> /\ EndRequest(u)
      /\ moved \subseteq moved' /\ request[u].step = "merging"
    BY DEF CommitMerge
<1>3. HomesKept /\ Headed'
    BY <1>2, AccountsLeftAlone, HeadedKept DEF Once
<1>4. CASE MergeRefused(u, p)
    BY <1>2, <1>3, <1>4, OnceWithSameRows, RequestsWithSameRows DEF CommitMerge
<1>5. CASE ~MergeRefused(u, p)
    <2>1. /\ EventOf(request[u].otherSeen) \subseteq moved'
          /\ p = row[base].part \/ EventOf(row[base]) \subseteq moved'
        BY <1>1, <1>5 DEF CommitMerge
    <2>2. row' = Merged(u, p, side, times)
        BY <1>5 DEF CommitMerge
    <2>3. row' = [i \in Rows |->
                     CASE i = source /\ Exists(i) -> [row[i] EXCEPT !.state = "tomb"]
                       [] i = base /\ Exists(i) ->
                             [row[i] EXCEPT !.part = p, !.times = times, !.body = b]
                       [] OTHER -> row[i]]
        BY <1>1, <2>2 DEF Merged
    <2>4. b \subseteq request[u].seen.body \cup request[u].otherSeen.body
        BY DEF Combined
    <2>5. Live(base) => ~Taken(p, row[base].file, Rows \ {base, source})
        BY <1>1, <1>5 DEF MergeRefused, Live, Exists
    <2> HIDE DEF b
    <2>6. ASSUME NEW i \in Rows, i # source \/ ~Exists(i), i # base \/ ~Exists(i)
          PROVE  row'[i] = row[i]
        BY <2>3, <2>6
    <2>7. Exists(source) =>
              /\ row'[source].state = "tomb" /\ row'[source].body = row[source].body
              /\ row'[source].file = row[source].file /\ row'[source].part = row[source].part
        <3> SUFFICES ASSUME Exists(source)
                     PROVE  /\ row'[source].state = "tomb"
                            /\ row'[source].body = row[source].body
                            /\ row'[source].file = row[source].file
                            /\ row'[source].part = row[source].part
            OBVIOUS
        <3>1. row'[source] = [row[source] EXCEPT !.state = "tomb"] /\ row[source] \in RowType
            BY <1>1, <2>3, RowBefore
        <3> QED
            BY <3>1 DEF RowType
    <2>8. Exists(base) =>
              /\ row'[base].state = row[base].state /\ row'[base].body = b
              /\ row'[base].file = row[base].file /\ row'[base].part = p
        <3> SUFFICES ASSUME Exists(base)
                     PROVE  /\ row'[base].state = row[base].state /\ row'[base].body = b
                            /\ row'[base].file = row[base].file /\ row'[base].part = p
            OBVIOUS
        <3>1. /\ row'[base] = [row[base] EXCEPT !.part = p, !.times = times, !.body = b]
              /\ row[base] \in RowType
            BY <1>1, <2>3, RowBefore
        <3> QED
            BY <3>1 DEF RowType
    <2>9. ASSUME NEW i \in Rows PROVE StaysPut(i) /\ (Exists(i)' => Exists(i))
        <3>1. CASE i = base /\ Exists(base)
            BY <2>1, <2>8, <3>1 DEF StaysPut, EventOf
        <3>2. CASE i = source /\ Exists(source)
            BY <2>7, <3>2 DEF StaysPut
        <3>3. CASE (i # source /\ i # base) \/ ~Exists(i)
            BY <2>6, <3>3 DEF StaysPut, Exists
        <3> QED
            BY <3>1, <3>2, <3>3
    <2>10. ASSUME NEW i \in Rows PROVE SourcedRow(i)'
        <3>1. SourcedRow(i)
            BY DEF Once, Sourced
        <3>2. CASE i = base /\ Exists(i)
            <4>1. SourcedRequest(u)
                BY DEF Once, Sourced
            <4>2. ASSUME NEW e \in Events \ moved', e \in row'[i].body PROVE Own(i, e)'
                <5>1. e \in request[u].seen.body \cup request[u].otherSeen.body
                    BY <2>4, <2>8, <3>2, <4>2
                <5>2. e \notin request[u].otherSeen.body
                    BY <1>2, <2>1, <4>1, <4>2 DEF SourcedRequest, EventOf
                <5>3. Own(i, e)
                    BY <1>1, <1>2, <3>2, <4>1, <4>2, <5>1, <5>2 DEF SourcedRequest
                <5> QED
                    BY <1>3, <2>9, <4>2, <5>3, OwnKept
            <4> QED
                BY <4>2 DEF SourcedRow, Own, Home
        <3>3. CASE ~(i = base /\ Exists(i))
            <4>1. row'[i].body = row[i].body
                BY <2>6, <2>7, <3>3
            <4> QED
                BY <1>3, <2>9, <3>1, <4>1, SourcedRowKept
        <3> QED
            BY <3>2, <3>3
    <2>11. \A v \in Requests : SourcedRequest(v)'
        BY <1>2, <1>3, <2>9, SourcedRequestsKept DEF Once
    <2>12. ASSUME NEW i \in Rows, i # base, Live(i)'
           PROVE  /\ i # source
                  /\ Live(i) /\ row'[i].file = row[i].file /\ row'[i].part = row[i].part
        <3>1. i # source
            BY <2>6, <2>7, <2>12 DEF Live, Exists
        <3> QED
            BY <2>6, <2>12, <3>1 DEF Live
    <2>13. CASE Live(base)
        <3>1. \A i \in Rows : ~(/\ i # base /\ Live(i)'
                                /\ row'[i].part = row'[base].part
                                /\ row'[i].file = row'[base].file)
              \/ row'[base].file = "none"
            BY <2>5, <2>8, <2>12, <2>13 DEF Taken, Live, Exists
        <3>2. Unique'
            BY <2>12, <3>1, UniqueAfter DEF Once
        <3> QED
            BY <1>3, <2>10, <2>11, <3>2 DEF Once, Sourced
    <2>14. CASE ~Live(base)
        <3>1. ~Live(base)'
            BY <2>6, <2>8, <2>14 DEF Live
        <3>2. Unique'
            BY <2>12, <3>1, UniqueAfter DEF Once
        <3> QED
            BY <1>3, <2>10, <2>11, <3>2 DEF Once, Sourced
    <2> QED
        BY <2>13, <2>14
<1> QED
    BY <1>4, <1>5

\* A request has read a row with its text where it belongs.
LEMMA BeginRequestKeepsOnce ==
    ASSUME Typed, Once, NEW u \in Requests,
           \/ \E i \in Rows : BeginEdit(u, i) \/ BeginAssign(u, i)
           \/ \E i, j \in Rows : BeginMerge(u, i, j)
    PROVE  Once'
<1>1. UNCHANGED <<account, guests, row, delivery, moved>>
    BY DEF BeginEdit, BeginAssign, BeginMerge
<1>2. request \in [Requests -> RequestType]
    BY Fields DEF Typed
<1>3. HomesKept /\ Headed'
    BY <1>1, AccountsLeftAlone, HeadedKept DEF Once
<1>4. NoRow.body = {} /\ \A i \in Rows : SourcedRow(i)
    BY DEF NoRow, Once, Sourced
<1>5. ASSUME NEW x, request' = [request EXCEPT ![u] = x],
             NEW i \in Rows, x.row = i, x.seen = row[i],
             x.otherSeen = NoRow \/ \E j \in Rows : x.otherSeen = row[j]
      PROVE  Once'
    <2>1. ASSUME NEW v \in Requests PROVE SourcedRequest(v)'
        <3>1. \A e \in Events \ moved :
                  /\ e \in x.seen.body => Own(x.row, e)
                  /\ e \in x.otherSeen.body => x.otherSeen.file = e
            BY <1>4, <1>5 DEF SourcedRow, Own
        <3>2. CASE request'[v] = x
            BY <1>1, <3>1, <3>2 DEF SourcedRequest, Own, Home, Exists
        <3>3. CASE request'[v] = request[v]
            BY <1>1, <3>3 DEF Once, Sourced, SourcedRequest, Own, Home, Exists
        <3> QED
            BY <1>2, <1>5, <3>2, <3>3
    <2> QED
        BY <1>1, <1>3, <2>1, OnceWithSameRows
<1>6. ASSUME NEW i \in Rows, NEW s,
             request' = [request EXCEPT ![u] =
                [NoRequest EXCEPT !.step = s, !.row = i, !.seen = row[i]]]
      PROVE  Once'
    <2> DEFINE x == [NoRequest EXCEPT !.step = s, !.row = i, !.seen = row[i]]
    <2>1. x.row = i /\ x.seen = row[i] /\ x.otherSeen = NoRow
        BY DEF NoRequest
    <2> HIDE DEF x
    <2> QED
        BY <1>5, <1>6, <2>1 DEF x
<1>7. ASSUME NEW i \in Rows, NEW j \in Rows, BeginMerge(u, i, j) PROVE Once'
    <2> DEFINE x == [step |-> "merging", row |-> i, seen |-> row[i],
                     other |-> j, otherSeen |-> row[j]]
    <2>1. /\ x.row = i /\ x.seen = row[i] /\ x.otherSeen = row[j]
          /\ request' = [request EXCEPT ![u] = x]
        BY <1>7 DEF BeginMerge
    <2> HIDE DEF x
    <2> QED
        BY <1>5, <2>1
<1> QED
    BY <1>6, <1>7 DEF BeginEdit, BeginAssign

\* The accounts and the calendar: what they displace counts as moved.
LEMMA AccountsKeepOnce ==
    ASSUME Typed, Once,
           \/ \E a \in Accounts : ChangeStatus(a) \/ DeleteAccount(a)
           \/ \E e \in Events, S \in SUBSET Accounts : ChangeGuests(e, S)
    PROVE  Once'
<1>1. UNCHANGED <<delivery, request>> /\ moved' = moved \cup Displaced(account', guests')
    BY DEF ChangeStatus, DeleteAccount, ChangeGuests
<1>2. HomesKept /\ Headed'
    BY <1>1, DisplacedIsMoved, HeadedKept DEF Once
<1>3. CASE UNCHANGED row
    BY <1>1, <1>2, <1>3, OnceWithSameRows, RequestsWithSameRows
<1>4. ASSUME NEW a \in Accounts, DeleteAccount(a) PROVE Once'
    <2>1. ASSUME NEW i \in Rows
          PROVE  \/ row'[i] = row[i]
                 \/ row'[i].state = "gone" /\ row'[i].body = {}
        <3>1. row'[i] = row[i] \/ row'[i] = [NoRow EXCEPT !.state = "gone"]
            BY <1>4 DEF DeleteAccount
        <3> QED
            BY <3>1 DEF NoRow
    <2>2. ASSUME NEW i \in Rows PROVE SourcedRow(i)'
        <3>1. CASE row'[i] = row[i]
            BY <1>2, <3>1, SourcedRowKept DEF Once, Sourced, StaysPut
        <3>2. CASE row'[i].state = "gone" /\ row'[i].body = {}
            BY <3>2 DEF SourcedRow
        <3> QED
            BY <2>1, <3>1, <3>2
    <2>3. Unique'
        BY <2>1, UniqueKept DEF Once, Live
    <2>4. \A i \in Rows : Exists(i)' => Exists(i) /\ StaysPut(i)
        BY <2>1 DEF Exists, StaysPut
    <2> QED
        BY <1>1, <1>2, <2>2, <2>3, <2>4, SourcedRequestsKept DEF Once, Sourced
<1> QED
    BY <1>3, <1>4 DEF ChangeStatus, ChangeGuests

LEMMA NextKeepsOnce == Typed /\ Once /\ [Next]_vars => Once'
<1> SUFFICES ASSUME Typed, Once, [Next]_vars PROVE Once'
    OBVIOUS
<1>1. CASE UNCHANGED vars
    BY <1>1, AccountsLeftAlone, HeadedKept, RequestsWithSameRows, OnceWithSameRows
       DEF vars, Once
<1>2. ASSUME NEW d \in Deliveries,
             \/ \E e \in Events : BeginImport(d, e)
             \/ Resolve(d) \/ ResolveBlind(d) \/ Resolved(d) \/ ImportFails(d)
             \/ CreateMeeting(d) \/ Duplicate(d) \/ Backfill(d)
      PROVE  Once'
    BY <1>2, ImportKeepsOnce, CreateMeetingKeepsOnce, BackfillKeepsOnce
<1>3. ASSUME \/ \E p \in Partitions, n \in Notes : WriteMeeting(p, n)
             \/ \E i \in Rows : DeleteMeeting(i) \/ \E p \in Partitions : Reassign(i, p)
      PROVE  Once'
    BY <1>3, WriteMeetingKeepsOnce, DeleteMeetingKeepsOnce, ReassignKeepsOnce
<1>4. ASSUME NEW u \in Requests,
             \/ \E i \in Rows : BeginEdit(u, i) \/ BeginAssign(u, i)
             \/ \E i, j \in Rows : BeginMerge(u, i, j)
      PROVE  Once'
    BY <1>4, BeginRequestKeepsOnce
<1>5. ASSUME NEW u \in Requests, NEW times \in {"none", "user", request[u].seen.times},
             NEW n \in Notes, NEW file \in {"none", request[u].seen.file} \cup Events,
             CommitEdit(u, times, {}, file) \/ CommitEdit(u, times, {n}, file)
      PROVE  Once'
    BY <1>5, CommitEditKeepsOnce
<1>6. ASSUME NEW u \in Requests, NEW p \in Partitions,
             \/ CommitAssign(u, p)
             \/ \E side \in {"base", "source", "both"},
                   times \in {"none", "calendar", "user"} : CommitMerge(u, p, side, times)
      PROVE  Once'
    BY <1>6, AssignKeepsOnce, MergeKeepsOnce
<1>7. ASSUME \/ \E a \in Accounts : ChangeStatus(a) \/ DeleteAccount(a)
             \/ \E e \in Events, S \in SUBSET Accounts : ChangeGuests(e, S)
      PROVE  Once'
    BY <1>7, AccountsKeepOnce
<1> QED
    BY <1>1, <1>2, <1>3, <1>4, <1>5, <1>6, <1>7 DEF Next

LEMMA InitOnce == Init => Once
BY DEF Init, Once, Unique, Headed, Sourced, SourcedRow, SourcedRequest, Live,
       NoRow, NoDelivery, NoRequest

\* All live meetings with an event's text have its file name, and are in one
\* account: they are one.
LEMMA OnceImpliesImportedOnce == Once => ImportedOnce
<1> SUFFICES ASSUME Once, NEW e \in Events \ moved
             PROVE  Cardinality({i \in Rows : Live(i) /\ e \in row[i].body}) <= 1
    BY DEF ImportedOnce
<1> DEFINE S == {i \in Rows : Live(i) /\ e \in row[i].body}
<1>1. ASSUME NEW i \in S PROVE row[i].file = e /\ row[i].part = Home(e)
    BY DEF Once, Sourced, SourcedRow, Own
<1>2. \A i, j \in S : i = j
    <2>1. e # "none"
        BY TextsAssumption
    <2> QED
        BY <1>1, <2>1 DEF Once, Unique
<1>3. S = {} \/ \E i : S = {i}
    BY <1>2
<1> HIDE DEF S
<1>4. Cardinality(S) = 0 \/ Cardinality(S) = 1
    BY <1>3, FS_EmptySet, FS_Singleton
<1> QED
    BY <1>4 DEF S

\* However often and however concurrently an event is imported (_importOne), and
\* whatever the user does meanwhile, one live meeting at most has its text,
\* unless it was moved, merged or renamed, or the account of the event has changed or was
\* mistaken.
THEOREM ImportedAtMostOnce == Spec => []ImportedOnce
BY InitTyped, NextTyped, InitOnce, NextKeepsOnce, OnceImpliesImportedOnce, PTL DEF Spec

=============================================================================
