----------------------- MODULE ResourceLifecycleProofs -----------------------
(***************************************************************************)
(* Proofs about ResourceLifecycle: for any set of resources, in any order, *)
(* no machine is orphaned unless an inline write came too late.            *)
(*                                                                         *)
(* The argument: the ids of dead machines never come back (Ids), so what   *)
(* an inline call has found missing stays missing (FoundDead); the row of  *)
(* a resource whose apply is under way has no id to be found missing by    *)
(* and a status nobody may delete (ApplyCovered); and a row is marked      *)
(* destroyed by the job only when the machine is gone (GoneIsGone).        *)
(***************************************************************************)
EXTENDS ResourceLifecycle, TLAPS

\* Machines are numbered by birth, and only the last born can be live.
Ids ==
    \A r \in Resources :
        /\ live[r] \in {None, births[r]}
        /\ providerId[r] <= births[r]
        /\ seenId[r] <= births[r]
        /\ row[r].id <= births[r]
        /\ raced = {} => providerId[r] \in {None, births[r]}

\* What an inline call has found missing is a machine that was, and is no more.
FoundDead ==
    \A r \in Resources :
        inline[r] \in {"missing", "marking"} => seenId[r] # None /\ seenId[r] # live[r]

\* During an apply the row says so, and names no machine until its adapter has
\* noted it; a machine that is gone by then may be marked.
ApplyCovered ==
    \A r \in Resources :
        (\E s \in {"applying", "applied", "created"} : At({"up", "deploy"}, s, r))
            /\ raced = {}
            => /\ status[r] = "applying" \/ (step = "created" /\ live[r] = None)
               /\ step # "created" => providerId[r] = None

\* After a terraform destroy there is no machine.
GoneIsGone ==
    \A r \in Resources :
        At({"down", "deprovision"}, "gone", r) => live[r] = None

\* A step belongs to the jobs that have it, and to a target.
StepsOfKind ==
    /\ step \in {"applying", "applied", "created"} => kind \in {"up", "deploy"}
    /\ step \in {"destroying", "gone"} => kind \in {"down", "deprovision"}
    /\ step = "acting" => kind = "run-action"
    /\ todo = {} => step = "next"

IInv ==
    /\ TypeOK
    /\ Ids
    /\ FoundDead
    /\ ApplyCovered
    /\ GoneIsGone
    /\ StepsOfKind
    /\ NoOrphanUnlessRaced

\* The job is about one resource at a time.
LEMMA OneCurrent ==
    ASSUME TypeOK, NEW q \in Resources, NEW r \in Resources, Current(q), Current(r)
    PROVE  q = r
<1>1. /\ Rank[q] \in Nat /\ Rank[r] \in Nat
      /\ Rank[q] <= Rank[r] /\ Rank[r] <= Rank[q]
  BY RankAssumption DEF TypeOK, Current
<1>2. Rank[q] = Rank[r]
  BY <1>1
<1>3. QED
  BY <1>2, RankAssumption

-----------------------------------------------------------------------------
(* Types. *)

LEMMA TypeInit == Init => TypeOK
<1>1. [status |-> "absent", id |-> None] \in Rows
  BY DEF Rows, Statuses, None
<1>2. Init => row \in [Resources -> Rows]
  BY <1>1 DEF Init
<1>3. Init => /\ status \in [Resources -> Statuses]
              /\ providerId \in [Resources -> Nat]
              /\ live \in [Resources -> Nat]
              /\ births \in [Resources -> Nat]
              /\ seenId \in [Resources -> Nat]
  BY DEF Init, Statuses, None
<1>4. Init => /\ instance \in BOOLEAN
              /\ kind \in Kinds \cup {"none"}
              /\ todo \subseteq Resources
              /\ step \in Steps
              /\ inline \in [Resources -> {"idle", "listed", "power", "missing",
                                          "patching", "marking"}]
              /\ deleting \in BOOLEAN
              /\ vanished \subseteq Resources /\ unchecked \subseteq Resources
              /\ raced \subseteq Races
  BY DEF Init, Steps
<1>5. QED
  BY <1>2, <1>3, <1>4 DEF TypeOK

LEMMA TypeStep == TypeOK /\ [Next]_vars => TypeOK'
<1>1. SUFFICES ASSUME TypeOK, [Next]_vars PROVE TypeOK'
  OBVIOUS
<1> USE DEF TypeOK, Kinds, Steps, Statuses, Rows, None, Races, rows, jobVars,
            inlineVars, history, Patch, Goto, NextTarget, At, InlineEnd, Row
<1>2. ASSUME NEW k \in Kinds, NEW targets \in SUBSET Resources, StartJob(k, targets)
      PROVE TypeOK'
  BY <1>1, <1>2 DEF StartJob
<1>3. ASSUME NEW r \in Resources,
             \/ UpBegin(r) \/ Apply(r) \/ UpCreated(r) \/ UpReady(r) \/ SkipDown(r)
             \/ DownBegin(r) \/ Destroy(r) \/ DownDone(r) \/ Act(r) \/ ActDone(r)
      PROVE TypeOK'
  <2>1. CASE UpBegin(r)
    BY <1>1, <2>1 DEF UpBegin
  <2>2. CASE Apply(r)
    <3>1. births[r] \in Nat /\ births[r] + 1 \in Nat
      BY <1>1
    <3>2. live' \in [Resources -> Nat] /\ births' \in [Resources -> Nat]
      <4>1. \/ live' = live /\ births' = births
            \/ /\ births' = [births EXCEPT ![r] = births[r] + 1]
               /\ live' = [live EXCEPT ![r] = births[r] + 1]
        BY <2>2 DEF Apply
      <4>2. QED
        BY <1>1, <3>1, <4>1
    <3>3. vanished' \subseteq Resources /\ UNCHANGED <<unchecked, raced, rows, instance>>
      BY <1>1, <2>2 DEF Apply
    <3>4. UNCHANGED <<kind, todo, inlineVars, deleting>> /\ step' \in Steps
      BY <1>1, <2>2 DEF Apply
    <3>5. QED
      BY <1>1, <3>2, <3>3, <3>4
  <2>3. CASE UpReady(r)
    BY <1>1, <2>3 DEF UpReady
  <2>4. CASE SkipDown(r)
    BY <1>1, <2>4 DEF SkipDown
  <2>5. CASE DownBegin(r)
    BY <1>1, <2>5 DEF DownBegin
  <2>6. CASE Destroy(r)
    BY <1>1, <2>6 DEF Destroy
  <2>7. CASE DownDone(r)
    BY <1>1, <2>7 DEF DownDone
  <2>8. CASE Act(r)
    BY <1>1, <2>8 DEF Act
  <2>9. CASE ActDone(r)
    BY <1>1, <2>9 DEF ActDone
  <2>10. CASE UpCreated(r)
    BY <1>1, <2>10 DEF UpCreated
  <2>11. QED
    BY <1>3, <2>1, <2>2, <2>3, <2>4, <2>5, <2>6, <2>7, <2>8, <2>9, <2>10
<1>4. CASE JobFails
  BY <1>1, <1>4 DEF JobFails
<1>5. CASE JobSucceeds
  BY <1>1, <1>5 DEF JobSucceeds
<1>6. ASSUME NEW r \in Resources, Inline(r) \/ Vanish(r) PROVE TypeOK'
  <2>1. CASE InlineRead(r)
    BY <1>1, <2>1 DEF InlineRead
  <2>2. CASE InlinePower(r)
    BY <1>1, <2>2 DEF InlinePower
  <2>3. CASE InlineMissing(r)
    BY <1>1, <2>3 DEF InlineMissing
  <2>4. CASE InlineDrop(r)
    BY <1>1, <2>4 DEF InlineDrop
  <2>5. CASE InlinePatchRead(r)
    BY <1>1, <2>5 DEF InlinePatchRead
  <2>6. CASE InlinePatchWrite(r)
    BY <1>1, <2>6 DEF InlinePatchWrite
  <2>7. CASE Vanish(r)
    BY <1>1, <2>7 DEF Vanish
  <2>8. QED
    BY <1>6, <2>1, <2>2, <2>3, <2>4, <2>5, <2>6, <2>7 DEF Inline
<1>7. CASE DeleteCheck
  BY <1>1, <1>7 DEF DeleteCheck
<1>8. CASE DeleteCommit
  BY <1>1, <1>8 DEF DeleteCommit
<1>9. CASE UNCHANGED vars
  BY <1>1, <1>9 DEF vars
<1>10. QED
  BY <1>1, <1>2, <1>3, <1>4, <1>5, <1>6, <1>7, <1>8, <1>9 DEF Next, Job

-----------------------------------------------------------------------------
(* The inductive invariant. *)

Parts == Ids /\ FoundDead /\ ApplyCovered /\ GoneIsGone /\ StepsOfKind
            /\ NoOrphanUnlessRaced

LEMMA InitParts == Init => Parts
BY DEF Init, Parts, Ids, FoundDead, ApplyCovered, GoneIsGone, StepsOfKind,
    NoOrphanUnlessRaced, Orphaned, None, At

LEMMA NextParts == IInv /\ [Next]_vars /\ TypeOK' => Parts'
<1>1. SUFFICES ASSUME IInv, [Next]_vars, TypeOK' PROVE Parts'
  OBVIOUS
<1> USE DEF IInv, TypeOK, Parts, Ids, FoundDead, ApplyCovered, GoneIsGone,
            StepsOfKind, NoOrphanUnlessRaced, Orphaned, None, At, Current, rows,
            jobVars, inlineVars, history, Patch, Goto, NextTarget, InlineEnd, Row
<1>2. ASSUME NEW k \in Kinds, NEW targets \in SUBSET Resources, StartJob(k, targets)
      PROVE Parts'
  BY <1>1, <1>2 DEF StartJob
<1>3. ASSUME NEW r \in Resources,
             \/ UpBegin(r) \/ Apply(r) \/ UpCreated(r) \/ UpReady(r) \/ SkipDown(r)
             \/ DownBegin(r) \/ Destroy(r) \/ DownDone(r) \/ Act(r) \/ ActDone(r)
      PROVE Parts'
  <2>1. CASE UpBegin(r)
    <3>1. \A q \in Resources : Current(q) => q = r
      BY <1>1, <2>1, OneCurrent DEF UpBegin
    <3>2. Ids'
      BY <1>1, <2>1, <3>1 DEF UpBegin
    <3>3. FoundDead'
      BY <1>1, <2>1, <3>1 DEF UpBegin
    <3>4. ApplyCovered'
      BY <1>1, <2>1, <3>1 DEF UpBegin
    <3>5. GoneIsGone'
      BY <1>1, <2>1, <3>1 DEF UpBegin
    <3>6. StepsOfKind'
      BY <1>1, <2>1, <3>1 DEF UpBegin
    <3>7. NoOrphanUnlessRaced'
      BY <1>1, <2>1, <3>1 DEF UpBegin
    <3>8. QED
      BY <3>2, <3>3, <3>4, <3>5, <3>6, <3>7
  <2>2. CASE Apply(r)
    <3>1. \A q \in Resources : Current(q) => q = r
      BY <1>1, <2>2, OneCurrent DEF Apply
    <3>2. Ids'
      <4>1. \A q \in Resources \ {r} : live'[q] = live[q] /\ births'[q] = births[q]
        BY <1>1, <2>2 DEF Apply
      <4>2. /\ births[r] \in Nat /\ births'[r] \in Nat
            /\ births'[r] >= births[r] /\ live'[r] \in {0, births'[r]}
        BY <1>1, <2>2 DEF Apply
      <4>3. providerId[r] = 0 \/ raced # {}
        BY <1>1, <2>2 DEF Apply
      <4>4. /\ providerId[r] \in Nat /\ seenId[r] \in Nat /\ row[r].id \in Nat
        BY <1>1 DEF Rows
      <4>5. UNCHANGED <<providerId, seenId, row, raced>>
        BY <2>2 DEF Apply
      <4>6. ASSUME NEW q \in Resources
            PROVE  /\ live'[q] \in {0, births'[q]}
                   /\ providerId'[q] <= births'[q]
                   /\ seenId'[q] <= births'[q]
                   /\ row'[q].id <= births'[q]
                   /\ raced' = {} => providerId'[q] \in {0, births'[q]}
        <5>1. CASE q = r
          BY <1>1, <5>1, <4>2, <4>3, <4>4, <4>5
        <5>2. CASE q # r
          BY <1>1, <5>2, <4>1, <4>5
        <5>3. QED
          BY <5>1, <5>2
      <4>7. QED
        BY <4>6
    <3>3. FoundDead'
      BY <1>1, <2>2, <3>1 DEF Apply
    <3>4. ApplyCovered'
      BY <1>1, <2>2, <3>1 DEF Apply
    <3>5. GoneIsGone'
      BY <1>1, <2>2, <3>1 DEF Apply
    <3>6. StepsOfKind'
      BY <1>1, <2>2, <3>1 DEF Apply
    <3>7. NoOrphanUnlessRaced'
      BY <1>1, <2>2, <3>1 DEF Apply
    <3>8. QED
      BY <3>2, <3>3, <3>4, <3>5, <3>6, <3>7
  <2>3. CASE UpReady(r)
    BY <1>1, <2>3 DEF UpReady
  <2>4. CASE SkipDown(r)
    BY <1>1, <2>4 DEF SkipDown
  <2>5. CASE DownBegin(r)
    BY <1>1, <2>5 DEF DownBegin
  <2>6. CASE Destroy(r)
    <3>1. \A q \in Resources : Current(q) => q = r
      BY <1>1, <2>6, OneCurrent DEF Destroy
    <3>2. Ids'
      BY <1>1, <2>6, <3>1 DEF Destroy
    <3>3. FoundDead'
      BY <1>1, <2>6, <3>1 DEF Destroy
    <3>4. ApplyCovered'
      BY <1>1, <2>6, <3>1 DEF Destroy
    <3>5. GoneIsGone'
      BY <1>1, <2>6, <3>1 DEF Destroy
    <3>6. StepsOfKind'
      BY <1>1, <2>6, <3>1 DEF Destroy
    <3>7. NoOrphanUnlessRaced'
      BY <1>1, <2>6, <3>1 DEF Destroy
    <3>8. QED
      BY <3>2, <3>3, <3>4, <3>5, <3>6, <3>7
  <2>7. CASE DownDone(r)
    BY <1>1, <2>7 DEF DownDone
  <2>8. CASE Act(r)
    BY <1>1, <2>8 DEF Act
  <2>9. CASE ActDone(r)
    BY <1>1, <2>9 DEF ActDone
  <2>10. CASE UpCreated(r)
    BY <1>1, <2>10 DEF UpCreated
  <2>11. QED
    BY <1>3, <2>1, <2>2, <2>3, <2>4, <2>5, <2>6, <2>7, <2>8, <2>9, <2>10
<1>4. CASE JobFails
  BY <1>1, <1>4 DEF JobFails
<1>5. CASE JobSucceeds
  <2>1. Ids'
    BY <1>1, <1>5 DEF JobSucceeds
  <2>2. FoundDead'
    BY <1>1, <1>5 DEF JobSucceeds
  <2>3. ApplyCovered'
    BY <1>1, <1>5 DEF JobSucceeds
  <2>4. GoneIsGone'
    BY <1>1, <1>5 DEF JobSucceeds
  <2>5. StepsOfKind'
    BY <1>1, <1>5 DEF JobSucceeds
  <2>6. NoOrphanUnlessRaced'
    BY <1>1, <1>5 DEF JobSucceeds
  <2>7. QED
    BY <2>1, <2>2, <2>3, <2>4, <2>5, <2>6
<1>6. ASSUME NEW r \in Resources, Inline(r) \/ Vanish(r) PROVE Parts'
  <2>1. CASE InlineRead(r)
    BY <1>1, <2>1 DEF InlineRead
  <2>2. CASE InlinePower(r)
    BY <1>1, <2>2 DEF InlinePower
  <2>3. CASE InlineMissing(r)
    <3>1. Ids'
      BY <1>1, <2>3 DEF InlineMissing, FoundMissing
    <3>2. FoundDead'
      BY <1>1, <2>3 DEF InlineMissing, FoundMissing
    <3>3. ApplyCovered'
      BY <1>1, <2>3 DEF InlineMissing, FoundMissing
    <3>4. GoneIsGone'
      BY <1>1, <2>3 DEF InlineMissing, FoundMissing
    <3>5. StepsOfKind'
      BY <1>1, <2>3 DEF InlineMissing, FoundMissing
    <3>6. NoOrphanUnlessRaced'
      BY <1>1, <2>3 DEF InlineMissing, FoundMissing
    <3>7. QED
      BY <3>1, <3>2, <3>3, <3>4, <3>5, <3>6
  <2>4. CASE InlineDrop(r)
    BY <1>1, <2>4 DEF InlineDrop
  <2>5. CASE InlinePatchRead(r)
    BY <1>1, <2>5 DEF InlinePatchRead
  <2>6. CASE InlinePatchWrite(r)
    <3>0. /\ UNCHANGED <<live, births, kind, todo, step>>
          /\ raced' = {} => raced = {} /\ row[r] = Row(r)
          /\ \A q \in Resources \ {r} : status'[q] = status[q] /\ providerId'[q] = providerId[q]
          /\ raced' = {} => providerId'[r] = providerId[r]
          /\ raced' = {} => \/ status'[r] = status[r]
                            \/ /\ inline[r] = "marking" /\ row[r].id = seenId[r]
                               /\ status'[r] = "destroyed"
      BY <1>1, <2>6 DEF InlinePatchWrite
    <3>00. raced' = {} => status'[r] = status[r] \/ (live[r] = 0 /\ providerId[r] # 0)
      <4>1. ASSUME raced' = {}, status'[r] # status[r]
            PROVE  live[r] = 0 /\ providerId[r] # 0
        <5>1. row[r].id = providerId[r] /\ row[r].id = seenId[r] /\ raced = {}
          BY <3>0, <4>1
        <5>2. seenId[r] # 0 /\ seenId[r] # live[r]
          BY <1>1, <3>0, <4>1
        <5>3. live[r] \in {0, births[r]} /\ providerId[r] \in {0, births[r]}
          BY <1>1, <5>1
        <5>4. QED
          BY <5>1, <5>2, <5>3
      <4>2. QED
        BY <4>1
    <3>1. Ids'
      BY <1>1, <2>6 DEF InlinePatchWrite
    <3>2. FoundDead'
      BY <1>1, <2>6 DEF InlinePatchWrite
    <3>3. ApplyCovered'
      BY <1>1, <3>0, <3>00
    <3>4. GoneIsGone' /\ StepsOfKind'
      BY <1>1, <2>6 DEF InlinePatchWrite
    <3>5. NoOrphanUnlessRaced'
      BY <1>1, <3>0, <3>00
    <3>6. QED
      BY <3>1, <3>2, <3>3, <3>4, <3>5
  <2>7. CASE Vanish(r)
    BY <1>1, <2>7 DEF Vanish
  <2>8. QED
    BY <1>6, <2>1, <2>2, <2>3, <2>4, <2>5, <2>6, <2>7 DEF Inline
<1>7. CASE DeleteCheck
  BY <1>1, <1>7 DEF DeleteCheck
<1>8. CASE DeleteCommit
  <2>1. Ids'
    BY <1>1, <1>8 DEF DeleteCommit, Deletable
  <2>2. FoundDead'
    BY <1>1, <1>8 DEF DeleteCommit, Deletable
  <2>3. ApplyCovered'
    BY <1>1, <1>8 DEF DeleteCommit, Deletable
  <2>4. GoneIsGone'
    BY <1>1, <1>8 DEF DeleteCommit, Deletable
  <2>5. StepsOfKind'
    BY <1>1, <1>8 DEF DeleteCommit, Deletable
  <2>6. NoOrphanUnlessRaced'
    BY <1>1, <1>8 DEF DeleteCommit, Deletable
  <2>7. QED
    BY <2>1, <2>2, <2>3, <2>4, <2>5, <2>6
<1>9. CASE UNCHANGED vars
  BY <1>1, <1>9 DEF vars
<1>10. QED
  BY <1>1, <1>2, <1>3, <1>4, <1>5, <1>6, <1>7, <1>8, <1>9 DEF Next, Job

LEMMA Invariance == Spec => []IInv
<1>1. Init => IInv
  BY TypeInit, InitParts DEF IInv, Parts
<1>2. IInv /\ [Next]_vars => IInv'
  BY TypeStep, NextParts DEF IInv, Parts
<1>3. QED
  BY <1>1, <1>2, PTL DEF Spec

\* Every variable keeps its type.
THEOREM TypeCorrect == Spec => []TypeOK
<1>1. IInv => TypeOK
  BY DEF IInv
<1>2. QED
  BY <1>1, Invariance, PTL

\* A machine that is live has a row that says so, unless an inline write came
\* too late.
THEOREM NoOrphans == Spec => []NoOrphanUnlessRaced
<1>1. IInv => NoOrphanUnlessRaced
  BY DEF IInv
<1>2. QED
  BY <1>1, Invariance, PTL

\* The lifecycle jobs alone forget no machine: without inline calls beside them
\* (reconcile_race shows that one is enough) only the deletion of an instance
\* whose resources it has counted before may.
THEOREM NoOrphansWithoutInlines == ASSUME Inlines = {} PROVE Spec => []NoOrphan
<1> DEFINE Alone == /\ \A r \in Resources : inline[r] = "idle"
                    /\ raced \subseteq {"delete"}
<1>1. Init => Alone
  BY DEF Init
<1>2. IInv /\ Alone /\ [Next]_vars => Alone'
  <2> SUFFICES ASSUME IInv, Alone, [Next]_vars PROVE Alone'
    OBVIOUS
  <2>1. ASSUME NEW r \in Resources, Inline(r) PROVE FALSE
    BY <2>1 DEF Inline, InlineRead, InlinePower, InlineMissing, InlineDrop,
                InlinePatchRead, InlinePatchWrite
  <2>2. CASE Job
    <3>1. UNCHANGED <<inline, raced>>
      BY <2>2 DEF Job, StartJob, UpBegin, Apply, UpCreated, UpReady, SkipDown, DownBegin, Destroy,
                  DownDone, Act, ActDone, JobFails, JobSucceeds, inlineVars, history
    <3>2. QED
      BY <3>1
  <2>3. CASE \E r \in Resources : Vanish(r)
    BY <2>3 DEF Vanish, inlineVars, history
  <2>4. CASE DeleteCheck \/ DeleteCommit
    BY <2>4 DEF DeleteCheck, DeleteCommit, inlineVars, history
  <2>5. CASE UNCHANGED vars
    BY <2>5 DEF vars, inlineVars, history
  <2>6. QED
    BY <2>1, <2>2, <2>3, <2>4, <2>5 DEF Next
<1>3. Alone /\ NoOrphanUnlessRaced => NoOrphan
  BY DEF NoOrphanUnlessRaced, NoOrphan
<1>4. QED
  <2> HIDE DEF Alone
  <2> QED
    BY <1>1, <1>2, <1>3, NoOrphans, Invariance, PTL DEF Spec

\* What reconciliation marks destroyed is gone.
THEOREM MarksTheDead == Spec => MarkedOnlyIfGone
<1> DEFINE Step == \A r \in Resources :
        /\ inline[r] = "marking" /\ status[r] # "destroyed"
        /\ status'[r] = "destroyed"
        /\ raced' = {}
        => live[r] = None
<1>1. IInv /\ [Next]_vars => [Step]_vars
  <2>1. SUFFICES ASSUME IInv, Next,
                        NEW r \in Resources,
                        inline[r] = "marking", status[r] # "destroyed",
                        status'[r] = "destroyed", raced' = {}
                 PROVE  live[r] = None
    OBVIOUS
  <2>2. DownDone(r) \/ InlinePatchWrite(r)
    BY <2>1 DEF IInv, TypeOK, Next, Job, Inline, StartJob, UpBegin, Apply, UpCreated,
        UpReady, SkipDown, DownBegin, Destroy, DownDone, Act, ActDone, JobFails, JobSucceeds,
        InlineRead, InlinePower, InlineMissing, InlineDrop, InlinePatchRead,
        InlinePatchWrite, DeleteCheck, DeleteCommit, Vanish, Patch, rows
  <2>3. CASE DownDone(r)
    BY <2>1, <2>3 DEF IInv, GoneIsGone, DownDone
  <2>4. CASE InlinePatchWrite(r)
    <3>1. row[r] = Row(r) /\ row[r].id = seenId[r] /\ raced = {}
      BY <2>1, <2>4 DEF InlinePatchWrite
    <3>2. providerId[r] = seenId[r]
      BY <3>1 DEF Row
    <3>3. QED
      BY <2>1, <3>1, <3>2 DEF IInv, Ids, FoundDead, None
  <2>5. QED
    BY <2>2, <2>3, <2>4
<1>2. QED
  BY <1>1, Invariance, PTL DEF Spec, MarkedOnlyIfGone

-----------------------------------------------------------------------------
(* What the rows and the job say of the machines. *)

\* The machine that an apply has made is there, or was removed.
MachineMade ==
    \A r \in Resources :
        (\E s \in {"applied", "created"} : At({"up", "deploy"}, s, r))
            => live[r] # None \/ r \in vanished

\* During a terraform destroy the row does not say ready.
DestroyCovered ==
    \A r \in Resources :
        (\E s \in {"destroying", "gone"} : At({"down", "deprovision"}, s, r))
            => status[r] # "ready" \/ raced # {}

\* A deprovision has no machine behind it.
SweptClean ==
    kind = "deprovision" /\ raced = {}
        => \A r \in Resources \ todo : live[r] = None

Claims == MachineMade /\ DestroyCovered /\ SweptClean /\ ReadyIsLive

LEMMA InitClaims == Init => Claims
BY DEF Init, Claims, MachineMade, DestroyCovered, SweptClean, ReadyIsLive, At, None

LEMMA NextClaims == IInv /\ Claims /\ [Next]_vars /\ TypeOK' => Claims'
<1>1. SUFFICES ASSUME IInv, Claims, [Next]_vars, TypeOK' PROVE Claims'
  OBVIOUS
<1> USE DEF IInv, TypeOK, Claims, MachineMade, DestroyCovered, SweptClean,
            ReadyIsLive, None, At, rows, jobVars, inlineVars, history, Patch, Goto,
            NextTarget, InlineEnd, Row
<1>2. ASSUME NEW k \in Kinds, NEW targets \in SUBSET Resources, StartJob(k, targets)
      PROVE Claims'
  BY <1>1, <1>2 DEF StartJob
<1>3. ASSUME NEW r \in Resources,
             \/ UpBegin(r) \/ Apply(r) \/ UpCreated(r) \/ UpReady(r) \/ SkipDown(r)
             \/ DownBegin(r) \/ Destroy(r) \/ DownDone(r) \/ Act(r) \/ ActDone(r)
      PROVE Claims'
  <2> DEFINE Alone == \A q \in Resources : Current(q) => q = r
  <2>0. Current(r) /\ Alone
    BY <1>1, <1>3, OneCurrent DEF UpBegin, Apply, UpCreated, UpReady, SkipDown, DownBegin,
        Destroy, DownDone, Act, ActDone
  <2>1. CASE UpBegin(r)
    BY <1>1, <2>0, <2>1 DEF UpBegin, Current
  <2>2. CASE Apply(r)
    BY <1>1, <2>0, <2>2 DEF Apply, Current
  <2>3. CASE UpReady(r)
    BY <1>1, <2>0, <2>3 DEF UpReady, Current
  <2>4. CASE SkipDown(r)
    BY <1>1, <2>0, <2>4 DEF SkipDown, Current, TornDown, NoOrphanUnlessRaced, Orphaned
  <2>5. CASE DownBegin(r)
    BY <1>1, <2>0, <2>5 DEF DownBegin, Current
  <2>6. CASE Destroy(r)
    BY <1>1, <2>0, <2>6 DEF Destroy, Current
  <2>7. CASE DownDone(r)
    BY <1>1, <2>0, <2>7 DEF DownDone, Current, GoneIsGone
  <2>8. CASE Act(r)
    BY <1>1, <2>0, <2>8 DEF Act, Current
  <2>9. CASE ActDone(r)
    BY <1>1, <2>0, <2>9 DEF ActDone, Current
  <2>10. CASE UpCreated(r)
    BY <1>1, <2>0, <2>10 DEF UpCreated, Current
  <2>11. QED
    BY <1>3, <2>1, <2>2, <2>3, <2>4, <2>5, <2>6, <2>7, <2>8, <2>9, <2>10
<1>4. CASE JobFails
  BY <1>1, <1>4 DEF JobFails, Current
<1>5. CASE JobSucceeds
  BY <1>1, <1>5 DEF JobSucceeds, Current
<1>6. ASSUME NEW r \in Resources, Inline(r) \/ Vanish(r) PROVE Claims'
  <2>1. CASE InlineRead(r)
    BY <1>1, <2>1 DEF InlineRead, Current
  <2>2. CASE InlinePower(r)
    BY <1>1, <2>2 DEF InlinePower, Current
  <2>3. CASE InlineMissing(r)
    BY <1>1, <2>3 DEF InlineMissing, Current
  <2>4. CASE InlineDrop(r)
    BY <1>1, <2>4 DEF InlineDrop, Current
  <2>5. CASE InlinePatchRead(r)
    BY <1>1, <2>5 DEF InlinePatchRead, Current
  <2>6. CASE InlinePatchWrite(r)
    <3>1. /\ UNCHANGED <<live, births, kind, todo, step, vanished, unchecked>>
          /\ raced' = {} => raced = {}
      BY <2>6 DEF InlinePatchWrite
    <3>2. \A q \in Resources : raced' = {} /\ status'[q] = "ready" => status[q] = "ready"
      <4>1. ASSUME NEW q \in Resources, raced' = {}, status'[q] = "ready"
            PROVE  status[q] = "ready"
        <5>1. row[r].status = status[r]
          BY <2>6, <4>1 DEF InlinePatchWrite
        <5>2. QED
          BY <1>1, <2>6, <4>1, <5>1 DEF InlinePatchWrite
      <4>2. QED
        BY <4>1
    <3>3. MachineMade' /\ SweptClean'
      BY <1>1, <3>1 DEF Current
    <3>4. DestroyCovered'
      BY <1>1, <3>1, <3>2 DEF Current
    <3>5. ReadyIsLive'
      BY <1>1, <3>1, <3>2
    <3>6. QED
      BY <3>3, <3>4, <3>5
  <2>7. CASE Vanish(r)
    BY <1>1, <2>7 DEF Vanish, Current
  <2>8. QED
    BY <1>6, <2>1, <2>2, <2>3, <2>4, <2>5, <2>6, <2>7 DEF Inline
<1>7. CASE DeleteCheck
  BY <1>1, <1>7 DEF DeleteCheck, Current
<1>8. CASE DeleteCommit
  BY <1>1, <1>8 DEF DeleteCommit, Current
<1>9. CASE UNCHANGED vars
  BY <1>1, <1>9 DEF vars, Current
<1>10. QED
  BY <1>1, <1>2, <1>3, <1>4, <1>5, <1>6, <1>7, <1>8, <1>9 DEF Next, Job

LEMMA ClaimsHold == Spec => []Claims
<1>1. IInv /\ IInv' /\ Claims /\ [Next]_vars => Claims'
  BY NextClaims DEF IInv
<1>2. QED
  BY <1>1, InitClaims, Invariance, PTL DEF Spec

\* A ready row has its machine, unless it was removed by hand, the row was
\* overwritten too late, or an action that does nothing has made it ready.
THEOREM ReadyRowsAreLive == Spec => []ReadyIsLive
<1>1. Claims => ReadyIsLive
  BY DEF Claims
<1>2. QED
  BY <1>1, ClaimsHold, PTL

\* A deprovision that ends well leaves no machine.
THEOREM DeprovisionSweeps == Spec => DeprovisionLeavesNothing
<1> DEFINE Step == kind = "deprovision" /\ JobSucceeds /\ raced = {}
            => \A r \in Resources : live[r] = None
<1>1. Claims => Step
  BY DEF Claims, SweptClean, JobSucceeds
<1>2. Claims /\ [Next]_vars => [Step]_vars
  BY <1>1
<1>3. QED
  BY <1>2, ClaimsHold, PTL DEF Spec, DeprovisionLeavesNothing
=============================================================================
