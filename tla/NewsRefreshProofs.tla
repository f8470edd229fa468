-------------------------- MODULE NewsRefreshProofs --------------------------
(***************************************************************************)
(* Proofs about NewsRefresh, for any number of processes, of services in   *)
(* each, of accounts, refreshes and periods.                               *)
(***************************************************************************)
EXTENDS NewsRefresh, FiniteSetTheorems, TLAPS

\* A refresh that was asked for belongs to a service and to an account.
Owned ==
    \A c \in Refreshes : refresh[c].step # "new" =>
        refresh[c].at \in Services /\ refresh[c].of \in Accounts

\* The set inFlight keeps refreshes of an account by one service apart.
Exclusive ==
    \A c, d \in Refreshes :
        /\ refresh[c].step \in Running /\ refresh[d].step \in Running
        /\ refresh[c].at = refresh[d].at /\ refresh[c].of = refresh[d].of
        => c = d

\* A period without a row has not fired, and a task has come to every account
\* that it has not yet to do, or has found none.
Periodic ==
    /\ \A p \in Periods : /\ runs[p] = "none" => fired[p] = 0
                          /\ fired[p] <= 1
                          /\ runs[p] = "completed" => tried[p] = Accounts \/ p \in unlisted
    /\ \A r \in Replicas : sched[r].step = "task" =>
          /\ sched[r].period \in Periods
          /\ \/ Accounts \subseteq tried[sched[r].period] \cup sched[r].todo
             \/ sched[r].period \in unlisted

Storing(c, a) == refresh[c].of = a /\ refresh[c].step = "storing"

\* Where no replacements overlapped, one at a time is under way; it has seen all
\* there is, and there is what one refresh has stored.
Snapshots ==
    \A a \in Accounts \ overlapped :
        /\ \A c, d \in Refreshes : Storing(c, a) /\ Storing(d, a) => c = d
        /\ \A c \in Refreshes : Storing(c, a) => refresh[c].seen = news[a]
        /\ news[a] = {} \/ \E c \in Refreshes : news[a] = {c}

Base == TypeOK /\ Owned /\ Exclusive

IInv == Base /\ Periodic /\ Snapshots /\ RefreshingIsUnderWay

LEMMA InitIInv == Init => IInv
BY BoundsAssumption DEF Init, IInv, Base, TypeOK, LoopType, RefreshType, Owned, Exclusive, Periodic, Snapshots,
    RefreshingIsUnderWay, Storing, Idle, NoRefresh, Running, Steps, Refreshes, Periods

\* A refresh that goes from one step to another stays what it is.
LEMMA GotoTyped ==
    ASSUME TypeOK, Owned, NEW c \in Refreshes, NEW s \in Steps \ {"new"},
           refresh[c].step # "new", Goto(c, s)
    PROVE  refresh' \in [Refreshes -> RefreshType] /\ Owned'
<1>1. refresh[c] \in RefreshType /\ refresh' = [refresh EXCEPT ![c].step = s]
  BY DEF TypeOK, Goto
<1>2. [refresh[c] EXCEPT !.step = s] \in RefreshType
  BY <1>1 DEF RefreshType
<1>3. refresh' \in [Refreshes -> RefreshType]
  BY <1>1, <1>2 DEF TypeOK
<1>4. Owned'
  BY <1>1 DEF TypeOK, RefreshType, Owned
<1>5. QED
  BY <1>3, <1>4

LEMMA BeginTyped ==
    ASSUME TypeOK, Owned, NEW c \in Refreshes, NEW step \in Steps, NEW s \in Services,
           NEW a \in Accounts, Begin(c, step, s, a)
    PROVE  refresh' \in [Refreshes -> RefreshType] /\ Owned'
BY DEF TypeOK, RefreshType, Owned, Begin

LEMMA SetStatusTyped ==
    ASSUME TypeOK, NEW c \in Refreshes, NEW s \in {"refreshing", "ok", "error"},
           SetStatus(c, s)
    PROVE  status' \in [Accounts -> {"none", "refreshing", "ok", "error"}]
BY DEF TypeOK, SetStatus

LEMMA NextTypeOK == TypeOK /\ Owned /\ [Next]_vars => (TypeOK /\ Owned)'
<1>1. SUFFICES ASSUME TypeOK /\ Owned, [Next]_vars PROVE (TypeOK /\ Owned)'
  OBVIOUS
<1> USE DEF history
<1>2. CASE NextPeriod
  BY <1>1, <1>2, BoundsAssumption DEF NextPeriod, TypeOK, Owned
<1>3. ASSUME NEW c \in Refreshes, NEW s \in Services, NEW a \in Accounts, Click(c, s, a)
      PROVE (TypeOK /\ Owned)'
  <2>1. Begin(c, "clicking", s, a) /\ "clicking" \in Steps
    BY <1>3 DEF Click, Steps
  <2>2. refresh' \in [Refreshes -> RefreshType] /\ Owned'
    BY <1>1, <2>1, BeginTyped
  <2>3. QED
    BY <1>1, <1>3, <2>2 DEF Click, TypeOK
<1>4. ASSUME NEW c \in Refreshes, ClickMarks(c) PROVE (TypeOK /\ Owned)'
  <2>1. refresh[c].step # "new" /\ refresh[c].of \in Accounts
    BY <1>1, <1>4 DEF ClickMarks, Owned
  <2>2. Goto(c, "clicked")
    BY <1>4 DEF ClickMarks
  <2>3. "clicked" \in Steps \ {"new"}
    BY DEF Steps, Running
  <2>4. refresh' \in [Refreshes -> RefreshType] /\ Owned'
    BY <1>1, <2>1, <2>2, <2>3, GotoTyped
  <2>5. status' \in [Accounts -> {"none", "refreshing", "ok", "error"}]
    BY <1>1, <1>4, SetStatusTyped DEF ClickMarks
  <2>6. QED
    BY <1>1, <1>4, <2>1, <2>4, <2>5 DEF ClickMarks, TypeOK
<1>5. ASSUME NEW c \in Refreshes, ClickFails(c) PROVE (TypeOK /\ Owned)'
  <2>1. refresh[c].step # "new" /\ refresh[c].of \in Accounts
    BY <1>1, <1>5 DEF ClickFails, Owned
  <2>2. Goto(c, "over")
    BY <1>5 DEF ClickFails
  <2>3. "over" \in Steps \ {"new"}
    BY DEF Steps, Running
  <2>4. refresh' \in [Refreshes -> RefreshType] /\ Owned'
    BY <1>1, <2>1, <2>2, <2>3, GotoTyped
  <2>5. QED
    BY <1>1, <1>5, <2>1, <2>4 DEF ClickFails, TypeOK
<1>6. ASSUME NEW c \in Refreshes, ClickStarts(c) PROVE (TypeOK /\ Owned)'
  <2>1. refresh[c].step # "new" /\ refresh[c].of \in Accounts
    BY <1>1, <1>6 DEF ClickStarts, Owned
  <2>2. \E s \in {"over", "marking"} : Goto(c, s)
    BY <1>6 DEF ClickStarts
  <2>3. {"over", "marking"} \subseteq Steps \ {"new"}
    BY DEF Steps, Running
  <2>4. refresh' \in [Refreshes -> RefreshType] /\ Owned'
    BY <1>1, <2>1, <2>2, <2>3, GotoTyped
  <2>5. QED
    BY <1>1, <1>6, <2>1, <2>4 DEF ClickStarts, TypeOK
<1>7. ASSUME NEW c \in Refreshes, Mark(c) PROVE (TypeOK /\ Owned)'
  <2>1. refresh[c].step # "new" /\ refresh[c].of \in Accounts
    BY <1>1, <1>7 DEF Mark, Owned
  <2>2. Goto(c, "working")
    BY <1>7 DEF Mark
  <2>3. "working" \in Steps \ {"new"}
    BY DEF Steps, Running
  <2>4. refresh' \in [Refreshes -> RefreshType] /\ Owned'
    BY <1>1, <2>1, <2>2, <2>3, GotoTyped
  <2>5. status' \in [Accounts -> {"none", "refreshing", "ok", "error"}]
    BY <1>1, <1>7, SetStatusTyped DEF Mark
  <2>6. QED
    BY <1>1, <1>7, <2>1, <2>4, <2>5 DEF Mark, TypeOK
<1>8. ASSUME NEW c \in Refreshes, BeginStore(c) PROVE (TypeOK /\ Owned)'
  <2>1. refresh[c].of \in Accounts
    BY <1>1, <1>8 DEF BeginStore, Owned
  <2>2. news[refresh[c].of] \subseteq Refreshes /\ refresh[c] \in RefreshType
    BY <1>1, <2>1 DEF TypeOK
  <2>3. [refresh[c] EXCEPT !.step = "storing", !.seen = news[refresh[c].of]] \in RefreshType
    BY <2>2 DEF RefreshType, Steps, Running
  <2>4. refresh' \in [Refreshes -> RefreshType]
    BY <1>1, <1>8, <2>3 DEF BeginStore, TypeOK
  <2>5. Owned'
    BY <1>1, <1>8, <2>1 DEF BeginStore, TypeOK, RefreshType, Owned
  <2>6. overlapped' \subseteq Accounts
    BY <1>1, <1>8, <2>1 DEF BeginStore, TypeOK
  <2>7. QED
    BY <1>1, <1>8, <2>4, <2>5, <2>6 DEF BeginStore, TypeOK
<1>9. ASSUME NEW c \in Refreshes, Store(c) PROVE (TypeOK /\ Owned)'
  <2>1. refresh[c].step # "new" /\ refresh[c].of \in Accounts
    BY <1>1, <1>9 DEF Store, Owned
  <2>2. Goto(c, "stored")
    BY <1>9 DEF Store
  <2>3. "stored" \in Steps \ {"new"}
    BY DEF Steps, Running
  <2>4. refresh' \in [Refreshes -> RefreshType] /\ Owned'
    BY <1>1, <2>1, <2>2, <2>3, GotoTyped
  <2>5. QED
    BY <1>1, <1>9, <2>1, <2>4 DEF Store, TypeOK
<1>10. ASSUME NEW c \in Refreshes, Fail(c) PROVE (TypeOK /\ Owned)'
  <2>1. refresh[c].step # "new" /\ refresh[c].of \in Accounts
    BY <1>1, <1>10 DEF Fail, Owned
  <2>2. Goto(c, "failing")
    BY <1>10 DEF Fail
  <2>3. "failing" \in Steps \ {"new"}
    BY DEF Steps, Running
  <2>4. refresh' \in [Refreshes -> RefreshType] /\ Owned'
    BY <1>1, <2>1, <2>2, <2>3, GotoTyped
  <2>5. QED
    BY <1>1, <1>10, <2>1, <2>4 DEF Fail, TypeOK
<1>11. ASSUME NEW c \in Refreshes, Settle(c) PROVE (TypeOK /\ Owned)'
  <2>1. refresh[c].step # "new" /\ refresh[c].of \in Accounts
    BY <1>1, <1>11 DEF Settle, Owned
  <2>2. Goto(c, "settled")
    BY <1>11 DEF Settle
  <2>3. "settled" \in Steps \ {"new"}
    BY DEF Steps, Running
  <2>4. refresh' \in [Refreshes -> RefreshType] /\ Owned'
    BY <1>1, <2>1, <2>2, <2>3, GotoTyped
  <2>5. status' \in [Accounts -> {"none", "refreshing", "ok", "error"}]
    BY <1>1, <1>11, SetStatusTyped DEF Settle
  <2>6. QED
    BY <1>1, <1>11, <2>1, <2>4, <2>5 DEF Settle, TypeOK
<1>12. ASSUME NEW c \in Refreshes, SettleFails(c) PROVE (TypeOK /\ Owned)'
  <2>1. refresh[c].step # "new" /\ refresh[c].of \in Accounts
    BY <1>1, <1>12 DEF SettleFails, Owned
  <2>2. Goto(c, "settled")
    BY <1>12 DEF SettleFails
  <2>3. "settled" \in Steps \ {"new"}
    BY DEF Steps, Running
  <2>4. refresh' \in [Refreshes -> RefreshType] /\ Owned'
    BY <1>1, <2>1, <2>2, <2>3, GotoTyped
  <2>5. QED
    BY <1>1, <1>12, <2>1, <2>4 DEF SettleFails, TypeOK
<1>13. ASSUME NEW c \in Refreshes, Finally(c) PROVE (TypeOK /\ Owned)'
  <2>1. refresh[c].step # "new" /\ refresh[c].of \in Accounts
    BY <1>1, <1>13 DEF Finally, Owned
  <2>2. Goto(c, "over")
    BY <1>13 DEF Finally
  <2>3. "over" \in Steps \ {"new"}
    BY DEF Steps, Running
  <2>4. refresh' \in [Refreshes -> RefreshType] /\ Owned'
    BY <1>1, <2>1, <2>2, <2>3, GotoTyped
  <2>5. QED
    BY <1>1, <1>13, <2>1, <2>4 DEF Finally, TypeOK
<1>14. ASSUME NEW r \in Replicas, Claim(r) PROVE (TypeOK /\ Owned)'
  <2>1. now \in Periods
    BY <1>1, <1>14, BoundsAssumption DEF Claim, Claimable, TypeOK, Periods
  <2>2. [step |-> "task", period |-> now, todo |-> Accounts, refresh |-> 0] \in LoopType
    BY <2>1, BoundsAssumption DEF LoopType, Periods
  <2>3. sched' \in [Replicas -> LoopType]
    BY <1>1, <1>14, <2>2 DEF Claim, TypeOK
  <2>4. QED
    BY <1>1, <1>14, <2>1, <2>3 DEF Claim, TypeOK, Owned
<1>15. ASSUME NEW r \in Replicas, ClaimAnswerLost(r) PROVE (TypeOK /\ Owned)'
  BY <1>1, <1>15 DEF ClaimAnswerLost, TypeOK, Owned
<1>16. ASSUME NEW r \in Replicas, TaskRefreshes(r) PROVE (TypeOK /\ Owned)'
  <2>1. sched[r] \in LoopType
    BY <1>1 DEF TypeOK
  <2>2. ASSUME NEW a \in sched[r].todo, NEW c \in Refreshes
        PROVE  [sched[r] EXCEPT !.todo = @ \ {a}, !.refresh = c] \in LoopType
    <3>1. c \in 0..MaxRefreshes
      BY BoundsAssumption DEF Refreshes
    <3>2. QED
      BY <2>1, <3>1 DEF LoopType
  <2>3. ASSUME NEW a \in sched[r].todo PROVE [sched[r] EXCEPT !.todo = @ \ {a}] \in LoopType
    BY <2>1 DEF LoopType
  <2>4. PICK a \in sched[r].todo :
          /\ tried' = [tried EXCEPT ![sched[r].period] = @ \cup {a}]
          /\ \/ sched' = [sched EXCEPT ![r].todo = @ \ {a}] /\ UNCHANGED refresh
             \/ \E c \in Refreshes :
                   /\ Begin(c, "marking", Own(r), a)
                   /\ sched' = [sched EXCEPT ![r].todo = @ \ {a}, ![r].refresh = c]
    BY <1>16 DEF TaskRefreshes
  <2>5. a \in Accounts
    BY <2>1 DEF LoopType
  <2>6. tried' \in [Periods -> SUBSET Accounts]
    BY <1>1, <2>4, <2>5 DEF TypeOK
  <2>7. sched' \in [Replicas -> LoopType]
    <3>1. CASE sched' = [sched EXCEPT ![r].todo = @ \ {a}]
      BY <1>1, <2>3, <3>1 DEF TypeOK
    <3>2. ASSUME NEW c \in Refreshes,
                 sched' = [sched EXCEPT ![r].todo = @ \ {a}, ![r].refresh = c]
          PROVE  sched' \in [Replicas -> LoopType]
      <4>1. sched' = [sched EXCEPT ![r] = [sched[r] EXCEPT !.todo = @ \ {a}, !.refresh = c]]
        BY <1>1, <3>2 DEF TypeOK, LoopType
      <4>2. QED
        BY <1>1, <2>2, <4>1 DEF TypeOK
    <3>3. QED
      BY <2>4, <3>1, <3>2
  <2>8. refresh' \in [Refreshes -> RefreshType] /\ Owned'
    <3>1. CASE UNCHANGED refresh
      BY <1>1, <3>1 DEF TypeOK, Owned
    <3>2. ASSUME NEW c \in Refreshes, Begin(c, "marking", Own(r), a)
          PROVE  refresh' \in [Refreshes -> RefreshType] /\ Owned'
      <4>1. "marking" \in Steps /\ Own(r) \in Services
        BY BoundsAssumption DEF Steps, Running, Services, Own
      <4>2. QED
        BY <1>1, <2>5, <3>2, <4>1, BeginTyped
    <3>3. QED
      BY <2>4, <3>1, <3>2
  <2>9. QED
    BY <1>1, <1>16, <2>6, <2>7, <2>8 DEF TaskRefreshes, TypeOK
<1>17. ASSUME NEW r \in Replicas, TaskGoesOn(r) PROVE (TypeOK /\ Owned)'
  <2>1. sched[r] \in LoopType
    BY <1>1 DEF TypeOK
  <2>2. [sched[r] EXCEPT !.refresh = 0] \in LoopType
    BY <2>1, BoundsAssumption DEF LoopType
  <2>3. sched' \in [Replicas -> LoopType]
    BY <1>1, <1>17, <2>2 DEF TaskGoesOn, TypeOK
  <2>4. QED
    BY <1>1, <1>17, <2>3 DEF TaskGoesOn, TypeOK, Owned
<1>18. ASSUME NEW r \in Replicas, TaskFails(r) PROVE (TypeOK /\ Owned)'
  <2>1. sched[r] \in LoopType
    BY <1>1 DEF TypeOK
  <2>2. [sched[r] EXCEPT !.step = "finishing"] \in LoopType
    BY <2>1, BoundsAssumption DEF LoopType
  <2>3. sched' \in [Replicas -> LoopType]
    BY <1>1, <1>18, <2>2 DEF TaskFails, TypeOK
  <2>4. QED
    BY <1>1, <1>18, <2>3 DEF TaskFails, TypeOK, Owned
<1>19. ASSUME NEW r \in Replicas, Finish(r) PROVE (TypeOK /\ Owned)'
  <2>1. Idle \in LoopType
    BY BoundsAssumption DEF LoopType, Idle
  <2>2. sched' \in [Replicas -> LoopType]
    BY <1>1, <1>19, <2>1 DEF Finish, TypeOK
  <2>3. QED
    BY <1>1, <1>19, <2>2 DEF Finish, TypeOK, Owned
<1>20. ASSUME NEW r \in Replicas, FinishFails(r) PROVE (TypeOK /\ Owned)'
  <2>1. Idle \in LoopType
    BY BoundsAssumption DEF LoopType, Idle
  <2>2. sched' \in [Replicas -> LoopType]
    BY <1>1, <1>20, <2>1 DEF FinishFails, TypeOK
  <2>3. QED
    BY <1>1, <1>20, <2>2 DEF FinishFails, TypeOK, Owned
<1>21. ASSUME NEW r \in Replicas, Crash(r) PROVE (TypeOK /\ Owned)'
  <2> DEFINE cut == {c \in Refreshes : /\ refresh[c].at[1] = r
                                     /\ refresh[c].step \in Running \cup {"clicking", "clicked"}}
  <2>1. Idle \in LoopType
    BY BoundsAssumption DEF LoopType, Idle
  <2>2. sched' \in [Replicas -> LoopType]
    BY <1>1, <1>21, <2>1 DEF Crash, TypeOK
  <2>3. \A c \in cut : refresh[c].step # "new" /\ refresh[c].of \in Accounts
    BY <1>1 DEF Owned, Running
  <2>4. broken' \subseteq Accounts
    BY <1>1, <1>21, <2>3 DEF Crash, TypeOK
  <2>5. refresh' = [c \in Refreshes |->
              IF c \in cut THEN [refresh[c] EXCEPT !.step = "over"] ELSE refresh[c]]
    BY <1>21 DEF Crash
  <2>6. \A c \in Refreshes : /\ refresh[c] \in RefreshType
                            /\ [refresh[c] EXCEPT !.step = "over"] \in RefreshType
    BY <1>1 DEF TypeOK, RefreshType, Steps
  <2>7. refresh' \in [Refreshes -> RefreshType]
    BY <2>5, <2>6
  <2>8. ASSUME NEW d \in Refreshes, refresh'[d].step # "new"
        PROVE  refresh'[d].at \in Services /\ refresh'[d].of \in Accounts
    <3>1. CASE d \in cut
      BY <1>1, <2>3, <2>5, <2>6, <3>1 DEF Owned, RefreshType
    <3>2. CASE d \notin cut
      BY <1>1, <2>5, <2>8, <3>2 DEF Owned
    <3>3. QED
      BY <3>1, <3>2
  <2>9. Owned'
    BY <2>8 DEF Owned
  <2>10. QED
    BY <1>1, <1>21, <2>2, <2>4, <2>7, <2>9 DEF Crash, TypeOK
<1>22. ASSUME NEW r \in Replicas, TaskCannotList(r) PROVE (TypeOK /\ Owned)'
  <2>1. sched[r] \in LoopType
    BY <1>1 DEF TypeOK
  <2>2. [sched[r] EXCEPT !.todo = {}] \in LoopType /\ sched[r].period \in 0..MaxPeriods
    BY <2>1, <1>22 DEF LoopType
  <2>3. sched' \in [Replicas -> LoopType]
    BY <1>1, <1>22, <2>2 DEF TaskCannotList, TypeOK
  <2>4. QED
    BY <1>1, <1>22, <2>2, <2>3 DEF TaskCannotList, TypeOK, Owned
<1>23. CASE UNCHANGED vars
  BY <1>1, <1>23 DEF vars, TypeOK, Owned
<1>24. QED
  BY <1>1, <1>2, <1>3, <1>4, <1>5, <1>6, <1>7, <1>8, <1>9, <1>10, <1>11, <1>12, <1>13, <1>14, <1>15, <1>16, <1>17, <1>18, <1>19, <1>20, <1>21, <1>22, <1>23 DEF Next

LEMMA NextExclusive == Base /\ [Next]_vars => Exclusive'
<1>1. SUFFICES ASSUME Base, [Next]_vars PROVE Exclusive'
  OBVIOUS
<1> USE DEF Base, TypeOK, LoopType, RefreshType, Owned, Exclusive, Running, Steps, history
<1>2. CASE NextPeriod
  BY <1>1, <1>2 DEF NextPeriod
<1>3. ASSUME NEW c \in Refreshes, NEW s \in Services, NEW a \in Accounts, Click(c, s, a) PROVE Exclusive'
  BY <1>1, <1>3 DEF Click, Fresh, Begin, InFlight
<1>4. ASSUME NEW c \in Refreshes, ClickMarks(c) PROVE Exclusive'
  BY <1>1, <1>4 DEF ClickMarks, Goto, SetStatus
<1>5. ASSUME NEW c \in Refreshes, ClickFails(c) PROVE Exclusive'
  BY <1>1, <1>5 DEF ClickFails, Goto
<1>6. ASSUME NEW c \in Refreshes, ClickStarts(c) PROVE Exclusive'
  BY <1>1, <1>6 DEF ClickStarts, Goto, InFlight
<1>7. ASSUME NEW c \in Refreshes, Mark(c) PROVE Exclusive'
  BY <1>1, <1>7 DEF Mark, Goto, SetStatus
<1>8. ASSUME NEW c \in Refreshes, BeginStore(c) PROVE Exclusive'
  BY <1>1, <1>8 DEF BeginStore
<1>9. ASSUME NEW c \in Refreshes, Store(c) PROVE Exclusive'
  BY <1>1, <1>9 DEF Store, Goto
<1>10. ASSUME NEW c \in Refreshes, Fail(c) PROVE Exclusive'
  BY <1>1, <1>10 DEF Fail, Goto
<1>11. ASSUME NEW c \in Refreshes, Settle(c) PROVE Exclusive'
  BY <1>1, <1>11 DEF Settle, SetStatus, Goto
<1>12. ASSUME NEW c \in Refreshes, SettleFails(c) PROVE Exclusive'
  BY <1>1, <1>12 DEF SettleFails, Goto
<1>13. ASSUME NEW c \in Refreshes, Finally(c) PROVE Exclusive'
  BY <1>1, <1>13 DEF Finally, Goto
<1>14. ASSUME NEW r \in Replicas, Claim(r) PROVE Exclusive'
  BY <1>1, <1>14 DEF Claim, Claimable
<1>15. ASSUME NEW r \in Replicas, ClaimAnswerLost(r) PROVE Exclusive'
  BY <1>1, <1>15 DEF ClaimAnswerLost, Claimable
<1>16. ASSUME NEW r \in Replicas, TaskRefreshes(r) PROVE Exclusive'
  <2>1. CASE UNCHANGED refresh
    BY <1>1, <1>16, <2>1 DEF TaskRefreshes
  <2>2. ASSUME NEW a \in Accounts, NEW c \in Refreshes, ~InFlight(Own(r), a),
               Begin(c, "marking", Own(r), a)
        PROVE Exclusive'
    BY <1>1, <1>16, <2>2 DEF TaskRefreshes, InFlight, Begin
  <2>3. QED
    BY <1>1, <1>16, <2>1, <2>2 DEF TaskRefreshes
<1>17. ASSUME NEW r \in Replicas, TaskGoesOn(r) PROVE Exclusive'
  BY <1>1, <1>17 DEF TaskGoesOn
<1>18. ASSUME NEW r \in Replicas, TaskFails(r) PROVE Exclusive'
  BY <1>1, <1>18 DEF TaskFails
<1>19. ASSUME NEW r \in Replicas, Finish(r) PROVE Exclusive'
  BY <1>1, <1>19 DEF Finish, Idle
<1>20. ASSUME NEW r \in Replicas, FinishFails(r) PROVE Exclusive'
  BY <1>1, <1>20 DEF FinishFails, Idle
<1>21. ASSUME NEW r \in Replicas, Crash(r) PROVE Exclusive'
  BY <1>1, <1>21 DEF Crash, Idle
<1>22. ASSUME NEW r \in Replicas, TaskCannotList(r) PROVE Exclusive'
  BY <1>1, <1>22 DEF TaskCannotList
<1>23. CASE UNCHANGED vars
  BY <1>1, <1>23 DEF vars
<1>24. QED
  BY <1>1, <1>2, <1>3, <1>4, <1>5, <1>6, <1>7, <1>8, <1>9, <1>10, <1>11, <1>12, <1>13, <1>14, <1>15, <1>16, <1>17, <1>18, <1>19, <1>20, <1>21, <1>22, <1>23 DEF Next

LEMMA NextPeriodic == TypeOK /\ Periodic /\ [Next]_vars => Periodic'
<1>1. SUFFICES ASSUME TypeOK /\ Periodic, [Next]_vars PROVE Periodic'
  OBVIOUS
<1> USE DEF TypeOK, LoopType, Periodic, Periods, history
<1>2. CASE NextPeriod
  BY <1>1, <1>2 DEF NextPeriod
<1>3. ASSUME NEW c \in Refreshes, NEW s \in Services, NEW a \in Accounts, Click(c, s, a) PROVE Periodic'
  BY <1>1, <1>3 DEF Click, Fresh, Begin, InFlight
<1>4. ASSUME NEW c \in Refreshes, ClickMarks(c) PROVE Periodic'
  BY <1>1, <1>4 DEF ClickMarks, Goto, SetStatus
<1>5. ASSUME NEW c \in Refreshes, ClickFails(c) PROVE Periodic'
  BY <1>1, <1>5 DEF ClickFails, Goto
<1>6. ASSUME NEW c \in Refreshes, ClickStarts(c) PROVE Periodic'
  BY <1>1, <1>6 DEF ClickStarts, Goto, InFlight
<1>7. ASSUME NEW c \in Refreshes, Mark(c) PROVE Periodic'
  BY <1>1, <1>7 DEF Mark, Goto, SetStatus
<1>8. ASSUME NEW c \in Refreshes, BeginStore(c) PROVE Periodic'
  BY <1>1, <1>8 DEF BeginStore
<1>9. ASSUME NEW c \in Refreshes, Store(c) PROVE Periodic'
  BY <1>1, <1>9 DEF Store, Goto
<1>10. ASSUME NEW c \in Refreshes, Fail(c) PROVE Periodic'
  BY <1>1, <1>10 DEF Fail, Goto
<1>11. ASSUME NEW c \in Refreshes, Settle(c) PROVE Periodic'
  BY <1>1, <1>11 DEF Settle, SetStatus, Goto
<1>12. ASSUME NEW c \in Refreshes, SettleFails(c) PROVE Periodic'
  BY <1>1, <1>12 DEF SettleFails, Goto
<1>13. ASSUME NEW c \in Refreshes, Finally(c) PROVE Periodic'
  BY <1>1, <1>13 DEF Finally, Goto
<1>14. ASSUME NEW r \in Replicas, Claim(r) PROVE Periodic'
  BY <1>1, <1>14 DEF Claim, Claimable
<1>15. ASSUME NEW r \in Replicas, ClaimAnswerLost(r) PROVE Periodic'
  BY <1>1, <1>15 DEF ClaimAnswerLost, Claimable
<1>16. ASSUME NEW r \in Replicas, TaskRefreshes(r) PROVE Periodic'
  <2>1. PICK a \in sched[r].todo :
          /\ tried' = [tried EXCEPT ![sched[r].period] = @ \cup {a}]
          /\ \/ sched' = [sched EXCEPT ![r].todo = @ \ {a}]
             \/ \E c \in Refreshes :
                   sched' = [sched EXCEPT ![r].todo = @ \ {a}, ![r].refresh = c]
    BY <1>16 DEF TaskRefreshes
  <2>2. /\ \A q \in Replicas : /\ sched'[q].step = sched[q].step
                               /\ sched'[q].period = sched[q].period
                               /\ q # r => sched'[q].todo = sched[q].todo
        /\ sched'[r].todo = sched[r].todo \ {a}
    BY <1>1, <2>1
  <2>3. \A p \in Periods : tried[p] \subseteq tried'[p] /\ tried'[p] \subseteq Accounts
    BY <1>1, <2>1
  <2>4. UNCHANGED <<runs, fired, unlisted>>
    BY <1>16 DEF TaskRefreshes
  <2>5. ASSUME NEW q \in Replicas, sched'[q].step = "task"
        PROVE /\ sched'[q].period \in Periods
              /\ \/ Accounts \subseteq tried'[sched'[q].period] \cup sched'[q].todo
                 \/ sched'[q].period \in unlisted'
    <3>1. /\ sched'[q].period = sched[q].period
          /\ sched[q].period \in Periods
          /\ \/ Accounts \subseteq tried[sched[q].period] \cup sched[q].todo
             \/ sched[q].period \in unlisted
      BY <1>1, <2>2, <2>5
    <3>2. CASE q = r
      <4>1. a \in tried'[sched[q].period]
        BY <1>1, <2>1, <3>1, <3>2
      <4>2. QED
        BY <2>2, <2>3, <2>4, <3>1, <3>2, <4>1
    <3>3. CASE q # r
      BY <2>2, <2>3, <2>4, <3>1, <3>3
    <3>4. QED
      BY <3>2, <3>3
  <2>6. \A p \in Periods : runs[p] = "completed" => tried'[p] = Accounts \/ p \in unlisted
    BY <1>1, <2>3
  <2>7. QED
    BY <1>1, <2>4, <2>5, <2>6
<1>17. ASSUME NEW r \in Replicas, TaskGoesOn(r) PROVE Periodic'
  BY <1>1, <1>17 DEF TaskGoesOn
<1>18. ASSUME NEW r \in Replicas, TaskFails(r) PROVE Periodic'
  BY <1>1, <1>18 DEF TaskFails
<1>19. ASSUME NEW r \in Replicas, Finish(r) PROVE Periodic'
  BY <1>1, <1>19 DEF Finish, Idle
<1>20. ASSUME NEW r \in Replicas, FinishFails(r) PROVE Periodic'
  BY <1>1, <1>20 DEF FinishFails, Idle
<1>21. ASSUME NEW r \in Replicas, Crash(r) PROVE Periodic'
  BY <1>1, <1>21 DEF Crash, Idle
<1>22. ASSUME NEW r \in Replicas, TaskCannotList(r) PROVE Periodic'
  BY <1>1, <1>22 DEF TaskCannotList
<1>23. CASE UNCHANGED vars
  BY <1>1, <1>23 DEF vars
<1>24. QED
  BY <1>1, <1>2, <1>3, <1>4, <1>5, <1>6, <1>7, <1>8, <1>9, <1>10, <1>11, <1>12, <1>13, <1>14, <1>15, <1>16, <1>17, <1>18, <1>19, <1>20, <1>21, <1>22, <1>23 DEF Next

LEMMA NextSnapshots == Base /\ Snapshots /\ [Next]_vars => Snapshots'
<1>1. SUFFICES ASSUME Base /\ Snapshots, [Next]_vars PROVE Snapshots'
  OBVIOUS
<1> USE DEF Base, TypeOK, LoopType, RefreshType, Owned, Exclusive, Snapshots, Storing, Running, Steps, history
<1>2. CASE NextPeriod
  BY <1>1, <1>2 DEF NextPeriod
<1>3. ASSUME NEW c \in Refreshes, NEW s \in Services, NEW a \in Accounts, Click(c, s, a) PROVE Snapshots'
  BY <1>1, <1>3 DEF Click, Fresh, Begin, InFlight
<1>4. ASSUME NEW c \in Refreshes, ClickMarks(c) PROVE Snapshots'
  BY <1>1, <1>4 DEF ClickMarks, Goto, SetStatus
<1>5. ASSUME NEW c \in Refreshes, ClickFails(c) PROVE Snapshots'
  BY <1>1, <1>5 DEF ClickFails, Goto
<1>6. ASSUME NEW c \in Refreshes, ClickStarts(c) PROVE Snapshots'
  BY <1>1, <1>6 DEF ClickStarts, Goto, InFlight
<1>7. ASSUME NEW c \in Refreshes, Mark(c) PROVE Snapshots'
  BY <1>1, <1>7 DEF Mark, Goto, SetStatus
<1>8. ASSUME NEW c \in Refreshes, BeginStore(c) PROVE Snapshots'
  BY <1>1, <1>8 DEF BeginStore
<1>9. ASSUME NEW c \in Refreshes, Store(c) PROVE Snapshots'
  <2> DEFINE b == refresh[c].of
  <2>1. /\ \A d \in Refreshes \ {c} : refresh'[d] = refresh[d]
        /\ refresh'[c].step = "stored"
        /\ UNCHANGED overlapped
    BY <1>1, <1>9 DEF Store, Goto
  <2>2. \A a \in Accounts \ {b} : news'[a] = news[a]
    BY <1>1, <1>9 DEF Store
  <2>3. b \in Accounts /\ Storing(c, b)
    BY <1>1, <1>9 DEF Store
  <2>4. news'[b] = (news[b] \ refresh[c].seen) \cup {c}
    BY <1>1, <1>9, <2>3 DEF Store
  <2>5. ASSUME NEW a \in Accounts \ overlapped, NEW d \in Refreshes, Storing(d, a)'
        PROVE a # b /\ d # c /\ Storing(d, a) /\ refresh'[d].seen = refresh[d].seen
    BY <1>1, <2>1, <2>3, <2>5
  <2>6. b \notin overlapped => news'[b] = {c}
    BY <1>1, <2>3, <2>4
  <2>7. SUFFICES ASSUME NEW a \in (Accounts \ overlapped)'
                 PROVE /\ \A d, e \in Refreshes : Storing(d, a)' /\ Storing(e, a)' => d = e
                       /\ \A d \in Refreshes : Storing(d, a)' => refresh'[d].seen = news'[a]
                       /\ news'[a] = {} \/ \E d \in Refreshes : news'[a] = {d}
    BY DEF Snapshots
  <2>8. a \in Accounts \ overlapped
    BY <2>1
  <2>9. CASE a = b
    BY <2>5, <2>6, <2>8, <2>9
  <2>10. CASE a # b
    BY <1>1, <2>2, <2>5, <2>8, <2>10
  <2>11. QED
    BY <2>9, <2>10
<1>10. ASSUME NEW c \in Refreshes, Fail(c) PROVE Snapshots'
  BY <1>1, <1>10 DEF Fail, Goto
<1>11. ASSUME NEW c \in Refreshes, Settle(c) PROVE Snapshots'
  BY <1>1, <1>11 DEF Settle, SetStatus, Goto
<1>12. ASSUME NEW c \in Refreshes, SettleFails(c) PROVE Snapshots'
  BY <1>1, <1>12 DEF SettleFails, Goto
<1>13. ASSUME NEW c \in Refreshes, Finally(c) PROVE Snapshots'
  BY <1>1, <1>13 DEF Finally, Goto
<1>14. ASSUME NEW r \in Replicas, Claim(r) PROVE Snapshots'
  BY <1>1, <1>14 DEF Claim, Claimable
<1>15. ASSUME NEW r \in Replicas, ClaimAnswerLost(r) PROVE Snapshots'
  BY <1>1, <1>15 DEF ClaimAnswerLost, Claimable
<1>16. ASSUME NEW r \in Replicas, TaskRefreshes(r) PROVE Snapshots'
  <2>1. CASE UNCHANGED refresh
    BY <1>1, <1>16, <2>1 DEF TaskRefreshes
  <2>2. ASSUME NEW a \in Accounts, NEW c \in Refreshes, ~InFlight(Own(r), a),
               Begin(c, "marking", Own(r), a)
        PROVE Snapshots'
    BY <1>1, <1>16, <2>2 DEF TaskRefreshes, InFlight, Begin
  <2>3. QED
    BY <1>1, <1>16, <2>1, <2>2 DEF TaskRefreshes
<1>17. ASSUME NEW r \in Replicas, TaskGoesOn(r) PROVE Snapshots'
  BY <1>1, <1>17 DEF TaskGoesOn
<1>18. ASSUME NEW r \in Replicas, TaskFails(r) PROVE Snapshots'
  BY <1>1, <1>18 DEF TaskFails
<1>19. ASSUME NEW r \in Replicas, Finish(r) PROVE Snapshots'
  BY <1>1, <1>19 DEF Finish, Idle
<1>20. ASSUME NEW r \in Replicas, FinishFails(r) PROVE Snapshots'
  BY <1>1, <1>20 DEF FinishFails, Idle
<1>21. ASSUME NEW r \in Replicas, Crash(r) PROVE Snapshots'
  BY <1>1, <1>21 DEF Crash, Idle
<1>22. ASSUME NEW r \in Replicas, TaskCannotList(r) PROVE Snapshots'
  BY <1>1, <1>22 DEF TaskCannotList
<1>23. CASE UNCHANGED vars
  BY <1>1, <1>23 DEF vars
<1>24. QED
  BY <1>1, <1>2, <1>3, <1>4, <1>5, <1>6, <1>7, <1>8, <1>9, <1>10, <1>11, <1>12, <1>13, <1>14, <1>15, <1>16, <1>17, <1>18, <1>19, <1>20, <1>21, <1>22, <1>23 DEF Next

LEMMA NextRefreshing == Base /\ RefreshingIsUnderWay /\ [Next]_vars => RefreshingIsUnderWay'
<1>1. SUFFICES ASSUME Base /\ RefreshingIsUnderWay, [Next]_vars PROVE RefreshingIsUnderWay'
  OBVIOUS
<1> USE DEF Base, TypeOK, LoopType, RefreshType, Owned, RefreshingIsUnderWay, Running, Steps, history
<1>2. CASE NextPeriod
  BY <1>1, <1>2 DEF NextPeriod
<1>3. ASSUME NEW c \in Refreshes, NEW s \in Services, NEW a \in Accounts, Click(c, s, a) PROVE RefreshingIsUnderWay'
  BY <1>1, <1>3 DEF Click, Fresh, Begin, InFlight
<1>4. ASSUME NEW c \in Refreshes, ClickMarks(c) PROVE RefreshingIsUnderWay'
  BY <1>1, <1>4 DEF ClickMarks, Goto, SetStatus
<1>5. ASSUME NEW c \in Refreshes, ClickFails(c) PROVE RefreshingIsUnderWay'
  BY <1>1, <1>5 DEF ClickFails, Goto
<1>6. ASSUME NEW c \in Refreshes, ClickStarts(c) PROVE RefreshingIsUnderWay'
  BY <1>1, <1>6 DEF ClickStarts, Goto, InFlight
<1>7. ASSUME NEW c \in Refreshes, Mark(c) PROVE RefreshingIsUnderWay'
  BY <1>1, <1>7 DEF Mark, Goto, SetStatus
<1>8. ASSUME NEW c \in Refreshes, BeginStore(c) PROVE RefreshingIsUnderWay'
  BY <1>1, <1>8 DEF BeginStore
<1>9. ASSUME NEW c \in Refreshes, Store(c) PROVE RefreshingIsUnderWay'
  BY <1>1, <1>9 DEF Store, Goto
<1>10. ASSUME NEW c \in Refreshes, Fail(c) PROVE RefreshingIsUnderWay'
  BY <1>1, <1>10 DEF Fail, Goto
<1>11. ASSUME NEW c \in Refreshes, Settle(c) PROVE RefreshingIsUnderWay'
  BY <1>1, <1>11 DEF Settle, SetStatus, Goto
<1>12. ASSUME NEW c \in Refreshes, SettleFails(c) PROVE RefreshingIsUnderWay'
  BY <1>1, <1>12 DEF SettleFails, Goto
<1>13. ASSUME NEW c \in Refreshes, Finally(c) PROVE RefreshingIsUnderWay'
  BY <1>1, <1>13 DEF Finally, Goto
<1>14. ASSUME NEW r \in Replicas, Claim(r) PROVE RefreshingIsUnderWay'
  BY <1>1, <1>14 DEF Claim, Claimable
<1>15. ASSUME NEW r \in Replicas, ClaimAnswerLost(r) PROVE RefreshingIsUnderWay'
  BY <1>1, <1>15 DEF ClaimAnswerLost, Claimable
<1>16. ASSUME NEW r \in Replicas, TaskRefreshes(r) PROVE RefreshingIsUnderWay'
  <2>1. CASE UNCHANGED refresh
    BY <1>1, <1>16, <2>1 DEF TaskRefreshes
  <2>2. ASSUME NEW a \in Accounts, NEW c \in Refreshes, refresh[c].step = "new",
               Begin(c, "marking", Own(r), a)
        PROVE RefreshingIsUnderWay'
    <3>1. /\ \A d \in Refreshes \ {c} : refresh'[d] = refresh[d]
          /\ refresh'[c].of = a /\ refresh'[c].step = "marking"
          /\ UNCHANGED <<status, broken>>
      BY <1>1, <1>16, <2>2 DEF TaskRefreshes, Begin
    <3>2. QED
      BY <1>1, <2>2, <3>1 DEF RefreshingIsUnderWay
  <2>3. QED
    BY <1>1, <1>16, <2>1, <2>2 DEF TaskRefreshes, Fresh
<1>17. ASSUME NEW r \in Replicas, TaskGoesOn(r) PROVE RefreshingIsUnderWay'
  BY <1>1, <1>17 DEF TaskGoesOn
<1>18. ASSUME NEW r \in Replicas, TaskFails(r) PROVE RefreshingIsUnderWay'
  BY <1>1, <1>18 DEF TaskFails
<1>19. ASSUME NEW r \in Replicas, Finish(r) PROVE RefreshingIsUnderWay'
  BY <1>1, <1>19 DEF Finish, Idle
<1>20. ASSUME NEW r \in Replicas, FinishFails(r) PROVE RefreshingIsUnderWay'
  BY <1>1, <1>20 DEF FinishFails, Idle
<1>21. ASSUME NEW r \in Replicas, Crash(r) PROVE RefreshingIsUnderWay'
  BY <1>1, <1>21 DEF Crash, Idle
<1>22. ASSUME NEW r \in Replicas, TaskCannotList(r) PROVE RefreshingIsUnderWay'
  BY <1>1, <1>22 DEF TaskCannotList
<1>23. CASE UNCHANGED vars
  BY <1>1, <1>23 DEF vars
<1>24. QED
  BY <1>1, <1>2, <1>3, <1>4, <1>5, <1>6, <1>7, <1>8, <1>9, <1>10, <1>11, <1>12, <1>13, <1>14, <1>15, <1>16, <1>17, <1>18, <1>19, <1>20, <1>21, <1>22, <1>23 DEF Next

LEMMA Invariance == Spec => []IInv
<1>1. IInv /\ [Next]_vars => IInv'
  BY NextTypeOK, NextExclusive, NextPeriodic, NextSnapshots, NextRefreshing DEF IInv, Base
<1>2. QED
  BY InitIInv, <1>1, PTL DEF Spec

\* Every variable keeps its type.
THEOREM TypeCorrect == Spec => []TypeOK
<1>1. IInv => TypeOK
  BY DEF IInv, Base
<1>2. QED
  BY <1>1, Invariance, PTL

\* The claim is a single fire for any number of replicas and crashes.
THEOREM SingleFire == Spec => []OncePerPeriod
<1>1. IInv => OncePerPeriod
  BY DEF IInv, Periodic, OncePerPeriod
<1>2. QED
  BY <1>1, Invariance, PTL

\* An account's articles are those of one refresh unless two services replaced
\* them at once: the replacements of one service never overlap.
THEOREM OneSnapshot == Spec => []OneSnapshotUnlessOverlapped
<1>1. IInv => OneSnapshotUnlessOverlapped
  BY FS_EmptySet, FS_Singleton DEF IInv, Snapshots, OneSnapshotUnlessOverlapped
<1>2. QED
  BY <1>1, Invariance, PTL

\* A status "refreshing" that nothing has broken off will be rewritten.
THEOREM RefreshingEnds == Spec => []RefreshingIsUnderWay
<1>1. IInv => RefreshingIsUnderWay
  BY DEF IInv
<1>2. QED
  BY <1>1, Invariance, PTL
=============================================================================
