----------------------------- MODULE NewsRefresh -----------------------------
(***************************************************************************)
(* The news of accounts (news.ts), refreshed by clicks and by the daily    *)
(* task, and the scheduler that fires the task (scheduler.ts), on several  *)
(* replicas of the API.                                                    *)
(*                                                                         *)
(* The scheduler claims a period by inserting its row, runs the task and   *)
(* writes the outcome into the row.  A refresh marks the account, fetches  *)
(* and ranks, replaces the stored articles in one transaction and writes   *)
(* the final status.  The set inFlight that keeps refreshes of one account *)
(* apart is a field of each NewsService.  A process has one for its routes *)
(* and its scheduler, and one more for every turn of an agent, whose tool  *)
(* "refresh" clicks like a user; nothing keeps refreshes of two of them    *)
(* apart.  Under READ COMMITTED the replacement's DELETE sees the articles *)
(* there were when it began, and those another replacement inserts         *)
(* meanwhile stay.                                                         *)
(*                                                                         *)
(* A refresh is a number, used once; the articles it stores go by it.  A   *)
(* period is due from its trigger on.  There is one user, all accounts are *)
(* favorites and none is deleted; the other registered task is left out.   *)
(***************************************************************************)
EXTENDS Naturals, FiniteSets

CONSTANTS
    Replicas,       \* the processes: replicas of the API and the MCP server,
                    \* whose scheduler never takes a step
    Accounts,       \* the favorite accounts
    MaxTurns,       \* bound: turns of agents in a process that click
    MaxRefreshes,   \* bound: refreshes asked for
    MaxPeriods      \* bound: periods that become due

Refreshes == 1..MaxRefreshes
Periods == 1..MaxPeriods

\* The instances of NewsService: <<r, 0>> is that of the routes and the scheduler
\* of process r, the others are those of the turns of its agents.
Services == Replicas \X (0..MaxTurns)
Own(r) == <<r, 0>>
NoService == <<"none", 0>>

ASSUME BoundsAssumption == MaxTurns \in Nat /\ MaxRefreshes \in Nat /\ MaxPeriods \in Nat
ASSUME NamesAssumption == "none" \notin Replicas \cup Accounts

VARIABLES
    now,            \* the period that is due; 0 before the first
    runs,           \* runs[p]: scheduled_task_runs.status
    sched,          \* sched[r]: the loop of replica r
    refresh,        \* refresh[c]: what has become of a refresh
    news,           \* news[a]: the refreshes whose articles are stored
    status,         \* status[a]: last_status
    fired,          \* history: how often the task was begun for a period
    tried,          \* history: the accounts the task has come to in a period
    unlisted,       \* history: periods whose task could not list the favorites
    overlapped,     \* history: accounts with replacements by two services at once
    broken          \* history: accounts with a refresh since the last settled one
                    \* that died or could not write its outcome, or that found
                    \* one which had just written its own

history == <<fired, tried, unlisted, overlapped, broken>>
vars == <<now, runs, sched, refresh, news, status, history>>

Idle == [step |-> "idle", period |-> 0, todo |-> {}, refresh |-> 0]
NoRefresh == [step |-> "new", at |-> NoService, of |-> "none", seen |-> {}]

\* "clicking" and "clicked": in startRefresh, before and after its setStatus;
\* "settled": the outcome is written, the finally block is to come.
Running == {"marking", "working", "storing", "stored", "failing", "settled"}
Steps == {"new", "clicking", "clicked", "over"} \cup Running

LoopType == [step : {"idle", "task", "finishing"}, period : 0..MaxPeriods,
             todo : SUBSET Accounts, refresh : 0..MaxRefreshes]

RefreshType == [step : Steps, at : Services \cup {NoService}, of : Accounts \cup {"none"},
                seen : SUBSET Refreshes]

TypeOK ==
    /\ now \in 0..MaxPeriods
    /\ runs \in [Periods -> {"none", "running", "completed", "failed"}]
    /\ sched \in [Replicas -> LoopType]
    /\ refresh \in [Refreshes -> RefreshType]
    /\ news \in [Accounts -> SUBSET Refreshes]
    /\ status \in [Accounts -> {"none", "refreshing", "ok", "error"}]
    /\ fired \in [Periods -> Nat]
    /\ tried \in [Periods -> SUBSET Accounts]
    /\ unlisted \subseteq 0..MaxPeriods
    /\ overlapped \subseteq Accounts /\ broken \subseteq Accounts

Init ==
    /\ now = 0
    /\ runs = [p \in Periods |-> "none"]
    /\ sched = [r \in Replicas |-> Idle]
    /\ refresh = [c \in Refreshes |-> NoRefresh]
    /\ news = [a \in Accounts |-> {}]
    /\ status = [a \in Accounts |-> "none"]
    /\ fired = [p \in Periods |-> 0]
    /\ tried = [p \in Periods |-> {}]
    /\ unlisted = {} /\ overlapped = {} /\ broken = {}

\* Defect: nothing is kept of the refreshes under way.
InFlightForgotten(s, a) == FALSE

\* The set inFlight of a service.
InFlight(s, a) ==
    \E c \in Refreshes : /\ refresh[c].at = s /\ refresh[c].of = a
                         /\ refresh[c].step \in Running

\* The next refresh; it waits until the one before it has been asked for.
Fresh(c) ==
    /\ refresh[c].step = "new"
    /\ \A d \in Refreshes : d < c => refresh[d].step # "new"

Goto(c, step) == refresh' = [refresh EXCEPT ![c].step = step]
Begin(c, step, s, a) ==
    refresh' = [refresh EXCEPT ![c] = [step |-> step, at |-> s, of |-> a, seen |-> {}]]
SetStatus(c, s) == status' = [status EXCEPT ![refresh[c].of] = s]

-----------------------------------------------------------------------------
(* A click, or a call of an agent's tool: startRefresh. *)

Click(c, s, a) ==
    /\ Fresh(c)
    /\ ~InFlight(s, a)
    /\ Begin(c, "clicking", s, a)
    /\ UNCHANGED <<now, runs, sched, news, status, history>>

ClickMarks(c) ==
    /\ refresh[c].step = "clicking"
    /\ SetStatus(c, "refreshing")
    /\ Goto(c, "clicked")
    /\ UNCHANGED <<now, runs, sched, news, history>>

ClickFails(c) ==
    /\ refresh[c].step = "clicking"
    /\ Goto(c, "over")
    /\ UNCHANGED <<now, runs, sched, news, status, history>>

\* refresh is called; a refresh begun since the click was looked at has it end
\* there, also one that has written its outcome and is still in the set.
ClickStarts(c) ==
    LET s == refresh[c].at
        a == refresh[c].of
    IN  /\ refresh[c].step = "clicked"
        /\ Goto(c, IF InFlight(s, a) THEN "over" ELSE "marking")
        /\ broken' = IF \E d \in Refreshes : /\ refresh[d].at = s /\ refresh[d].of = a
                                             /\ refresh[d].step = "settled"
                     THEN broken \cup {a} ELSE broken
        /\ UNCHANGED <<now, runs, sched, news, status, fired, tried, unlisted, overlapped>>

-----------------------------------------------------------------------------
(* The pipeline: refresh. *)

Mark(c) ==
    /\ refresh[c].step = "marking"
    /\ SetStatus(c, "refreshing")
    /\ Goto(c, "working")
    /\ UNCHANGED <<now, runs, sched, news, history>>

\* The articles are fetched and ranked, and the replacement's DELETE begins.
BeginStore(c) ==
    LET a == refresh[c].of
    IN  /\ refresh[c].step = "working"
        /\ refresh' = [refresh EXCEPT ![c].step = "storing", ![c].seen = news[a]]
        /\ overlapped' = IF \E d \in Refreshes : /\ refresh[d].of = a
                                                 /\ refresh[d].step = "storing"
                                                 /\ refresh[d].at # refresh[c].at
                         THEN overlapped \cup {a} ELSE overlapped
        /\ UNCHANGED <<now, runs, sched, news, status, fired, tried, unlisted, broken>>

\* It commits: what it saw is gone, and its own articles are there.
Store(c) ==
    /\ refresh[c].step = "storing"
    /\ news' = [news EXCEPT ![refresh[c].of] = (@ \ refresh[c].seen) \cup {c}]
    /\ Goto(c, "stored")
    /\ UNCHANGED <<now, runs, sched, status, history>>

\* Defect: the failure leaves the refresh without a word.
FailSilently(c) ==
    /\ refresh[c].step \in {"marking", "working", "storing", "stored"}
    /\ Goto(c, "settled")
    /\ UNCHANGED <<now, runs, sched, news, status, history>>

\* A call of the database, the feed or the model fails; a replacement under way
\* is rolled back.
Fail(c) ==
    /\ refresh[c].step \in {"marking", "working", "storing", "stored"}
    /\ Goto(c, "failing")
    /\ UNCHANGED <<now, runs, sched, news, status, history>>

Settle(c) ==
    /\ \/ refresh[c].step = "stored" /\ SetStatus(c, "ok")
       \/ refresh[c].step = "failing" /\ SetStatus(c, "error")
    /\ broken' = broken \ {refresh[c].of}
    /\ Goto(c, "settled")
    /\ UNCHANGED <<now, runs, sched, news, fired, tried, unlisted, overlapped>>

\* The status of a failure cannot be written either, and that is passed over.
SettleFails(c) ==
    /\ refresh[c].step = "failing"
    /\ broken' = broken \cup {refresh[c].of}
    /\ Goto(c, "settled")
    /\ UNCHANGED <<now, runs, sched, news, status, fired, tried, unlisted, overlapped>>

\* The finally block.
Finally(c) ==
    /\ refresh[c].step = "settled"
    /\ Goto(c, "over")
    /\ UNCHANGED <<now, runs, sched, news, status, history>>

-----------------------------------------------------------------------------
(* The scheduler's loop: tick, claim, finish. *)

\* The trigger of the next period is reached.
NextPeriod ==
    /\ now < MaxPeriods
    /\ now' = now + 1
    /\ UNCHANGED <<runs, sched, refresh, news, status, history>>

\* Defect: a period whose task has failed is taken again.
ClaimableAgain(p) == p > 0 /\ runs[p] \in {"none", "failed"}

Claimable(p) == p > 0 /\ runs[p] = "none"

\* The row is inserted and the task begins.
Claim(r) ==
    /\ sched[r].step = "idle"
    /\ Claimable(now)
    /\ runs' = [runs EXCEPT ![now] = "running"]
    /\ sched' = [sched EXCEPT ![r] =
          [step |-> "task", period |-> now, todo |-> Accounts, refresh |-> 0]]
    /\ fired' = [fired EXCEPT ![now] = @ + 1]
    /\ UNCHANGED <<now, refresh, news, status, tried, unlisted, overlapped, broken>>

\* The row is inserted and its answer is lost: the period is consumed.
ClaimAnswerLost(r) ==
    /\ sched[r].step = "idle"
    /\ Claimable(now)
    /\ runs' = [runs EXCEPT ![now] = "running"]
    /\ UNCHANGED <<now, sched, refresh, news, status, history>>

\* The favorites cannot be read, which refreshAllFavorites passes over.
TaskCannotList(r) ==
    /\ sched[r].step = "task" /\ sched[r].refresh = 0
    /\ sched[r].todo = Accounts
    /\ sched' = [sched EXCEPT ![r].todo = {}]
    /\ unlisted' = unlisted \cup {sched[r].period}
    /\ UNCHANGED <<now, runs, refresh, news, status, fired, tried, overlapped, broken>>

\* refreshAllFavorites comes to the next account: runRefresh, whose refresh
\* returns at once if there is one in flight.
TaskRefreshes(r) ==
    /\ sched[r].step = "task" /\ sched[r].refresh = 0
    /\ \E a \in sched[r].todo :
          /\ tried' = [tried EXCEPT ![sched[r].period] = @ \cup {a}]
          /\ IF InFlight(Own(r), a)
             THEN /\ sched' = [sched EXCEPT ![r].todo = @ \ {a}]
                  /\ UNCHANGED refresh
             ELSE \E c \in Refreshes :
                     /\ Fresh(c)
                     /\ Begin(c, "marking", Own(r), a)
                     /\ sched' = [sched EXCEPT ![r].todo = @ \ {a}, ![r].refresh = c]
    /\ UNCHANGED <<now, runs, news, status, fired, unlisted, overlapped, broken>>

\* The refresh has returned, and the task goes on.
TaskGoesOn(r) ==
    /\ sched[r].refresh # 0
    /\ refresh[sched[r].refresh].step = "over"
    /\ sched' = [sched EXCEPT ![r].refresh = 0]
    /\ UNCHANGED <<now, runs, refresh, news, status, history>>

\* runRefresh throws before its refresh: the task is over, for all accounts.
TaskFails(r) ==
    /\ sched[r].step = "task" /\ sched[r].refresh = 0
    /\ sched[r].todo # {}
    /\ sched' = [sched EXCEPT ![r].step = "finishing"]
    /\ UNCHANGED <<now, runs, refresh, news, status, history>>

Finish(r) ==
    /\ \/ /\ sched[r].step = "task" /\ sched[r].refresh = 0 /\ sched[r].todo = {}
          /\ runs' = [runs EXCEPT ![sched[r].period] = "completed"]
       \/ /\ sched[r].step = "finishing"
          /\ runs' = [runs EXCEPT ![sched[r].period] = "failed"]
    /\ sched' = [sched EXCEPT ![r] = Idle]
    /\ UNCHANGED <<now, refresh, news, status, history>>

\* The outcome cannot be written, which is logged.
FinishFails(r) ==
    /\ sched[r].step = "finishing" \/ (sched[r].step = "task" /\ sched[r].refresh = 0
                                       /\ sched[r].todo = {})
    /\ sched' = [sched EXCEPT ![r] = Idle]
    /\ UNCHANGED <<now, runs, refresh, news, status, history>>

\* The process dies and another one takes its place.
Crash(r) ==
    LET cut == {c \in Refreshes : /\ refresh[c].at[1] = r
                                  /\ refresh[c].step \in Running \cup {"clicking", "clicked"}}
    IN  /\ sched[r] # Idle \/ cut # {}
        /\ refresh' = [c \in Refreshes |->
              IF c \in cut THEN [refresh[c] EXCEPT !.step = "over"] ELSE refresh[c]]
        /\ sched' = [sched EXCEPT ![r] = Idle]
        /\ broken' = broken \cup {refresh[c].of : c \in cut}
        /\ UNCHANGED <<now, runs, news, status, fired, tried, unlisted, overlapped>>

Next ==
    \/ NextPeriod
    \/ \E c \in Refreshes :
          \/ \E s \in Services, a \in Accounts : Click(c, s, a)
          \/ ClickMarks(c) \/ ClickFails(c) \/ ClickStarts(c)
          \/ Mark(c) \/ BeginStore(c) \/ Store(c) \/ Fail(c)
          \/ Settle(c) \/ SettleFails(c) \/ Finally(c)
    \/ \E r \in Replicas :
          \/ Claim(r) \/ ClaimAnswerLost(r)
          \/ TaskCannotList(r) \/ TaskRefreshes(r) \/ TaskGoesOn(r) \/ TaskFails(r)
          \/ Finish(r) \/ FinishFails(r)
          \/ Crash(r)

Spec == Init /\ [][Next]_vars

-----------------------------------------------------------------------------
(* Properties *)

\* A period's task is begun at most once, whoever ticks, dies or is late, and a
\* row that says "completed" means that it came to every favorite, or that they
\* could not be read.
OncePerPeriod ==
    \A p \in Periods :
        /\ fired[p] <= 1
        /\ runs[p] = "completed" => tried[p] = Accounts \/ p \in unlisted

\* The articles of an account are those of one refresh, unless two instances of
\* the service, of one process or of two, replaced them at once: such a duplicate
\* is not as "harmless" as the comment on inFlight expects.
OneSnapshotUnlessOverlapped ==
    \A a \in Accounts \ overlapped : Cardinality(news[a]) <= 1

\* An account marked "refreshing", for which a client polls until it settles, has
\* a refresh under way that will write its outcome, unless one has broken off.
RefreshingIsUnderWay ==
    \A a \in Accounts \ broken :
        status[a] = "refreshing" =>
            \E c \in Refreshes :
                /\ refresh[c].of = a
                /\ refresh[c].step \in {"clicked", "marking", "working", "storing",
                                        "stored", "failing"}
=============================================================================
