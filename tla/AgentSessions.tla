---------------------------- MODULE AgentSessions ----------------------------
(***************************************************************************)
(* One conversation with the agent: its row in agent_sessions              *)
(* (agent-sessions.ts), the turns of the loop that reads and rewrites it   *)
(* (loop.ts), the route that runs a turn for an open request (agent.ts),   *)
(* and the chat windows that submit and cancel (Agent.tsx).                *)
(*                                                                         *)
(* A turn copies the messages when it starts and writes the whole list     *)
(* back when it ends, however it ends.  A window keeps one turn at a time, *)
(* but it is rid of a turn as soon as it stops waiting for it, while the   *)
(* server finds out between two steps, if at all.                          *)
(*                                                                         *)
(* A message is its kind, the turn it belongs to and, for a call of tools  *)
(* and for their results, how many there are.  The session exists: the     *)
(* first turn of a conversation has just inserted it.                      *)
(***************************************************************************)
EXTENDS Naturals, Sequences

CONSTANTS
    Windows,        \* the chat windows that show this session
    MaxTurns,       \* bound: turns submitted
    MaxIterations,  \* MAX_ITERATIONS
    MaxNudges,      \* MAX_THINKING_ONLY_NUDGES
    MaxCalls,       \* bound: tool calls in one reply
    MaxCrashes      \* bound: deaths of the API process

\* The turns, numbered as they are submitted.
Turns == 1..MaxTurns

ASSUME LimitsAssumption ==
    /\ MaxTurns \in Nat /\ MaxIterations \in Nat \ {0} /\ MaxNudges \in Nat
    /\ MaxCalls \in Nat \ {0} /\ MaxCrashes \in Nat
ASSUME WindowsAssumption == "none" \notin Windows

VARIABLES
    session,        \* the row's messages
    deleted,        \* the row is gone
    waits,          \* waits[w]: the turn that window w has running(), 0 for none
    pc,             \* pc[t]: where the turn's loop stands
    messages,       \* messages[t]: its own list
    iter, nudges,   \* its counters
    results,        \* how many of the calls in its last message are answered
    reported,       \* reported[t]: it has sent an event of type "error"
    owner,          \* owner[t]: the window that submitted it
    crashes,        \* counted for the bound
    crowded,        \* history: a turn was submitted while one its window had left,
                    \* or another window's, was not over
    cut             \* history: turns that found themselves aborted

turnVars == <<pc, messages, iter, nudges, results, reported, cut>>
vars == <<session, deleted, waits, turnVars, owner, crashes, crowded>>

Steps == {"new", "loading", "top", "asking", "calling", "saving", "over"}

MessageType ==
    [kind : {"prompt", "answer", "thinking", "nudge"}, turn : Turns, n : {0}] \cup
    [kind : {"tools", "results"}, turn : Turns, n : 1..MaxCalls]

TypeOK ==
    /\ session \in Seq(MessageType)
    /\ deleted \in BOOLEAN
    /\ waits \in [Windows -> Turns \cup {0}]
    /\ pc \in [Turns -> Steps]
    /\ messages \in [Turns -> Seq(MessageType)]
    /\ iter \in [Turns -> 0..MaxIterations]
    /\ nudges \in [Turns -> 0..MaxNudges]
    /\ results \in [Turns -> 0..MaxCalls]
    /\ reported \in [Turns -> BOOLEAN]
    /\ owner \in [Turns -> Windows \cup {"none"}]
    /\ crashes \in 0..MaxCrashes
    /\ crowded \in BOOLEAN
    /\ cut \subseteq Turns

Message(t, kind) == [kind |-> kind, turn |-> t, n |-> 0]
Batch(t, kind, n) == [kind |-> kind, turn |-> t, n |-> n]

Init ==
    /\ session = <<>> /\ deleted = FALSE
    /\ waits = [w \in Windows |-> 0]
    /\ pc = [t \in Turns |-> "new"]
    /\ messages = [t \in Turns |-> <<>>]
    /\ iter = [t \in Turns |-> 0] /\ nudges = [t \in Turns |-> 0]
    /\ results = [t \in Turns |-> 0]
    /\ reported = [t \in Turns |-> FALSE]
    /\ owner = [t \in Turns |-> "none"]
    /\ crashes = 0 /\ crowded = FALSE /\ cut = {}

Under(t) == pc[t] \notin {"new", "over"}

\* No one reads the turn's stream any more.
Left(t) == owner[t] # "none" /\ waits[owner[t]] # t

Goto(t, step) == pc' = [pc EXCEPT ![t] = step]
Push(t, m) == messages' = [messages EXCEPT ![t] = Append(@, m)]
Report(t) == reported' = [reported EXCEPT ![t] = TRUE]

-----------------------------------------------------------------------------
(* The windows: submit, cancel, handleDeleteSession. *)

\* Defect: nothing keeps a window from submitting while it waits.
IdleAlways(w) == waits[w] \in Turns \cup {0}

Idle(w) == waits[w] = 0

Submit(w) ==
    /\ Idle(w)
    /\ \E t \in Turns :
          /\ pc[t] = "new"
          /\ \A u \in Turns : u < t => pc[u] # "new"
          /\ Goto(t, "loading")
          /\ owner' = [owner EXCEPT ![t] = w]
          /\ waits' = [waits EXCEPT ![w] = t]
    /\ crowded' = (crowded \/ \E u \in Turns : Under(u) /\ (Left(u) \/ owner[u] # w))
    /\ UNCHANGED <<session, deleted, messages, iter, nudges, results, reported, cut,
                   crashes>>

\* The user cancels, or the connection breaks: the window is free.
Leave(w) ==
    /\ ~Idle(w)
    /\ waits' = [waits EXCEPT ![w] = 0]
    /\ UNCHANGED <<session, deleted, turnVars, owner, crashes, crowded>>

DeleteSession ==
    /\ ~deleted
    /\ deleted' = TRUE
    /\ session' = <<>>
    /\ UNCHANGED <<waits, turnVars, owner, crashes, crowded>>

-----------------------------------------------------------------------------
(* The loop: runAgent. *)

\* Defect: a stream that is over stays open.
EndQuietly(S) ==
    /\ pc' = [t \in Turns |-> IF t \in S THEN "over" ELSE pc[t]]
    /\ messages' = [t \in Turns |-> IF t \in S THEN <<>> ELSE messages[t]]
    /\ iter' = [t \in Turns |-> IF t \in S THEN 0 ELSE iter[t]]
    /\ nudges' = [t \in Turns |-> IF t \in S THEN 0 ELSE nudges[t]]
    /\ results' = [t \in Turns |-> IF t \in S THEN 0 ELSE results[t]]
    /\ UNCHANGED waits

\* The end of the stream, reply.raw.end(), or its breaking off: the windows that
\* read it are free.
End(S) ==
    /\ pc' = [t \in Turns |-> IF t \in S THEN "over" ELSE pc[t]]
    /\ messages' = [t \in Turns |-> IF t \in S THEN <<>> ELSE messages[t]]
    /\ iter' = [t \in Turns |-> IF t \in S THEN 0 ELSE iter[t]]
    /\ nudges' = [t \in Turns |-> IF t \in S THEN 0 ELSE nudges[t]]
    /\ results' = [t \in Turns |-> IF t \in S THEN 0 ELSE results[t]]
    /\ waits' = [w \in Windows |-> IF waits[w] \in S THEN 0 ELSE waits[w]]

\* loadSessionRaw; the prompt goes to the turn's own copy.
Load(t) ==
    /\ pc[t] = "loading"
    /\ ~deleted
    /\ messages' = [messages EXCEPT ![t] = Append(session, Message(t, "prompt"))]
    /\ Goto(t, "top")
    /\ UNCHANGED <<session, deleted, waits, iter, nudges, results, reported, cut, owner,
                   crashes, crowded>>

\* The row is gone, or a step between it and the loop fails: nothing is saved.
Refuse(t) ==
    /\ pc[t] = "loading"
    /\ Report(t)
    /\ End({t})
    /\ UNCHANGED <<session, deleted, cut, owner, crashes, crowded>>

\* The head of the loop.
Ask(t) ==
    /\ pc[t] = "top"
    /\ iter[t] < MaxIterations
    /\ iter' = [iter EXCEPT ![t] = @ + 1]
    /\ Goto(t, "asking")
    /\ UNCHANGED <<session, deleted, waits, messages, nudges, results, reported, cut,
                   owner, crashes, crowded>>

\* signal.aborted, which is looked at before each request and each call, and of
\* which the route learns when it may: the turn ends in an error, with the list
\* as it is.
Abort(t) ==
    /\ pc[t] \in {"top", "calling"}
    /\ pc[t] = "top" => iter[t] < MaxIterations
    /\ Left(t)
    /\ Report(t)
    /\ cut' = cut \cup {t}
    /\ Goto(t, "saving")
    /\ UNCHANGED <<session, deleted, waits, messages, iter, nudges, results, owner,
                   crashes, crowded>>

\* streamTurn gives up.
StreamFails(t) ==
    /\ pc[t] = "asking"
    /\ Report(t)
    /\ Goto(t, "saving")
    /\ UNCHANGED <<session, deleted, waits, messages, iter, nudges, results, cut, owner,
                   crashes, crowded>>

\* The loop is left; at the limit an error is sent, also when the reply to the
\* last request was an answer.
LeaveLoop(t) ==
    /\ Goto(t, "saving")
    /\ reported' = [reported EXCEPT ![t] = @ \/ iter[t] >= MaxIterations]

\* A reply with text that the user can see and no calls.
Answer(t) ==
    /\ pc[t] = "asking"
    /\ Push(t, Message(t, "answer"))
    /\ LeaveLoop(t)
    /\ UNCHANGED <<session, deleted, waits, iter, nudges, results, cut, owner, crashes,
                   crowded>>

\* Defect: a turn may end on reasoning.
ThinkAccepted(t) ==
    /\ pc[t] = "asking"
    /\ Push(t, Message(t, "thinking"))
    /\ LeaveLoop(t)
    /\ UNCHANGED <<session, deleted, waits, iter, nudges, results, cut, owner, crashes,
                   crowded>>

\* A reply with neither: the model is told to act, and after MaxNudges in a row
\* the turn is given up.
Think(t) ==
    /\ pc[t] = "asking"
    /\ \/ /\ nudges[t] < MaxNudges
          /\ nudges' = [nudges EXCEPT ![t] = @ + 1]
          /\ messages' = [messages EXCEPT ![t] =
                @ \o <<Message(t, "thinking"), Message(t, "nudge")>>]
          /\ Goto(t, "top")
          /\ UNCHANGED reported
       \/ /\ nudges[t] >= MaxNudges
          /\ Push(t, Message(t, "thinking"))
          /\ Report(t)
          /\ Goto(t, "saving")
          /\ UNCHANGED nudges
    /\ UNCHANGED <<session, deleted, waits, iter, results, cut, owner, crashes, crowded>>

\* A reply that calls n tools.
CallTools(t, n) ==
    /\ pc[t] = "asking"
    /\ Push(t, Batch(t, "tools", n))
    /\ nudges' = [nudges EXCEPT ![t] = 0]
    /\ results' = [results EXCEPT ![t] = 0]
    /\ Goto(t, "calling")
    /\ UNCHANGED <<session, deleted, waits, iter, reported, cut, owner, crashes, crowded>>

Calls(t) == messages[t][Len(messages[t])].n

\* Defect: a call that throws ends the turn.
ToolThrows(t) ==
    /\ pc[t] = "calling"
    /\ Report(t)
    /\ Goto(t, "saving")
    /\ UNCHANGED <<session, deleted, waits, messages, iter, nudges, results, cut, owner,
                   crashes, crowded>>

\* One call is answered, by a result or an error; the last one sends the results.
ToolAnswers(t) ==
    /\ pc[t] = "calling"
    /\ results' = [results EXCEPT ![t] = @ + 1]
    /\ IF results'[t] = Calls(t)
       THEN /\ Push(t, Batch(t, "results", results'[t]))
            /\ Goto(t, "top")
       ELSE UNCHANGED <<messages, pc>>
    /\ UNCHANGED <<session, deleted, waits, iter, nudges, reported, cut, owner, crashes,
                   crowded>>

Exhausted(t) ==
    /\ pc[t] = "top"
    /\ iter[t] >= MaxIterations
    /\ LeaveLoop(t)
    /\ UNCHANGED <<session, deleted, waits, messages, iter, nudges, results, cut, owner,
                   crashes, crowded>>

\* saveMessages: the whole list; of a row that is gone, no row.
Save(t) ==
    /\ pc[t] = "saving"
    /\ session' = IF deleted THEN session ELSE messages[t]
    /\ End({t})
    /\ UNCHANGED <<deleted, reported, cut, owner, crashes, crowded>>

SaveFails(t) ==
    /\ pc[t] = "saving"
    /\ Report(t)
    /\ End({t})
    /\ UNCHANGED <<session, deleted, cut, owner, crashes, crowded>>

\* The API process dies: its turns are over, their streams break.
Crash ==
    /\ crashes < MaxCrashes
    /\ crashes' = crashes + 1
    /\ End({t \in Turns : Under(t)})
    /\ reported' = [t \in Turns |-> reported[t] \/ Under(t)]
    /\ UNCHANGED <<session, deleted, cut, owner, crowded>>

Step(t) ==
    \/ Load(t) \/ Refuse(t) \/ Ask(t) \/ Abort(t) \/ StreamFails(t)
    \/ Answer(t) \/ Think(t) \/ ToolAnswers(t) \/ Exhausted(t) \/ Save(t) \/ SaveFails(t)
    \/ \E n \in 1..MaxCalls : CallTools(t, n)

Next ==
    \/ \E w \in Windows : Submit(w) \/ Leave(w)
    \/ DeleteSession
    \/ \E t \in Turns : Step(t)
    \/ Crash

\* A request to the model ends by its reply or by the dispatcher's timeout, and a
\* call of a tool by its result or the MCP client's timeout: a turn goes on.
Fairness == \A t \in Turns : WF_vars(Step(t))

Spec == Init /\ [][Next]_vars /\ Fairness

-----------------------------------------------------------------------------
(* Properties *)

\* A turn adds to the conversation and takes nothing away, unless a turn was
\* submitted beside one that its window had left or another window's.
HistoryGrows ==
    [][~crowded /\ ~deleted' =>
          Len(session) <= Len(session') /\ SubSeq(session', 1, Len(session)) = session]_vars

\* In the row every call of tools is followed by its results, one for each,
\* unless the turn was broken off by its window's leaving.
PairedUnlessCut ==
    \A i \in 1..Len(session) :
        session[i].kind = "tools" /\ session[i].turn \notin cut =>
            /\ i < Len(session)
            /\ session[i + 1] = [session[i] EXCEPT !.kind = "results"]

\* A turn that ends without an error has given its answer, and that is what the
\* row ends with once it is saved: reasoning alone never counts as one.
NeverEndsSilently ==
    [][\A t \in Turns :
          Under(t) /\ pc'[t] = "over" /\ ~reported'[t] =>
              messages[t][Len(messages[t])] = Message(t, "answer")]_vars

\* A window that waits gets its input back.
WindowsAreFreed == \A w \in Windows : ~Idle(w) ~> Idle(w)
=============================================================================
