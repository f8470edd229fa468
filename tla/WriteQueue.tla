----------------------------- MODULE WriteQueue -----------------------------
(***************************************************************************)
(* The offline write queue of the web client: writeQueue.ts and the parts  *)
(* of offline.ts that feed and drain it, in one window, with the server    *)
(* and the network it drains into.  Edits are numbered in the order the    *)
(* user makes them; what they say is left out.                             *)
(*                                                                         *)
(* One action is what the window's thread does between two awaits, or one  *)
(* thing that happens to a request outside of it.                          *)
(***************************************************************************)
EXTENDS Naturals, Sequences, SequencesExt

CONSTANTS
    MaxEdits,       \* bound: edits the user makes
    MaxEntries,     \* MAX_ENTRIES of writeQueue.ts
    MaxFaults,      \* bound: requests and storage writes that fail
    MaxReloads      \* bound: times the page is reloaded or dies

ASSUME BoundsAssumption == {MaxEdits, MaxEntries, MaxFaults, MaxReloads} \subseteq Nat

Edits == 1 .. MaxEdits

VARIABLES
    mode,           \* connectionMode, and its copy in localStorage
    starting,       \* initializeOfflineSupport's first flush is still to come
    queue,          \* the queuedWrites signal
    stored,         \* cram.write-queue.v1 in localStorage
    replay,         \* where replayWriteQueue is; not "idle": replaying()
    pending,        \* its local copy of what is left to send
    rejected,       \* its local list of refused writes
    rejectedWrites, \* the rejectedWrites signal
    abandoned,      \* requests the client gave up that may still reach the server
    landings,       \* landings[e]: how often the server has carried e out
    edits,          \* the number of edits made
    direct,         \* those sent at once, in Online mode
    midReplay,      \* history: edits queued while a replay was under way
    forgotten,      \* history: refused edits whose list a reload has emptied
    quotaHit,       \* history: a localStorage write has failed
    faults, reloads \* how much of the bounds is used up

replayVars == <<replay, pending, rejected, rejectedWrites>>
history == <<midReplay, forgotten>>
vars == <<mode, starting, queue, stored, replayVars, abandoned, landings, edits,
          direct, history, quotaHit, faults, reloads>>

TypeOK ==
    /\ mode \in {"online", "offline"}
    /\ starting \in BOOLEAN
    /\ queue \in Seq(1 .. edits) /\ Len(queue) <= MaxEntries
    /\ stored \in Seq(1 .. edits) /\ Len(stored) <= MaxEntries
    /\ replay \in {"idle", "sent", "done", "refused"}
    /\ pending \in Seq(1 .. edits)
    /\ replay = "idle" <=> pending = <<>>
    /\ {rejected, rejectedWrites, abandoned, direct, midReplay, forgotten}
            \subseteq SUBSET (1 .. edits)
    /\ landings \in [Edits -> Nat]
    /\ edits \in 0 .. MaxEdits
    /\ quotaHit \in BOOLEAN
    /\ faults \in 0 .. MaxFaults
    /\ reloads \in 0 .. MaxReloads

Init ==
    /\ mode = "online"
    /\ starting = TRUE
    /\ queue = <<>>
    /\ stored = <<>>
    /\ replay = "idle"
    /\ pending = <<>>
    /\ rejected = {}
    /\ rejectedWrites = {}
    /\ abandoned = {}
    /\ landings = [e \in Edits |-> 0]
    /\ edits = 0
    /\ direct = {}
    /\ midReplay = {}
    /\ forgotten = {}
    /\ quotaHit = FALSE
    /\ faults = 0
    /\ reloads = 0

Fault ==
    /\ faults < MaxFaults
    /\ faults' = faults + 1

\* Defect: the queue is kept in memory alone.
PersistInMemory(entries) ==
    /\ queue' = entries
    /\ UNCHANGED <<stored, quotaHit, faults>>

\* persist: the signal is always set, localStorage unless its quota is hit.
Persist(entries) ==
    /\ queue' = entries
    /\ \/ stored' = entries /\ UNCHANGED <<quotaHit, faults>>
       \/ Fault /\ quotaHit' = TRUE /\ UNCHANGED stored

\* The server carries e out.
Land(e) == landings' = [landings EXCEPT ![e] = @ + 1]

-----------------------------------------------------------------------------
(* The user and the browser. *)

\* The next edit the user makes.
NewEdit(e) ==
    /\ e = edits + 1
    /\ edits' = e

\* Defects of enqueueWrite: an off-by-one at the limit, a new entry put first.
HasRoomOffByOne == Len(queue) <= MaxEntries

EnqueuedFirst(e) == <<e>> \o queue

HasRoom == Len(queue) < MaxEntries

Enqueued(e) == Append(queue, e)

\* A write in Offline mode: enqueueWrite, then WriteQueuedError tells the user.
EditOffline(e) ==
    /\ NewEdit(e)
    /\ mode = "offline"
    /\ HasRoom
    /\ Persist(Enqueued(e))
    /\ midReplay' = IF replay = "idle" THEN midReplay ELSE midReplay \cup {e}
    /\ UNCHANGED <<mode, starting, replayVars, abandoned, landings, direct,
                   forgotten, reloads>>

\* A write in Online mode goes to the server, whatever the queue holds.
EditOnline(e) ==
    /\ NewEdit(e)
    /\ mode = "online"
    /\ direct' = direct \cup {e}
    /\ Land(e)
    /\ UNCHANGED <<mode, starting, queue, stored, replayVars, abandoned, history,
                   quotaHit, faults, reloads>>

\* Defects: a second flush replays the queue beside the first one; the queue
\* is not flushed at all.
FlushTwice(m) ==
    IF m = "online" /\ queue # <<>>
    THEN /\ replay' = "sent"
         /\ pending' = queue
         /\ abandoned' = abandoned \cup
                (IF replay = "sent" THEN {Head(pending)} ELSE {})
    ELSE UNCHANGED <<replay, pending, abandoned>>

FlushNever(m) == UNCHANGED <<replay, pending, abandoned>>

\* flushQueuedWrites in mode m, and replayWriteQueue up to its first fetch.
Flush(m) ==
    /\ IF m = "online" /\ queue # <<>> /\ replay = "idle"
       THEN replay' = "sent" /\ pending' = queue
       ELSE UNCHANGED <<replay, pending>>
    /\ UNCHANGED abandoned

GoOffline ==
    /\ mode = "online"
    /\ mode' = "offline"
    /\ UNCHANGED <<starting, queue, stored, replayVars, abandoned, landings, edits,
                   direct, history, quotaHit, faults, reloads>>

\* setConnectionMode("online") flushes once the signal is set.
GoOnline ==
    /\ mode = "offline"
    /\ mode' = "online"
    /\ Flush("online")
    /\ UNCHANGED <<starting, queue, stored, rejected, rejectedWrites, landings, edits, direct, history, quotaHit, faults, reloads>>

\* The browser's "online" event.
BrowserOnline ==
    /\ mode = "online"
    /\ Flush(mode)
    /\ UNCHANGED <<mode, starting, queue, stored, rejected, rejectedWrites, landings, edits, direct, history,
                   quotaHit, faults, reloads>>

\* The flush of initializeOfflineSupport, once the page has rendered and the
\* offline copy has been verified.
StartupFlush ==
    /\ starting
    /\ starting' = FALSE
    /\ Flush(mode)
    /\ UNCHANGED <<mode, queue, stored, rejected, rejectedWrites, landings, edits, direct, history, quotaHit,
                   faults, reloads>>

\* The page is reloaded, or the tab dies and comes back: what is in memory is
\* gone, and a request on its way may or may not arrive.
Reload ==
    /\ reloads < MaxReloads
    /\ reloads' = reloads + 1
    /\ starting' = TRUE
    /\ queue' = stored
    /\ replay' = "idle"
    /\ pending' = <<>>
    /\ rejected' = {}
    /\ rejectedWrites' = {}
    /\ forgotten' = forgotten \cup rejected \cup rejectedWrites
    /\ \/ UNCHANGED abandoned
       \/ replay = "sent" /\ abandoned' = abandoned \cup {Head(pending)}
    /\ UNCHANGED <<mode, stored, landings, edits, direct, midReplay, quotaHit,
                   faults>>

-----------------------------------------------------------------------------
(* The replay. *)

\* The server carries the request out ...
ServerAccepts ==
    /\ replay = "sent"
    /\ replay' = "done"
    /\ Land(Head(pending))
    /\ UNCHANGED <<mode, starting, queue, stored, pending, rejected, rejectedWrites,
                   abandoned, edits, direct, history, quotaHit, faults, reloads>>

\* ... or understands and refuses it (a 4xx) ...
ServerRefuses ==
    /\ replay = "sent"
    /\ replay' = "refused"
    /\ UNCHANGED <<mode, starting, queue, stored, pending, rejected, rejectedWrites,
                   abandoned, landings, edits, direct, history, quotaHit, faults,
                   reloads>>

\* ... or the request of an earlier attempt reaches it after all.
ServerAcceptsLate(e) ==
    /\ e \in abandoned
    /\ abandoned' = abandoned \ {e}
    /\ Land(e)
    /\ UNCHANGED <<mode, starting, queue, stored, replayVars, edits, direct, history,
                   quotaHit, faults, reloads>>

\* Defect: the loop ends after one entry.
NextEntryOnce(rest) ==
    /\ Persist(rest)
    /\ pending' = <<>>
    /\ replay' = "idle"

\* pending = rest; persist(pending); and on to the next entry, if any.
NextEntry(rest) ==
    /\ Persist(rest)
    /\ pending' = rest
    /\ replay' = IF rest = <<>> THEN "idle" ELSE "sent"

\* The loop's body after an answer below 500; the list of refusals is
\* published when the loop ends.
Answer ==
    /\ replay \in {"done", "refused"}
    /\ NextEntry(Tail(pending))
    /\ LET all == IF replay = "refused" THEN rejected \cup {Head(pending)} ELSE rejected
       IN IF replay' = "idle"
          THEN rejected' = {} /\ rejectedWrites' = rejectedWrites \cup all
          ELSE rejected' = all /\ UNCHANGED rejectedWrites
    /\ UNCHANGED <<mode, starting, abandoned, landings, edits, direct, history,
                   reloads>>

\* The fetch throws, the answer is unreadable, or it is a 5xx, a 408 or a 429:
\* the loop breaks and the entry stays.  The server may have carried the
\* request out, or may do so later.
Break ==
    /\ replay # "idle"
    /\ Fault
    /\ replay' = "idle"
    /\ pending' = <<>>
    /\ rejected' = {}
    /\ rejectedWrites' = rejectedWrites \cup rejected
    /\ \/ UNCHANGED abandoned
       \/ replay = "sent" /\ abandoned' = abandoned \cup {Head(pending)}
    /\ UNCHANGED <<mode, starting, queue, stored, landings, edits, direct, history,
                   quotaHit, reloads>>

-----------------------------------------------------------------------------
User ==
    \/ \E e \in Edits : EditOffline(e) \/ EditOnline(e)
    \/ GoOffline
    \/ GoOnline
    \/ BrowserOnline
    \/ Reload

Network ==
    \/ ServerAccepts
    \/ ServerRefuses
    \/ \E e \in Edits : ServerAcceptsLate(e)
    \/ Break

Next == User \/ Network \/ StartupFlush \/ Answer

Spec == Init /\ [][Next]_vars

\* A fetch settles, its continuation runs, and so does the timer of the start.
Fairness ==
    /\ WF_vars(ServerAccepts \/ ServerRefuses)
    /\ WF_vars(Answer)
    /\ WF_vars(StartupFlush)

FairSpec == Spec /\ Fairness

-----------------------------------------------------------------------------
(* Properties. *)

\* The edits the user has been told are queued.
Accepted == (1 .. edits) \ direct

Landed(e) == landings[e] > 0

\* Where an accepted edit may be: with the server, in the queue, or on the list
\* of refusals (or on the one a reload has emptied).
Accounted(e) ==
    \/ Landed(e)
    \/ e \in ToSet(queue)
    \/ e \in rejected \cup rejectedWrites \cup forgotten

\* An edit the user was told is queued is never lost, whatever fails and
\* whenever the page is reloaded, unless it was made during a replay or
\* localStorage has refused a write.
NothingLostUnlessRaced ==
    quotaHit \/ \A e \in Accepted : Accounted(e) \/ e \in midReplay

\* "Saved to the offline queue. It will sync when you switch back online"
\* (WriteQueuedError): without the exception for edits made during a replay.
NothingLost ==
    quotaHit \/ \A e \in Accepted : Accounted(e)

\* Through failures, retries and reloads, an accepted edit lands over a younger
\* one only as a request that the client has given up before (replayWriteQueue
\* stops at the first failure and sends that entry again); a localStorage write
\* that failed is excused as well.  The claim that edits "can never land out of
\* order" has no such exception, and does not hold as it stands.  Edits sent at once in Online mode are not in
\* the queue's order: OnlineMeansDrained is about them.
LandsInOrderUnlessLate ==
    [][quotaHit \/ \A d, e \in Accepted :
          d < e /\ Landed(e) /\ landings'[d] # landings[d]
             => d \in abandoned \ abandoned']_vars

\* An edit is carried out twice only after a request or a storage write has
\* failed, or a reload in the middle of a replay: the flushes of the toggle,
\* of the online event and of the start never replay the queue side by side.
LandsOnce ==
    faults > 0 \/ reloads > 0 \/ \A e \in Edits : landings[e] <= 1

\* In Online mode an edit waits in the queue only during a replay, before the
\* flush of the start, or because something has failed.  Otherwise an edit made
\* now would overtake it and be overwritten by it later.
OnlineMeansDrained ==
    mode = "online" /\ queue # <<>> => replay # "idle" \/ starting \/ faults > 0

\* A queue in Online mode is drained, as long as nothing fails and the user
\* stays online.  After a failure ("503 - will retry") nothing but the user, the
\* browser or a reload flushes it again.
OnlineDrains ==
    (mode = "online" /\ queue # <<>>)
        ~> (queue = <<>> \/ mode = "offline" \/ faults > 0)
=============================================================================
