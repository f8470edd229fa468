---------------------------- MODULE MeetingNotes ----------------------------
(***************************************************************************)
(* The floating notes window of one meeting (FloatingMeetingNotes.tsx):    *)
(* every keystroke goes to a draft in the browser's storage at once        *)
(* (meetingDraft.ts), a timer saves the text to the server a moment after  *)
(* the last one, and the draft is dropped when a save is answered and the  *)
(* text is still the one it carried.  Nothing keeps a second save from     *)
(* starting beside the first: an edit made during a save sets the phase    *)
(* back.  In Offline mode a save is parked in the write queue              *)
(* (writeQueue.ts, the module WriteQueue), which sends it when the user is *)
(* back Online; here the queue is the sequence of the texts it holds.      *)
(*                                                                         *)
(* A text stands for a body of notes, Blank for one of white space only.   *)
(* The server's row has no other writer here.                              *)
(***************************************************************************)
EXTENDS Naturals, Sequences

CONSTANTS
    Texts,          \* the bodies the user may type, Blank aside
    Blank,          \* !body().trim()
    None,           \* no draft, no cached copy, no answer
    Saves,          \* the saves that may be under way at once
    MaxEdits,       \* bound: edits of the user
    MaxParked       \* bound: parked saves beyond which the user clicks no more

Bodies == Texts \cup {Blank}

ASSUME TextsAssumption == Blank \notin Texts /\ None \notin Bodies
ASSUME BoundsAssumption == MaxEdits \in Nat /\ MaxParked \in Nat

VARIABLES
    server,         \* the body of the meeting's row
    cache,          \* the copy of the meeting in the offline read cache
    parked,         \* the saves the write queue holds, first in first out
    draft,          \* the draft in localStorage
    offline,        \* the mode the user has chosen
    open,           \* the window exists
    body, phase, userEdited,    \* the signals and flags of the editor
    loaded,         \* meeting() has a value
    answer,         \* what the server has read for the window's GET
    timer,          \* autosaveTimer is pending
    strays,         \* pending timers whose handle was overwritten
    save,           \* save[s]: what has become of a request, and its text
    edits,          \* counts the user's edits, for the bound
    typed,          \* history: the text the user typed last
    overlapped,     \* history: a save began while another was not settled
    fromCache,      \* history: the window shows the cached copy
    leftToUser      \* history: the last event armed no timer, and why is one
                    \* of the reasons the editor has for that

stored == <<server, cache, parked, draft>>
editor == <<body, phase, userEdited, loaded, answer, timer, strays>>
history == <<edits, typed, overlapped, fromCache, leftToUser>>
vars == <<stored, offline, open, editor, save, history>>

Phases == {"loading", "local", "saving", "saved"}

\* "sent": under way; "landed": applied, its answer under way; "adrift": no one
\* waits for it any more and the server may apply it yet.
SaveSteps == {"idle", "sent", "landed", "adrift"}

TypeOK ==
    /\ server \in Bodies
    /\ cache \in Bodies \cup {None}
    /\ parked \in Seq(Texts)
    /\ draft \in Bodies \cup {None}
    /\ offline \in BOOLEAN /\ open \in BOOLEAN
    /\ body \in Bodies /\ phase \in Phases /\ userEdited \in BOOLEAN
    /\ loaded \in BOOLEAN /\ answer \in Bodies \cup {None}
    /\ timer \in BOOLEAN /\ strays \in Nat
    /\ save \in [Saves -> [step : SaveSteps, text : Bodies]]
    /\ edits \in 0..MaxEdits
    /\ typed \in Bodies \cup {None}
    /\ overlapped \in BOOLEAN /\ fromCache \in BOOLEAN /\ leftToUser \in BOOLEAN

NoSave == [step |-> "idle", text |-> Blank]

Init ==
    /\ server \in Bodies
    /\ cache \in {None, server}
    /\ parked = <<>>
    /\ draft = None
    /\ offline = FALSE /\ open = FALSE
    /\ body = Blank /\ phase = "loading" /\ userEdited = FALSE
    /\ loaded = FALSE /\ answer = None /\ timer = FALSE /\ strays = 0
    /\ save = [s \in Saves |-> NoSave]
    /\ edits = 0 /\ typed = None
    /\ overlapped = FALSE /\ fromCache = FALSE /\ leftToUser = FALSE

\* A save may still be applied, or answered.
Unsettled == parked # <<>> \/ \E s \in Saves : save[s].step # "idle"

-----------------------------------------------------------------------------
(* The window opens, loads the meeting and closes. *)

\* The component is set up: the draft, if there is one, is what it shows.
OpenWindow ==
    /\ ~open
    /\ open' = TRUE
    /\ body' = IF draft = None THEN Blank ELSE draft
    /\ phase' = IF draft = None THEN "loading" ELSE "local"
    /\ userEdited' = (draft # None)
    /\ loaded' = FALSE /\ answer' = None /\ timer' = FALSE /\ strays' = 0
    /\ fromCache' = FALSE /\ leftToUser' = (draft # None)
    /\ UNCHANGED <<stored, offline, save, edits, typed, overlapped>>

\* Defect: a meeting that is there counts as saved.
MeetingArrivesSaved(v) ==
    /\ loaded' = TRUE
    /\ body' = IF userEdited THEN body ELSE v
    /\ phase' = "saved"

\* The effect on meeting(), run when it has the value v.
MeetingArrives(v) ==
    /\ loaded' = TRUE
    /\ body' = IF userEdited THEN body ELSE v
    /\ phase' = IF userEdited THEN phase ELSE "saved"

\* The server reads the row for the window's GET.
ReadMeeting ==
    /\ open /\ ~loaded /\ ~offline /\ answer = None
    /\ answer' = server
    /\ UNCHANGED <<stored, offline, open, body, phase, userEdited, loaded, timer,
                   strays, save, history>>

\* The GET is answered; apiFetch keeps a copy of it.
LoadMeeting ==
    /\ open /\ ~loaded /\ answer # None
    /\ MeetingArrives(answer)
    /\ cache' = answer
    /\ answer' = None
    /\ fromCache' = FALSE
    /\ UNCHANGED <<server, parked, draft, offline, open, userEdited, timer, strays,
                   save, edits, typed, overlapped, leftToUser>>

\* In Offline mode, or when the request fails, apiFetch answers with the copy.
LoadFromCache ==
    /\ open /\ ~loaded /\ cache # None
    /\ MeetingArrives(cache)
    /\ answer' = None
    /\ fromCache' = ~userEdited
    /\ UNCHANGED <<stored, offline, open, userEdited, timer, strays, save, edits,
                   typed, overlapped, leftToUser>>

\* The window is closed, or the application dies: what only it knew is gone and
\* no one waits for its requests.
CloseWindow ==
    /\ open
    /\ open' = FALSE
    /\ body' = Blank /\ phase' = "loading" /\ userEdited' = FALSE
    /\ loaded' = FALSE /\ answer' = None /\ timer' = FALSE /\ strays' = 0
    /\ fromCache' = FALSE /\ leftToUser' = FALSE
    /\ save' = [s \in Saves |->
                   IF save[s].step = "sent" THEN [save[s] EXCEPT !.step = "adrift"]
                   ELSE IF save[s].step = "landed" THEN NoSave ELSE save[s]]
    /\ UNCHANGED <<stored, offline, edits, typed, overlapped>>

-----------------------------------------------------------------------------
(* The user types: updateBody. *)

UpdateBody(t) ==
    /\ open
    /\ edits < MaxEdits
    /\ userEdited' = TRUE
    /\ body' = t
    /\ draft' = t
    /\ phase' = "local"
    /\ timer' = (loaded /\ ~offline)
    /\ leftToUser' = ~timer'
    /\ edits' = edits + 1
    /\ typed' = t
    /\ UNCHANGED <<server, cache, parked, offline, open, loaded, answer, strays, save,
                   overlapped, fromCache>>

-----------------------------------------------------------------------------
(* A save: persistToServer. *)

MaySave == loaded /\ phase # "saving" /\ body # Blank

\* In Offline mode the request is parked and the call rejects.
Park ==
    /\ offline
    /\ parked' = Append(parked, body)
    /\ phase' = "local"
    /\ leftToUser' = TRUE
    /\ UNCHANGED save

Send ==
    /\ ~offline
    /\ \E s \in Saves :
          /\ save[s].step = "idle"
          /\ save' = [save EXCEPT ![s] = [step |-> "sent", text |-> body]]
    /\ phase' = "saving"
    /\ leftToUser' = FALSE
    /\ UNCHANGED parked

PersistToServer ==
    /\ MaySave
    /\ timer' = FALSE
    /\ Park \/ Send
    /\ overlapped' = (overlapped \/ Unsettled)
    /\ UNCHANGED <<server, cache, draft, offline, open, body, userEdited, loaded,
                   answer, edits, typed, fromCache>>

\* The button; it is disabled while the phase is "saved".
ClickSave ==
    /\ open /\ phase # "saved"
    /\ offline => Len(parked) < MaxParked
    /\ PersistToServer
    /\ UNCHANGED strays

\* A timer that finds nothing it may save is spent.
NothingToSave ==
    /\ ~MaySave
    /\ leftToUser' = (leftToUser \/ body = Blank)
    /\ UNCHANGED <<stored, offline, open, body, phase, userEdited, loaded, answer,
                   save, edits, typed, overlapped, fromCache>>

TimerFires ==
    /\ timer
    /\ UNCHANGED strays
    /\ \/ PersistToServer
       \/ NothingToSave /\ timer' = FALSE

StrayFires ==
    /\ strays > 0
    /\ strays' = strays - 1
    /\ \/ PersistToServer
       \/ NothingToSave /\ UNCHANGED timer

\* The server applies a request.
Land(s) ==
    /\ save[s].step \in {"sent", "adrift"}
    /\ server' = save[s].text
    /\ save' = [save EXCEPT ![s] = IF save[s].step = "sent"
                                   THEN [save[s] EXCEPT !.step = "landed"]
                                   ELSE NoSave]
    /\ UNCHANGED <<cache, parked, draft, offline, open, editor, history>>

\* What the body is once mutate has run the effect on meeting().
BodyAfter(s) == IF userEdited THEN body ELSE save[s].text

\* Defect: nobody looks whether the text has moved on.
SaveDoneAnyway(s) ==
    /\ save[s].step = "landed"
    /\ draft' = None
    /\ userEdited' = FALSE
    /\ phase' = "saved"
    /\ fromCache' = FALSE
    /\ leftToUser' = FALSE
    /\ UNCHANGED <<timer, strays>>

\* The save is answered and the text is still its own.
SaveDone(s) ==
    /\ BodyAfter(s) = save[s].text
    /\ draft' = None
    /\ userEdited' = FALSE
    /\ phase' = "saved"
    /\ fromCache' = FALSE
    /\ leftToUser' = FALSE
    /\ UNCHANGED <<timer, strays>>

\* The save is answered and the text has moved on: the timer is armed again,
\* over the handle of the one the edit has armed.
SaveOutrun(s) ==
    /\ BodyAfter(s) # save[s].text
    /\ draft' = body
    /\ phase' = "local"
    /\ timer' = (timer \/ ~offline)
    /\ strays' = IF timer /\ ~offline THEN strays + 1 ELSE strays
    /\ leftToUser' = ~timer'
    /\ UNCHANGED <<userEdited, fromCache>>

SaveAnswered(s) ==
    /\ save[s].step = "landed"
    /\ body' = BodyAfter(s)
    /\ SaveDone(s) \/ SaveOutrun(s)
    /\ save' = [save EXCEPT ![s] = NoSave]
    /\ UNCHANGED <<server, cache, parked, offline, open, loaded, answer, edits, typed,
                   overlapped>>

\* Defect: the failure leaves the phase as it is.
SaveFailsSilently(s) ==
    /\ save[s].step \in {"sent", "landed"}
    /\ save' = [save EXCEPT ![s] = NoSave]
    /\ UNCHANGED <<stored, offline, open, editor, history>>

\* The request or its answer is lost, or the server refuses; a request that was
\* broken off may be applied all the same.
SaveFails(s) ==
    /\ save[s].step \in {"sent", "landed"}
    /\ phase' = "local"
    /\ leftToUser' = (leftToUser \/ ~timer)
    /\ \/ save' = [save EXCEPT ![s] = NoSave]
       \/ /\ save[s].step = "sent"
          /\ save' = [save EXCEPT ![s].step = "adrift"]
    /\ UNCHANGED <<stored, offline, open, body, userEdited, loaded, answer, timer,
                   strays, edits, typed, overlapped, fromCache>>

\* A request that was broken off is never applied.
Vanish(s) ==
    /\ save[s].step = "adrift"
    /\ save' = [save EXCEPT ![s] = NoSave]
    /\ UNCHANGED <<stored, offline, open, editor, history>>

-----------------------------------------------------------------------------
(* The mode and the write queue. *)

ChangeMode ==
    /\ offline' = ~offline
    /\ UNCHANGED <<stored, open, editor, save, history>>

\* The replay sends the first of the parked saves and it is applied.
Replay ==
    /\ ~offline /\ parked # <<>>
    /\ server' = Head(parked)
    /\ parked' = Tail(parked)
    /\ UNCHANGED <<cache, draft, offline, open, editor, save, history>>

Next ==
    \/ OpenWindow \/ ReadMeeting \/ LoadMeeting \/ LoadFromCache \/ CloseWindow
    \/ \E t \in Bodies : UpdateBody(t)
    \/ ClickSave \/ TimerFires \/ StrayFires
    \/ \E s \in Saves : Land(s) \/ SaveAnswered(s) \/ SaveFails(s) \/ Vanish(s)
    \/ ChangeMode \/ Replay

\* Timers fire, the server applies what reaches it, and answers; nothing else
\* is owed to the editor.
Fairness ==
    /\ WF_vars(TimerFires)
    /\ \A s \in Saves : WF_vars(Land(s)) /\ WF_vars(SaveAnswered(s))

Spec == Init /\ [][Next]_vars /\ Fairness

-----------------------------------------------------------------------------
(* Properties *)

\* What the user has typed last is in the draft or on the server, whatever
\* fails and whenever the window dies, unless a save began beside another.
NotesAreSomewhere ==
    typed # None /\ ~overlapped => draft = typed \/ server = typed

\* "The status beneath the editor always distinguishes local-only from
\* server-saved notes": a window that says "saved" shows what the server has, one
\* that says "saved locally" what the draft has or, after a needless second save
\* has failed, the server; unless saves overlapped or it shows the cached copy.
StatusIsTrue ==
    open /\ ~overlapped =>
        /\ phase = "saved" /\ ~fromCache => server = body
        /\ phase = "local" => draft = body \/ (draft = None /\ server = body)

\* An armed autosave ends in a save the server has answered, in a reason the
\* editor has to leave the saving to the user, or with the window.
AutosaveSettles ==
    timer ~> (phase = "saved" \/ leftToUser \/ ~open)
=============================================================================
