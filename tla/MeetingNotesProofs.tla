-------------------------- MODULE MeetingNotesProofs --------------------------
(***************************************************************************)
(* Proofs about MeetingNotes, for any texts, any number of saves under way *)
(* and of parked ones.  The inductive invariant says that, as long as no   *)
(* save began beside another, the one that may still be applied cannot     *)
(* change anything once the draft is gone.                                 *)
(***************************************************************************)
EXTENDS MeetingNotes, SequenceTheorems, TLAPS

\* What the flags of the editor say about each other, and about the draft.
Editor ==
    /\ userEdited => open /\ typed # None /\ body = typed /\ draft = typed
    /\ open /\ ~userEdited => draft = None
    /\ draft # None => draft = typed
    /\ loaded => open /\ answer = None
    /\ ~loaded => ~timer /\ strays = 0
    /\ phase = "saved" => ~userEdited /\ loaded
    /\ open /\ ~userEdited /\ phase # "loading" => loaded
    /\ \A s \in Saves : save[s].step \in {"sent", "landed"} => loaded

\* One save at a time is unsettled, and nothing is applied over one that landed.
OneUnsettled ==
    ~overlapped =>
        /\ \A s, u \in Saves : save[s].step # "idle" /\ save[u].step # "idle" => s = u
        /\ parked # <<>> => Len(parked) = 1 /\ \A s \in Saves : save[s].step = "idle"
        /\ \A s \in Saves : save[s].step = "landed" => server = save[s].text

\* Without a draft, what is unsettled carries what the server has.
Harmless ==
    ~overlapped /\ draft = None =>
        /\ \A s \in Saves : save[s].step # "idle" => save[s].text = server
        /\ parked # <<>> => Head(parked) = server

\* A text that was loaded and not edited is the server's, or the cached copy
\* before anything else has happened.
Shown ==
    ~overlapped /\ open /\ ~userEdited =>
        /\ answer # None => answer = server
        /\ loaded =>
            \/ body = server
            \/ /\ fromCache /\ phase = "saved" /\ ~timer /\ strays = 0
               /\ \A s \in Saves : save[s].step \notin {"sent", "landed"}

IInv == TypeOK /\ Editor /\ OneUnsettled /\ Harmless /\ Shown /\ NotesAreSomewhere

LEMMA InitIInv == Init => IInv
<1>1. SUFFICES ASSUME Init PROVE IInv
  OBVIOUS
<1>2. TypeOK
  <2>1. <<>> \in Seq(Texts)
    OBVIOUS
  <2>2. save \in [Saves -> [step : SaveSteps, text : Bodies]]
    BY <1>1 DEF Init, NoSave, SaveSteps, Bodies
  <2>3. edits \in 0..MaxEdits /\ strays \in Nat
    BY <1>1, BoundsAssumption DEF Init
  <2>4. /\ offline \in BOOLEAN /\ open \in BOOLEAN /\ userEdited \in BOOLEAN
        /\ loaded \in BOOLEAN /\ timer \in BOOLEAN /\ overlapped \in BOOLEAN
        /\ fromCache \in BOOLEAN /\ leftToUser \in BOOLEAN
    BY <1>1 DEF Init
  <2>5. QED
    BY <1>1, <2>1, <2>2, <2>3, <2>4 DEF Init, TypeOK, Bodies, Phases
<1>3. Editor /\ OneUnsettled /\ Harmless /\ Shown /\ NotesAreSomewhere
  BY <1>1 DEF Init, Editor, OneUnsettled, Harmless, Shown, NotesAreSomewhere, NoSave
<1>4. QED
  BY <1>2, <1>3 DEF IInv

\* A save that begins carries a text and leaves all else as it is.
LEMMA PersistTyped ==
    ASSUME TypeOK, PersistToServer
    PROVE  /\ parked' \in Seq(Texts)
           /\ save' \in [Saves -> [step : SaveSteps, text : Bodies]]
           /\ phase' \in Phases /\ leftToUser' \in BOOLEAN /\ overlapped' \in BOOLEAN
<1>1. body \in Texts
  BY DEF PersistToServer, MaySave, TypeOK, Bodies
<1>2. CASE Park
  <2>1. parked' \in Seq(Texts)
    BY <1>1, <1>2, AppendProperties DEF Park, TypeOK
  <2>2. QED
    BY <1>2, <2>1 DEF Park, PersistToServer, TypeOK, Phases
<1>3. CASE Send
  <2>1. PICK s \in Saves : save' = [save EXCEPT ![s] = [step |-> "sent", text |-> body]]
    BY <1>3 DEF Send
  <2>2. [step |-> "sent", text |-> body] \in [step : SaveSteps, text : Bodies]
    BY <1>1 DEF SaveSteps, Bodies
  <2>3. save' \in [Saves -> [step : SaveSteps, text : Bodies]]
    BY <2>1, <2>2 DEF TypeOK
  <2>4. QED
    BY <1>3, <2>3 DEF Send, PersistToServer, TypeOK, Phases
<1>4. QED
  BY <1>2, <1>3 DEF PersistToServer

LEMMA NextTypeOK == TypeOK /\ [Next]_vars => TypeOK'
<1>1. SUFFICES ASSUME TypeOK, [Next]_vars PROVE TypeOK'
  OBVIOUS
<1> USE TextsAssumption, BoundsAssumption
<1> USE DEF TypeOK, Bodies, Phases, SaveSteps, stored, editor, history
<1>2. CASE OpenWindow
  BY <1>1, <1>2 DEF OpenWindow
<1>3. CASE ReadMeeting
  BY <1>1, <1>3 DEF ReadMeeting
<1>4. CASE LoadMeeting
  BY <1>1, <1>4 DEF LoadMeeting, MeetingArrives
<1>5. CASE LoadFromCache
  BY <1>1, <1>5 DEF LoadFromCache, MeetingArrives
<1>6. CASE CloseWindow
  BY <1>1, <1>6 DEF CloseWindow, NoSave
<1>7. ASSUME NEW t \in Bodies, UpdateBody(t) PROVE TypeOK'
  BY <1>1, <1>7 DEF UpdateBody
<1>8. CASE ClickSave
  <2>1. CASE PersistToServer
    <3>1. strays' \in Nat
      BY <1>1, <1>8 DEF ClickSave
    <3>2. timer' \in BOOLEAN
      BY <2>1 DEF PersistToServer
    <3>3. /\ parked' \in Seq(Texts)
          /\ save' \in [Saves -> [step : SaveSteps, text : Bodies]]
          /\ phase' \in Phases /\ leftToUser' \in BOOLEAN /\ overlapped' \in BOOLEAN
      BY <1>1, <2>1, PersistTyped
    <3>4. QED
      BY <1>1, <2>1, <3>1, <3>2, <3>3 DEF PersistToServer
  <2>2. QED
    BY <1>8, <2>1 DEF ClickSave
<1>9. CASE TimerFires
  <2>1. CASE PersistToServer
    <3>1. strays' \in Nat
      BY <1>1, <1>9 DEF TimerFires
    <3>2. timer' \in BOOLEAN
      BY <2>1 DEF PersistToServer
    <3>3. /\ parked' \in Seq(Texts)
          /\ save' \in [Saves -> [step : SaveSteps, text : Bodies]]
          /\ phase' \in Phases /\ leftToUser' \in BOOLEAN /\ overlapped' \in BOOLEAN
      BY <1>1, <2>1, PersistTyped
    <3>4. QED
      BY <1>1, <2>1, <3>1, <3>2, <3>3 DEF PersistToServer
  <2>2. CASE NothingToSave
    <3>1. strays' \in Nat
      BY <1>1, <1>9 DEF TimerFires
    <3>2. timer' \in BOOLEAN
      BY <1>1, <1>9 DEF TimerFires, PersistToServer
    <3>3. leftToUser' \in BOOLEAN
      BY <2>2 DEF NothingToSave
    <3>4. QED
      BY <1>1, <2>2, <3>1, <3>2, <3>3 DEF NothingToSave
  <2>3. QED
    BY <1>9, <2>1, <2>2 DEF TimerFires
<1>10. CASE StrayFires
  <2>1. CASE PersistToServer
    <3>1. strays' \in Nat
      BY <1>1, <1>10 DEF StrayFires
    <3>2. timer' \in BOOLEAN
      BY <2>1 DEF PersistToServer
    <3>3. /\ parked' \in Seq(Texts)
          /\ save' \in [Saves -> [step : SaveSteps, text : Bodies]]
          /\ phase' \in Phases /\ leftToUser' \in BOOLEAN /\ overlapped' \in BOOLEAN
      BY <1>1, <2>1, PersistTyped
    <3>4. QED
      BY <1>1, <2>1, <3>1, <3>2, <3>3 DEF PersistToServer
  <2>2. CASE NothingToSave
    <3>1. strays' \in Nat
      BY <1>1, <1>10 DEF StrayFires
    <3>2. timer' \in BOOLEAN
      BY <1>1, <1>10 DEF StrayFires, PersistToServer
    <3>3. leftToUser' \in BOOLEAN
      BY <2>2 DEF NothingToSave
    <3>4. QED
      BY <1>1, <2>2, <3>1, <3>2, <3>3 DEF NothingToSave
  <2>3. QED
    BY <1>10, <2>1, <2>2 DEF StrayFires
<1>11. ASSUME NEW s \in Saves, Land(s) PROVE TypeOK'
  BY <1>1, <1>11 DEF Land, NoSave
<1>12. ASSUME NEW s \in Saves, SaveAnswered(s) PROVE TypeOK'
  <2>1. save[s].text \in Bodies /\ body' \in Bodies
    BY <1>1, <1>12 DEF SaveAnswered, BodyAfter
  <2>2. NoSave \in [step : SaveSteps, text : Bodies]
    BY DEF NoSave, SaveSteps, Bodies
  <2>3. save' \in [Saves -> [step : SaveSteps, text : Bodies]]
    BY <1>1, <1>12, <2>2 DEF SaveAnswered
  <2>4. CASE SaveDone(s)
    BY <1>1, <1>12, <2>1, <2>3, <2>4 DEF SaveAnswered, SaveDone
  <2>5. CASE SaveOutrun(s)
    BY <1>1, <1>12, <2>1, <2>3, <2>5 DEF SaveAnswered, SaveOutrun
  <2>6. QED
    BY <1>12, <2>4, <2>5 DEF SaveAnswered
<1>13. ASSUME NEW s \in Saves, SaveFails(s) PROVE TypeOK'
  BY <1>1, <1>13 DEF SaveFails, NoSave
<1>14. ASSUME NEW s \in Saves, Vanish(s) PROVE TypeOK'
  BY <1>1, <1>14 DEF Vanish, NoSave
<1>15. CASE ChangeMode
  BY <1>1, <1>15 DEF ChangeMode
<1>16. CASE Replay
  BY <1>1, <1>16 DEF Replay
<1>17. CASE UNCHANGED vars
  BY <1>1, <1>17 DEF vars
<1>18. QED
  BY <1>1, <1>2, <1>3, <1>4, <1>5, <1>6, <1>7, <1>8, <1>9, <1>10, <1>11, <1>12, <1>13, <1>14, <1>15, <1>16, <1>17 DEF Next

LEMMA NextEditor == TypeOK /\ Editor /\ [Next]_vars => Editor'
<1>1. SUFFICES ASSUME TypeOK /\ Editor, [Next]_vars PROVE Editor'
  OBVIOUS
<1> USE TextsAssumption
<1> USE DEF TypeOK, Editor, stored, editor, history
<1>2. CASE OpenWindow
  BY <1>1, <1>2 DEF OpenWindow
<1>3. CASE ReadMeeting
  BY <1>1, <1>3 DEF ReadMeeting
<1>4. CASE LoadMeeting
  BY <1>1, <1>4 DEF LoadMeeting, MeetingArrives
<1>5. CASE LoadFromCache
  BY <1>1, <1>5 DEF LoadFromCache, MeetingArrives
<1>6. CASE CloseWindow
  BY <1>1, <1>6 DEF CloseWindow, NoSave
<1>7. ASSUME NEW t \in Bodies, UpdateBody(t) PROVE Editor'
  BY <1>1, <1>7 DEF UpdateBody
<1>8. CASE ClickSave
  BY <1>1, <1>8 DEF ClickSave, PersistToServer, MaySave, Park, Send, Unsettled
<1>9. CASE TimerFires
  BY <1>1, <1>9 DEF TimerFires, NothingToSave, PersistToServer, MaySave, Park, Send, Unsettled
<1>10. CASE StrayFires
  BY <1>1, <1>10 DEF StrayFires, NothingToSave, PersistToServer, MaySave, Park, Send, Unsettled
<1>11. ASSUME NEW s \in Saves, Land(s) PROVE Editor'
  BY <1>1, <1>11 DEF Land, NoSave
<1>12. ASSUME NEW s \in Saves, SaveAnswered(s) PROVE Editor'
  BY <1>1, <1>12 DEF SaveAnswered, SaveDone, SaveOutrun, BodyAfter, NoSave
<1>13. ASSUME NEW s \in Saves, SaveFails(s) PROVE Editor'
  BY <1>1, <1>13 DEF SaveFails, NoSave
<1>14. ASSUME NEW s \in Saves, Vanish(s) PROVE Editor'
  BY <1>1, <1>14 DEF Vanish, NoSave
<1>15. CASE ChangeMode
  BY <1>1, <1>15 DEF ChangeMode
<1>16. CASE Replay
  BY <1>1, <1>16 DEF Replay
<1>17. CASE UNCHANGED vars
  BY <1>1, <1>17 DEF vars
<1>18. QED
  BY <1>1, <1>2, <1>3, <1>4, <1>5, <1>6, <1>7, <1>8, <1>9, <1>10, <1>11, <1>12, <1>13, <1>14, <1>15, <1>16, <1>17 DEF Next

LEMMA NextOneUnsettled == TypeOK /\ Editor /\ OneUnsettled /\ [Next]_vars => OneUnsettled'
<1>1. SUFFICES ASSUME TypeOK /\ Editor /\ OneUnsettled, [Next]_vars PROVE OneUnsettled'
  OBVIOUS
<1> USE DEF TypeOK, Editor, OneUnsettled, stored, editor, history
<1>2. CASE OpenWindow
  BY <1>1, <1>2 DEF OpenWindow
<1>3. CASE ReadMeeting
  BY <1>1, <1>3 DEF ReadMeeting
<1>4. CASE LoadMeeting
  BY <1>1, <1>4 DEF LoadMeeting, MeetingArrives
<1>5. CASE LoadFromCache
  BY <1>1, <1>5 DEF LoadFromCache, MeetingArrives
<1>6. CASE CloseWindow
  BY <1>1, <1>6 DEF CloseWindow, NoSave
<1>7. ASSUME NEW t \in Bodies, UpdateBody(t) PROVE OneUnsettled'
  BY <1>1, <1>7 DEF UpdateBody
<1>8. CASE ClickSave
  <2>1. CASE PersistToServer
    <3>1. SUFFICES ASSUME ~overlapped' PROVE OneUnsettled'
      BY DEF OneUnsettled
    <3>2. ~Unsettled /\ UNCHANGED server
      BY <2>1, <3>1 DEF PersistToServer
    <3>3. parked = <<>> /\ \A s \in Saves : save[s].step = "idle"
      BY <3>2 DEF Unsettled
    <3>4. CASE Park
      <4>1. parked' = <<body>> /\ UNCHANGED save
        BY <3>3, <3>4 DEF Park
      <4>2. QED
        BY <3>3, <4>1
    <3>5. CASE Send
      BY <1>1, <3>3, <3>5 DEF Send
    <3>6. QED
      BY <2>1, <3>4, <3>5 DEF PersistToServer
  <2>2. QED
    BY <1>8, <2>1 DEF ClickSave
<1>9. CASE TimerFires
  <2>1. CASE PersistToServer
    <3>1. SUFFICES ASSUME ~overlapped' PROVE OneUnsettled'
      BY DEF OneUnsettled
    <3>2. ~Unsettled /\ UNCHANGED server
      BY <2>1, <3>1 DEF PersistToServer
    <3>3. parked = <<>> /\ \A s \in Saves : save[s].step = "idle"
      BY <3>2 DEF Unsettled
    <3>4. CASE Park
      <4>1. parked' = <<body>> /\ UNCHANGED save
        BY <3>3, <3>4 DEF Park
      <4>2. QED
        BY <3>3, <4>1
    <3>5. CASE Send
      BY <1>1, <3>3, <3>5 DEF Send
    <3>6. QED
      BY <2>1, <3>4, <3>5 DEF PersistToServer
  <2>2. CASE NothingToSave
    BY <1>1, <1>9, <2>2 DEF TimerFires, NothingToSave
  <2>3. QED
    BY <1>9, <2>1, <2>2 DEF TimerFires
<1>10. CASE StrayFires
  <2>1. CASE PersistToServer
    <3>1. SUFFICES ASSUME ~overlapped' PROVE OneUnsettled'
      BY DEF OneUnsettled
    <3>2. ~Unsettled /\ UNCHANGED server
      BY <2>1, <3>1 DEF PersistToServer
    <3>3. parked = <<>> /\ \A s \in Saves : save[s].step = "idle"
      BY <3>2 DEF Unsettled
    <3>4. CASE Park
      <4>1. parked' = <<body>> /\ UNCHANGED save
        BY <3>3, <3>4 DEF Park
      <4>2. QED
        BY <3>3, <4>1
    <3>5. CASE Send
      BY <1>1, <3>3, <3>5 DEF Send
    <3>6. QED
      BY <2>1, <3>4, <3>5 DEF PersistToServer
  <2>2. CASE NothingToSave
    BY <1>1, <1>10, <2>2 DEF StrayFires, NothingToSave
  <2>3. QED
    BY <1>10, <2>1, <2>2 DEF StrayFires
<1>11. ASSUME NEW s \in Saves, Land(s) PROVE OneUnsettled'
  BY <1>1, <1>11 DEF Land, NoSave
<1>12. ASSUME NEW s \in Saves, SaveAnswered(s) PROVE OneUnsettled'
  BY <1>1, <1>12 DEF SaveAnswered, SaveDone, SaveOutrun, BodyAfter, NoSave
<1>13. ASSUME NEW s \in Saves, SaveFails(s) PROVE OneUnsettled'
  BY <1>1, <1>13 DEF SaveFails, NoSave
<1>14. ASSUME NEW s \in Saves, Vanish(s) PROVE OneUnsettled'
  BY <1>1, <1>14 DEF Vanish, NoSave
<1>15. CASE ChangeMode
  BY <1>1, <1>15 DEF ChangeMode
<1>16. CASE Replay
  BY <1>1, <1>16 DEF Replay
<1>17. CASE UNCHANGED vars
  BY <1>1, <1>17 DEF vars
<1>18. QED
  BY <1>1, <1>2, <1>3, <1>4, <1>5, <1>6, <1>7, <1>8, <1>9, <1>10, <1>11, <1>12, <1>13, <1>14, <1>15, <1>16, <1>17 DEF Next

LEMMA NextHarmless == IInv /\ [Next]_vars => Harmless'
<1>1. SUFFICES ASSUME IInv, [Next]_vars PROVE Harmless'
  OBVIOUS
<1> USE TextsAssumption
<1> USE DEF IInv, TypeOK, Editor, OneUnsettled, Harmless, Shown, Bodies, stored, editor, history
<1>2. CASE OpenWindow
  BY <1>1, <1>2 DEF OpenWindow
<1>3. CASE ReadMeeting
  BY <1>1, <1>3 DEF ReadMeeting
<1>4. CASE LoadMeeting
  BY <1>1, <1>4 DEF LoadMeeting, MeetingArrives
<1>5. CASE LoadFromCache
  BY <1>1, <1>5 DEF LoadFromCache, MeetingArrives
<1>6. CASE CloseWindow
  BY <1>1, <1>6 DEF CloseWindow, NoSave
<1>7. ASSUME NEW t \in Bodies, UpdateBody(t) PROVE Harmless'
  BY <1>1, <1>7 DEF UpdateBody
<1>8. CASE ClickSave
  BY <1>1, <1>8 DEF ClickSave, PersistToServer, MaySave, Park, Send, Unsettled
<1>9. CASE TimerFires
  <2>1. CASE PersistToServer
    BY <1>1, <1>9, <2>1 DEF TimerFires, PersistToServer, MaySave, Park, Send, Unsettled
  <2>2. CASE NothingToSave
    BY <1>1, <1>9, <2>2 DEF TimerFires, NothingToSave
  <2>3. QED
    BY <1>9, <2>1, <2>2 DEF TimerFires
<1>10. CASE StrayFires
  <2>1. CASE PersistToServer
    BY <1>1, <1>10, <2>1 DEF StrayFires, PersistToServer, MaySave, Park, Send, Unsettled
  <2>2. CASE NothingToSave
    BY <1>1, <1>10, <2>2 DEF StrayFires, NothingToSave
  <2>3. QED
    BY <1>10, <2>1, <2>2 DEF StrayFires
<1>11. ASSUME NEW s \in Saves, Land(s) PROVE Harmless'
  BY <1>1, <1>11 DEF Land, NoSave
<1>12. ASSUME NEW s \in Saves, SaveAnswered(s) PROVE Harmless'
  BY <1>1, <1>12 DEF SaveAnswered, SaveDone, SaveOutrun, BodyAfter, NoSave
<1>13. ASSUME NEW s \in Saves, SaveFails(s) PROVE Harmless'
  BY <1>1, <1>13 DEF SaveFails, NoSave
<1>14. ASSUME NEW s \in Saves, Vanish(s) PROVE Harmless'
  BY <1>1, <1>14 DEF Vanish, NoSave
<1>15. CASE ChangeMode
  BY <1>1, <1>15 DEF ChangeMode
<1>16. CASE Replay
  BY <1>1, <1>16 DEF Replay
<1>17. CASE UNCHANGED vars
  BY <1>1, <1>17 DEF vars
<1>18. QED
  BY <1>1, <1>2, <1>3, <1>4, <1>5, <1>6, <1>7, <1>8, <1>9, <1>10, <1>11, <1>12, <1>13, <1>14, <1>15, <1>16, <1>17 DEF Next

LEMMA NextShown == IInv /\ [Next]_vars => Shown'
<1>1. SUFFICES ASSUME IInv, [Next]_vars PROVE Shown'
  OBVIOUS
<1> USE DEF IInv, TypeOK, Editor, OneUnsettled, Harmless, Shown, stored, editor, history
<1>2. CASE OpenWindow
  BY <1>1, <1>2 DEF OpenWindow
<1>3. CASE ReadMeeting
  BY <1>1, <1>3 DEF ReadMeeting
<1>4. CASE LoadMeeting
  BY <1>1, <1>4 DEF LoadMeeting, MeetingArrives
<1>5. CASE LoadFromCache
  BY <1>1, <1>5 DEF LoadFromCache, MeetingArrives
<1>6. CASE CloseWindow
  BY <1>1, <1>6 DEF CloseWindow, NoSave
<1>7. ASSUME NEW t \in Bodies, UpdateBody(t) PROVE Shown'
  BY <1>1, <1>7 DEF UpdateBody
<1>8. CASE ClickSave
  BY <1>1, <1>8 DEF ClickSave, PersistToServer, MaySave, Park, Send, Unsettled
<1>9. CASE TimerFires
  <2>1. CASE PersistToServer
    BY <1>1, <1>9, <2>1 DEF TimerFires, PersistToServer, MaySave, Park, Send, Unsettled
  <2>2. CASE NothingToSave
    BY <1>1, <1>9, <2>2 DEF TimerFires, NothingToSave
  <2>3. QED
    BY <1>9, <2>1, <2>2 DEF TimerFires
<1>10. CASE StrayFires
  <2>1. CASE PersistToServer
    BY <1>1, <1>10, <2>1 DEF StrayFires, PersistToServer, MaySave, Park, Send, Unsettled
  <2>2. CASE NothingToSave
    BY <1>1, <1>10, <2>2 DEF StrayFires, NothingToSave
  <2>3. QED
    BY <1>10, <2>1, <2>2 DEF StrayFires
<1>11. ASSUME NEW s \in Saves, Land(s) PROVE Shown'
  BY <1>1, <1>11 DEF Land, NoSave
<1>12. ASSUME NEW s \in Saves, SaveAnswered(s) PROVE Shown'
  BY <1>1, <1>12 DEF SaveAnswered, SaveDone, SaveOutrun, BodyAfter, NoSave
<1>13. ASSUME NEW s \in Saves, SaveFails(s) PROVE Shown'
  BY <1>1, <1>13 DEF SaveFails, NoSave
<1>14. ASSUME NEW s \in Saves, Vanish(s) PROVE Shown'
  BY <1>1, <1>14 DEF Vanish, NoSave
<1>15. CASE ChangeMode
  BY <1>1, <1>15 DEF ChangeMode
<1>16. CASE Replay
  BY <1>1, <1>16 DEF Replay
<1>17. CASE UNCHANGED vars
  BY <1>1, <1>17 DEF vars
<1>18. QED
  BY <1>1, <1>2, <1>3, <1>4, <1>5, <1>6, <1>7, <1>8, <1>9, <1>10, <1>11, <1>12, <1>13, <1>14, <1>15, <1>16, <1>17 DEF Next

LEMMA NextSomewhere == IInv /\ [Next]_vars => NotesAreSomewhere'
<1>1. SUFFICES ASSUME IInv, [Next]_vars PROVE NotesAreSomewhere'
  OBVIOUS
<1> USE TextsAssumption
<1> USE DEF IInv, TypeOK, Editor, OneUnsettled, Harmless, NotesAreSomewhere, Bodies, stored, editor, history
<1>2. CASE OpenWindow
  BY <1>1, <1>2 DEF OpenWindow
<1>3. CASE ReadMeeting
  BY <1>1, <1>3 DEF ReadMeeting
<1>4. CASE LoadMeeting
  BY <1>1, <1>4 DEF LoadMeeting, MeetingArrives
<1>5. CASE LoadFromCache
  BY <1>1, <1>5 DEF LoadFromCache, MeetingArrives
<1>6. CASE CloseWindow
  BY <1>1, <1>6 DEF CloseWindow, NoSave
<1>7. ASSUME NEW t \in Bodies, UpdateBody(t) PROVE NotesAreSomewhere'
  BY <1>1, <1>7 DEF UpdateBody
<1>8. CASE ClickSave
  BY <1>1, <1>8 DEF ClickSave, PersistToServer, MaySave, Park, Send, Unsettled
<1>9. CASE TimerFires
  <2>1. CASE PersistToServer
    BY <1>1, <1>9, <2>1 DEF TimerFires, PersistToServer, MaySave, Park, Send, Unsettled
  <2>2. CASE NothingToSave
    BY <1>1, <1>9, <2>2 DEF TimerFires, NothingToSave
  <2>3. QED
    BY <1>9, <2>1, <2>2 DEF TimerFires
<1>10. CASE StrayFires
  <2>1. CASE PersistToServer
    BY <1>1, <1>10, <2>1 DEF StrayFires, PersistToServer, MaySave, Park, Send, Unsettled
  <2>2. CASE NothingToSave
    BY <1>1, <1>10, <2>2 DEF StrayFires, NothingToSave
  <2>3. QED
    BY <1>10, <2>1, <2>2 DEF StrayFires
<1>11. ASSUME NEW s \in Saves, Land(s) PROVE NotesAreSomewhere'
  BY <1>1, <1>11 DEF Land, NoSave
<1>12. ASSUME NEW s \in Saves, SaveAnswered(s) PROVE NotesAreSomewhere'
  BY <1>1, <1>12 DEF SaveAnswered, SaveDone, SaveOutrun, BodyAfter, NoSave
<1>13. ASSUME NEW s \in Saves, SaveFails(s) PROVE NotesAreSomewhere'
  BY <1>1, <1>13 DEF SaveFails, NoSave
<1>14. ASSUME NEW s \in Saves, Vanish(s) PROVE NotesAreSomewhere'
  BY <1>1, <1>14 DEF Vanish, NoSave
<1>15. CASE ChangeMode
  BY <1>1, <1>15 DEF ChangeMode
<1>16. CASE Replay
  BY <1>1, <1>16 DEF Replay
<1>17. CASE UNCHANGED vars
  BY <1>1, <1>17 DEF vars
<1>18. QED
  BY <1>1, <1>2, <1>3, <1>4, <1>5, <1>6, <1>7, <1>8, <1>9, <1>10, <1>11, <1>12, <1>13, <1>14, <1>15, <1>16, <1>17 DEF Next

LEMMA Invariance == Spec => []IInv
<1>1. IInv /\ [Next]_vars => IInv'
  BY NextTypeOK, NextEditor, NextOneUnsettled, NextHarmless, NextShown, NextSomewhere
     DEF IInv
<1>2. QED
  BY InitIInv, <1>1, PTL DEF Spec

\* Every variable keeps its type.
THEOREM TypeCorrect == Spec => []TypeOK
<1>1. IInv => TypeOK
  BY DEF IInv
<1>2. QED
  BY <1>1, Invariance, PTL

\* The last text typed is never in the window alone, nor overwritten by an
\* earlier one, as long as no save begins beside another.
THEOREM NothingForgotten == Spec => []NotesAreSomewhere
<1>1. IInv => NotesAreSomewhere
  BY DEF IInv
<1>2. QED
  BY <1>1, Invariance, PTL

\* The status line tells the truth under the same condition.
THEOREM StatusTrue == Spec => []StatusIsTrue
<1>1. IInv => StatusIsTrue
  BY DEF IInv, Editor, Shown, StatusIsTrue
<1>2. QED
  BY <1>1, Invariance, PTL
=============================================================================
