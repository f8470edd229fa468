--------------------------- MODULE MCMeetingNotes ---------------------------
(* Small instances of MeetingNotes. *)
EXTENDS MeetingNotes
=============================================================================
