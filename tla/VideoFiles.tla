------------------------------ MODULE VideoFiles ------------------------------
(***************************************************************************)
(* What a recording session promises about the files it produces, without  *)
(* saying how: at most one file is being recorded at a time, a name is     *)
(* used once, a recording that was begun ends exactly one way, and         *)
(* on_video_save reports a file at most once and only after it is closed.  *)
(* RecordingSession implements this specification.                         *)
(***************************************************************************)

VARIABLES
  open,      \* the file being recorded, as a set of at most one
  created,   \* every name that was ever used
  saved,     \* closed with a trailer
  removed,   \* deleted for want of a trailer
  notified   \* reported by on_video_save

vars == <<open, created, saved, removed, notified>>

Closed == saved \cup removed

Init == open = {} /\ created = {} /\ saved = {} /\ removed = {} /\ notified = {}

(* A file with a new name appears (any name: the quantifier ranges over    *)
(* what was added).  If the recording could not be set up, the file stays  *)
(* behind, empty.                                                          *)
Create ==
  /\ open = {}
  /\ \E f \in created' \ created :
        created' = created \cup {f} /\ open' \in {{}, {f}}
  /\ UNCHANGED <<saved, removed, notified>>

Close ==
  \E f \in open :
    /\ open' = open \ {f}
    /\ \/ saved' = saved \cup {f} /\ UNCHANGED removed
       \/ removed' = removed \cup {f} /\ UNCHANGED saved
    /\ UNCHANGED <<created, notified>>

Notify ==
  /\ \E f \in Closed \ notified : notified' = notified \cup {f}
  /\ UNCHANGED <<open, created, saved, removed>>

Next == Create \/ Close \/ Notify

Spec == Init /\ [][Next]_vars

=============================================================================
