------------------------------ MODULE CameraLife ------------------------------
(***************************************************************************)
(* Cameras as the manager sees them: what an alarm, a lost connection and  *)
(* the end of the program do to their recordings.  CameraManager composes  *)
(* these actions with its own.  Which of them a step of a camera is, is    *)
(* not left open: CameraCalls ties each to the call it is the effect of,   *)
(* and CameraNode is shown to implement CameraCalls.                       *)
(*                                                                         *)
(* A recording lasts from a Start to the Stop that ends it; its            *)
(* post-buffer is not part of it.  Whether a Start is obeyed (no stream,   *)
(* no muxer) is a free choice, and so is whether a Stop is: one that comes *)
(* while a chunk is being rotated is forgotten.                            *)
(***************************************************************************)

VARIABLES
  ready,      \* the cameras whose initialized_ is set
  recording,  \* the cameras that are recording
  missed      \* those that have been told to stop since they were last started

life == <<ready, recording, missed>>

LifeTypeOK(nodes) ==
  /\ ready \subseteq nodes
  /\ recording \subseteq ready
  /\ missed \subseteq recording

LifeInit(nodes) == ready = nodes /\ recording = {} /\ missed = {}

(* The recordings that nobody has tried to stop.                           *)
Wanted == recording \ missed

(* start_event or continue_event.                                          *)
Start(i) ==
  \/ UNCHANGED life
  \/ /\ i \in ready
     /\ recording' = recording \cup {i} /\ missed' = missed \ {i}
     /\ UNCHANGED ready

(* stop_event; in the second case it has found the session FINALIZING.     *)
Stop(i) ==
  /\ \/ recording' = recording \ {i} /\ missed' = missed \ {i}
     \/ i \in recording /\ missed' = missed \cup {i} /\ UNCHANGED recording
  /\ UNCHANGED ready

(* force_stop: the connection is lost.                                     *)
Break(i) ==
  /\ i \in recording
  /\ recording' = recording \ {i} /\ missed' = missed \ {i}
  /\ UNCHANGED ready

(* CameraNode::stop.                                                       *)
Retire(i) ==
  /\ ready' = ready \ {i}
  /\ recording' = recording \ {i} /\ missed' = missed \ {i}

(* What a call of on_alarm for camera i has done when it returns.          *)
OnAlarm(i, status) ==
  CASE status = "start" -> Start(i)
    [] status = "stop"  -> Stop(i)
    [] OTHER            -> UNCHANGED life

=============================================================================
