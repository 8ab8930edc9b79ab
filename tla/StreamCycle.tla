------------------------------ MODULE StreamCycle ------------------------------
(***************************************************************************)
(* The life of a stream as the rest of a camera sees it: what              *)
(* RTSPStream::run does to the connection, without the watchdog, the       *)
(* interrupt flag and the back-off, which RTSPStream adds and is shown to  *)
(* implement this.  CameraNode composes these actions with those of the    *)
(* recording session.                                                      *)
(*                                                                         *)
(* Every wait of the worker is on the network and is not bounded here.     *)
(* Why a read loop ends (an error, the watchdog, an interrupted read) is   *)
(* a free choice, and so is whether its end is reported as a loss.         *)
(***************************************************************************)

CONSTANT GivesUp   \* max_reconnect_attempts > 0; CameraNode leaves it at 0

ASSUME CycleAssumption == GivesUp \in BOOLEAN

VARIABLES
  alive,         \* alive_
  input,         \* fmt_ctx_, codec_params_ and stream_info_valid_ are set
  wasConnected,  \* was_connected: found has been reported, and no loss since
  worker,        \* where run is
  stopping       \* the worker's stop token

stream == <<alive, input, wasConnected, worker, stopping>>

(* Every variable has a value of its type; the input is open exactly from  *)
(* open_input to close_input; the read loop runs on a stream that is known *)
(* to be alive and has been reported; and a loss is reported for a stream  *)
(* that is down and was reported before.                                   *)
CycleTypeOK ==
  /\ alive \in BOOLEAN /\ input \in BOOLEAN
  /\ wasConnected \in BOOLEAN /\ stopping \in BOOLEAN
  /\ worker \in {"top", "connecting", "opened", "loop", "reading", "leaving",
                 "closed", "dead", "lost", "exited"}
  /\ worker \in {"opened", "loop", "reading", "leaving"} => input
  /\ input => worker \in {"opened", "loop", "reading", "leaving"}
  /\ worker \in {"loop", "reading", "leaving"} => alive /\ wasConnected
  /\ worker \in {"dead", "lost"} => ~alive
  /\ worker = "lost" => wasConnected

CycleInit ==
  /\ alive = FALSE /\ input = FALSE /\ wasConnected = FALSE
  /\ worker = "top" /\ stopping = FALSE

At(here, there) == worker = here /\ worker' = there

-----------------------------------------------------------------------------
(* The worker                                                              *)

TestStop ==
  /\ At("top", IF stopping THEN "exited" ELSE "connecting")
  /\ UNCHANGED <<alive, input, wasConnected, stopping>>

(* The last attempt has failed.                                            *)
GiveUp ==
  /\ GivesUp
  /\ At("top", "exited")
  /\ UNCHANGED <<alive, input, wasConnected, stopping>>

(* open_input succeeds.                                                    *)
Open ==
  /\ At("connecting", "opened")
  /\ input' = TRUE
  /\ UNCHANGED <<alive, wasConnected, stopping>>

(* The stream is declared alive and, if it was down, found.                *)
Connect ==
  /\ At("opened", "loop")
  /\ alive' = TRUE /\ wasConnected' = TRUE
  /\ UNCHANGED <<input, stopping>>

(* open_input fails.  If the stream was up before, without a report of its *)
(* loss, it is lost now.                                                   *)
ConnectFails ==
  /\ At("connecting", IF wasConnected THEN "lost" ELSE "top")
  /\ alive' = FALSE
  /\ UNCHANGED <<input, wasConnected, stopping>>

(* Mutant: the read loop does not look at the stop token.                  *)
EnterRead_Always ==
  /\ At("loop", "reading")
  /\ UNCHANGED <<alive, input, wasConnected, stopping>>

EnterRead ==
  /\ At("loop", IF stopping THEN "leaving" ELSE "reading")
  /\ UNCHANGED <<alive, input, wasConnected, stopping>>

(* av_read_frame returns a packet, or nothing for the moment.              *)
ReadReturns ==
  /\ At("reading", "loop")
  /\ UNCHANGED <<alive, input, wasConnected, stopping>>

(* It returns an error, or the interrupt flag is found set before it.      *)
ReadEnds ==
  /\ At("reading", "leaving")
  /\ UNCHANGED <<alive, input, wasConnected, stopping>>

(* The parameters are dropped before alive_ is cleared.                    *)
CloseInput ==
  /\ At("leaving", "closed")
  /\ input' = FALSE
  /\ UNCHANGED <<alive, wasConnected, stopping>>

MarkDead ==
  /\ At("closed", "dead")
  /\ alive' = FALSE
  /\ UNCHANGED <<input, wasConnected, stopping>>

(* A loop that was left with connection_lost is reported, unless a stop    *)
(* was requested; one that was left without it is not.                     *)
Conclude ==
  /\ \/ stopping /\ At("dead", "exited")
     \/ ~stopping /\ At("dead", "top")
     \/ ~stopping /\ wasConnected /\ At("dead", "lost")
  /\ UNCHANGED <<alive, input, wasConnected, stopping>>

(* internal_lost_callback, then was_connected = false.                     *)
ReportLost ==
  /\ At("lost", "top")
  /\ wasConnected' = FALSE
  /\ UNCHANGED <<alive, input, stopping>>

-----------------------------------------------------------------------------
(* RTSPStream::stop                                                        *)

RequestStop ==
  /\ stopping' = TRUE
  /\ UNCHANGED <<alive, input, wasConnected, worker>>

CloseAfterJoin ==
  /\ stopping /\ worker = "exited"
  /\ input' = FALSE
  /\ UNCHANGED <<alive, wasConnected, worker, stopping>>

CycleNext ==
  \/ TestStop \/ GiveUp \/ Open \/ Connect \/ ConnectFails
  \/ EnterRead \/ ReadReturns \/ ReadEnds
  \/ CloseInput \/ MarkDead \/ Conclude \/ ReportLost
  \/ RequestStop \/ CloseAfterJoin

CycleSpec == CycleInit /\ [][CycleNext]_stream

=============================================================================
