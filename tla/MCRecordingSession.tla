-------------------------- MODULE MCRecordingSession --------------------------
(***************************************************************************)
(* Bounds and fairness under which TLC checks RecordingSession, and the    *)
(* properties that need them.                                              *)
(***************************************************************************)
EXTENDS RecordingSession

CONSTANTS
  MaxEvents,   \* bound on current_event_id_
  MaxChunks    \* bound on chunk_idx_

(* No event beyond the last, and no decision to rotate the last chunk.     *)
InBounds ==
  /\ eventId' <= MaxEvents
  /\ pc' = "finalize" /\ state' = "RECORDING" => chunkIdx' < MaxChunks

MCNext == Next /\ InBounds

MCSpec == Init /\ [][MCNext]_vars

(***************************************************************************)
(* The RTSP worker and the main thread are ordinary threads that never     *)
(* wait for anything but a mutex while they close a file.                  *)
(***************************************************************************)
WorkerFairness == WF_vars(Close)

(* The camera keeps sending keyframes.                                     *)
CameraFairness == WF_vars(\E p \in Packet : p.key /\ PushToPostBuffer(p))

LiveSpec == MCSpec /\ WorkerFairness /\ CameraFairness

(* POST_BUFFER is left: enough keyframes end it, unless the event is       *)
(* continued or the session shut down.  An alarm that comes between the    *)
(* decision to finalise and finalize_and_rotate must not leave it there.   *)
PostBufferEnds == state = "POST_BUFFER" ~> state # "POST_BUFFER"

(* A saved file is reported by on_video_save; shutdown alone is allowed    *)
(* to swallow the report.                                                  *)
SavedIsReported ==
  \A f \in (1..MaxEvents) \X (0..MaxChunks) :
    f \in saved ~> f \in notified \/ shutdownRequested

=============================================================================
