----------------------------- MODULE MCCameraNode -----------------------------
(***************************************************************************)
(* Bounds and fairness under which TLC checks CameraNode.                  *)
(***************************************************************************)
EXTENDS CameraNode

CONSTANTS
  MaxEvents,   \* bound on current_event_id_
  MaxChunks    \* bound on chunk_idx_

InBounds ==
  /\ eventId' <= MaxEvents
  /\ pc' = "finalize" /\ state' = "RECORDING" => chunkIdx' < MaxChunks

MCNodeNext == NodeNext /\ InBounds

MCNodeSpec == NodeInit /\ [][MCNodeNext]_nodeVars

(***************************************************************************)
(* Fairness: the worker keeps running, because open_input and              *)
(* av_read_frame return in the end (both have network timeouts and the     *)
(* interrupt callback); a call of on_alarm that was begun is completed;    *)
(* and CameraManager::stop, once called, proceeds.                         *)
(* Nothing forces alarms to come or the process to stop.                   *)
(***************************************************************************)
WorkerRuns == Connecting \/ Looping \/ Read \/ Lost

AlarmReturns == ReadState \/ GetCodecParams \/ GetStreamInfo
                  \/ CallStart \/ CallContinue \/ CallStop

LiveNodeSpec ==
  /\ MCNodeSpec
  /\ WF_nodeVars(WorkerRuns) /\ WF_nodeVars(CloseFile)
  /\ WF_nodeVars(AlarmReturns) /\ WF_nodeVars(CallTimeoutStop)
  /\ WF_nodeVars(JoinAlarmThreads \/ StopNode \/ StopWorker \/ JoinWorker \/ Shutdown)

(* A stop that has begun ends, although the worker may reconnect, read and *)
(* rotate files until it sees the request: no thread waits for another     *)
(* that waits for it.                                                      *)
StopTerminates == main = "joining" ~> main = "done" /\ pc = "idle"

=============================================================================
