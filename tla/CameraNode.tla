------------------------------ MODULE CameraNode ------------------------------
(***************************************************************************)
(* One camera (camera_node.cpp): the threads that use its recording        *)
(* session and the order in which CameraManager::stop takes them down.     *)
(*                                                                         *)
(*   worker  the RTSP thread: connect, read packets into the session, and  *)
(*           force_stop the session when the connection is lost;           *)
(*   alarm   the alarm thread inside on_alarm: for a Start it reads        *)
(*           is_alive, the session state, the codec parameters and the     *)
(*           stream info one after the other, without a common lock, and   *)
(*           calls start_event or continue_event on what it has read; for  *)
(*           a Stop it calls stop_event;                                   *)
(*   monitor the timeout monitor inside on_alarm for the Stop it makes up; *)
(*   main    CameraManager::stop.                                          *)
(*                                                                         *)
(* The stream is what StreamCycle says of it: every step of the camera is  *)
(* one of its steps, taken together with what the step does to the session,*)
(* or leaves it alone.                                                     *)
(***************************************************************************)
EXTENDS RecordingSession, StreamCycle

VARIABLES
  initialized,   \* initialized_ of the node
  alarm,         \* where the alarm thread is in on_alarm
  monitor,       \* where the monitor thread is in on_alarm
  main           \* where CameraManager::stop is

nodeVars == <<vars, stream, initialized, alarm, monitor, main>>

(* Every variable has a value of its type, and the stop token of the worker*)
(* is set by RTSPStream::stop and by nobody else.                          *)
NodeTypeOK ==
  /\ CycleTypeOK
  /\ initialized \in BOOLEAN
  /\ alarm \in {"idle", "state", "params", "info", "start", "continue", "stop"}
  /\ monitor \in {"idle", "stop"}
  /\ main \in {"run", "joining", "joined", "interrupt", "stopping", "shutdown",
               "destroy", "done"}
  /\ stopping <=> main \in {"stopping", "shutdown", "destroy", "done"}

NodeInit ==
  /\ Init /\ CycleInit
  /\ initialized = TRUE
  /\ alarm = "idle" /\ monitor = "idle" /\ main = "run"

-----------------------------------------------------------------------------
(* RTSP worker.  It is busy with the session whenever pc is not "idle".    *)
(* Both of its loops test for a stop request before they block in          *)
(* open_input or av_read_frame, which then still return normally.          *)

Worker(step) == pc = "idle" /\ step /\ UNCHANGED <<initialized, alarm, monitor, main>>

(* What the worker does without the session.                               *)
Connecting ==
  /\ Worker(TestStop \/ Open \/ Connect \/ ConnectFails)
  /\ UNCHANGED vars

Looping ==
  /\ Worker(\/ EnterRead \/ ReadEnds
            \/ CloseInput \/ MarkDead \/ Conclude)
  /\ UNCHANGED vars

(* A packet of the video stream is handed to the session; another packet,  *)
(* or a read that has to be tried again, is not.                           *)
Read ==
  /\ Worker(ReadReturns)
  /\ (\E p \in Packet : PushPacket(p)) \/ UNCHANGED vars

(* internal_lost_callback: on_rtsp_connection_lost, up to the end of the   *)
(* first block of force_stop.  The test of initialized_ is taken with that *)
(* block: CameraNode::stop clears it just before it waits for the worker,  *)
(* and a session found recording a moment earlier is closed by shutdown.   *)
Lost ==
  /\ Worker(ReportLost)
  /\ IF initialized /\ state \notin Inactive THEN ForceStop ELSE UNCHANGED vars

(* What push_packet or force_stop still has to do.                         *)
CloseFile ==
  /\ Close
  /\ UNCHANGED <<stream, initialized, alarm, monitor, main>>

-----------------------------------------------------------------------------
(* on_alarm.  A call that was begun is completed; no other is begun once   *)
(* main has asked the alarm and monitor threads to stop.  (A thread past   *)
(* its loop test may still begin one, before it is joined; main does       *)
(* nothing in between that the call could see, so it counts as begun       *)
(* before the request.)                                                    *)

Alarms(here, there) ==
  /\ alarm = here /\ alarm' = there
  /\ UNCHANGED <<stream, initialized, monitor, main>>

Monitors(here, there) ==
  /\ monitor = here /\ monitor' = there
  /\ UNCHANGED <<stream, initialized, alarm, main>>

Accepts == main = "run" /\ initialized

AlarmStart ==
  /\ Accepts
  /\ Alarms("idle", IF alive THEN "state" ELSE "idle")
  /\ UNCHANGED vars

ReadState ==
  /\ Alarms("state", IF state \in {"RECORDING", "POST_BUFFER"}
                     THEN "continue" ELSE "params")
  /\ UNCHANGED vars

GetCodecParams == Alarms("params", IF input THEN "info" ELSE "idle") /\ UNCHANGED vars

GetStreamInfo == Alarms("info", IF input THEN "start" ELSE "idle") /\ UNCHANGED vars

CallStart == Alarms("start", "idle") /\ StartEvent

CallContinue ==
  /\ Alarms("continue", "idle")
  /\ IF state \in Inactive THEN UNCHANGED vars ELSE ContinueEvent

(* A Stop message of the camera.                                           *)
AlarmStop ==
  /\ Accepts
  /\ Alarms("idle", "stop")
  /\ UNCHANGED vars

SessionStop == IF state \in Inactive THEN UNCHANGED vars ELSE StopEvent

(* Mutant: is_alive is tested before isStop.                               *)
CallStop_IfAlive ==
  /\ Alarms("stop", "idle")
  /\ IF alive THEN SessionStop ELSE UNCHANGED vars

CallStop == Alarms("stop", "idle") /\ SessionStop

(* The Stop that check_timeouts makes up.                                  *)
TimeoutStop ==
  /\ Accepts
  /\ Monitors("idle", "stop")
  /\ UNCHANGED vars

CallTimeoutStop == Monitors("stop", "idle") /\ SessionStop

-----------------------------------------------------------------------------
(* CameraManager::stop, CameraNode::stop and the destructors               *)

Main(here, there) ==
  /\ main = here /\ main' = there
  /\ UNCHANGED <<alarm, monitor>>

(* Mutant: the alarm thread is not waited for.                             *)
JoinAlarmThreads_NoWait ==
  /\ Main("joining", "joined")
  /\ UNCHANGED <<vars, stream, initialized>>

StopAlarmThreads ==
  /\ Main("run", "joining")
  /\ UNCHANGED <<vars, stream, initialized>>

JoinAlarmThreads ==
  /\ Main("joining", "joined")
  /\ alarm = "idle" /\ monitor = "idle"
  /\ UNCHANGED <<vars, stream, initialized>>

(* initialized_.exchange.                                                  *)
StopNode ==
  /\ Main("joined", "interrupt")
  /\ initialized' = FALSE
  /\ UNCHANGED <<vars, stream>>

(* RTSPStream::stop interrupts the worker and waits for the watchdog, and  *)
(* only then requests the worker to stop.                                  *)
StopWorker ==
  /\ Main("interrupt", "stopping")
  /\ RequestStop
  /\ UNCHANGED <<vars, initialized>>

(* The worker has ended; RTSPStream::stop closes what it left open.        *)
JoinWorker ==
  /\ Main("stopping", "shutdown")
  /\ CloseAfterJoin
  /\ UNCHANGED <<vars, initialized>>

(* session_->shutdown(), and once more from ~RecordingSession.             *)
Shutdown ==
  /\ Main("shutdown", "destroy") \/ Main("destroy", "done")
  /\ ShutdownBegin
  /\ UNCHANGED <<stream, initialized>>

(* The process has ended.                                                  *)
Terminated == main = "done" /\ pc = "idle" /\ UNCHANGED nodeVars

-----------------------------------------------------------------------------

WorkerStep == Connecting \/ Looping \/ Read \/ Lost \/ CloseFile

AlarmStep == AlarmStart \/ ReadState \/ GetCodecParams \/ GetStreamInfo
               \/ CallStart \/ CallContinue \/ AlarmStop \/ CallStop
               \/ TimeoutStop \/ CallTimeoutStop

MainStep == StopAlarmThreads \/ JoinAlarmThreads \/ StopNode \/ StopWorker \/ JoinWorker
              \/ Shutdown

NodeNext == WorkerStep \/ AlarmStep \/ MainStep \/ Terminated

NodeSpec == NodeInit /\ [][NodeNext]_nodeVars

-----------------------------------------------------------------------------
(* Properties *)

(* Whatever the camera's threads do, each of their steps is a step of the  *)
(* session as RecordingSession describes it or leaves the session alone.   *)
(* In particular no alarm reaches a session that is being shut down, which *)
(* would begin a new event; and what holds of the session holds in the     *)
(* camera.                                                                 *)
ImplementsSession == Spec

(* What the alarm and monitor threads rely on, taken from the state of the *)
(* session: a rotation is part of a recording, a post-buffer is not.       *)
Rotating == state = "FINALIZING" /\ op = "rotate"

Recording == initialized /\ (state = "RECORDING" \/ Rotating)

Calls == INSTANCE CameraCalls WITH
  ready       <- IF initialized THEN {1} ELSE {},
  recording   <- IF Recording THEN {1} ELSE {},
  missed      <- IF Recording /\ lastAlarm = "stop" THEN {1} ELSE {},
  alarmCall   <- IF alarm = "idle" THEN "none" ELSE IF alarm = "stop" THEN "stop" ELSE "start",
  timeoutCall <- IF monitor = "idle" THEN "none" ELSE "stop",
  connected   <- wasConnected

(* The camera does for the manager what CameraCalls promises, however its  *)
(* threads are interleaved.  Its recording begins only with the return of  *)
(* a Start, and ends only with the return of a Stop, with a loss of the    *)
(* connection that is reported, or with CameraNode::stop.  A Stop that     *)
(* returns while the camera records has ended the recording or, when it    *)
(* met a rotation, is on record as missed; that stays so until the next    *)
(* Start.  A reported loss leaves no recording behind, and the camera is   *)
(* stopped between calls only.                                             *)
ImplementsCalls == Calls!CallsSpec

(* RecordingSession::shutdown shares finalize_file_io with the worker and  *)
(* has no protection against it but the joins: when the session is shut    *)
(* down, no other thread of the camera is in one of its calls.             *)
QuietBeforeShutdown ==
  main = "shutdown" =>
    pc = "idle" /\ worker = "exited" /\ alarm = "idle" /\ monitor = "idle"

(* After a clean stop nothing is left half done, whatever alarms, packets  *)
(* and disconnects came before: the session is idle, its muxer is gone and *)
(* every recording has been closed.                                        *)
StopLeavesNothingOpen ==
  main = "done" /\ pc = "idle" => state = "IDLE" /\ ctx = NoFile /\ opened = Closed

(* What the log of on_rtsp_connection_lost and of on_alarm say: losing the *)
(* connection forces recording to stop, and no Start is accepted while the *)
(* stream is not alive.  So nothing is being recorded between the report   *)
(* of a loss and the next connection.                                      *)
NoRecordingWhileLost ==
  worker = "top" /\ ~alive /\ ~wasConnected /\ pc = "idle" => state \in Inactive

=============================================================================
