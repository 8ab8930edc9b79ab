------------------------------- MODULE Recorder -------------------------------
(***************************************************************************)
(* The program without its media threads (main.cpp): the alarm server      *)
(* fills the queue, the camera manager empties it, and main stops them in  *)
(* this order: the manager and its cameras, the server, the queue.         *)
(***************************************************************************)
EXTENDS CameraManager, AlarmServer

CONSTANT MaxPending   \* bound: events that wait or are with alarm_loop

ASSUME RecorderAssumption == MaxPending \in Nat

VARIABLES
  main,       \* what main waits for, or does
  latest      \* history: status of the last message pushed for each camera

recorderVars == <<managerVars, serverVars, main, latest>>

RecorderTypeOK ==
  /\ ManagerTypeOK /\ ServerTypeOK
  /\ main \in {"run", "alarm", "monitor", "nodes", "server", "load", "shutdown",
               "listener", "clients", "queue", "done"}
  /\ latest \in [Nodes -> {"start", "stop", "other"}]

RecorderInit ==
  /\ ManagerInit /\ ServerInit
  /\ main = "run"
  /\ latest = [i \in Nodes |-> "stop"]

-----------------------------------------------------------------------------
Manager(step) == step /\ UNCHANGED <<serverVars, main, latest>>

Server(step) == step /\ UNCHANGED <<managerVars, main, latest>>

(* The callback main gives the server pushes the event.                    *)
Callback(c) ==
  /\ HandleMessage(c)
  /\ Len(queue) + (IF alarm \in {"call", "note"} THEN 1 ELSE 0) < MaxPending
  /\ \E e \in Events :
       /\ PushEvent(e)
       /\ latest' = [i \in Nodes |-> IF i = FindIdx(e) /\ e.status # "other"
                                     THEN e.status ELSE latest[i]]
  /\ UNCHANGED <<life, alarm, evt, idx, monitor, timedOut, active, managerStop, main>>

ListenerStep ==
  OpenSocket \/ BindSocket \/ TestListenerStop \/ AcceptFails \/ CloseSocket

ClientStep(c) == TestClientStop(c) \/ Receive(c) \/ HandleDone(c)

ServerStep ==
  \/ Server(ListenerStep \/ Accept)
  \/ \E c \in Clients : Server(ClientStep(c)) \/ Callback(c)

ManagerStep == Manager(AlarmThreadStep \/ MonitorStep \/ RecordingEnds)

-----------------------------------------------------------------------------
(* main, after a signal.  The statistics thread, which is joined first,    *)
(* only reads.                                                             *)

At(here, there) == main = here /\ main' = there /\ UNCHANGED latest

StopManager == At("run", "alarm") /\ RequestManagerStop /\ UNCHANGED serverVars

JoinAlarmThread == At("alarm", "monitor") /\ alarm = "exited" /\ UNCHANGED <<managerVars, serverVars>>

(* Mutant: the nodes are stopped while the monitor still runs.             *)
JoinMonitorThread_NoWait == At("monitor", "nodes") /\ UNCHANGED <<managerVars, serverVars>>

JoinMonitorThread ==
  At("monitor", "nodes") /\ monitor = "exited" /\ UNCHANGED <<managerVars, serverVars>>

(* The nodes stop in their order, each before the next.                    *)
StopNodes ==
  /\ \/ \E i \in ready :
          At("nodes", "nodes") /\ (\A j \in ready : i <= j) /\ StopNode(i)
     \/ At("nodes", "server") /\ ready = {} /\ ClearActive
  /\ UNCHANGED serverVars

(* Mutant: the socket is shut down before the stop is requested.           *)
StopServer_ShutdownFirst ==
  /\ \/ At("server", "load") /\ LoadFd
     \/ At("load", "shutdown") /\ ShutdownSocket
     \/ At("shutdown", "listener") /\ RequestServerStop
  /\ UNCHANGED managerVars

(* request_stop, then the socket out of an atomic variable, then shutdown. *)
StopServer ==
  /\ \/ At("server", "load") /\ RequestServerStop
     \/ At("load", "shutdown") /\ LoadFd
     \/ At("shutdown", "listener") /\ ShutdownSocket
  /\ UNCHANGED managerVars

JoinServer ==
  /\ \/ At("listener", "clients") /\ ListenerJoinable
     \/ At("clients", "queue") /\ ClientsJoinable
  /\ UNCHANGED <<managerVars, serverVars>>

StopQueue ==
  /\ At("queue", "done") /\ ShutdownQueue
  /\ UNCHANGED <<life, alarm, evt, idx, monitor, timedOut, active, managerStop, serverVars>>

MainStep ==
  JoinAlarmThread \/ JoinMonitorThread \/ StopNodes \/ StopServer \/ JoinServer \/ StopQueue

RecorderNext ==
  ManagerStep \/ ServerStep \/ MainStep \/ StopManager \/ Manager(Tick)

RecorderSpec == RecorderInit /\ [][RecorderNext]_recorderVars

(* The threads are scheduled and time passes.  A signal, a connection and  *)
(* a message may never come.  accept returns when the socket is shut down. *)
LiveRecorderSpec ==
  /\ RecorderSpec
  /\ WF_recorderVars(Manager(AlarmThreadStep))
  /\ WF_recorderVars(Manager(MonitorStep))
  /\ WF_recorderVars(Manager(Tick))
  /\ WF_recorderVars(Server(ListenerStep) /\ (listener = "accept" => socket = "down"))
  /\ \A c \in Clients : WF_recorderVars(Server(ClientStep(c)))
  /\ WF_recorderVars(MainStep)

-----------------------------------------------------------------------------
(* What the program promises                                               *)

(* All messages with one serial are for one camera.  active_ depends on    *)
(* it: it has one entry for a serial.                                      *)
OneCameraPerSerial ==
  \A e, f \in Events : e.serial = f.serial => FindIdx(e) = FindIdx(f)

(* A recording that nobody has tried to stop is watched: its camera has an *)
(* entry in active_, is about to get one, or its timeout is being sent     *)
(* (camera_manager.cpp:58-73 and 88-112 change the recording and the map   *)
(* in separate steps).                                                     *)
TimerCovers ==
  \A i \in Wanted :
    \/ \E a \in active : a.idx = i
    \/ alarm = "note" /\ idx = i /\ evt.status = "start"
    \/ \E a \in timedOut : a.idx = i

(* When the queue is drained the last message decides: a camera whose last *)
(* message was a Stop does not record, or has at least been told to stop,  *)
(* however messages of several connections and timeouts were interleaved.  *)
LastAlarmHolds ==
  queue = <<>> /\ alarm \in {"test", "pop", "exited"} =>
    \A i \in Wanted : latest[i] = "start"

(* No alarm reaches a camera that has been stopped: the threads that call  *)
(* on_alarm are gone when the first node stops.                            *)
QuietWhenNodesStop == ready # Nodes => alarm = "exited" /\ monitor = "exited"

(* Timeouts (camera_manager.cpp:67, 91-103): with a global timeout a       *)
(* recording that is no longer started again does not go on without a      *)
(* Stop, whether or not one is received, and however the timer was         *)
(* restarted before.  The condition is needed: every Start replaces the    *)
(* entry and its start_time, so Starts that keep coming within the timeout *)
(* put the Stop off for ever.  The one Stop that check_timeouts sends may  *)
(* be forgotten like any other: the property is that it is sent.           *)
StartedAgain(i) == alarm = "call" /\ idx = i /\ evt.status = "start"

TimeoutEnds ==
  \A i \in Nodes :
    Global.timeout > 0 => (<>[]~StartedAgain(i) => (i \in Wanted ~> i \notin Wanted))

(* The shutdown of main comes to its end, wherever the listener and the    *)
(* clients are, and also when the socket was never opened.                 *)
ShutdownTerminates == main # "run" ~> main = "done"

=============================================================================
