---------------------------- MODULE RecorderProofs ----------------------------
(***************************************************************************)
(* Proofs about Recorder, for any cameras, events, clients and messages:   *)
(* its types, the order of the shutdown, that a recording is watched, and  *)
(* that the last message decides.                                          *)
(***************************************************************************)
EXTENDS Recorder, WellFoundedInduction, TLAPS

LEMMA MaximumExists ==
  ASSUME NEW n \in Nat, NEW S, S \subseteq 1 .. n, S # {}
  PROVE  \E i \in S : \A j \in S : j <= i
<1> DEFINE T == {n - i : i \in S}
<1>1. T \subseteq Nat /\ T # {}
  <2>1. \A i \in S : n - i \in Nat
    OBVIOUS
  <2> QED
    BY <2>1
<1>2. PICK x \in T : \A y \in T : ~ (<<y, x>> \in OpToRel(<, Nat))
  <2> HIDE DEF T
  <2> QED
    BY <1>1, NatLessThanWellFounded, WFMin
<1>3. \A y \in T : ~ (y < x)
  <2> HIDE DEF T
  <2> QED
    BY <1>1, <1>2 DEF OpToRel
<1>4. PICK i \in S : x = n - i
  OBVIOUS
<1>5. \A j \in S : n - j \in T
  OBVIOUS
<1> HIDE DEF T
<1> QED
  BY <1>3, <1>4, <1>5

(* find_idx returns the number of a camera, or 0 for "none".               *)
LEMMA FindIdxType == 0 \notin Nodes /\ \A e : FindIdx(e) \in Nodes \cup {0}
<1>1. Len(Cameras) \in Nat
  BY ManagerAssumption
<1>2. ASSUME NEW S, S \subseteq Nodes, S # {}
      PROVE  Latest(S) \in S
  <2>1. \E i \in S : \A j \in S : j <= i
    BY <1>1, <1>2, MaximumExists DEF Nodes
  <2> QED
    BY <2>1 DEF Latest
<1>3. \A s : BySerial(s) \subseteq Nodes /\ ByAddress(s) \subseteq Nodes
  BY DEF BySerial, ByAddress
<1>4. 0 \notin Nodes
  BY <1>1 DEF Nodes
<1> QED
  BY <1>2, <1>3, <1>4 DEF FindIdx

-----------------------------------------------------------------------------
(* What the life of the cameras does to the recordings that are wanted.    *)

LEMMA LifeUnchanged ==
  ASSUME UNCHANGED life PROVE Wanted' = Wanted /\ (LifeTypeOK(Nodes) => LifeTypeOK(Nodes)')
BY DEF life, Wanted, LifeTypeOK

LEMMA OnAlarmLife ==
  ASSUME LifeTypeOK(Nodes), NEW i \in Nodes, NEW s, OnAlarm(i, s)
  PROVE  /\ LifeTypeOK(Nodes)' /\ ready' = ready
         /\ Wanted' \subseteq Wanted \/ (s = "start" /\ Wanted' = Wanted \cup {i})
         /\ s = "stop" => Wanted' = Wanted \ {i}
<1>1. CASE s = "start"
  <2>1. Start(i)
    BY <1>1 DEF OnAlarm
  <2> QED
    BY <1>1, <2>1 DEF Start, life, Wanted, LifeTypeOK
<1>2. CASE s = "stop"
  <2>1. Stop(i)
    BY <1>2 DEF OnAlarm
  <2> QED
    BY <1>2, <2>1 DEF Stop, Wanted, LifeTypeOK
<1>3. CASE s \notin {"start", "stop"}
  <2>1. UNCHANGED life
    BY <1>3 DEF OnAlarm
  <2> QED
    BY <1>3, <2>1 DEF life, Wanted, LifeTypeOK
<1> QED
  BY <1>1, <1>2, <1>3

LEMMA BreakLife ==
  ASSUME LifeTypeOK(Nodes), NEW i \in Nodes, Break(i)
  PROVE  LifeTypeOK(Nodes)' /\ ready' = ready /\ Wanted' = Wanted \ {i}
BY DEF Break, Wanted, LifeTypeOK

LEMMA RetireLife ==
  ASSUME LifeTypeOK(Nodes), NEW i \in Nodes, Retire(i)
  PROVE  LifeTypeOK(Nodes)' /\ ready' = ready \ {i} /\ Wanted' = Wanted \ {i}
BY DEF Retire, Wanted, LifeTypeOK

-----------------------------------------------------------------------------
(* The inductive invariant: what RecorderTypeOK leaves open.               *)

(* The order of the shutdown.                                              *)
OrderInv ==
  /\ main \notin {"run", "alarm"} => alarm = "exited"
  /\ main \notin {"run", "alarm", "monitor"} => monitor = "exited"
  /\ main \in {"run", "alarm", "monitor"} => ready = Nodes

(* The local variables of the threads.                                     *)
LocalInv ==
  /\ alarm \in {"call", "note"} => idx = FindIdx(evt)
  /\ alarm = "note" /\ evt.status = "stop" => idx \notin Wanted
  /\ monitor # "send" => timedOut = {}

(* An entry belongs to the camera that its serial is for.                  *)
EntryInv ==
  \A a \in active : \E e \in Events : a.serial = e.serial /\ a.idx = FindIdx(e)

RecorderInv == RecorderTypeOK /\ OrderInv /\ LocalInv /\ EntryInv

LEMMA RecorderInitInv == RecorderInit => RecorderInv
<1> SUFFICES ASSUME RecorderInit PROVE RecorderInv
  OBVIOUS
<1> USE DEF RecorderInit
<1>1. ManagerTypeOK
  <2>1. queue \in Seq(Events)
    BY DEF ManagerInit, QueueInit
  <2> QED
    BY <2>1 DEF ManagerInit, QueueInit, ManagerTypeOK, LifeInit, LifeTypeOK
<1>2. ServerTypeOK
  BY DEF ServerInit, ServerTypeOK
<1>3. RecorderTypeOK
  BY <1>1, <1>2, RecorderAssumption DEF RecorderTypeOK
<1>4. OrderInv /\ LocalInv /\ EntryInv
  BY DEF OrderInv, LocalInv, EntryInv, ManagerInit, LifeInit
<1> QED
  BY <1>3, <1>4 DEF RecorderInv

-----------------------------------------------------------------------------
(* Steps                                                                   *)

(* The alarm thread.                                                       *)
LEMMA AlarmThreadInv ==
  ASSUME RecorderInv, Manager(AlarmThreadStep)
  PROVE  RecorderInv'
<1> USE DEF RecorderInv, Manager, AlarmThread
<1>1. /\ UNCHANGED <<serverVars, main, latest, monitor, timedOut, managerStop>>
      /\ LifeTypeOK(Nodes)
  BY DEF AlarmThreadStep, TestAlarmStop, PopEvent, CallOnAlarm, NoteEvent, RecorderTypeOK,
     ManagerTypeOK
<1>2. ServerTypeOK' /\ main' = main /\ latest' = latest
  BY <1>1 DEF RecorderTypeOK, ServerTypeOK, serverVars
<1>3. CASE TestAlarmStop
  <2>1. LifeTypeOK(Nodes)' /\ ready' = ready
    BY <1>1, <1>3, LifeUnchanged DEF TestAlarmStop, life
  <2> QED
    BY <1>1, <1>2, <1>3, <2>1 DEF TestAlarmStop, queueVars, RecorderTypeOK, ManagerTypeOK, OrderInv,
       LocalInv, EntryInv
<1>4. CASE PopEvent
  <2>1. queue' \in Seq(Events) /\ isShutdown' = isShutdown /\ alarm = "pop"
    <3>1. queue \in Seq(Events)
      BY DEF RecorderTypeOK, ManagerTypeOK
    <3>2. /\ alarm = "pop" /\ isShutdown' = isShutdown
          /\ queue' = queue \/ (queue # <<>> /\ queue' = Tail(queue))
      BY <1>4 DEF PopEvent, TryPop, PopFails, queueVars
    <3> QED BY <3>1, <3>2
  <2>2. alarm' \in {"call", "test"} /\ active' = active /\ LifeTypeOK(Nodes)' /\ ready' = ready
    BY <1>1, <1>4, LifeUnchanged DEF PopEvent, life
  <2>3. alarm' = "call" => evt' \in Events /\ idx' = FindIdx(evt') /\ idx' \in Nodes
    BY <1>4, FindIdxType DEF PopEvent
  <2> QED
    BY <1>1, <1>2, <2>1, <2>2, <2>3 DEF RecorderTypeOK, ManagerTypeOK, OrderInv, LocalInv, EntryInv
<1>5. CASE CallOnAlarm
  <2>1. alarm = "call" /\ alarm' = "note" /\ UNCHANGED <<queue, isShutdown, evt, idx, active>>
    BY <1>5 DEF CallOnAlarm, queueVars
  <2>2. /\ LifeTypeOK(Nodes)' /\ ready' = ready
        /\ evt.status = "stop" => idx \notin Wanted'
    <3>1. OnAlarm(idx, evt.status) /\ idx \in Nodes
      BY <1>5, <2>1 DEF CallOnAlarm, RecorderTypeOK, ManagerTypeOK
    <3> QED
      BY <1>1, <3>1, OnAlarmLife
  <2> QED
    BY <1>1, <1>2, <2>1, <2>2 DEF RecorderTypeOK, ManagerTypeOK, OrderInv, LocalInv, EntryInv
<1>6. CASE NoteEvent
  <2>1. /\ alarm = "note" /\ alarm' = "test" /\ UNCHANGED <<queue, isShutdown>>
        /\ LifeTypeOK(Nodes)' /\ ready' = ready
    BY <1>1, <1>6, LifeUnchanged DEF NoteEvent, queueVars, life
  <2>2. active' \subseteq active \cup {[serial |-> evt.serial, idx |-> idx, age |-> 0]}
    BY <1>6 DEF NoteEvent, Without
  <2>3. evt \in Events /\ idx \in Nodes /\ idx = FindIdx(evt)
    BY <2>1 DEF RecorderTypeOK, ManagerTypeOK, LocalInv
  <2>4. active' \subseteq Entries
    BY <2>2, <2>3, ManagerAssumption DEF RecorderTypeOK, ManagerTypeOK, Entries
  <2>5. EntryInv'
    BY <2>2, <2>3 DEF EntryInv
  <2> QED
    BY <1>1, <1>2, <2>1, <2>4, <2>5 DEF RecorderTypeOK, ManagerTypeOK, OrderInv, LocalInv
<1> QED
  BY <1>3, <1>4, <1>5, <1>6 DEF AlarmThreadStep

(* The monitor thread.                                                     *)
LEMMA MonitorThreadInv ==
  ASSUME RecorderInv, Manager(MonitorStep)
  PROVE  RecorderInv'
<1> USE DEF RecorderInv, Manager, MonitorThread, queueVars
<1>1. UNCHANGED <<serverVars, main, latest, queue, isShutdown, alarm, evt, idx,
                  managerStop>>
  BY DEF MonitorStep, TestMonitorStop, CollectTimeouts, SendTimeouts
<1>2. ServerTypeOK' /\ main' = main /\ latest' = latest
  BY <1>1 DEF RecorderTypeOK, ServerTypeOK, serverVars
<1>3. /\ monitor' \in {"test", "sleep", "send", "exited"}
      /\ monitor # "exited"
  BY DEF MonitorStep, TestMonitorStop, CollectTimeouts, SendTimeouts
<1>4. active' \subseteq active /\ timedOut' \subseteq timedOut \cup active
  BY DEF MonitorStep, TestMonitorStop, CollectTimeouts, SendTimeouts, Expired
<1>5. LifeTypeOK(Nodes)' /\ ready' = ready /\ Wanted' \subseteq Wanted
  <2>1. LifeTypeOK(Nodes) /\ \A a \in timedOut : a.idx \in Nodes
    BY DEF RecorderTypeOK, ManagerTypeOK, Entries
  <2>2. CASE UNCHANGED life
    BY <2>1, <2>2, LifeUnchanged DEF life
  <2>3. CASE \E a \in timedOut : OnAlarm(a.idx, "stop")
    BY <2>1, <2>3, OnAlarmLife
  <2> QED
    BY <2>2, <2>3 DEF MonitorStep, TestMonitorStop, CollectTimeouts, SendTimeouts
<1>6. monitor' # "send" => timedOut' = {}
  BY DEF MonitorStep, TestMonitorStop, CollectTimeouts, SendTimeouts, LocalInv
<1>7. ManagerTypeOK'
  BY <1>1, <1>3, <1>4, <1>5 DEF RecorderTypeOK, ManagerTypeOK
<1>8. OrderInv'
  BY <1>1, <1>3, <1>5 DEF OrderInv
<1>9. LocalInv' /\ EntryInv'
  BY <1>1, <1>4, <1>6, <1>5 DEF LocalInv, EntryInv
<1> QED
  BY <1>2, <1>7, <1>8, <1>9 DEF RecorderTypeOK

(* Recordings that end by themselves, and time.                            *)
LEMMA OutsideInv ==
  ASSUME RecorderInv, Manager(RecordingEnds \/ Tick)
  PROVE  RecorderInv'
<1> USE DEF RecorderInv, Manager, queueVars
<1>1. UNCHANGED <<serverVars, main, latest, queue, isShutdown, alarm, evt, idx, monitor,
                  timedOut, managerStop>>
  BY DEF RecordingEnds, Tick
<1>2. ServerTypeOK' /\ main' = main /\ latest' = latest
  BY <1>1 DEF RecorderTypeOK, ServerTypeOK, serverVars
<1>3. LifeTypeOK(Nodes)' /\ ready' = ready /\ Wanted' \subseteq Wanted
  <2>1. LifeTypeOK(Nodes)
    BY DEF RecorderTypeOK, ManagerTypeOK
  <2>2. UNCHANGED life \/ \E i \in Nodes : Break(i)
    BY DEF RecordingEnds, Tick
  <2> QED
    BY <2>1, <2>2, LifeUnchanged, BreakLife DEF life
<1>4. active' \subseteq Entries /\ EntryInv'
  <2>1. CASE Manager(RecordingEnds)
    BY <2>1 DEF RecordingEnds, EntryInv, RecorderTypeOK, ManagerTypeOK
  <2>2. CASE Manager(Tick)
    <3>1. active' = {Older(a) : a \in active}
      BY <2>2 DEF Tick
    <3>2. \A a \in active :
            Older(a) \in Entries /\ Older(a).serial = a.serial /\ Older(a).idx = a.idx
      <4>1. active \subseteq Entries
        BY DEF RecorderTypeOK, ManagerTypeOK
      <4> QED
        BY <4>1 DEF Entries, Older
    <3> QED
      BY <3>1, <3>2 DEF EntryInv
  <2> QED
    BY <2>1, <2>2
<1>5. ManagerTypeOK'
  BY <1>1, <1>3, <1>4 DEF RecorderTypeOK, ManagerTypeOK
<1>6. RecorderTypeOK'
  BY <1>2, <1>5 DEF RecorderTypeOK
<1> QED
  BY <1>1, <1>3, <1>4, <1>6 DEF OrderInv, LocalInv

(* The alarm server, and the event it hands over.                          *)
LEMMA ServerThreadsInv ==
  ASSUME RecorderInv, ServerStep
  PROVE  RecorderInv'
<1> USE DEF RecorderInv, queueVars
<1>1. /\ UNCHANGED <<life, alarm, evt, idx, monitor, timedOut, active, managerStop, main,
                     isShutdown>>
      /\ queue' \in Seq(Events)
      /\ latest' \in [Nodes -> {"start", "stop", "other"}]
  <2>1. CASE Server(ListenerStep \/ Accept) \/ \E c \in Clients : Server(ClientStep(c))
    BY <2>1 DEF Server, managerVars, RecorderTypeOK, ManagerTypeOK
  <2>2. CASE \E c \in Clients : Callback(c)
    <3>1. PICK c \in Clients : Callback(c)
      BY <2>2
    <3>3. PICK e \in Events :
            /\ PushEvent(e)
            /\ latest' = [i \in Nodes |-> IF i = FindIdx(e) /\ e.status # "other"
                                          THEN e.status ELSE latest[i]]
      BY <3>1 DEF Callback
    <3>4. queue' \in Seq(Events)
      BY <3>3 DEF PushEvent, RecorderTypeOK, ManagerTypeOK
    <3>5. latest' \in [Nodes -> {"start", "stop", "other"}]
      <4>1. e.status \in {"start", "stop", "other"}
        BY ManagerAssumption
      <4> QED
        BY <3>3, <4>1 DEF RecorderTypeOK
    <3>6. UNCHANGED <<life, alarm, evt, idx, monitor, timedOut, active, managerStop, main,
                      isShutdown>>
      BY <3>1, <3>3 DEF Callback, PushEvent
    <3> QED
      BY <3>4, <3>5, <3>6
  <2> QED
    BY <2>1, <2>2 DEF ServerStep
<1>2. ServerTypeOK'
  <2>1. ServerTypeOK
    BY DEF RecorderTypeOK
  <2>2. CASE Server(ListenerStep)
    BY <2>1, <2>2 DEF Server, ListenerStep, Listener, OpenSocket, BindSocket, TestListenerStop,
       AcceptFails, CloseSocket, ServerTypeOK
  <2>3. CASE Server(Accept)
    BY <2>1, <2>3 DEF Server, Accept, Listener, ServerTypeOK
  <2>4. ASSUME NEW c \in Clients, Server(ClientStep(c)) \/ Callback(c)
        PROVE  ServerTypeOK'
    BY <2>1, <2>4 DEF Server, ClientStep, TestClientStop, Receive, HandleDone, Callback,
       HandleMessage, Client, ServerTypeOK
  <2> QED
    BY <2>2, <2>3, <2>4 DEF ServerStep, Server
<1>3. LifeTypeOK(Nodes)' /\ ready' = ready /\ Wanted' = Wanted
  <2>1. LifeTypeOK(Nodes)
    BY DEF RecorderTypeOK, ManagerTypeOK
  <2> QED
    BY <1>1, <2>1, LifeUnchanged DEF life
<1>4. ManagerTypeOK'
  BY <1>1, <1>3 DEF RecorderTypeOK, ManagerTypeOK
<1>5. RecorderTypeOK'
  BY <1>1, <1>2, <1>4 DEF RecorderTypeOK
<1> QED
  BY <1>1, <1>5, <1>3 DEF OrderInv, LocalInv, EntryInv

(* The shutdown.                                                           *)
LEMMA ShutdownLife ==
  ASSUME RecorderInv, MainStep \/ StopManager
  PROVE  /\ LifeTypeOK(Nodes)' /\ Wanted' \subseteq Wanted
         /\ ready' = ready \/ (main = "nodes" /\ main' = "nodes")
<1>1. LifeTypeOK(Nodes) /\ ready \subseteq Nodes
  BY DEF RecorderInv, RecorderTypeOK, ManagerTypeOK, LifeTypeOK
<1>2. UNCHANGED life \/ \E i \in ready : Retire(i) /\ main = "nodes" /\ main' = "nodes"
  BY DEF MainStep, StopManager, JoinAlarmThread, JoinMonitorThread, StopNodes, StopServer,
     JoinServer, StopQueue, RequestManagerStop, StopNode, ClearActive, At, managerVars
<1> QED
  BY <1>1, <1>2, LifeUnchanged, RetireLife DEF life

LEMMA ShutdownInv ==
  ASSUME RecorderInv, MainStep \/ StopManager
  PROVE  RecorderInv'
<1> USE DEF RecorderInv, queueVars, At
<1>1. ServerTypeOK'
  <2>1. ServerTypeOK
    BY DEF RecorderTypeOK
  <2> QED
    BY <2>1 DEF MainStep, StopManager, JoinAlarmThread, JoinMonitorThread, StopNodes, StopServer,
       JoinServer, StopQueue, RequestServerStop, LoadFd, ShutdownSocket, serverVars, ServerTypeOK
<1>2. /\ UNCHANGED <<alarm, evt, idx, monitor, timedOut, latest, queue>>
      /\ managerStop' \in {TRUE, managerStop} /\ isShutdown' \in {TRUE, isShutdown}
      /\ active' \subseteq active
  BY DEF MainStep, StopManager, JoinAlarmThread, JoinMonitorThread, StopNodes, StopServer,
     JoinServer, StopQueue, RequestManagerStop, StopNode, ClearActive, ShutdownQueue, managerVars
<1>3. /\ LifeTypeOK(Nodes)' /\ Wanted' \subseteq Wanted
      /\ ready' = ready \/ (main = "nodes" /\ main' = "nodes")
  BY ShutdownLife
<1>4. main' \in {"alarm", "monitor", "nodes", "server", "load", "shutdown", "listener", "clients",
                 "queue", "done"}
  BY DEF MainStep, StopManager, JoinAlarmThread, JoinMonitorThread, StopNodes, StopServer,
     JoinServer, StopQueue
<1>5. OrderInv'
  BY <1>3 DEF MainStep, StopManager, JoinAlarmThread, JoinMonitorThread, StopNodes, StopServer,
     JoinServer, StopQueue, RequestManagerStop, StopNode, ClearActive, ShutdownQueue, managerVars,
     OrderInv
<1>6. LocalInv' /\ EntryInv'
  BY <1>2, <1>3 DEF LocalInv, EntryInv
<1>7. ManagerTypeOK'
  BY <1>2, <1>3 DEF RecorderTypeOK, ManagerTypeOK
<1>8. RecorderTypeOK'
  BY <1>1, <1>2, <1>4, <1>7 DEF RecorderTypeOK
<1> QED
  BY <1>5, <1>6, <1>8

LEMMA RecorderStepInv == RecorderInv /\ [RecorderNext]_recorderVars => RecorderInv'
<1> SUFFICES ASSUME RecorderInv, [RecorderNext]_recorderVars PROVE RecorderInv'
  OBVIOUS
<1>1. CASE ManagerStep \/ Manager(Tick)
  BY <1>1, AlarmThreadInv, MonitorThreadInv, OutsideInv DEF ManagerStep, Manager
<1>2. CASE ServerStep
  BY <1>2, ServerThreadsInv
<1>3. CASE MainStep \/ StopManager
  BY <1>3, ShutdownInv
<1>4. CASE UNCHANGED recorderVars
  <2>1. LifeTypeOK(Nodes)' /\ ready' = ready /\ Wanted' = Wanted
    BY <1>4, LifeUnchanged
       DEF recorderVars, managerVars, life, RecorderInv, RecorderTypeOK, ManagerTypeOK
  <2> QED
    BY <1>4, <2>1 DEF recorderVars, managerVars, serverVars, queueVars, RecorderInv, RecorderTypeOK,
       ManagerTypeOK, ServerTypeOK, OrderInv, LocalInv, EntryInv
<1> QED
  BY <1>1, <1>2, <1>3, <1>4 DEF RecorderNext

-----------------------------------------------------------------------------
(* Theorems                                                                *)

THEOREM RecorderInductive == RecorderSpec => []RecorderInv
BY RecorderInitInv, RecorderStepInv, PTL DEF RecorderSpec

(* Every variable of the manager, the server and main has a value of its   *)
(* type; in particular only cameras that are ready record.                 *)
THEOREM RecorderTypeCorrect == RecorderSpec => []RecorderTypeOK
BY RecorderInductive, PTL DEF RecorderInv

(* The threads that call on_alarm have ended when the first node stops     *)
(* (camera_manager.cpp:34-46).                                             *)
THEOREM QuietWhenNodesStopHolds == RecorderSpec => []QuietWhenNodesStop
<1>1. RecorderInv => QuietWhenNodesStop
  BY DEF RecorderInv, RecorderTypeOK, OrderInv, QuietWhenNodesStop
<1> QED
  BY <1>1, RecorderInductive, PTL
-----------------------------------------------------------------------------
(* A recording is watched.  Taking the entry of one serial out of active_  *)
(* uncovers no other camera, because of OneCameraPerSerial.                *)

LEMMA AlarmThreadCovers ==
  ASSUME OneCameraPerSerial, RecorderInv, RecorderInv', TimerCovers, Manager(AlarmThreadStep)
  PROVE  TimerCovers'
<1> USE DEF Manager, AlarmThread, RecorderInv
<1>1. timedOut' = timedOut
  BY DEF AlarmThreadStep, TestAlarmStop, PopEvent, CallOnAlarm, NoteEvent
<1>2. CASE TestAlarmStop \/ PopEvent
  <2>1. alarm # "note" /\ active' = active /\ Wanted' = Wanted
    BY <1>2, LifeUnchanged DEF TestAlarmStop, PopEvent
  <2> QED
    BY <1>1, <2>1 DEF TimerCovers
<1>3. CASE CallOnAlarm
  <2>1. alarm = "call" /\ alarm' = "note" /\ UNCHANGED <<evt, idx, active>>
    BY <1>3 DEF CallOnAlarm
  <2>2. Wanted' \subseteq Wanted \/ (evt.status = "start" /\ Wanted' = Wanted \cup {idx})
    <3>1. LifeTypeOK(Nodes) /\ idx \in Nodes /\ OnAlarm(idx, evt.status)
      BY <1>3, <2>1 DEF CallOnAlarm, RecorderTypeOK, ManagerTypeOK
    <3> QED
      BY <3>1, OnAlarmLife
  <2> QED
    BY <1>1, <2>1, <2>2 DEF TimerCovers
<1>4. CASE NoteEvent
  <2>1. alarm = "note" /\ Wanted' = Wanted
    BY <1>4, LifeUnchanged DEF NoteEvent
  <2>2. evt \in Events /\ idx = FindIdx(evt) /\ (evt.status = "stop" => idx \notin Wanted)
    BY <2>1 DEF RecorderTypeOK, ManagerTypeOK, LocalInv
  <2>3. SUFFICES ASSUME NEW i \in Wanted
                 PROVE  (\E a \in active' : a.idx = i) \/ (\E a \in timedOut : a.idx = i)
    BY <1>1, <2>1 DEF TimerCovers
  <2>4. CASE evt.status = "start" /\ idx = i
    <3>1. [serial |-> evt.serial, idx |-> idx, age |-> 0] \in active'
      BY <1>4, <2>4 DEF NoteEvent
    <3> QED
      BY <2>4, <3>1
  <2>5. CASE ~ (evt.status = "start" /\ idx = i)
    <3>1. CASE \E a \in timedOut : a.idx = i
      BY <3>1
    <3>2. CASE \E a \in active : a.idx = i
      <4>1. PICK a \in active : a.idx = i
        BY <3>2
      <4>2. evt.status \in {"start", "stop"} => a.serial # evt.serial
        <5>1. PICK e \in Events : a.serial = e.serial /\ a.idx = FindIdx(e)
          BY DEF EntryInv
        <5>2. a.serial = evt.serial => i = idx
          BY <2>2, <4>1, <5>1 DEF OneCameraPerSerial
        <5> QED
          BY <2>2, <2>5, <5>2
      <4>3. a \in active'
        BY <1>4, <4>2 DEF NoteEvent, Without
      <4> QED
        BY <4>1, <4>3
    <3> QED
      BY <2>1, <2>5, <3>1, <3>2 DEF TimerCovers
  <2> QED
    BY <2>4, <2>5
<1> QED
  BY <1>2, <1>3, <1>4 DEF AlarmThreadStep

LEMMA MonitorThreadCovers ==
  ASSUME RecorderInv, TimerCovers, Manager(MonitorStep)
  PROVE  TimerCovers'
<1> USE DEF Manager, MonitorThread
<1>1. UNCHANGED <<alarm, evt, idx>>
  BY DEF MonitorStep, TestMonitorStop, CollectTimeouts, SendTimeouts
<1>2. CASE TestMonitorStop
  <2>1. Wanted' = Wanted
    BY <1>2, LifeUnchanged DEF TestMonitorStop
  <2> QED
    BY <1>1, <1>2, <2>1 DEF TestMonitorStop, TimerCovers
<1>3. CASE CollectTimeouts
  <2>1. Wanted' = Wanted /\ timedOut = {}
    BY <1>3, LifeUnchanged DEF CollectTimeouts, RecorderInv, LocalInv
  <2>2. \A a \in active : a \in active' \/ a \in timedOut'
    BY <1>3 DEF CollectTimeouts
  <2> QED
    BY <1>1, <2>1, <2>2 DEF TimerCovers
<1>4. CASE SendTimeouts
  <2>1. active' = active /\ LifeTypeOK(Nodes) /\ \A a \in timedOut : a.idx \in Nodes
    BY <1>4 DEF SendTimeouts, RecorderInv, RecorderTypeOK, ManagerTypeOK, Entries
  <2>2. CASE \E a \in timedOut : OnAlarm(a.idx, "stop") /\ timedOut' = timedOut \ {a}
    <3>1. PICK a \in timedOut : OnAlarm(a.idx, "stop") /\ timedOut' = timedOut \ {a}
      BY <2>2
    <3>2. Wanted' = Wanted \ {a.idx}
      BY <2>1, <3>1, OnAlarmLife
    <3> QED
      BY <1>1, <2>1, <3>1, <3>2 DEF TimerCovers
  <2>3. CASE timedOut = {} /\ UNCHANGED <<life, timedOut>>
    <3>1. Wanted' = Wanted
      BY <2>3, LifeUnchanged
    <3> QED
      BY <1>1, <2>1, <2>3, <3>1 DEF TimerCovers
  <2> QED
    BY <1>4, <2>2, <2>3 DEF SendTimeouts
<1> QED
  BY <1>2, <1>3, <1>4 DEF MonitorStep

(* Everything else only ends recordings.                                   *)
LEMMA OthersCover ==
  ASSUME RecorderInv, TimerCovers,
         Manager(RecordingEnds \/ Tick) \/ ServerStep \/ MainStep \/ StopManager
  PROVE  TimerCovers'
<1>1. CASE Manager(Tick)
  <2>1. /\ UNCHANGED <<alarm, evt, idx, timedOut>> /\ Wanted' = Wanted
        /\ active' = {Older(a) : a \in active}
    BY <1>1, LifeUnchanged DEF Manager, Tick
  <2>2. \A a \in active : Older(a).idx = a.idx
    BY DEF Older, RecorderInv, RecorderTypeOK, ManagerTypeOK, Entries
  <2>3. \A a \in active : \E b \in active' : b.idx = a.idx
    BY <2>1, <2>2
  <2> QED
    BY <2>1, <2>3 DEF TimerCovers
<1>2. CASE Manager(RecordingEnds)
  <2>1. LifeTypeOK(Nodes) /\ \E i \in Nodes : Break(i)
    BY <1>2 DEF Manager, RecordingEnds, RecorderInv, RecorderTypeOK, ManagerTypeOK
  <2>2. Wanted' \subseteq Wanted
    BY <2>1, BreakLife
  <2> QED
    BY <1>2, <2>2 DEF Manager, RecordingEnds, TimerCovers
<1>3. CASE ServerStep
  <2>1. UNCHANGED <<alarm, evt, idx, timedOut, active>> /\ Wanted' = Wanted
    BY <1>3, LifeUnchanged DEF ServerStep, Server, Callback, managerVars
  <2> QED
    BY <2>1 DEF TimerCovers
<1>4. CASE MainStep \/ StopManager
  <2>1. UNCHANGED <<alarm, evt, idx, timedOut>> /\ Wanted' \subseteq Wanted
    BY <1>4, ShutdownLife
       DEF MainStep, StopManager, JoinAlarmThread, JoinMonitorThread, StopNodes, StopServer,
           JoinServer, StopQueue, RequestManagerStop, StopNode, ClearActive, managerVars
  <2>2. active' = active \/ ready = {}
    BY <1>4 DEF MainStep, StopManager, JoinAlarmThread, JoinMonitorThread, StopNodes, StopServer,
       JoinServer, StopQueue, RequestManagerStop, StopNode, ClearActive, managerVars
  <2>3. Wanted \subseteq ready
    BY DEF RecorderInv, RecorderTypeOK, ManagerTypeOK, LifeTypeOK, Wanted
  <2> QED
    BY <2>1, <2>2, <2>3 DEF TimerCovers
<1> QED
  BY <1>1, <1>2, <1>3, <1>4 DEF Manager

(* If all messages with one serial are for one camera, a camera that       *)
(* records has an entry in active_ or is about to get one or a Stop,       *)
(* however alarms, timeouts and the shutdown are interleaved               *)
(* (camera_manager.cpp:58-73 and 88-112).                                  *)
THEOREM TimerCoversHolds ==
  ASSUME OneCameraPerSerial PROVE RecorderSpec => []TimerCovers
<1>1. RecorderInit => TimerCovers
  BY DEF RecorderInit, ManagerInit, LifeInit, Wanted, TimerCovers
<1>2. RecorderInv /\ RecorderInv' /\ TimerCovers /\ [RecorderNext]_recorderVars => TimerCovers'
  <2> SUFFICES ASSUME RecorderInv, RecorderInv', TimerCovers, [RecorderNext]_recorderVars
               PROVE  TimerCovers'
    OBVIOUS
  <2>1. CASE ManagerStep
    BY <2>1, OneCameraPerSerial, AlarmThreadCovers, MonitorThreadCovers, OthersCover
       DEF ManagerStep, Manager
  <2>2. CASE ServerStep \/ MainStep \/ StopManager \/ Manager(Tick)
    BY <2>2, OthersCover DEF Manager
  <2>3. CASE UNCHANGED recorderVars
    BY <2>3, LifeUnchanged DEF recorderVars, managerVars, TimerCovers
  <2> QED
    BY <2>1, <2>2, <2>3 DEF RecorderNext
<1> QED
  BY <1>1, <1>2, RecorderInductive, PTL DEF RecorderSpec
-----------------------------------------------------------------------------
(* The last message decides.  A camera that records, without having been   *)
(* told to stop, against its last message has a message waiting for it;    *)
(* the last one that waits is the last one that was pushed.                *)

For(i, e) == FindIdx(e) = i /\ e.status # "other"

Waiting(i, q) == \E k \in 1 .. Len(q) : For(i, q[k])

LastWaiting(i, q, k) == For(i, q[k]) /\ \A m \in k + 1 .. Len(q) : ~ For(i, q[m])

PendingInv ==
  /\ \A i \in Nodes : \A k \in 1 .. Len(queue) :
       LastWaiting(i, queue, k) => queue[k].status = latest[i]
  /\ alarm = "call" /\ evt.status # "other" /\ ~ Waiting(idx, queue) =>
       evt.status = latest[idx]
  /\ \A i \in Wanted :
       latest[i] = "start" \/ Waiting(i, queue)
         \/ (alarm = "call" /\ idx = i /\ evt.status # "other")

LEMMA CallbackPending ==
  ASSUME RecorderInv, PendingInv, NEW c \in Clients, Callback(c)
  PROVE  PendingInv'
<1>1. queue \in Seq(Events) /\ latest \in [Nodes -> {"start", "stop", "other"}]
  BY DEF RecorderInv, RecorderTypeOK, ManagerTypeOK
<1>2. PICK e \in Events :
        /\ queue' = Append(queue, e)
        /\ latest' = [i \in Nodes |-> IF i = FindIdx(e) /\ e.status # "other"
                                      THEN e.status ELSE latest[i]]
  BY DEF Callback, PushEvent
<1>3. UNCHANGED <<alarm, evt, idx>> /\ Wanted' = Wanted
  BY LifeUnchanged DEF Callback
<1>4. /\ Len(queue') = Len(queue) + 1 /\ queue'[Len(queue) + 1] = e
      /\ \A k \in 1 .. Len(queue) : queue'[k] = queue[k]
      /\ Len(queue) \in Nat
  BY <1>1, <1>2
<1>5. \A i \in Nodes : latest'[i] = IF For(i, e) THEN e.status ELSE latest[i]
  BY <1>2 DEF For
<1>6. \A i : Waiting(i, queue') <=> Waiting(i, queue) \/ For(i, e)
  BY <1>4 DEF Waiting
<1>7. ASSUME NEW i \in Nodes, NEW k \in 1 .. Len(queue'), LastWaiting(i, queue', k)
      PROVE  queue'[k].status = latest'[i]
  <2>1. CASE k = Len(queue) + 1
    BY <1>4, <1>5, <1>7, <2>1 DEF LastWaiting
  <2>2. CASE k \in 1 .. Len(queue)
    <3>1. ~ For(i, e) /\ LastWaiting(i, queue, k)
      BY <1>4, <1>7, <2>2 DEF LastWaiting
    <3> QED
      BY <1>4, <1>5, <2>2, <3>1 DEF PendingInv
  <2> QED
    BY <1>4, <2>1, <2>2
<1>8. alarm = "call" => idx \in Nodes
  BY DEF RecorderInv, RecorderTypeOK, ManagerTypeOK
<1>9. Wanted \subseteq Nodes
  BY DEF RecorderInv, RecorderTypeOK, ManagerTypeOK, LifeTypeOK, Wanted
<1> QED
  BY <1>3, <1>5, <1>6, <1>7, <1>8, <1>9 DEF PendingInv

LEMMA PopPending ==
  ASSUME RecorderInv, PendingInv, Manager(PopEvent)
  PROVE  PendingInv'
<1> USE DEF Manager, AlarmThread
<1>1. queue \in Seq(Events) /\ Wanted \subseteq Nodes
  BY DEF RecorderInv, RecorderTypeOK, ManagerTypeOK, LifeTypeOK, Wanted
<1>2. alarm = "pop" /\ latest' = latest /\ Wanted' = Wanted
  BY LifeUnchanged DEF PopEvent
<1>3. CASE PopFails
  <2>1. queue' = queue /\ alarm' = "test"
    BY <1>3 DEF PopEvent, PopFails, TryPop, queueVars
  <2> QED
    BY <1>2, <2>1 DEF PendingInv
<1>4. CASE \E e \in Events : TryPop(e)
  <2>1. PICK e \in Events : TryPop(e)
    BY <1>4
  <2>2. queue # <<>> /\ e = queue[1] /\ queue' = Tail(queue)
    BY <1>1, <2>1 DEF TryPop
  <2>3. /\ Len(queue) \in Nat \ {0} /\ Len(queue') = Len(queue) - 1
        /\ \A k \in 1 .. Len(queue') : queue'[k] = queue[k + 1]
    BY <1>1, <2>2
  <2>4. \A i : Waiting(i, queue) => Waiting(i, queue') \/ For(i, e)
    <3>1. \A k \in 1 .. Len(queue) : k = 1 \/ (k - 1 \in 1 .. Len(queue') /\ queue[k] = queue'[k - 1])
      BY <2>3
    <3> QED
      BY <2>2, <3>1 DEF Waiting
  <2>5. \A i, k : k \in 1 .. Len(queue') /\ LastWaiting(i, queue', k) => LastWaiting(i, queue, k + 1)
    <3>1. \A k \in 1 .. Len(queue') : \A m \in k + 2 .. Len(queue) :
             m - 1 \in k + 1 .. Len(queue') /\ queue[m] = queue'[m - 1]
      BY <2>3
    <3> QED
      BY <2>3, <3>1 DEF LastWaiting
  <2>6. ASSUME NEW i, For(i, e), ~ Waiting(i, queue')
        PROVE  LastWaiting(i, queue, 1)
    <3>1. \A m \in 1 + 1 .. Len(queue) : m - 1 \in 1 .. Len(queue') /\ queue[m] = queue'[m - 1]
      BY <2>3
    <3>2. \A m \in 1 + 1 .. Len(queue) : ~ For(i, queue[m])
      BY <2>6, <3>1 DEF Waiting
    <3> QED
      BY <2>2, <2>6, <3>2 DEF LastWaiting
  <2>7. \/ alarm' = "call" /\ evt' = e /\ idx' = FindIdx(e) /\ idx' \in Nodes
        \/ alarm' = "test" /\ FindIdx(e) = 0
    BY <2>1, <2>2, FindIdxType DEF PopEvent, TryPop, PopFails
  <2>8. \A i \in Nodes : \A k \in 1 .. Len(queue') :
          LastWaiting(i, queue', k) => queue'[k].status = latest'[i]
    BY <1>2, <2>3, <2>5 DEF PendingInv
  <2>9. alarm' = "call" /\ evt'.status # "other" /\ ~ Waiting(idx', queue') =>
          evt'.status = latest'[idx']
    BY <1>2, <2>2, <2>3, <2>6, <2>7 DEF PendingInv, For
  <2>10. \A i \in Wanted' :
           latest'[i] = "start" \/ Waiting(i, queue')
             \/ (alarm' = "call" /\ idx' = i /\ evt'.status # "other")
    <3>1. \A i \in Wanted : For(i, e) => alarm' = "call" /\ idx' = i /\ evt'.status # "other"
      BY <1>1, <2>7, FindIdxType DEF For
    <3> QED
      BY <1>2, <2>4, <3>1 DEF PendingInv
  <2> QED
    BY <2>8, <2>9, <2>10 DEF PendingInv
<1> QED
  BY <1>3, <1>4 DEF PopEvent

LEMMA CallPending ==
  ASSUME RecorderInv, PendingInv, Manager(CallOnAlarm)
  PROVE  PendingInv'
<1> USE DEF Manager, AlarmThread
<1>1. alarm = "call" /\ alarm' = "note" /\ UNCHANGED <<queue, evt, idx, latest>>
  BY DEF CallOnAlarm, queueVars
<1>2. /\ Wanted' \subseteq Wanted \/ (evt.status = "start" /\ Wanted' = Wanted \cup {idx})
      /\ evt.status = "stop" => Wanted' = Wanted \ {idx}
  <2>1. LifeTypeOK(Nodes) /\ idx \in Nodes /\ OnAlarm(idx, evt.status)
    BY <1>1 DEF CallOnAlarm, RecorderInv, RecorderTypeOK, ManagerTypeOK
  <2> QED
    BY <2>1, OnAlarmLife
<1>3. CASE evt.status = "stop"
  <2>1. Wanted' \subseteq Wanted \ {idx}
    BY <1>2, <1>3
  <2> QED
    BY <1>1, <2>1 DEF PendingInv
<1>4. CASE evt.status = "start"
  <2>1. Wanted' \subseteq Wanted \cup {idx}
    BY <1>2
  <2>2. Waiting(idx, queue) \/ latest[idx] = "start"
    BY <1>1, <1>4 DEF PendingInv
  <2> QED
    BY <1>1, <2>1, <2>2 DEF PendingInv
<1>5. CASE evt.status = "other"
  <2>1. Wanted' \subseteq Wanted
    BY <1>2, <1>5
  <2> QED
    BY <1>1, <1>5, <2>1 DEF PendingInv
<1> QED
  BY <1>1, <1>3, <1>4, <1>5, ManagerAssumption DEF RecorderInv, RecorderTypeOK, ManagerTypeOK

(* Steps that touch neither the queue nor the alarm thread.                *)
LEMMA OthersPending ==
  ASSUME PendingInv, UNCHANGED <<queue, evt, idx, latest>>, Wanted' \subseteq Wanted,
         alarm' = alarm \/ (alarm # "call" /\ alarm' # "call")
  PROVE  PendingInv'
BY DEF PendingInv

LEMMA PendingStep == RecorderInv /\ PendingInv /\ [RecorderNext]_recorderVars => PendingInv'
<1> SUFFICES ASSUME RecorderInv, PendingInv, [RecorderNext]_recorderVars PROVE PendingInv'
  OBVIOUS
<1>1. CASE Manager(PopEvent)
  BY <1>1, PopPending
<1>2. CASE Manager(CallOnAlarm)
  BY <1>2, CallPending
<1>3. CASE \E c \in Clients : Callback(c)
  BY <1>3, CallbackPending
<1>4. CASE Manager(NoteEvent)
  <2>1. alarm' = "test" /\ UNCHANGED <<queue, latest>> /\ Wanted' = Wanted
    BY <1>4, LifeUnchanged DEF Manager, NoteEvent, AlarmThread, queueVars
  <2>2. alarm = "note"
    BY <1>4 DEF Manager, NoteEvent, AlarmThread
  <2> QED
    BY <2>1, <2>2 DEF PendingInv
<1>5. CASE Manager(TestAlarmStop)
  <2>1. /\ UNCHANGED <<queue, evt, idx, latest>> /\ Wanted' = Wanted
        /\ alarm # "call" /\ alarm' # "call"
    BY <1>5, LifeUnchanged DEF Manager, TestAlarmStop, AlarmThread, queueVars
  <2> QED
    BY <2>1, OthersPending
<1>6. CASE Manager(MonitorStep) \/ Manager(RecordingEnds \/ Tick)
  <2>1. UNCHANGED <<queue, alarm, evt, idx, latest>>
    BY <1>6 DEF Manager, MonitorStep, MonitorThread, TestMonitorStop, CollectTimeouts, SendTimeouts,
       RecordingEnds, Tick, queueVars
  <2>2. LifeTypeOK(Nodes) /\ \A a \in timedOut : a.idx \in Nodes
    BY DEF RecorderInv, RecorderTypeOK, ManagerTypeOK, Entries
  <2>3. \/ UNCHANGED life
        \/ \E i \in Nodes : Break(i)
        \/ \E a \in timedOut : OnAlarm(a.idx, "stop")
    BY <1>6 DEF Manager, MonitorStep, TestMonitorStop, CollectTimeouts, SendTimeouts, RecordingEnds,
       Tick
  <2>4. Wanted' \subseteq Wanted
    BY <2>2, <2>3, LifeUnchanged, BreakLife, OnAlarmLife
  <2> QED
    BY <2>1, <2>4, OthersPending
<1>7. CASE Server(ListenerStep \/ Accept) \/ \E c \in Clients : Server(ClientStep(c))
  <2>1. UNCHANGED <<queue, alarm, evt, idx, latest>> /\ Wanted' = Wanted
    BY <1>7, LifeUnchanged DEF Server, managerVars, queueVars
  <2> QED
    BY <2>1, OthersPending
<1>8. CASE MainStep \/ StopManager
  <2>1. UNCHANGED <<queue, alarm, evt, idx, latest>>
    BY <1>8 DEF MainStep, StopManager, JoinAlarmThread, JoinMonitorThread, StopNodes, StopServer,
       JoinServer, StopQueue, RequestManagerStop, StopNode, ClearActive, ShutdownQueue, At,
       managerVars, queueVars
  <2>2. Wanted' \subseteq Wanted
    BY <1>8, ShutdownLife
  <2> QED
    BY <2>1, <2>2, OthersPending
<1>9. CASE UNCHANGED recorderVars
  <2>1. UNCHANGED <<queue, alarm, evt, idx, latest>> /\ Wanted' = Wanted
    BY <1>9, LifeUnchanged DEF recorderVars, managerVars, queueVars
  <2> QED
    BY <2>1, OthersPending
<1> QED
  BY <1>1, <1>2, <1>3, <1>4, <1>5, <1>6, <1>7, <1>8, <1>9
     DEF RecorderNext, ManagerStep, ServerStep, AlarmThreadStep, Manager

(* However messages of several connections, timeouts and lost streams are  *)
(* interleaved: once the queue is drained, no camera records whose last    *)
(* message was a Stop (alarm_queue.cpp:4-30, camera_manager.cpp:51-112).   *)
THEOREM LastAlarmDecides == RecorderSpec => []LastAlarmHolds
<1>1. RecorderInit => PendingInv
  <2> SUFFICES ASSUME RecorderInit PROVE PendingInv
    OBVIOUS
  <2>1. queue = <<>> /\ alarm = "test" /\ Wanted = {}
    BY DEF RecorderInit, ManagerInit, QueueInit, LifeInit, Wanted
  <2> QED
    BY <2>1 DEF PendingInv
<1>2. PendingInv => LastAlarmHolds
  BY DEF PendingInv, LastAlarmHolds, Waiting
<1> QED
  BY <1>1, <1>2, PendingStep, RecorderInductive, PTL DEF RecorderSpec

=============================================================================
