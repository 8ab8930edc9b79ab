----------------------------- MODULE CameraManager -----------------------------
(***************************************************************************)
(* The camera manager (camera_manager.cpp): the alarm thread takes events  *)
(* from the queue and calls on_alarm of the camera they are for; the       *)
(* monitor thread ends events that last too long.  Both keep the map of    *)
(* active events, under state_mtx_, but call on_alarm without it.          *)
(*                                                                         *)
(* What on_alarm does to a camera, when it returns, is what CameraLife     *)
(* says of that call; CameraCalls says so of one camera with its calls     *)
(* named, and CameraNode implements it.                                    *)
(***************************************************************************)
EXTENDS AlarmQueue, CameraLife, Naturals

CONSTANTS
  Cameras,    \* cfg_.cameras: records with serialid, ip and timeout
  Global,     \* cfg_.global: a record with timeout
  Events      \* alarm events: records with serial, ip and status

Nodes == 1 .. Len(Cameras)

ASSUME ManagerAssumption ==
  /\ Cameras \in Seq([serialid : STRING, ip : Nat, timeout : Nat])
  /\ Global \in [timeout : Nat]
  /\ \A e \in Events : e.status \in {"start", "stop", "other"}

VARIABLES
  alarm,       \* where alarm_loop is
  evt, idx,    \* its local variables
  monitor,     \* where monitor_loop is
  timedOut,    \* its local variable
  active,      \* active_: at most one record per serial
  managerStop  \* the stop token of both threads

managerVars == <<queueVars, life, alarm, evt, idx, monitor, timedOut, active, managerStop>>

Entries == [serial : {e.serial : e \in Events}, idx : Nodes, age : Nat]

ManagerTypeOK ==
  /\ queue \in Seq(Events) /\ isShutdown \in BOOLEAN
  /\ alarm \in {"test", "pop", "call", "note", "exited"}
  /\ alarm \in {"call", "note"} => evt \in Events /\ idx \in Nodes
  /\ monitor \in {"test", "sleep", "send", "exited"}
  /\ timedOut \subseteq Entries /\ active \subseteq Entries
  /\ LifeTypeOK(Nodes)
  /\ managerStop \in BOOLEAN

ManagerInit ==
  /\ QueueInit /\ LifeInit(Nodes)
  /\ alarm = "test" /\ evt = <<>> /\ idx = 0
  /\ monitor = "test" /\ timedOut = {} /\ active = {}
  /\ managerStop = FALSE

(***************************************************************************)
(* The maps of initialize: a later camera with the same serial or address  *)
(* replaces an earlier one.  find_idx asks by_serial_, then by_hex_;       *)
(* by_dotted_ holds the same addresses in another notation.                *)
(***************************************************************************)
Latest(S) == CHOOSE i \in S : \A j \in S : j <= i

BySerial(s) == {i \in Nodes : Cameras[i].serialid = s}

ByAddress(a) == {i \in Nodes : Cameras[i].ip = a}

FindIdx(e) ==
  IF BySerial(e.serial) # {} THEN Latest(BySerial(e.serial))
  ELSE IF ByAddress(e.ip) # {} THEN Latest(ByAddress(e.ip))
  ELSE 0

Timeout(i) == IF Cameras[i].timeout > 0 THEN Cameras[i].timeout ELSE Global.timeout

-----------------------------------------------------------------------------
(* alarm_loop                                                              *)

AlarmThread(here, there) ==
  /\ alarm = here /\ alarm' = there
  /\ UNCHANGED <<monitor, timedOut, managerStop>>

TestAlarmStop ==
  /\ AlarmThread("test", IF managerStop THEN "exited" ELSE "pop")
  /\ UNCHANGED <<queueVars, life, evt, idx, active>>

(* An event for an unknown camera is dropped.                              *)
PopEvent ==
  /\ \/ \E e \in Events :
          /\ TryPop(e) /\ FindIdx(e) # 0
          /\ AlarmThread("pop", "call")
          /\ evt' = e /\ idx' = FindIdx(e)
     \/ \E e \in Events :
          /\ TryPop(e) /\ FindIdx(e) = 0
          /\ AlarmThread("pop", "test")
          /\ UNCHANGED <<evt, idx>>
     \/ PopFails /\ AlarmThread("pop", "test") /\ UNCHANGED <<evt, idx>>
  /\ UNCHANGED <<life, active>>

CallOnAlarm ==
  /\ AlarmThread("call", "note")
  /\ OnAlarm(idx, evt.status)
  /\ UNCHANGED <<queueVars, evt, idx, active>>

Without(s) == {a \in active : a.serial # s}

(* The entry of the serial in the event, whatever camera it was found by,  *)
(* is replaced or erased.                                                  *)
NoteEvent ==
  /\ AlarmThread("note", "test")
  /\ active' = CASE evt.status = "start" ->
                      Without(evt.serial)
                        \cup {[serial |-> evt.serial, idx |-> idx, age |-> 0]}
                 [] evt.status = "stop" -> Without(evt.serial)
                 [] OTHER -> active
  /\ evt' = <<>> /\ idx' = 0
  /\ UNCHANGED <<queueVars, life>>

AlarmThreadStep == TestAlarmStop \/ PopEvent \/ CallOnAlarm \/ NoteEvent

-----------------------------------------------------------------------------
(* monitor_loop and check_timeouts                                         *)

MonitorThread(here, there) ==
  /\ monitor = here /\ monitor' = there
  /\ UNCHANGED <<queueVars, alarm, evt, idx, managerStop>>

TestMonitorStop ==
  /\ MonitorThread("test", IF managerStop THEN "exited" ELSE "sleep")
  /\ UNCHANGED <<life, timedOut, active>>

Expired == {a \in active : a.age >= Timeout(a.idx)}

(* Mutant: what has expired is not sent a Stop.                            *)
CollectTimeouts_Forgets ==
  /\ MonitorThread("sleep", "send")
  /\ timedOut' = {}
  /\ active' = active \ Expired
  /\ UNCHANGED life

(* A global timeout of 0 turns the timeouts of all cameras off.            *)
CollectTimeouts ==
  /\ IF Global.timeout = 0
     THEN MonitorThread("sleep", "test") /\ UNCHANGED <<timedOut, active>>
     ELSE /\ MonitorThread("sleep", "send")
          /\ timedOut' = Expired
          /\ active' = active \ Expired
  /\ UNCHANGED life

(* state_mtx_ is released; the Stops follow one by one.                    *)
SendTimeouts ==
  /\ \/ \E a \in timedOut :
          /\ MonitorThread("send", "send")
          /\ OnAlarm(a.idx, "stop") /\ timedOut' = timedOut \ {a}
     \/ timedOut = {} /\ MonitorThread("send", "test") /\ UNCHANGED <<life, timedOut>>
  /\ UNCHANGED active

MonitorStep == TestMonitorStop \/ CollectTimeouts \/ SendTimeouts

-----------------------------------------------------------------------------
(* The rest of the program                                                 *)

(* A camera loses its connection.                                          *)
RecordingEnds ==
  /\ \E i \in Nodes : Break(i)
  /\ UNCHANGED <<queueVars, alarm, evt, idx, monitor, timedOut, active, managerStop>>

(* The age of an event is counted up to the timeout of its camera.         *)
Older(a) == [a EXCEPT !.age = IF @ < Timeout(a.idx) THEN @ + 1 ELSE @]

Tick ==
  /\ active' = {Older(a) : a \in active}
  /\ UNCHANGED <<queueVars, life, alarm, evt, idx, monitor, timedOut, managerStop>>

(* CameraManager::stop up to the joins, a node after another, the end.     *)
RequestManagerStop ==
  /\ managerStop' = TRUE
  /\ UNCHANGED <<queueVars, life, alarm, evt, idx, monitor, timedOut, active>>

StopNode(i) ==
  /\ Retire(i)
  /\ UNCHANGED <<queueVars, alarm, evt, idx, monitor, timedOut, active, managerStop>>

ClearActive ==
  /\ active' = {}
  /\ UNCHANGED <<queueVars, life, alarm, evt, idx, monitor, timedOut, managerStop>>

=============================================================================
