------------------------------ MODULE CameraCalls ------------------------------
(***************************************************************************)
(* One camera, number 1, with the calls that reach it.  A call of on_alarm *)
(* begins and returns in separate steps, so that a Stop shows even if the  *)
(* camera ignores it (a Start that is ignored may go unseen); its effect   *)
(* on the recording is that of OnAlarm, and comes with its return.         *)
(* Besides the calls there are a connection that is found and lost, and    *)
(* CameraNode::stop.  Nothing else touches the recording: not a packet,    *)
(* not a rotation, not the end of a post-buffer.                           *)
(***************************************************************************)
EXTENDS CameraLife

VARIABLES
  alarmCall,    \* the call of the alarm thread: a status, or "none"
  timeoutCall,  \* the call of the monitor thread: "stop", or "none"
  connected     \* the connection was found, and no loss reported since

calls == <<life, alarmCall, timeoutCall, connected>>

CallsInit ==
  /\ LifeInit({1})
  /\ alarmCall = "none" /\ timeoutCall = "none" /\ connected = FALSE

AlarmBegins(status) ==
  /\ alarmCall = "none" /\ 1 \in ready
  /\ alarmCall' = status
  /\ UNCHANGED <<life, timeoutCall, connected>>

AlarmReturns ==
  /\ alarmCall # "none"
  /\ OnAlarm(1, alarmCall)
  /\ alarmCall' = "none"
  /\ UNCHANGED <<timeoutCall, connected>>

TimeoutBegins ==
  /\ timeoutCall = "none" /\ 1 \in ready
  /\ timeoutCall' = "stop"
  /\ UNCHANGED <<life, alarmCall, connected>>

TimeoutReturns ==
  /\ timeoutCall # "none"
  /\ OnAlarm(1, timeoutCall)
  /\ timeoutCall' = "none"
  /\ UNCHANGED <<alarmCall, connected>>

Found ==
  /\ connected' = TRUE
  /\ UNCHANGED <<life, alarmCall, timeoutCall>>

(* A loss that is reported breaks the recording there is.                  *)
LoseConnection ==
  /\ connected /\ connected' = FALSE
  /\ Break(1) \/ (1 \notin recording /\ UNCHANGED life)
  /\ UNCHANGED <<alarmCall, timeoutCall>>

(* CameraNode::stop, when no call is under way.                            *)
Ends ==
  /\ alarmCall = "none" /\ timeoutCall = "none"
  /\ Retire(1)
  /\ UNCHANGED <<alarmCall, timeoutCall, connected>>

CallsNext ==
  \/ \E status \in {"start", "stop"} : AlarmBegins(status)
  \/ AlarmReturns \/ TimeoutBegins \/ TimeoutReturns
  \/ Found \/ LoseConnection \/ Ends

CallsSpec == CallsInit /\ [][CallsNext]_calls

=============================================================================
