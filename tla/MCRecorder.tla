------------------------------ MODULE MCRecorder ------------------------------
(* Two cameras.  The second has a timeout of its own and is reached by its *)
(* serial, from an address that is the first one's, and by its address,    *)
(* with a serial no camera has: it may have two entries among the active   *)
(* events, and a Stop removes only one of them.                            *)
EXTENDS Recorder

MCCameras == <<[serialid |-> "A", ip |-> 1, timeout |-> 0],
               [serialid |-> "B", ip |-> 2, timeout |-> 1]>>

MCGlobal == [timeout |-> 1]

MCEvents ==
  {[serial |-> "B", ip |-> 1, status |-> "start"],
   [serial |-> "X", ip |-> 2, status |-> "start"],
   [serial |-> "X", ip |-> 2, status |-> "stop"]}

ASSUME OneCameraPerSerial

=============================================================================
