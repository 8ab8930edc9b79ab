------------------------------ MODULE AlarmQueue ------------------------------
(***************************************************************************)
(* The queue between the alarm server and the camera manager               *)
(* (alarm_queue.cpp).  Every operation changes the queue while it holds    *)
(* the mutex and notifies after it has released it.  The only consumer     *)
(* waits with a time limit and looks at the queue again when it is over,   *)
(* so a notification that comes too early delays an event and cannot lose  *)
(* it; waiting is therefore no state of its own.                           *)
(***************************************************************************)
EXTENDS Sequences

VARIABLES
  queue,        \* queue_
  isShutdown    \* is_shutdown_

queueVars == <<queue, isShutdown>>

QueueInit == queue = <<>> /\ isShutdown = FALSE

(* Mutant: the newest event is served first.                               *)
PushEvent_Front(e) == queue' = <<e>> \o queue /\ UNCHANGED isShutdown

PushEvent(e) == queue' = Append(queue, e) /\ UNCHANGED isShutdown

(* try_pop returns an event, also one left over after a shutdown.          *)
TryPop(e) ==
  /\ queue # <<>> /\ e = Head(queue)
  /\ queue' = Tail(queue)
  /\ UNCHANGED isShutdown

(* Its time is over, or the queue has been shut down, and it is empty.     *)
PopFails == queue = <<>> /\ UNCHANGED queueVars

ShutdownQueue == isShutdown' = TRUE /\ UNCHANGED queue

=============================================================================
