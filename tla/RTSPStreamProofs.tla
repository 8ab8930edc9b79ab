--------------------------- MODULE RTSPStreamProofs ---------------------------
(***************************************************************************)
(* Proofs about RTSPStream: its invariants, the callbacks it makes, and    *)
(* that it implements StreamCycle, on which the proofs about a camera rest.*)
(***************************************************************************)
EXTENDS RTSPStream, Induction

InReadLoop == {"arm", "enable", "close"} \cup HoldsPacket

(* What the worker knows about the connection where it is, and what it has *)
(* told.                                                                   *)
ReportInv ==
  /\ (wasConnected => told = "found") /\ (told = "found" => wasConnected)
  /\ worker \in InReadLoop \cup {"mark"} => wasConnected /\ alive
  /\ worker = "found" => ~wasConnected /\ alive
  /\ worker \in {"lostDown", "lostLive"} => wasConnected /\ ~alive
  /\ worker \in {"retry", "backoff"} => ~wasConnected /\ ~alive
  /\ worker = "conclude" => wasConnected /\ ~alive
  /\ worker = "exited" /\ ~stopping => ~wasConnected /\ ~alive

(* The worker's token is set before it is waited for, and it has ended     *)
(* before its input is closed for it.                                      *)
StopInv ==
  /\ main \in {"stopping", "closing", "done"} => stopping
  /\ main = "closing" => worker = "exited"

StreamInv == StreamTypeOK /\ ReportInv /\ StopInv /\ WatchdogOnlyOnConnection /\ PacketsReturned

LEMMA StreamInitInv == StreamInit => StreamInv
<1> SUFFICES ASSUME StreamInit PROVE StreamInv
  OBVIOUS
<1> USE StreamAssumption, PoolAssumption
    DEF StreamInit, PoolInit, PoolTypeOK, InputOpen, HoldsPacket, InReadLoop
<1>1. StreamTypeOK
  <2>1. age \in 0 .. ReadTimeout + 1 /\ lag \in 0 .. MaxLag
    OBVIOUS
  <2>2. sample \in - MaxLag .. ReadTimeout + 1
    OBVIOUS
  <2>3. others \in 0 .. Borrowers /\ PoolTypeOK
    OBVIOUS
  <2> QED
    BY <2>1, <2>2, <2>3 DEF StreamTypeOK
<1>2. ReportInv /\ StopInv /\ WatchdogOnlyOnConnection
  BY DEF ReportInv, StopInv, WatchdogOnlyOnConnection
<1>3. PacketsReturned
  BY DEF PacketsReturned
<1> QED
  BY <1>1, <1>2, <1>3 DEF StreamInv

(* What a step of the worker leaves alone.                                 *)
LEMMA WorkerFrame ==
  ASSUME WorkerStep \/ ReadStep
  PROVE  UNCHANGED <<watchdog, stopVars, reader, others>>
  BY DEF WorkerStep, ReadStep, BeginAttempt, OpenInput, MarkDown, TellLost, Retry, BackOff,
    Connected, TellFound, Arm, EnterRead, Leave, CloseInput, Conclude, ReadReturns,
    ReadInterrupted, ReadFails, Worker

LEMMA WorkerReport ==
  ASSUME StreamTypeOK, ReportInv, WorkerStep \/ ReadStep
  PROVE  ReportInv'
<1> USE DEF StreamTypeOK, ReportInv, InReadLoop, HoldsPacket, InputOpen, WorkerStep, ReadStep,
      BeginAttempt, OpenInput, MarkDown, TellLost, Retry, BackOff, Connected, TellFound, Arm,
      EnterRead, Leave, CloseInput, Conclude, ReadReturns, ReadInterrupted, ReadFails,
      Worker, At, stopVars
<1>1. (wasConnected' => told' = "found") /\ (told' = "found" => wasConnected')
  OBVIOUS
<1>2. worker' \in InReadLoop \cup {"mark"} => wasConnected' /\ alive'
  OBVIOUS
<1>3. worker' = "found" => ~wasConnected' /\ alive'
  OBVIOUS
<1>4. worker' \in {"lostDown", "lostLive"} => wasConnected' /\ ~alive'
  OBVIOUS
<1>5. worker' \in {"retry", "backoff"} => ~wasConnected' /\ ~alive'
  OBVIOUS
<1>6. worker' = "conclude" => wasConnected' /\ ~alive'
  OBVIOUS
<1>7. worker' = "exited" /\ ~stopping' => ~wasConnected' /\ ~alive'
  OBVIOUS
<1> QED
  BY <1>1, <1>2, <1>3, <1>4, <1>5, <1>6, <1>7

(* The worker keeps the types.  A packet it gives back is one that it      *)
(* holds, so there is one to be counted down.                              *)
LEMMA WorkerTypes ==
  ASSUME StreamTypeOK, PacketsReturned, WorkerStep \/ ReadStep
  PROVE  StreamTypeOK' /\ PacketsReturned'
<1> USE DEF WorkerStep, ReadStep,
      BeginAttempt, OpenInput, MarkDown, TellLost, Retry, BackOff, Connected, TellFound, Arm,
      EnterRead, Leave, CloseInput, Conclude, ReadReturns, ReadInterrupted, ReadFails,
      Worker, At, stopVars
<1>1. worker' \in {"top", "cleared", "opening", "failed", "lostDown", "retry", "backoff",
                  "mark", "conclude", "lostLive", "exited"} \cup InputOpen
  BY DEF StreamTypeOK, InputOpen, HoldsPacket
<1>2. wasConnected' \in BOOLEAN /\ lost' \in BOOLEAN
  BY DEF StreamTypeOK
<1>3. alive' \in BOOLEAN /\ input' \in BOOLEAN
  BY DEF StreamTypeOK
<1>4. interrupt' \in BOOLEAN /\ enabled' \in BOOLEAN
  BY DEF StreamTypeOK
<1>5. attempts' \in Nat /\ delay' \in Nat
  BY StreamAssumption DEF StreamTypeOK, Smaller
<1>6. age' \in 0 .. ReadTimeout + 1
      /\ sample' \in - MaxLag .. ReadTimeout + 1 /\ lag' \in 0 .. MaxLag
  <2>1. UNCHANGED clock \/ Stamp
    BY DEF StreamTypeOK
  <2>2. CASE UNCHANGED clock
    BY <2>2 DEF StreamTypeOK, clock
  <2>3. CASE Stamp
    BY <2>3, StreamAssumption DEF StreamTypeOK, Stamp
  <2> QED
    BY <2>1, <2>2, <2>3
<1>7. told' \in {"nothing", "found", "lost"}
  BY DEF StreamTypeOK
<1>8. (worker' \in InputOpen => input') /\ (input' => worker' \in InputOpen)
  BY DEF StreamTypeOK, InputOpen, HoldsPacket
<1>9. UNCHANGED <<watchdog, stopVars, reader, others>>
  BY WorkerFrame
<1>10. PoolTypeOK' /\ PacketsReturned'
  <2> USE PoolAssumption, StreamAssumption DEF StreamTypeOK, PoolTypeOK, PacketsReturned
  <2>1. CASE UNCHANGED pool
    <3>1. worker \in HoldsPacket <=> worker' \in HoldsPacket
      BY <2>1 DEF HoldsPacket, pool, Leave, Acquire, Release
    <3> QED
      BY <2>1, <3>1, <1>9 DEF pool
  <2>2. CASE Acquire /\ worker \notin HoldsPacket /\ worker' \in HoldsPacket
    BY <2>2, <1>9 DEF Acquire
  <2>3. CASE Release /\ worker \in HoldsPacket /\ worker' \notin HoldsPacket
    BY <2>3, <1>9 DEF Release
  <2>4. \/ UNCHANGED pool
        \/ Acquire /\ worker \notin HoldsPacket /\ worker' \in HoldsPacket
        \/ Release /\ worker \in HoldsPacket /\ worker' \notin HoldsPacket
    BY DEF HoldsPacket
  <2> QED
    BY <2>1, <2>2, <2>3, <2>4
<1> QED
  BY <1>1, <1>2, <1>3, <1>4, <1>5, <1>6, <1>7, <1>8, <1>9, <1>10 DEF StreamTypeOK, stopVars

LEMMA WorkerStepInv ==
  ASSUME StreamInv, WorkerStep \/ ReadStep
  PROVE  StreamInv'
<1>1. StreamTypeOK' /\ PacketsReturned'
  BY WorkerTypes DEF StreamInv
<1>2. ReportInv'
  BY WorkerReport DEF StreamInv
<1>3. StopInv'
  <2>1. worker # "exited"
    BY DEF WorkerStep, ReadStep, BeginAttempt, OpenInput, MarkDown, TellLost, Retry, BackOff,
      Connected, TellFound, Arm, EnterRead, Leave, CloseInput, Conclude, ReadReturns,
      ReadInterrupted, ReadFails, Worker, At
  <2> QED
    BY <2>1, WorkerFrame DEF StreamInv, StopInv, stopVars
<1>4. WatchdogOnlyOnConnection'
  BY DEF StreamInv, WatchdogOnlyOnConnection, HoldsPacket, WorkerStep, ReadStep,
    BeginAttempt, OpenInput, MarkDown, TellLost, Retry, BackOff, Connected, TellFound, Arm,
    EnterRead, Leave, CloseInput, Conclude, ReadReturns, ReadInterrupted, ReadFails, Worker, At
<1> QED
  BY <1>1, <1>2, <1>3, <1>4 DEF StreamInv

(* The watchdog and time leave the connection alone.                       *)
LEMMA WatchdogStepInv ==
  ASSUME StreamInv, WatchdogStep \/ Tick
  PROVE  StreamInv' /\ UNCHANGED <<connection, stopping>>
<1> USE DEF WatchdogStep, Wake, ReadClock, LoadTime, Fire, Tick, Watchdog, connection, stopVars
<1>1. UNCHANGED <<connection, stopVars, reader, pool, others, told>>
  OBVIOUS
<1>2. interrupt' \in BOOLEAN /\ enabled' \in BOOLEAN
  BY DEF StreamInv, StreamTypeOK
<1>10. enabled' = FALSE \/ UNCHANGED enabled
  OBVIOUS
<1>3. watchdog' \in {"test", "sleep", "clock", "load", "fire", "disarm", "exited"}
  BY DEF StreamInv, StreamTypeOK
<1>4. age' \in 0 .. ReadTimeout + 1
  BY StreamAssumption DEF StreamInv, StreamTypeOK, Smaller
<1>5. sample' \in - MaxLag .. ReadTimeout + 1
  BY StreamAssumption DEF StreamInv, StreamTypeOK
<1>6. lag' \in 0 .. MaxLag
  BY StreamAssumption DEF StreamInv, StreamTypeOK, Smaller
<1> HIDE DEF WatchdogStep, Wake, ReadClock, LoadTime, Fire, Tick
<1>7. StreamTypeOK'
  BY <1>1, <1>2, <1>3, <1>4, <1>5, <1>6
  DEF StreamInv, StreamTypeOK, PoolTypeOK, pool
<1>8. ReportInv' /\ StopInv'
  BY <1>1 DEF StreamInv, ReportInv, StopInv
<1>9. WatchdogOnlyOnConnection' /\ PacketsReturned'
  BY <1>1, <1>10 DEF StreamInv, WatchdogOnlyOnConnection, PacketsReturned, pool
<1> QED
  BY <1>1, <1>7, <1>8, <1>9 DEF StreamInv

(* stop, the readers and the other streams.                                *)
LEMMA OtherStepInv ==
  ASSUME StreamInv, Disable \/ StopStep \/ GetParams \/ Borrow
  PROVE  StreamInv' /\ UNCHANGED <<worker, wasConnected, alive, told>>
<1>1. CASE Disable \/ StopStep
  <2> USE DEF Disable, StopStep, Interrupt, StopWatchdog, StopWorker, JoinWorker, Main
  <2>1. UNCHANGED <<worker, wasConnected, attempts, delay, lost, alive, clock, watchdog,
                    reader, pool, others, told>>
    BY <1>1
  <2>2. /\ interrupt' \in BOOLEAN /\ enabled' \in BOOLEAN
        /\ watchdogStop' \in BOOLEAN /\ stopping' \in BOOLEAN
    BY <1>1 DEF StreamInv, StreamTypeOK
  <2>11. /\ enabled' = FALSE \/ UNCHANGED enabled
         /\ stopping' = TRUE \/ UNCHANGED stopping
    BY <1>1
  <2>3. main' \in {"disabled", "interrupted", "joinWatchdog", "stopping", "closing", "done"}
    BY <1>1
  <2>4. input' = input \/ (worker = "exited" /\ input' = FALSE)
    BY <1>1 DEF StreamInv, StopInv
  <2>5. StopInv'
    BY <1>1 DEF StreamInv, StopInv
  <2> HIDE DEF Disable, StopStep, Interrupt, StopWatchdog, StopWorker, JoinWorker, Main
  <2>6. (worker \in InputOpen => input') /\ (input' => worker \in InputOpen)
    BY <2>4 DEF StreamInv, StreamTypeOK, InputOpen, HoldsPacket
  <2>7. input' \in BOOLEAN
    BY <2>4 DEF StreamInv, StreamTypeOK
  <2>8. StreamTypeOK'
    BY <2>1, <2>2, <2>3, <2>6, <2>7 DEF StreamInv, StreamTypeOK, PoolTypeOK, pool, clock
  <2>9. ReportInv'
    BY <2>1, <2>11 DEF StreamInv, ReportInv
  <2>10. WatchdogOnlyOnConnection' /\ PacketsReturned'
    BY <2>1, <2>11 DEF StreamInv, WatchdogOnlyOnConnection, PacketsReturned, pool
  <2> QED
    BY <2>1, <2>5, <2>8, <2>9, <2>10 DEF StreamInv
<1>2. CASE GetParams
  BY <1>2 DEF GetParams, Reader, StreamInv, StreamTypeOK, ReportInv, StopInv,
    WatchdogOnlyOnConnection, PacketsReturned, PoolTypeOK, pool, connection, clock, stopVars
<1>3. CASE Borrow
  <2>1. UNCHANGED <<connection, interrupt, enabled, clock, watchdog, stopVars, reader, told>>
    BY <1>3 DEF Borrow
  <2>2. others' \in 0 .. Borrowers /\ PoolTypeOK' /\ PacketsReturned'
    <3> USE PoolAssumption, StreamAssumption
        DEF StreamInv, StreamTypeOK, PoolTypeOK, PacketsReturned
    <3>1. worker' = worker
      BY <2>1 DEF connection
    <3>2. CASE others < Borrowers /\ Acquire /\ others' = others + 1
      BY <3>1, <3>2 DEF Acquire
    <3>3. CASE others > 0 /\ Release /\ others' = others - 1
      <4>1. free \in Nat /\ live >= 1
        BY <3>3
      <4>2. CASE free < PoolCapacity
        BY <3>1, <3>3, <4>1, <4>2 DEF Release
      <4>3. CASE ~(free < PoolCapacity)
        BY <3>1, <3>3, <4>1, <4>3 DEF Release
      <4> QED
        BY <4>2, <4>3
    <3> QED
      BY <1>3, <3>2, <3>3 DEF Borrow
  <2>3. StreamTypeOK'
    BY <2>1, <2>2 DEF StreamInv, StreamTypeOK, connection, clock, stopVars
  <2>4. ReportInv' /\ StopInv' /\ WatchdogOnlyOnConnection'
    BY <2>1 DEF StreamInv, ReportInv, StopInv, WatchdogOnlyOnConnection, connection, stopVars
  <2> QED
    BY <2>1, <2>2, <2>3, <2>4 DEF StreamInv, connection
<1> QED
  BY <1>1, <1>2, <1>3

LEMMA StreamStep == StreamInv /\ [StreamNext]_streamVars => StreamInv'
<1> SUFFICES ASSUME StreamInv, [StreamNext]_streamVars PROVE StreamInv'
  OBVIOUS
<1>1. CASE UNCHANGED streamVars
  BY <1>1 DEF streamVars, StreamInv, StreamTypeOK, ReportInv, StopInv,
    WatchdogOnlyOnConnection, PacketsReturned, PoolTypeOK, pool, connection, clock, stopVars
<1> QED
  BY <1>1, WorkerStepInv, WatchdogStepInv, OtherStepInv DEF StreamNext

(* StreamInv holds in every reachable state.                               *)
THEOREM StreamInductive == StreamSpec => []StreamInv
  BY StreamInitInv, StreamStep, PTL DEF StreamSpec

-----------------------------------------------------------------------------
(* What follows from the invariant                                         *)

(* The types, and that the input is open from open_input to close_input.   *)
THEOREM StreamTypeCorrect == StreamSpec => []StreamTypeOK
<1>1. StreamInv => StreamTypeOK
  BY DEF StreamInv
<1> QED
  BY StreamInductive, <1>1, PTL

(* A camera that is down is known to be down.                              *)
THEOREM LossKnownWhileDownHolds == StreamSpec => []LossKnownWhileDown
<1>1. StreamInv => LossKnownWhileDown
  BY DEF StreamInv, StreamTypeOK, ReportInv, LossKnownWhileDown, InputOpen, HoldsPacket
<1> QED
  BY StreamInductive, <1>1, PTL

(* The watchdog is enabled only while there is a read loop to interrupt.   *)
THEOREM WatchdogOnlyOnConnectionHolds == StreamSpec => []WatchdogOnlyOnConnection
<1>1. StreamInv => WatchdogOnlyOnConnection
  BY DEF StreamInv
<1> QED
  BY StreamInductive, <1>1, PTL

(* No way out of the read loop loses its packet.                           *)
THEOREM PacketsReturnedHolds == StreamSpec => []PacketsReturned
<1>1. StreamInv => PacketsReturned
  BY DEF StreamInv
<1> QED
  BY StreamInductive, <1>1, PTL

(* Found and lost alternate.                                               *)
THEOREM CallbacksAlternateHolds == StreamSpec => CallbacksAlternate
<1>1. StreamInv => (TellFound => told # "found") /\ (TellLost => told = "found")
  BY DEF StreamInv, ReportInv, TellFound, TellLost, Worker, At
<1> QED
  BY StreamInductive, <1>1, PTL DEF CallbacksAlternate

-----------------------------------------------------------------------------
(* The delay between attempts                                              *)

DelayInv == BackoffExponential /\ (attempts = 0 => delay = BaseDelay)

(* Doubling what is already limited and limiting it again is the limit of  *)
(* what is doubled.                                                        *)
LEMMA LimitedDouble ==
  ASSUME NEW n \in Nat, NEW limit \in Nat
  PROVE  Smaller(2 * Smaller(n, limit), limit) = Smaller(2 * n, limit)
  BY DEF Smaller

LEMMA DelayStep ==
  ASSUME StreamTypeOK, DelayInv, [StreamNext]_streamVars
  PROVE  DelayInv'
<1>1. BackOff \/ Connected \/ UNCHANGED <<attempts, delay>>
  BY DEF StreamNext, streamVars, WorkerStep, ReadStep, BeginAttempt, OpenInput, MarkDown,
    TellLost, Retry, TellFound, Arm, EnterRead, Leave, CloseInput, Conclude, ReadReturns,
    ReadInterrupted, ReadFails, WatchdogStep, Wake, ReadClock, LoadTime, Fire, Watchdog,
    Disable, StopStep, Interrupt, StopWatchdog, StopWorker, JoinWorker, Main, GetParams,
    Reader, Borrow, Tick, connection
<1>2. CASE UNCHANGED <<attempts, delay>>
  BY <1>2 DEF DelayInv, BackoffExponential
<1>3. CASE Connected
  BY <1>3 DEF Connected, DelayInv, BackoffExponential
<1>4. CASE BackOff
  <2> DEFINE doubled == BaseDelay * 2^attempts
  <2>1. /\ attempts \in Nat /\ attempts' = attempts + 1
        /\ delay' = Smaller(2 * delay, MaxDelay)
    BY <1>4 DEF BackOff, StreamTypeOK
  <2>2. BaseDelay \in Nat /\ MaxDelay \in Nat
    BY StreamAssumption DEF StreamAssumption
  <2>3. doubled \in Nat /\ BaseDelay * 2^(attempts + 1) = 2 * doubled
    BY <2>1, <2>2, PowerDoubles
  <2>4. delay' = Smaller(2 * doubled, MaxDelay)
    <3>1. CASE attempts = 0
      BY <2>1, <2>2, <3>1 DEF DelayInv
    <3>2. CASE attempts > 0
      <4>1. delay = Smaller(doubled, MaxDelay)
        BY <3>2 DEF DelayInv, BackoffExponential
      <4> HIDE DEF doubled
      <4> QED BY <2>1, <2>2, <2>3, <4>1, LimitedDouble
    <3> QED BY <2>1, <3>1, <3>2
  <2> QED BY <2>1, <2>3, <2>4 DEF DelayInv, BackoffExponential
<1> QED BY <1>1, <1>2, <1>3, <1>4

(* The delay before an attempt doubles with every failure in a row, up to  *)
(* its limit, for all delays and any number of failures.                   *)
THEOREM BackoffExponentialHolds == StreamSpec => []BackoffExponential
<1>1. StreamInit => DelayInv
  BY DEF StreamInit, DelayInv, BackoffExponential
<1>2. StreamInv /\ DelayInv /\ [StreamNext]_streamVars => DelayInv'
  BY DelayStep DEF StreamInv
<1>3. DelayInv => BackoffExponential
  BY DEF DelayInv
<1> QED
  BY <1>1, <1>2, <1>3, StreamInductive, PTL DEF StreamSpec

-----------------------------------------------------------------------------
(* The refinement                                                          *)

Reported == wasConnected \/ worker = "found"

LEMMA PhaseValues ==
  /\ \A w \in {"top", "retry", "backoff"} : Phase(w) = "top"
  /\ \A w \in {"cleared", "opening", "failed"} : Phase(w) = "connecting"
  /\ \A w \in {"found", "arm", "enable", "loop"} : Phase(w) = "loop"
  /\ \A w \in {"check", "reading"} : Phase(w) = "reading"
  /\ \A w \in {"leave", "close"} : Phase(w) = "leaving"
  /\ Phase("mark") = "closed" /\ Phase("conclude") = "dead"
  /\ \A w \in {"lostDown", "lostLive"} : Phase(w) = "lost"
  /\ Phase("opened") = "opened" /\ Phase("exited") = "exited"
  BY DEF Phase

LEMMA CycleInitial == StreamInit => Cycle!CycleInit
  BY PhaseValues DEF StreamInit, Cycle!CycleInit

(* Each step of the worker is a step of the cycle or is hidden in a phase. *)
LEMMA WorkerCycle ==
  ASSUME StreamInv, WorkerStep \/ ReadStep
  PROVE  Cycle!CycleNext \/ UNCHANGED Cycle!stream
<1> USE PhaseValues DEF StreamInv, StreamTypeOK, ReportInv, InReadLoop, HoldsPacket, Worker, At, Cycle!At,
      Cycle!stream, stopVars
<1>1. CASE BeginAttempt
  BY <1>1 DEF BeginAttempt, Cycle!CycleNext, Cycle!TestStop
<1>2. CASE OpenInput
  BY <1>2 DEF OpenInput, Cycle!CycleNext, Cycle!Open
<1>3. CASE MarkDown
  BY <1>3 DEF MarkDown, Cycle!CycleNext, Cycle!ConnectFails
<1>4. CASE TellLost
  BY <1>4 DEF TellLost, Cycle!CycleNext, Cycle!ReportLost
<1>5. CASE Retry
  BY <1>5, StreamAssumption DEF Retry, LastAttempt, Cycle!CycleNext, Cycle!GiveUp
<1>6. CASE BackOff
  BY <1>6 DEF BackOff
<1>7. CASE Connected
  BY <1>7 DEF Connected, Cycle!CycleNext, Cycle!Connect
<1>8. CASE TellFound \/ Arm
  BY <1>8 DEF TellFound, Arm
<1>9. CASE EnterRead
  BY <1>9 DEF EnterRead, Cycle!CycleNext, Cycle!EnterRead, Cycle!ReadEnds
<1>10. CASE Leave \/ CloseInput
  BY <1>10 DEF Leave, CloseInput, Cycle!CycleNext, Cycle!CloseInput, Cycle!MarkDead
<1>11. CASE Conclude
  BY <1>11 DEF Conclude, Cycle!CycleNext, Cycle!Conclude
<1>12. CASE ReadReturns
  BY <1>12 DEF ReadReturns, Cycle!CycleNext, Cycle!ReadReturns
<1>13. CASE ReadInterrupted \/ ReadFails
  BY <1>13 DEF ReadInterrupted, ReadFails, Cycle!CycleNext, Cycle!ReadEnds
<1> QED
  BY <1>1, <1>2, <1>3, <1>4, <1>5, <1>6, <1>7, <1>8, <1>9, <1>10, <1>11, <1>12, <1>13
  DEF WorkerStep, ReadStep

(* The watchdog, the readers and time are not part of the cycle; of stop,  *)
(* the request and the last close_input are.                               *)
LEMMA OtherCycle ==
  ASSUME StreamInv, StreamNext, ~(WorkerStep \/ ReadStep)
  PROVE  Cycle!CycleNext \/ UNCHANGED Cycle!stream
<1> USE DEF Cycle!stream
<1>1. CASE WatchdogStep \/ Tick
  BY <1>1, WatchdogStepInv DEF connection
<1>2. CASE Disable \/ Interrupt \/ StopWatchdog
  BY <1>2 DEF Disable, Interrupt, StopWatchdog, Main
<1>3. CASE StopWorker
  BY <1>3 DEF StopWorker, Main, Cycle!CycleNext, Cycle!RequestStop
<1>4. CASE JoinWorker
  <2>1. CASE UNCHANGED input
    BY <1>4, <2>1 DEF JoinWorker, Main
  <2>2. CASE input' = FALSE /\ main = "closing"
    <3>1. worker = "exited" /\ stopping
      BY <2>2 DEF StreamInv, StopInv
    <3> QED
      BY <1>4, <2>2, <3>1, PhaseValues
      DEF JoinWorker, Main, Cycle!CycleNext, Cycle!CloseAfterJoin
  <2> QED
    BY <1>4, <2>1, <2>2 DEF JoinWorker, Main
<1>5. CASE GetParams \/ Borrow
  BY <1>5 DEF GetParams, Reader, Borrow, connection, stopVars
<1> QED
  BY <1>1, <1>2, <1>3, <1>4, <1>5 DEF StreamNext, StopStep

(* What CameraNode assumes of its stream is what RTSPStream does.          *)
THEOREM StreamImplementsCycle == StreamSpec => ImplementsCycle
<1>1. StreamInv /\ [StreamNext]_streamVars => [Cycle!CycleNext]_Cycle!stream
  <2>1. ASSUME UNCHANGED streamVars PROVE UNCHANGED Cycle!stream
    BY <2>1 DEF streamVars, connection, stopVars, Cycle!stream
  <2> QED
    BY <2>1, WorkerCycle, OtherCycle
<1> QED
  BY <1>1, CycleInitial, StreamInductive, PTL DEF StreamSpec, ImplementsCycle, Cycle!CycleSpec

=============================================================================
