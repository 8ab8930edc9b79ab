------------------------------ MODULE RTSPStream ------------------------------
(***************************************************************************)
(* The stream of one camera (rtsp_stream.cpp): the worker thread run, the  *)
(* watchdog thread, stop, and a thread that asks for the codec parameters. *)
(* They share atomic flags, each of which is read or written in a step of  *)
(* its own, and io_mtx_, which the worker holds while it opens the input   *)
(* but not while it closes it.                                             *)
(*                                                                         *)
(* Time is the age of the newest packet in ticks, as far as the watchdog   *)
(* can tell ages apart.  The network is free to do anything: open_input    *)
(* succeeds or fails, av_read_frame returns a packet, an error or nothing. *)
(***************************************************************************)
EXTENDS PacketPool, Integers

CONSTANTS
  MaxAttempts,    \* max_reconnect_attempts, 0 for no limit
  BaseDelay,      \* reconnect_delay_ms
  MaxDelay,       \* reconnect_max_delay_ms
  ReadTimeout,    \* read_timeout_ms, positive after the constructor
  TimeModulus,    \* the elapsed time is computed modulo 2^64
  MaxLag,         \* bound: what is counted of a delay of the watchdog
  Borrowers       \* bound: packets that other cameras hold

ASSUME StreamAssumption ==
  /\ MaxAttempts \in Nat /\ BaseDelay \in Nat /\ MaxDelay \in Nat
  /\ ReadTimeout \in Nat \ {0} /\ MaxLag \in Nat \ {0} /\ Borrowers \in Nat
  /\ TimeModulus \in Nat /\ TimeModulus > ReadTimeout + MaxLag + 1

VARIABLES
  worker,         \* where run is
  wasConnected, attempts, delay, lost,   \* its local variables
  alive,          \* alive_
  input,          \* fmt_ctx_, codec_params_ and stream_info_valid_ are set
  interrupt,      \* interrupt_flag_
  enabled,        \* watchdog_enabled_
  age,            \* time since last_packet_time_ms_
  watchdog,       \* where watchdog_loop is
  sample,         \* what now_ms - last_packet_ms would be for its now_ms
  lag,            \* time since it has read the clock
  watchdogStop,   \* its stop token
  stopping,       \* the worker's stop token
  main,           \* where stop is
  reader,         \* where get_codec_params or get_stream_info is
  others,         \* packets held by the streams of other cameras
  told            \* history: the latest callback

connection == <<worker, wasConnected, attempts, delay, lost, alive, input>>
clock == <<age, sample, lag>>
stopVars == <<watchdogStop, stopping, main>>
streamVars == <<connection, interrupt, enabled, clock, watchdog, stopVars, reader, pool,
                others, told>>

HoldsPacket == {"loop", "check", "reading", "leave"}

InputOpen == {"opened", "found", "arm", "enable", "close"} \cup HoldsPacket

Smaller(a, b) == IF a < b THEN a ELSE b

(* Every variable has a value of its type, and the input is open from      *)
(* open_input to close_input.                                              *)
StreamTypeOK ==
  /\ worker \in {"top", "cleared", "opening", "failed", "lostDown", "retry", "backoff",
                 "mark", "conclude", "lostLive", "exited"} \cup InputOpen
  /\ wasConnected \in BOOLEAN /\ lost \in BOOLEAN /\ alive \in BOOLEAN
  /\ input \in BOOLEAN /\ interrupt \in BOOLEAN /\ enabled \in BOOLEAN
  /\ watchdogStop \in BOOLEAN /\ stopping \in BOOLEAN
  /\ attempts \in Nat /\ delay \in Nat
  /\ watchdog \in {"test", "sleep", "clock", "load", "fire", "disarm", "exited"}
  /\ age \in 0 .. ReadTimeout + 1 /\ sample \in - MaxLag .. ReadTimeout + 1
  /\ lag \in 0 .. MaxLag
  /\ main \in {"run", "disabled", "interrupted", "joinWatchdog", "stopping", "closing",
               "done"}
  /\ reader \in {"idle", "copying"}
  /\ others \in 0 .. Borrowers /\ PoolTypeOK
  /\ told \in {"nothing", "found", "lost"}
  /\ worker \in InputOpen => input
  /\ input => worker \in InputOpen

StreamInit ==
  /\ worker = "top" /\ wasConnected = FALSE /\ lost = FALSE
  /\ attempts = 0 /\ delay = BaseDelay
  /\ alive = FALSE /\ input = FALSE /\ interrupt = FALSE /\ enabled = FALSE
  /\ age = ReadTimeout + 1 /\ sample = 0 /\ lag = 0
  /\ watchdog = "test" /\ watchdogStop = FALSE /\ stopping = FALSE
  /\ main = "run" /\ reader = "idle" /\ others = 0 /\ PoolInit
  /\ told = "nothing"

(* last_packet_time_ms_ := now.  A watchdog that has already read the clock*)
(* will subtract a later time from an earlier one.                         *)
Stamp ==
  /\ age' = 0
  /\ sample' = IF watchdog = "load" THEN - lag ELSE sample
  /\ UNCHANGED lag

-----------------------------------------------------------------------------
(* run: connecting                                                         *)

At(here, there) == worker = here /\ worker' = there

Worker(here, there) ==
  /\ At(here, there)
  /\ UNCHANGED <<watchdog, stopVars, reader, others>>

(* A stop request is tested and both flags are cleared (rtsp_stream.cpp:   *)
(* 110-112), in one step: a stop that is requested in between has raised   *)
(* the interrupt before, and a watchdog that is still enabled in between   *)
(* was so before.                                                          *)
BeginAttempt ==
  /\ Worker("top", IF stopping THEN "exited" ELSE "cleared")
  /\ interrupt' = (interrupt /\ stopping)
  /\ enabled' = (enabled /\ stopping)
  /\ UNCHANGED <<wasConnected, attempts, delay, lost, alive, input, clock, pool, told>>

(* open_input locks io_mtx_ and returns.                                   *)
OpenInput ==
  /\ \/ reader = "idle" /\ Worker("cleared", "opening") /\ UNCHANGED input
     \/ Worker("opening", "opened") /\ input' = TRUE
     \/ Worker("opening", "failed") /\ UNCHANGED input
  /\ UNCHANGED <<wasConnected, attempts, delay, lost, alive, interrupt, enabled, clock,
                 pool, told>>

(* Mutant: a loss that is noticed only now is not reported.                *)
MarkDown_Silent ==
  /\ Worker("failed", "retry")
  /\ alive' = FALSE
  /\ UNCHANGED <<wasConnected, attempts, delay, lost, input, interrupt, enabled, clock,
                 pool, told>>

MarkDown ==
  /\ Worker("failed", IF wasConnected THEN "lostDown" ELSE "retry")
  /\ alive' = FALSE
  /\ UNCHANGED <<wasConnected, attempts, delay, lost, input, interrupt, enabled, clock,
                 pool, told>>

(* Mutant: a loss noticed while connecting may be reported again.          *)
TellLost_KeepsFlag ==
  /\ Worker("lostDown", "retry") \/ Worker("lostLive", "top")
  /\ told' = "lost" /\ wasConnected' = (worker = "lostDown")
  /\ UNCHANGED <<attempts, delay, lost, alive, input, interrupt, enabled, clock, pool>>

(* internal_lost_callback and on_rtsp_lost.                                *)
TellLost ==
  /\ Worker("lostDown", "retry") \/ Worker("lostLive", "top")
  /\ told' = "lost" /\ wasConnected' = FALSE
  /\ UNCHANGED <<attempts, delay, lost, alive, input, interrupt, enabled, clock, pool>>

LastAttempt == MaxAttempts > 0 /\ attempts >= MaxAttempts

Retry ==
  /\ Worker("retry", IF LastAttempt THEN "exited" ELSE "backoff")
  /\ UNCHANGED <<wasConnected, attempts, delay, lost, alive, input, interrupt, enabled,
                 clock, pool, told>>

(* Mutant: the delay is doubled beyond its limit.                          *)
BackOff_Unlimited ==
  /\ Worker("backoff", "top")
  /\ delay' = 2 * delay /\ attempts' = attempts + 1
  /\ UNCHANGED <<wasConnected, lost, alive, input, interrupt, enabled, clock, pool, told>>

(* The delay is over, or a stop request has cut it short.                  *)
BackOff ==
  /\ Worker("backoff", "top")
  /\ delay' = Smaller(2 * delay, MaxDelay) /\ attempts' = attempts + 1
  /\ UNCHANGED <<wasConnected, lost, alive, input, interrupt, enabled, clock, pool, told>>

-----------------------------------------------------------------------------
(* run: connected                                                          *)

Connected ==
  /\ Worker("opened", IF wasConnected THEN "arm" ELSE "found")
  /\ attempts' = 0 /\ delay' = BaseDelay /\ alive' = TRUE
  /\ UNCHANGED <<wasConnected, lost, input, interrupt, enabled, clock, pool, told>>

(* internal_found_callback and on_rtsp_found.                              *)
TellFound ==
  /\ Worker("found", "arm")
  /\ told' = "found" /\ wasConnected' = TRUE
  /\ UNCHANGED <<attempts, delay, lost, alive, input, interrupt, enabled, clock, pool>>

(* The watchdog is given a fresh time stamp, and only then enabled.        *)
Arm ==
  /\ \/ Worker("arm", "enable") /\ Stamp /\ UNCHANGED <<enabled, pool, lost>>
     \/ Worker("enable", "loop") /\ enabled' = TRUE /\ lost' = FALSE /\ Acquire
          /\ UNCHANGED clock
  /\ UNCHANGED <<wasConnected, attempts, delay, alive, input, interrupt, told>>

(* Mutant: the read loop does not look at the stop token.                  *)
EnterRead_IgnoresStop ==
  /\ \/ Worker("loop", "check") /\ UNCHANGED lost
     \/ Worker("check", IF interrupt THEN "leave" ELSE "reading")
          /\ lost' = (lost \/ interrupt)
  /\ UNCHANGED <<wasConnected, attempts, delay, alive, input, interrupt, enabled, clock,
                 pool, told>>

(* The stop token, then the interrupt flag, then av_read_frame.            *)
EnterRead ==
  /\ \/ Worker("loop", IF stopping THEN "leave" ELSE "check") /\ UNCHANGED lost
     \/ Worker("check", IF interrupt THEN "leave" ELSE "reading")
          /\ lost' = (lost \/ interrupt)
  /\ UNCHANGED <<wasConnected, attempts, delay, alive, input, interrupt, enabled, clock,
                 pool, told>>

(* A packet; or EAGAIN, which is tried again without a time stamp.         *)
ReadReturns ==
  /\ Worker("reading", "loop")
  /\ Stamp \/ UNCHANGED clock
  /\ UNCHANGED <<wasConnected, attempts, delay, lost, alive, input, interrupt, enabled,
                 pool, told>>

(* AVERROR_EXIT: the interrupt callback has ended the read.                *)
ReadInterrupted ==
  /\ interrupt
  /\ Worker("reading", "leave")
  /\ UNCHANGED <<wasConnected, attempts, delay, lost, alive, input, interrupt, enabled,
                 clock, pool, told>>

ReadFails ==
  /\ Worker("reading", "leave")
  /\ lost' = (lost \/ ~stopping)
  /\ UNCHANGED <<wasConnected, attempts, delay, alive, input, interrupt, enabled, clock,
                 pool, told>>

(* Mutant: the watchdog is left enabled, the packet is not given back.     *)
Leave_KeepsPacket ==
  /\ Worker("leave", "close")
  /\ enabled' = enabled
  /\ UNCHANGED <<wasConnected, attempts, delay, lost, alive, input, interrupt, clock, pool,
                 told>>

Leave ==
  /\ Worker("leave", "close")
  /\ enabled' = FALSE /\ Release
  /\ UNCHANGED <<wasConnected, attempts, delay, lost, alive, input, interrupt, clock, told>>

(* close_input does not take io_mtx_; alive_ is cleared after it.          *)
CloseInput ==
  /\ \/ Worker("close", "mark") /\ input' = FALSE /\ UNCHANGED alive
     \/ Worker("mark", "conclude") /\ alive' = FALSE /\ UNCHANGED input
  /\ UNCHANGED <<wasConnected, attempts, delay, lost, interrupt, enabled, clock, pool, told>>

Conclude ==
  /\ Worker("conclude", IF stopping THEN "exited"
                        ELSE IF lost /\ wasConnected THEN "lostLive" ELSE "top")
  /\ UNCHANGED <<wasConnected, attempts, delay, lost, alive, input, interrupt, enabled,
                 clock, pool, told>>

-----------------------------------------------------------------------------
(* watchdog_loop                                                           *)

Watchdog(here, there) ==
  /\ watchdog = here /\ watchdog' = there
  /\ UNCHANGED <<connection, stopVars, age, reader, pool, others, told>>

Wake ==
  /\ \/ Watchdog("test", IF watchdogStop THEN "exited" ELSE "sleep")
     \/ Watchdog("sleep", IF enabled THEN "clock" ELSE "test")
  /\ UNCHANGED <<interrupt, enabled, sample, lag>>

ReadClock ==
  /\ Watchdog("clock", "load")
  /\ sample' = age /\ lag' = 0
  /\ UNCHANGED <<interrupt, enabled>>

(* Mutant: the comparison never finds the limit exceeded.                  *)
LoadTime_NeverFires ==
  /\ Watchdog("load", "test")
  /\ sample' = 0 /\ lag' = 0
  /\ UNCHANGED <<interrupt, enabled>>

(* The elapsed time is unsigned.                                           *)
LoadTime ==
  /\ Watchdog("load", IF sample % TimeModulus > ReadTimeout THEN "fire" ELSE "test")
  /\ sample' = 0 /\ lag' = 0
  /\ UNCHANGED <<interrupt, enabled>>

Fire ==
  /\ \/ Watchdog("fire", "disarm") /\ interrupt' = TRUE /\ UNCHANGED enabled
     \/ Watchdog("disarm", "test") /\ enabled' = FALSE /\ UNCHANGED interrupt
  /\ UNCHANGED <<sample, lag>>

-----------------------------------------------------------------------------
(* stop, and the threads that it does not wait for                         *)

Main(here, there) ==
  /\ main = here /\ main' = there
  /\ UNCHANGED <<worker, wasConnected, attempts, delay, lost, alive, clock, watchdog, reader,
                 pool, others, told>>

(* CameraManager::stop has joined the threads that call get_codec_params.  *)
Disable ==
  /\ reader = "idle"
  /\ Main("run", "disabled")
  /\ enabled' = FALSE
  /\ UNCHANGED <<input, interrupt, watchdogStop, stopping>>

Interrupt ==
  /\ Main("disabled", "interrupted")
  /\ interrupt' = TRUE
  /\ UNCHANGED <<input, enabled, watchdogStop, stopping>>

StopWatchdog ==
  /\ Main("interrupted", "joinWatchdog")
  /\ watchdogStop' = TRUE
  /\ UNCHANGED <<input, interrupt, enabled, stopping>>

StopWorker ==
  /\ watchdog = "exited"
  /\ Main("joinWatchdog", "stopping")
  /\ stopping' = TRUE
  /\ UNCHANGED <<input, interrupt, enabled, watchdogStop>>

(* Mutant: the worker is not waited for.                                   *)
JoinWorker_NoWait ==
  /\ \/ Main("stopping", "closing") /\ UNCHANGED <<input, interrupt>>
     \/ reader = "idle" /\ Main("closing", "done") /\ input' = FALSE /\ interrupt' = FALSE
  /\ UNCHANGED <<enabled, watchdogStop, stopping>>

(* The worker has ended; what it left open is closed, under io_mtx_.       *)
JoinWorker ==
  /\ \/ worker = "exited" /\ Main("stopping", "closing") /\ UNCHANGED <<input, interrupt>>
     \/ reader = "idle" /\ Main("closing", "done") /\ input' = FALSE /\ interrupt' = FALSE
  /\ UNCHANGED <<enabled, watchdogStop, stopping>>

(* get_codec_params and get_stream_info hold io_mtx_ while they copy.      *)
Reader(here, there) ==
  /\ reader = here /\ reader' = there
  /\ UNCHANGED <<connection, interrupt, enabled, clock, watchdog, stopVars, pool, others,
                 told>>

GetParams ==
  \/ main = "run" /\ worker # "opening" /\ input /\ Reader("idle", "copying")
  \/ Reader("copying", "idle")

(* Other streams use the pool.                                             *)
Borrow ==
  /\ \/ others < Borrowers /\ Acquire /\ others' = others + 1
     \/ others > 0 /\ Release /\ others' = others - 1
  /\ UNCHANGED <<connection, interrupt, enabled, clock, watchdog, stopVars, reader, told>>

Tick ==
  /\ age' = Smaller(age + 1, ReadTimeout + 1)
  /\ lag' = IF watchdog = "load" THEN Smaller(lag + 1, MaxLag) ELSE lag
  /\ UNCHANGED <<connection, interrupt, enabled, sample, watchdog, stopVars, reader, pool,
                 others, told>>

-----------------------------------------------------------------------------

WorkerStep == \/ BeginAttempt \/ OpenInput \/ MarkDown \/ TellLost \/ Retry \/ BackOff
              \/ Connected \/ TellFound \/ Arm \/ EnterRead \/ Leave \/ CloseInput \/ Conclude

ReadStep == ReadReturns \/ ReadInterrupted \/ ReadFails

WatchdogStep == Wake \/ ReadClock \/ LoadTime \/ Fire

StopStep == Interrupt \/ StopWatchdog \/ StopWorker \/ JoinWorker

StreamNext == WorkerStep \/ ReadStep \/ WatchdogStep \/ Disable \/ StopStep \/ GetParams
                \/ Borrow \/ Tick

StreamSpec == StreamInit /\ [][StreamNext]_streamVars

(***************************************************************************)
(* Threads run; open_input returns, because it has a network timeout; a    *)
(* read returns once it is interrupted.  A read that is not interrupted    *)
(* may block for ever, and nothing forces the program to stop.             *)
(***************************************************************************)
LiveStreamSpec ==
  /\ StreamSpec
  /\ WF_streamVars(WorkerStep) /\ WF_streamVars(ReadInterrupted)
  /\ WF_streamVars(WatchdogStep) /\ WF_streamVars(StopStep) /\ WF_streamVars(Tick)
  /\ WF_streamVars(Reader("copying", "idle"))

-----------------------------------------------------------------------------
(* Properties *)

(* Users of the stream start a recording after "found" and end it after    *)
(* "lost": the two alternate, however connections come and go.             *)
CallbacksAlternate ==
  [][/\ TellFound => told # "found"
     /\ TellLost => told = "found"]_streamVars

(* The worker waits for the next attempt, or gives up, only after the loss *)
(* has been reported, with alive_ cleared and nothing left open; a camera  *)
(* that is down is known to be down.                                       *)
LossKnownWhileDown ==
  worker \in {"retry", "backoff"} \/ (worker = "exited" /\ ~stopping)
    => told # "found" /\ ~alive /\ ~input

(* The watchdog is enabled only while there is a read loop to interrupt,   *)
(* so it never measures the time of a connection attempt; whatever its own *)
(* delayed stores and those of stop do.                                    *)
WatchdogOnlyOnConnection == enabled => worker \in HoldsPacket

(* README: reconnects with exponential backoff.  The delay grows with the  *)
(* failures since the last connection and starts anew after it.            *)
BackoffExponential == attempts > 0 => delay = Smaller(BaseDelay * 2^attempts, MaxDelay)

(* Whatever way the read loop is left, its packet goes back to the pool:   *)
(* all packets are free or held by somebody, and the free ones fit in it.  *)
PacketsReturned ==
  /\ live = free + others + (IF worker \in HoldsPacket THEN 1 ELSE 0)
  /\ free <= PoolCapacity

(* A camera that falls silent does not hold its worker: while the watchdog *)
(* is enabled, and is not about to disable itself because of an earlier    *)
(* timeout, av_read_frame returns although the network does nothing.       *)
GuardedSilenceEnds ==
  worker = "reading" /\ enabled /\ watchdog # "disarm" /\ main = "run"
    ~> worker # "reading"

(* stop comes to its end if reads do.  The interrupt flag alone would not  *)
(* do it: the worker may clear the flag that stop has set, and enter a read*)
(* that no watchdog guards any more.                                       *)
StreamStops ==
  []<>(worker # "reading") => (main = "disabled" ~> main = "done")

(* What the README says of on_rtsp_lost, "executed on RTSP disconnect": a  *)
(* connection that has ended is reported before the next one is tried.     *)
DisconnectReported == worker = "opening" /\ main = "run" => told # "found"

(***************************************************************************)
(* To its users the stream is a StreamCycle.  Clearing the flags is part   *)
(* of connecting, waiting for the next attempt comes before it, and the    *)
(* loss found out by a failed attempt is the same as any other.            *)
(***************************************************************************)
Phase(w) ==
  CASE w \in {"top", "retry", "backoff"}           -> "top"
    [] w \in {"cleared", "opening", "failed"}      -> "connecting"
    [] w \in {"found", "arm", "enable", "loop"}    -> "loop"
    [] w \in {"check", "reading"}                  -> "reading"
    [] w \in {"leave", "close"}                    -> "leaving"
    [] w = "mark"                                  -> "closed"
    [] w = "conclude"                              -> "dead"
    [] w \in {"lostDown", "lostLive"}              -> "lost"
    [] w \in {"opened", "exited"}                  -> w

Cycle == INSTANCE StreamCycle
  WITH worker <- Phase(worker), wasConnected <- (wasConnected \/ worker = "found"),
       GivesUp <- (MaxAttempts > 0)

ImplementsCycle == Cycle!CycleSpec

=============================================================================
