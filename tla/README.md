# Verification of ivckolpak

TLA+ models of ivckolpak, a recorder that copies the packets of RTSP cameras
into MP4 files while an alarm is active.  The models are written from the
source, checked with TLC on small instances, and the most important facts are
proved with TLAPS for every instance.  Line numbers refer to the files of the
repository.

## The system

| Component | State | Operations | Talks to |
|---|---|---|---|
| `RecordingSession` | `state_`, pre-buffer and two counters, muxer, file name, event and chunk numbers, all under `buffer_mtx_` | `push_packet`, `start_event`, `continue_event`, `stop_event`, `force_stop`, `shutdown` | muxer and file system; `on_video_save` callback |
| `CameraNode` | `initialized_` | `on_alarm`, `on_rtsp_connection_lost`, `on_packet`, `start`, `stop` | owns one stream and one session |
| `RTSPStream` | `alive_`, input context, codec parameters, `interrupt_flag_`, `watchdog_enabled_`, time of the last packet | `run` (worker thread), `watchdog_loop`, `start`, `stop` | camera; packet, found and lost callbacks of the node; `PacketPool` |
| `PacketPool` | a free list under a mutex, shared by all cameras | `acquire`, `release` | workers |
| `CameraManager` | `active_` events under `state_mtx_`, index maps | `alarm_loop`, `monitor_loop`/`check_timeouts`, `start`, `stop` | pops `AlarmQueue`, calls `on_alarm` |
| `AlarmQueue` | queue and `is_shutdown_` under a mutex | `push`, `try_pop`, `shutdown` | server threads push, the alarm thread pops |
| `AlarmServer` | listening socket, client threads, a buffer per client | accept, receive, split into JSON objects, parse, build an `AlarmEvent` | `json.h`, queue |
| `json.h` | one allocation per text | `json_parse`: size and check, then fill | server |
| `ScriptExecutor` | queue, `stop_`, four workers | `submit`, `worker_loop`, destructor | node and stream submit, workers run the shell |
| Configuration | global and camera records, `ConfigRepository` | `load_config`, `merge_configs` | read by all |
| `main` | `g_shutdown` | wiring, start and shutdown order | everything |
| `StreamAnalyzer`, statistics, logger, text conversions | - | frame rate from time stamps; snapshots; macros | - |

The threads are: per camera the RTSP worker and its watchdog; the alarm thread
and the timeout monitor of the manager; the listener and one thread per
connection of the alarm server; the script workers; statistics; and main.

What is hard here:

* *Closing a file is not atomic.*  `finalize_and_rotate`, `force_stop` and
  `shutdown` take `buffer_mtx_` up to three times, and write the trailer and
  call back without it.  Alarms arrive in the gaps.
* *Decisions on stale state.*  `push_packet` decides to finalize, releases the
  mutex and then calls `finalize_and_rotate`; `on_alarm` reads four things one
  after another and acts on the last; `check_timeouts` collects under the mutex
  and sends its Stops after releasing it.
* *Flags instead of locks.*  Worker, watchdog and `stop` share three atomics
  that each of them stores at its own pace.
* *Partial failure.*  `init_muxer` may fail in the middle, the trailer may
  fail, the listener may never get its socket; the program goes on.
* *Joins as the only protection.*  `RecordingSession::shutdown` runs
  unprotected against the worker; the order in `CameraManager::stop`,
  `CameraNode::stop`, `RTSPStream::stop` and `main` is what makes it safe.
* *Two passes over one text.*  The JSON parser writes in its second pass what
  it has counted in the first, without a check; framing has its own idea of
  strings and braces.
* *Bookkeeping and wakeups.*  Counters that follow the window by hand, a wait
  predicate that changes without its mutex.

Correctness per component: the window stays within its limits and its counters
right; a file that is begun is closed exactly once, never written after its
trailer, never overwritten, reported at most once and only after it is closed;
found and lost alternate and a camera that is down is known to be down; a
silent camera is noticed; packets go back to the pool; a recording has a timer,
is told to stop by it, and follows the last message; a message is independent of the pieces
it comes in; the configuration is what the file says; a stop leaves nothing
open and every thread can be joined; every submitted script is run once.
`PROJECT.json` lists the hazards line by line with the properties that cover
them.

## Modules

| Module | Models |
|---|---|
| `PreBuffer` | the window of packets: append, GOP trimming, the two emergency limits |
| `VideoFiles` | abstract: what a session promises about its files |
| `RecordingSession`, `MCRecordingSession` | the session; extends `PreBuffer`, implements `VideoFiles` |
| `StreamCycle` | abstract: the life of a stream as the camera sees it |
| `CameraLife` | abstract: cameras as the manager sees them, recording or not, ready or not, and what a call of `on_alarm` does to them |
| `CameraCalls` | abstract: one of these cameras, with the calls of `on_alarm` that are under way and its connection |
| `CameraNode`, `MCCameraNode` | the threads of one camera; each action is one of `StreamCycle` together with one of `RecordingSession`; implements `CameraCalls` |
| `PacketPool` | the free list of packets |
| `RTSPStream` | worker, watchdog, `stop` and readers; uses `PacketPool`, implements `StreamCycle` |
| `AlarmQueue`, `CameraManager`, `AlarmServer` | the three components between a message and `on_alarm`; the manager's calls are actions of `CameraLife` |
| `Recorder`, `MCRecorder` | their composition with the start and shutdown of `main` |
| `Tokens` | the characters of a text, as far as framing and parser tell them apart |
| `Framing` | a connection: its buffer, the messages cut out of it, the events reported |
| `Json` | both passes of `json_parse` |
| `AlarmText` | `Framing` with the event that the parser gives for a message; the parser's passes compared with each other and with the framing |
| `JsonGrammar`, `MCAlarmText` | the reference for the parser, JSON as a grammar; the texts that are checked |
| `Configuration`, `MCConfiguration` | `load_config` line by line |
| `ScriptExecutor` | the script pool with its mutex and wait set |
| `CameraProofs` (window, session and camera node), `RTSPStreamProofs`, `RecorderProofs`, `FramingProofs`, `JsonProofs`, `ScriptExecutorProofs`, `ConfigurationProofs` | proofs |
| `Induction` | lemmas the proofs share: induction over numbers and sequences, recursion, least and greatest numbers |

The whole is composed in three layers, each of which knows the next one by an
abstract module that the next one is proved to implement: `CameraNode` uses a
stream as `StreamCycle` (`StreamImplementsCycle`), and `Recorder` uses cameras
as `CameraLife`, whose `OnAlarm` is what `CameraCalls` says of a call that
returns (`NodeImplementsCalls`).

The calls are part of `CameraCalls` because without them a refinement says
little: any step might be the one that starts or ends a recording, and a Stop
that is dropped would be a step in which nothing happens.  A Stop is a call that
begins and returns, and only with a return does a recording begin or, besides a
reported loss and `CameraNode::stop`, end.

### How the state corresponds to the code

`RecordingSession` keeps one variable per member of the class (`state`,
`ctx` for `out_fmt_ctx_`, `outStream`, `curFile`, `chunkIdx`, ...).  Each block
under `buffer_mtx_` is one action.  `pc` is the point, outside such a block, at
which the thread that closes a file is; `op`, `path`, `fmt` and `ok` are that
thread's local variables.  One `pc` is enough because `push_packet` and
`force_stop` are only called by the RTSP worker, and `shutdown` only after the
worker is joined.  `CameraNode` models those threads and checks, and proves,
that this is so (`ImplementsSession`).

A file is the pair of event and chunk number.  This is right for a
`filename_format` that contains `%e` and `%v`, as the default does; with a
format that does not, `avio_open` may overwrite a file, and nothing here
applies.  `created`, `opened`, `saved`, `removed` and `notified` describe the
file system and the callback.

A packet is a keyframe bit and a size.  Whether the time limit of a chunk has
passed is a free choice.  `chunkBytes` is counted up to its limit only, which
keeps the state space finite and cannot be observed.  The loop that trims GOPs
is a recursive function of the number of its turns, of which there are as many
as packets; that this is enough, since every turn that does something removes
one, is part of the proof of `WindowBounded`.  `init_muxer` ends in one of four
ways: success, nothing done, no stream, or header not written; the last two
leave an empty file and, for the last, a dangling `out_stream_`.

`RTSPStream` makes every load and store of a shared flag a step of its own,
except at the start of an attempt, where the stop test and the two stores are
one (`BeginAttempt`: they cannot be told apart by the other threads).
`worker`, `watchdog`, `main` and `reader` say where each thread is;
`io_mtx_` is held in `worker = "opening"` and `reader = "copying"` and, as in
the code, not while the worker closes the input.  Time is the age of the last
packet up to the first value at which the watchdog fires.  The watchdog reads
the clock and then the time stamp; a packet in between makes the difference
negative (`sample`), and the unsigned comparison fires on it.  Reads return a
packet, an error or nothing, as they like.  The packet that the worker holds
counts in the pool, along with those of other cameras (`Borrow`).

`CameraNode` adds the control of `on_alarm` (four separate reads, then a call)
and of the stop sequence, and combines them with the steps of the stream.
Whether the end of a read loop is reported as a loss is a free choice there.

In `CameraLife` a Start makes a camera record, or does not (no stream, no
parameters); a Stop ends the recording, or is forgotten, which puts the camera
in `missed`; a lost connection ends it, and so does the end of the program.
`Wanted` are the recordings that nobody has tried to stop.  In `CameraCalls`
there are at most two calls at a time, one of the alarm thread and one of the
monitor.  In terms of
`CameraNode` a camera records in `RECORDING` and in `FINALIZING` during a
rotation, and has missed a Stop if that was the last alarm; a post-buffer does
not count as recording.  Any camera may miss a Stop, also one without chunk
limits: a Start may turn `POST_BUFFER` into `RECORDING` between the decision to
finalize and `finalize_and_rotate`, which then rotates.

In `CameraManager` an entry of `active_` is a record of serial, camera and age.
A timeout is an integral number of ticks, and the age of an entry is counted up
to its timeout.  `find_idx` is the lookup by serial and then by
address; the two notations of an address are one value.

`AlarmServer` has the listener's calls one by one, since `stop` may come between
any two: the socket may not exist yet, or never.  `accept` blocks as long as
the socket listens and nobody connects.  A message is a unit in it; `Framing`
has the bytes it comes in.

`Framing` is `runClient` and `processBuffer` for one connection: a piece is what
one `recv` returns, `CutOne` one turn of the loop over the buffer, `ScanToken`
one turn of `findJsonEnd`.  Both loops are recursive functions of the number of
turns.  What a message means is its parameter `EventOf`, so that the module
does not depend on the parser; `AlarmText` gives it the value `ParsedEvent`.

In `Tokens` and `Json` a text is a sequence of tokens: characters, and for words and
`\uXXXX` escapes one token for each class the parser tells apart (code points
of one, two and three bytes, high and low surrogates).  Bytes are counted
through `Width`, so that the sizes compared are those of the code.  The loops of
both passes are functions of the number of turns, of which there are at most as
many as tokens, and values, objects and arrays are functions of the number of
levels that may still be opened, which is how the code limits its recursion
(`JSON_MAX_RECURSION`).
The program compiles the parser with the default flags, and the branches that
other flags enable are not in the model.

`Configuration` reads lines of any kind in any order.  The values are texts:
numbers, the empty text, texts for the other fields, and `Bad` for one that is
no number.  Where a number is read, `stoi` throws at `Bad` and at the empty
text, and loading fails.  In a camera 0, or the empty text in a field that is a
text, is "not set".  `RepositoryAgrees` relates the two places in which a camera is kept, `cameras` and
`ConfigRepository`.

`ScriptExecutor` models `cv_.wait(lock, pred)` as its loop: evaluate the
predicate with the mutex held, then release it and wait in one step; a waiter
may also wake for no reason.  Any thread may submit.  The pool is a static
object, destroyed after `main` has joined all threads that could submit, so no
submit is in progress then.

## Runs

| Run | Shows | Bounds |
|---|---|---|
| `pre_buffer` | the window under any sequence of packets: counters, limits, what is kept | limits small enough that GOP trimming, the byte limit and the packet limit each bite, alone and together |
| `session` | safety of files and window, refinement of `VideoFiles`; `PostBufferEnds`, `SavedIsReported` | two events of up to three chunks: a second event shows what the first leaves behind, a third chunk goes beyond `max_event_chunks` = 1; all muxer and trailer failures |
| `node` | the threads of a camera: `StopLeavesNothingOpen`, refinement of the session (nobody is in a call of it when it is shut down) and of `CameraCalls` (`ImplementsCalls`), `StopTerminates` | two events of up to two chunks, any number of disconnects |
| `scripts` | `NoLostWakeup`, `ScriptsRunOnce`, `ScriptsRun` | two workers, three scripts: workers compete and scripts queue |
| `stream` | worker, watchdog and `stop`: reports, watchdog, back-off, pool, `GuardedSilenceEnds`, `StreamStops`, refinement of `StreamCycle` | three attempts with delays 1, 2 and 3 (4, limited); one packet fits the free list and up to three exist; a delay of one tick shows the wrap-around |
| `alarms` | `TimerCovers`, `LastAlarmHolds`, `QuietWhenNodesStop`, `TimeoutEnds`, `ShutdownTerminates` | any number of messages, two of them waiting; two cameras, one with a timeout of its own; the messages are for that one, found by its serial and by its address, so that it may have two entries of which a Stop removes one; one connection |
| `messages` | `PiecesDoNotMatter`, `AcceptsJson`, `FilledFitsSized`, `FrameEndsWithObject` | texts of four kinds (strings and escapes, numbers, nesting, a whole message), up to five free tokens each and a suffix, in pieces of one or two; nesting beyond its limit |
| `config` | `LoadsWhatFileSays`, `RepositoryAgrees` | files of up to six lines: sections in any order, among them up to two cameras with a serial and an address, with one serial or two; a number and a text that are inherited, the one set by default, the other not |
| `stop_lost` | a Stop during a rotation is forgotten | the first rotation is enough |
| `lost_race` | a Start that overtakes a loss records a stream that is down | one disconnect |
| `pool_shutdown` | the destructor's notification is lost and the process hangs | two workers |
| `silent_loss` | a connection ended by the watchdog is not reported | as `stream` |

The last four are expected to fail: each checks one sentence of the
repository against the code; `PROJECT.json` quotes it.  The other bounds are
named in the modules: `MaxEvents` and `MaxChunks` (`InBounds`: no event and no
rotation begins beyond them), `MaxLag`, `Borrowers`, `MaxClients`,
`MaxPending`, `MaxPiece`, `MaxLines`.

Type correctness of the window and of the session, whose types carry invariants
of their own, is among the properties of their runs; of the other state machines
it is proved.

Deadlock is checked in every run except `messages` and `config`, whose texts
and files end.

### Fairness

`session`: whoever closes a file goes on (`WorkerFairness`; between the blocks
there is only the mutex, file output and a callback that returns at once), and
the camera keeps sending keyframes (`CameraFairness`), without which a
post-buffer measured in keyframes cannot fill.  Nothing is assumed about alarms.

`node`: the worker keeps running, since `open_input` and `av_read_frame` return
(`RTSPStream` and its network timeouts); an alarm call that was begun is
completed; the stop sequence, once begun, proceeds.  Nothing forces a
connection, an alarm or a stop.

`stream`: worker, watchdog, a reader and a stop that has begun are scheduled,
and time passes.  A read ends by itself only if the network lets it; it ends
after the interrupt flag is set, because FFmpeg polls the interrupt callback.
`StreamStops` adds that reads do not block for ever, which is what the read
timeout given to FFmpeg is for: the worker may clear the flag that `stop` has
just set, and enter a read that no watchdog guards.

`alarms`: the threads run, and time passes.  A signal, a connection, a message
may never come, and `accept` returns only when the socket is shut down.
`TimeoutEnds` is about a recording that is not started again for ever: every
Start restarts the timer, and nothing keeps Starts from coming.

`scripts`: workers run and scripts end; a worker that wants the mutex gets it
(strong fairness on `Lock` only, as others may take the mutex in between
again and again).  Nothing is assumed about spurious wakeups.

## Proofs

All theorems hold for every value of the constants that satisfies the named
assumptions (`BufferAssumption`, `SessionAssumption`, `PoolAssumption`,
`StreamAssumption`, `ManagerAssumption`, `TextAssumption`, `ConfigurationAssumption`,
`RecursionAssumption`, ...).
`BufferAssumption` excludes a negative `pre_buffer_iframes`, with which the
trimming loop would not end.

**`Induction`.**  The induction theorems of the library have an operator as a
parameter, which the provers cannot instantiate.  Here they are stated over sets
and functions instead: a non-empty set of natural numbers has a least member
(from the theorem that `<` is well-founded), a set with 0 and every successor
has all numbers, the same for sequences and `Append`, and a recursive definition over `0 .. n` has a value when each
step stays in a set (`IterationExists`).  An induction over data is then an
induction over a length: the set to which it is applied holds the lengths for
which the claim is true of every sequence.

**`CameraProofs`, the window.**  The counters are right (`Sound`) and the window is within
its limits (`Bounded`) after every operation; together they are inductive.  The
way there is in steps of their own.  `SizeOf` is the sum of the sizes, and the
size of a window is that of its two parts (`SizeSplit`); hence popping any number
of packets keeps the counters right (`DropFrontSound`), and all three ways of
shrinking are pops.  `DropKeepsNewest` says that one turn of the trimming loop
does not change which groups of pictures are the newest `PreIFrames`;
`TrimGopsCorrect` follows along the turns (`TrimIsIteration`), with the number of
packets left as the measure that ends the loop, and gives
`TrimKeepsNewestGopsHolds` for every window and every limit.  The two emergency
clears are sound and reach their targets, which is where `BufferAssumption` on
the packet limit is used.

**`CameraProofs`, the session.**  None of the safety properties is inductive.
`IInv` adds what connects them: the closing thread's locals at each `pc`
(`LocalsInv`); that `FINALIZING`, and `IDLE` while `shutdown` runs, last
exactly from the first to the last block of the function that closes the file
(`WindowInv`); that during an event the window is empty (`WindowParked`); that
an installed muxer has a written header, is the current file, and is open
except between trailer and reset (`MuxerInv`); that the file being closed is
the installed one (`ClosingInv`); how closed, reported and open files are
related (`FilesInv`); and that every name in use is older than the next to be
used (`NamesInv`), which makes a new name fresh and a closed file never
reopened.  Each action has a lemma; the invariants, `NamesAreFresh` and the
refinement follow.  `SessionWindowBounded` carries the results about the window
over to the session (`WindowKept`): between events it is filled by the same
operation, during an event it is empty, and only after shutdown is requested,
when nothing is added any more, may a counter be behind.

**`CameraProofs`, the camera node.**  `NodeImplementsSession` shows by cases that
every step of the camera is a step of its session or leaves it unchanged; the
difficulty is that no call is pending when `shutdown` begins, which `JoinInv`
states.  All that holds of the session
carries over (`NodeNoWriteAfterTrailer`).  `IdleInv` adds what a session looks
like after `shutdown`, which gives `StopLeavesNothingOpenHolds`.
`NodeImplementsCalls` is a refinement in which the abstract state is computed
from `initialized_`, the state of the session, its last alarm, and where the two
threads are in `on_alarm`.  It goes through the steps of the session by what
they do to the recording: `start_event` and `continue_event` may begin one
(`SessionStarts`), `stop_event` ends it or puts it on record as missed
(`SessionStops`), and the steps that are neither, packets, rotations and the
ends of files, leave it alone (`SessionStill`, where `FinalizingWindow` says that
the end of a rotation finds the session `FINALIZING`).  `AlarmCalls`,
`WorkerCalls` and `MainCalls` add whose step it is: the first kind and the second
are returns of the call the thread is in, and the worker ends a recording only
where it reports a loss.

**`RTSPStreamProofs`.**  `ReportInv` says what the worker knows of the
connection at each point and that `wasConnected` is exactly "the last report
was found"; `StopInv` orders token, join and close.  With them
`LossKnownWhileDown`, `WatchdogOnlyOnConnection`, `PacketsReturned` and
`CallbacksAlternate` are inductive for all capacities, limits and delays, and
`StreamImplementsCycle` maps each of the worker's many places to one of the
cycle's (`Phase`).  `BackoffExponential` needs besides that the limited delay of
a failure, doubled and limited again, is the limited power of the next one
(`LimitedDouble`, `PowerDoubles`), and that the counter of attempts and the delay
are reset together.

**`RecorderProofs`.**  `OnAlarmLife`, `BreakLife` and `RetireLife` say what the
actions of `CameraLife` do to `Wanted`: only a Start adds to it, and after a
Stop the camera is not in it, obeyed or not.  `OrderInv` says which threads are
gone at each point of the shutdown; `LocalInv` and `EntryInv` what the local
variables and entries stand for.  `TimerCoversHolds` needs one assumption about the installation,
`OneCameraPerSerial`: all messages with one serial are for one camera.  Without
it `active_`, which has one entry per serial, lets one of two cameras record
without a timer.  `LastAlarmDecides` rests on `PendingInv`: the last message
that waits for a camera in the queue is the last one pushed for it, and a
camera that records against its last message has a message waiting, or has
missed a Stop.

**`FramingProofs`.**  `PiecesDoNotMatter` compares two very different readings:
the code scans the whole buffer again for every piece and every message, from
the first brace; `Read` is one pass that never looks back.  The proof first
shows that the pass can be interrupted anywhere: what it makes of a text and a
continuation is what it makes of the continuation from where the text has left
it (`ReadAfter`).  `ScannedSound` then says how far `findJsonEnd` has come in a
text that begins with a brace: either it has not found an end, and the pass is in
the same depth, string and escape with the whole text unfinished, or it has, and
the pass put out exactly the text up to there and is at its start again.  One turn
of the loop of `processBuffer` therefore moves a finished text from what
the pass still has to read to what has been cut (`CutOneSound`); the loop ends
with a rest from which the pass has put out nothing (`CutSound`), as every turn
but the last shortens the buffer.  `TextInv` relates the rest to everything
received: the texts cut are those of the pass, and the buffer leads the pass to
where all that was received leads it.  It is inductive for pieces of any length,
any texts, any limit of the buffer (only bytes outside a message are ever thrown
away) and any `EventOf`.  `AlarmsConcat` makes the events follow the texts.

**`JsonProofs`, the two passes.**  The second pass of `json_parse` writes without
a check into what the first has sized, so it must take the same way through
every text.  `Fits` says so of one construct: where the first pass ends without an
error, the second ends at the same token, with as many nodes written as were
counted, and no more characters.  It is shown for strings with each of their escapes
(`InStep`, character by character), for numbers (a run of number tokens, whatever
their order), for words, and for the loops over the members of an object and the
items of an array turn by turn (`LoopsInStep`), given that it holds one level
further down.
`LevelsFit` is the induction over the levels, `TextFits` the result for a whole
text, and `FilledFitsSizedHolds` the property of the run: for texts of any
length and any limit of nesting.

**`JsonProofs`, framing and parser.**  `findJsonEnd` knows strings and braces and
nothing else of JSON; the parser knows all of it.  Where the parser accepts an object, the
two agree on where it ends.  Outside strings only quotes and braces matter
to `findJsonEnd`, so blanks, numbers, words and brackets leave its record as it is
(`PlainRun`, `SkipQuiet`, `NumberQuiet`); a string the parser accepts leads it
back outside at the same depth (`StringQuiet`, where an escaped quote is an
escape to both); hence a whole value does (`LevelsQuiet`, again by induction
over the levels and, in an object or an array, over the turns).  The depth
therefore returns to 0 at the brace that closes the outermost object and at none
before (`ObjectEnds`); with the fact that the rest of the text does not move an
end once found (`EndStays`) this is `FrameEndsWithObjectHolds`.

**`ScriptExecutorProofs`.**  A worker that is about to wait decided so in an
earlier step, on an empty queue; the queue is still empty because it has held
the mutex since and `submit` needs it.  These two facts (`MutexInv`,
`BlocksOnEmptyQueue`) make `NoLostWakeup` inductive.  For `stop_` the same
argument fails, as the destructor does not take the mutex: that is
`pool_shutdown`.  `ScriptsRunOnceHolds` is proved for any queue length.

**`ConfigurationProofs`.**  The end of a section appends to the list and
registers in the repository in one step; `RepositoryAgrees` is inductive with
the types, for files of any length and any number of equal serials.
`LoadsWhatFileSays` compares the result with a reading of the whole file, in
which the value of a field is that of the last line that assigns it, in the
section or in a `[global]` before it; `LoadInv` says in the middle of a file what
the reader holds: the open section is the last header (`SectionInv`), its map has
the section's own values and the global map those of all `[global]` sections so
far (`ValuesInv`), all numbers could be read, and the list has the sections that
have ended (`Collected`).  What remains is how this reading changes with one more
line: a header changes no value and is given what `[global]` says so far
(`HeaderAppended`); an assignment changes one value of one section, and nothing
that an earlier header is given (`KeyAppended`).  A file that is refused is
covered as well: a line that throws makes the file unreadable, and at the end the
list has an address for every camera exactly when the sections have.

Only model-checked: all liveness properties (out of the prover's reach, as is
ENABLED), and of the safety properties `AcceptsJson`: its reference,
`JsonGrammar`, is a grammar of recursive operators, about which the prover cannot
reason.

## What the code does that a reader may not expect

Four disagreements with the repository's own words are runs (`stop_lost`,
`lost_race`, `pool_shutdown`, `silent_loss`).  The models contain, and the
properties are stated around, these as well:

* The forgotten Stop of `stop_lost` may be the only one of a hard timeout:
  `check_timeouts` erases the entry and sends one Stop
  (`camera_manager.cpp:98`), and without a further alarm the recording goes on
  (`README.md:112`).  `TimeoutEnds` is that the Stop is sent.
* Every Start of an event that is going on replaces its entry and restarts the
  hard timeout (`camera_manager.cpp:67`): a camera whose Starts keep coming
  within the timeout records without an end, although the hard timeout "forces
  STOP" (`README.md:112`).  Hence the condition of `TimeoutEnds`.
* A Start or a repeated Start that arrives while a file is being closed only
  logs or stores the alarm (`recording_session.cpp:227`, `:284`).
* A Stop between the decision to rotate and `finalize_and_rotate` ends the
  recording without its post-buffer (`recording_session.cpp:126`,
  `README.md:110`).
* Chunks are numbered from 0 and compared with `max_event_chunks`: an event may
  have one file more (`recording_session.cpp:82`, `README.md:114`).
* `force_stop` reports a file also when its trailer failed and it was deleted
  (`recording_session.cpp:357`); `shutdown` saves the last chunk and does not
  report it, which `SavedIsReported` excepts.
* A chunk begins at whatever packet the rotation meets, and an emergency
  cleanup may cut the window between keyframes (`README.md:278`).
* The watchdog may fire early on a packet that arrives between its two loads
  (`rtsp_stream.cpp:91`); after it has fired late, on a new connection, it
  disables itself and the connection is unguarded (`:97`), which is the
  exception in `GuardedSilenceEnds`.
* A global timeout of 0 turns off the timeouts of all cameras
  (`camera_manager.cpp:87`); messages without a serial of their own share one entry.
* A camera section gets what the `[global]` sections before it say, and the
  defaults for the rest; a `[global]` after it does not count for it
  (`config.cpp:126`), although "all parameters in `[global]`" are defaults "for
  every camera" (`README.md:104`).
* A camera parameter that is left empty is to fall back to `[global]`
  (`README.md:104`).  For a text it does; for a number `stoi` or `stod` throws
  at the empty text and the program does not start (`config.cpp:138-176`).
  `LoadsWhatFileSays` says what the code does in both cases.
* A `Channel` that is a number out of range makes `stoi` throw in the client's
  thread, where nobody catches it (`alarm_server.cpp:139`); the models leave the
  field out.
* An unfinished message grows without limit (`alarm_server.cpp:107`), finished
  client threads stay until the stop (`:72`), and a failed `bind` leaves a
  program without alarms (`:54`).

## Not modelled

`StreamAnalyzer` (a median of frame rates in floating point) and the
written-byte statistics, on which no control depends; what is written to a file
frame by frame; the field `Channel` of a message with the exception that its
conversion may throw; the codec parameters' contents, so that the data race between
`close_input` and `get_codec_params` is reachable as an overlap and has no
effect; the expansion of macros in names and commands, the conversion of
`Address` and `extract_ip_hex_from_rtsp` (text conversions);
`disable_logs`; the flags and writers of `json.h` that are not used; logging,
statistics output, command line, daemon mode and signals; the build.
Allocation failures are not modelled except where the code handles them.

## What is left

* `format_filename` as a function of the macros it knows, to replace the
  assumption that names are pairs.
* The lookup by address in its three notations, with the conversions that
  produce them.
