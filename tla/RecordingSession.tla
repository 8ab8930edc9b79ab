--------------------------- MODULE RecordingSession ---------------------------
(***************************************************************************)
(* One camera's recording state machine (recording_session.cpp).           *)
(*                                                                         *)
(* Two threads use a session.  The RTSP worker calls push_packet for every *)
(* video packet and force_stop when the connection breaks; the alarm       *)
(* thread (and the timeout monitor) calls start_event, continue_event and  *)
(* stop_event.  Every block that holds buffer_mtx_ is one atomic action.   *)
(* Closing a file is the exception: finalize_and_rotate, force_stop and    *)
(* shutdown take the mutex several times and write the trailer between two *)
(* of these blocks, so the alarm thread can step in at each gap.  `pc'     *)
(* says in which gap the closing thread is and `op', `path', `fmt', `ok'   *)
(* are its local variables.  shutdown runs on the main thread, but only    *)
(* after the RTSP worker has been joined, so the same `pc' serves it.      *)
(*                                                                         *)
(* A file is identified by the event and the chunk number that             *)
(* format_filename puts into its name (%e and %v).                         *)
(***************************************************************************)
EXTENDS PreBuffer

CONSTANTS
  PostIFrames,      \* cfg_.post_buffer_iframes
  MaxChunkBytes,    \* max_chunk_kbytes * 1024; 0 for no limit
  ChunkTimed,       \* max_chunk_duration_time_s > 0
  MaxEventChunks,   \* max_event_chunks; 0 for no limit
  MuxerOutcomes,    \* how init_muxer may end
  TrailerOutcomes,  \* how av_write_trailer may end: TRUE for success
  NoFile            \* no file, no muxer: null pointers and the empty path

FileId == Nat \X Nat

ASSUME SessionAssumption ==
  /\ PostIFrames \in Nat
  /\ MaxChunkBytes \in Nat
  /\ ChunkTimed \in BOOLEAN
  /\ MaxEventChunks \in Nat
  /\ MuxerOutcomes \subseteq {"ok", "open_failed", "no_stream", "header_failed"}
  /\ TrailerOutcomes \subseteq BOOLEAN
  /\ NoFile \notin FileId

VARIABLES
  state,              \* state_
  postIFrames,        \* post_buffer_iframe_count_
  ctx,                \* the file out_fmt_ctx_ writes, or NoFile
  outStream,          \* the file whose stream out_stream_ points to
  curFile,            \* current_filename_
  eventId,            \* current_event_id_
  chunkIdx,           \* chunk_idx_
  chunkBytes,         \* chunk_bytes_, counted up to MaxChunkBytes
  shutdownRequested   \* shutdown_requested_

VARIABLES
  pc,    \* the next step of the thread that pushes packets and closes files
  op,    \* which function closes the file, and previous_state
  path,  \* path_to_finalize
  fmt,   \* fmt_ptr
  ok     \* success

VARIABLES
  created,   \* files that avio_open has created
  opened,    \* files whose header was written: they hold a recording
  saved,     \* files whose trailer was written
  removed,   \* files deleted because the trailer failed
  notified   \* files reported by on_video_save

VARIABLE lastAlarm   \* history: what was last asked for

session == <<state, postIFrames, chunkIdx, chunkBytes, eventId>>
muxer   == <<ctx, outStream, curFile>>
closing == <<pc, op, path, fmt, ok>>
files   == <<created, opened, saved, removed, notified>>

vars == <<preBuf, session, muxer, closing, files, lastAlarm, shutdownRequested>>

States == {"IDLE", "PRE_BUFFER", "RECORDING", "FINALIZING", "POST_BUFFER"}

(* Mutant: a session that is closing a file passes for inactive.           *)
Inactive_OrFinalizing == {"IDLE", "PRE_BUFFER", "FINALIZING"}

Inactive == {"IDLE", "PRE_BUFFER"}

Closed == saved \cup removed

Init ==
  /\ BufferInit
  /\ state = "PRE_BUFFER"
  /\ postIFrames = 0 /\ eventId = 0 /\ chunkIdx = 0 /\ chunkBytes = 0
  /\ ctx = NoFile /\ outStream = NoFile /\ curFile = NoFile
  /\ shutdownRequested = FALSE
  /\ pc = "idle" /\ op = "none" /\ path = NoFile /\ fmt = NoFile /\ ok = FALSE
  /\ created = {} /\ opened = {} /\ saved = {} /\ removed = {} /\ notified = {}
  /\ lastAlarm = "none"

-----------------------------------------------------------------------------
(* The muxer *)

(* Mutant: the context is installed before the header is written.          *)
InitMuxer_InstallsEarly(f, outcome, c, s) ==
  /\ curFile'   = f
  /\ ctx'       = (IF outcome = "open_failed" THEN c ELSE f)
  /\ outStream' = (IF outcome = "open_failed" THEN s ELSE f)
  /\ created'   = (IF outcome = "open_failed" THEN created ELSE created \cup {f})
  /\ opened'    = (IF outcome = "ok" THEN opened \cup {f} ELSE opened)

(***************************************************************************)
(* init_muxer for file f, when out_fmt_ctx_ and out_stream_ are c and s.   *)
(* The output context is installed only at the end; an error before that   *)
(* leaves what was done so far: an empty file on disk once avio_open has   *)
(* succeeded, and out_stream_ pointing into the context just freed when    *)
(* the header could not be written.                                        *)
(***************************************************************************)
InitMuxer(f, outcome, c, s) ==
  /\ curFile'   = f
  /\ ctx'       = (IF outcome = "ok" THEN f ELSE c)
  /\ outStream' = (IF outcome = "open_failed" THEN s
                   ELSE IF outcome = "no_stream" THEN NoFile ELSE f)
  /\ created'   = (IF outcome = "open_failed" THEN created ELSE created \cup {f})
  /\ opened'    = (IF outcome = "ok" THEN opened \cup {f} ELSE opened)

-----------------------------------------------------------------------------
(* Alarm thread *)

(***************************************************************************)
(* start_event.  Drained packets go to the file just opened, or nowhere if *)
(* the muxer could not be initialised; the session records either way.     *)
(***************************************************************************)
StartEvent ==
  /\ lastAlarm' = "start"
  /\ \/ /\ state \notin Inactive
        /\ UNCHANGED <<preBuf, session, muxer, files>>
     \/ /\ state \in Inactive
        /\ eventId' = eventId + 1
        /\ chunkIdx' = 0
        /\ chunkBytes' = 0
        /\ \E outcome \in MuxerOutcomes :
              InitMuxer(<<eventId + 1, 0>>, outcome, ctx, outStream)
        /\ DrainPreBuffer
        /\ state' = "RECORDING"
        /\ UNCHANGED <<postIFrames, saved, removed, notified>>
  /\ UNCHANGED <<closing, shutdownRequested>>

(* Mutant: a Continue during FINALIZING takes effect at once.              *)
ContinueEvent_AtOnce ==
  /\ state \notin Inactive
  /\ lastAlarm' = "continue"
  /\ state' = "RECORDING" /\ postIFrames' = 0
  /\ UNCHANGED <<preBuf, eventId, chunkIdx, chunkBytes, muxer, closing, files,
                 shutdownRequested>>

(* continue_event: only a POST_BUFFER session changes state.               *)
ContinueEvent ==
  /\ state \notin Inactive
  /\ lastAlarm' = "continue"
  /\ IF state = "POST_BUFFER"
     THEN state' = "RECORDING" /\ postIFrames' = 0
     ELSE UNCHANGED <<state, postIFrames>>
  /\ UNCHANGED <<preBuf, eventId, chunkIdx, chunkBytes, muxer, closing, files,
                 shutdownRequested>>

(* Mutant: a Stop during FINALIZING takes effect at once.                  *)
StopEvent_AtOnce ==
  /\ state \notin Inactive
  /\ lastAlarm' = "stop"
  /\ state' = "POST_BUFFER" /\ postIFrames' = 0
  /\ UNCHANGED <<preBuf, eventId, chunkIdx, chunkBytes, muxer, closing, files,
                 shutdownRequested>>

(* stop_event: only a RECORDING session changes state.                     *)
StopEvent ==
  /\ state \notin Inactive
  /\ lastAlarm' = "stop"
  /\ IF state = "RECORDING"
     THEN state' = "POST_BUFFER" /\ postIFrames' = 0
     ELSE UNCHANGED <<state, postIFrames>>
  /\ UNCHANGED <<preBuf, eventId, chunkIdx, chunkBytes, muxer, closing, files,
                 shutdownRequested>>

-----------------------------------------------------------------------------
(* RTSP worker: packets.  A packet that meets IDLE or FINALIZING, or that  *)
(* comes after shutdown was requested, is freed and changes nothing.       *)

CountHit == MaxEventChunks > 0 /\ chunkIdx >= MaxEventChunks

CountedUpTo(limit, n) == IF n < limit THEN n ELSE limit

PushToPreBuffer(p) ==
  /\ pc = "idle" /\ ~shutdownRequested
  /\ state = "PRE_BUFFER"
  /\ AddToPreBuffer(p)
  /\ UNCHANGED <<session, muxer, closing, files, lastAlarm, shutdownRequested>>

(***************************************************************************)
(* The RECORDING branch of push_packet: write, count, and decide under the *)
(* mutex whether the chunk is full; finalize_and_rotate is called after    *)
(* the mutex has been released.  Whether max_chunk_duration_time_s has     *)
(* passed is left open.                                                    *)
(***************************************************************************)
PushToRecording(p) ==
  /\ pc = "idle" /\ ~shutdownRequested
  /\ state = "RECORDING"
  /\ chunkBytes' = CountedUpTo(MaxChunkBytes, chunkBytes + p.size)
  /\ \E timeHit \in (IF ChunkTimed THEN BOOLEAN ELSE {FALSE}) :
       LET sizeHit == MaxChunkBytes > 0 /\ chunkBytes' >= MaxChunkBytes
       IN  pc' = IF (timeHit \/ sizeHit) /\ ~CountHit THEN "finalize" ELSE "idle"
  /\ UNCHANGED <<preBuf, state, postIFrames, chunkIdx, eventId, muxer, op, path,
                 fmt, ok, files, lastAlarm, shutdownRequested>>

(* The POST_BUFFER branch: add_to_post_buffer counts keyframes.            *)
PushToPostBuffer(p) ==
  /\ pc = "idle" /\ ~shutdownRequested
  /\ state = "POST_BUFFER"
  /\ postIFrames' = postIFrames + (IF p.key THEN 1 ELSE 0)
  /\ pc' = IF postIFrames' >= PostIFrames THEN "finalize" ELSE "idle"
  /\ UNCHANGED <<preBuf, state, chunkIdx, chunkBytes, eventId, muxer, op, path,
                 fmt, ok, files, lastAlarm, shutdownRequested>>

PushPacket(p) == PushToPreBuffer(p) \/ PushToRecording(p) \/ PushToPostBuffer(p)

-----------------------------------------------------------------------------
(* Closing a file *)

Return ==
  /\ pc' = "idle" /\ op' = "none"
  /\ path' = NoFile /\ fmt' = NoFile /\ ok' = FALSE

DropMuxer == ctx' = NoFile /\ outStream' = NoFile /\ UNCHANGED curFile

(* Mutant: without a muxer it returns from POST_BUFFER as from RECORDING.  *)
FinalizeBegin_LeavesPostBuffer ==
  /\ pc = "finalize"
  /\ state \in {"RECORDING", "POST_BUFFER"}
  /\ IF ctx # NoFile
     THEN /\ state' = "FINALIZING" /\ pc' = "io" /\ path' = curFile
          /\ op' = IF state = "RECORDING" THEN "rotate" ELSE "finish"
          /\ UNCHANGED <<fmt, ok>>
     ELSE Return /\ UNCHANGED state
  /\ UNCHANGED <<preBuf, postIFrames, chunkIdx, chunkBytes, eventId, muxer,
                 files, lastAlarm, shutdownRequested>>

(***************************************************************************)
(* finalize_and_rotate, first block.  The state is read again: the alarm   *)
(* thread may have changed RECORDING into POST_BUFFER or back since        *)
(* push_packet decided to come here.  It changes neither into anything     *)
(* else, so the return from other states (recording_session.cpp:144-146)   *)
(* is never taken and is left out; LocalsInv of CameraProofs shows it.     *)
(***************************************************************************)
FinalizeBegin ==
  /\ pc = "finalize"
  /\ state \in {"RECORDING", "POST_BUFFER"}
  /\ IF ctx # NoFile
     THEN /\ state' = "FINALIZING"
          /\ pc' = "io"
          /\ op' = IF state = "RECORDING" THEN "rotate" ELSE "finish"
          /\ path' = curFile
          /\ UNCHANGED <<postIFrames, fmt, ok>>
     ELSE /\ Return
          /\ IF state = "RECORDING"
             THEN UNCHANGED <<state, postIFrames>>
             ELSE state' = "PRE_BUFFER" /\ postIFrames' = 0
  /\ UNCHANGED <<preBuf, chunkIdx, chunkBytes, eventId, muxer, files, lastAlarm,
                 shutdownRequested>>

(* finalize_file_io, the block that fetches the muxer.                     *)
FetchMuxer ==
  /\ pc = "io"
  /\ fmt' = ctx
  /\ pc' = IF ctx = NoFile THEN "end" ELSE "trailer"
  /\ UNCHANGED <<preBuf, session, muxer, op, path, ok, files, lastAlarm,
                 shutdownRequested>>

(* finalize_file_io without the mutex: write the trailer and close the     *)
(* file; a file without a trailer is deleted.                              *)
WriteTrailer ==
  /\ pc = "trailer"
  /\ pc' = "end"
  /\ ok' \in TrailerOutcomes
  /\ IF ok'
     THEN saved' = saved \cup {fmt} /\ UNCHANGED removed
     ELSE removed' = removed \cup {path} /\ UNCHANGED saved
  /\ UNCHANGED <<preBuf, session, muxer, op, path, fmt, created, opened,
                 notified, lastAlarm, shutdownRequested>>

(* Mutant: chunk_idx_ is not incremented.                                  *)
NextChunk_Same == chunkIdx

NextChunk == chunkIdx + 1

(***************************************************************************)
(* finalize_and_rotate, last block.  A rotation opens the next chunk at    *)
(* once, whether or not the previous one was saved.                        *)
(***************************************************************************)
FinalizeEnd ==
  /\ pc = "end"
  /\ \/ /\ op = "rotate"
        /\ chunkIdx' = NextChunk
        /\ chunkBytes' = 0
        /\ \E outcome \in MuxerOutcomes :
              InitMuxer(<<eventId, NextChunk>>, outcome, NoFile, NoFile)
        /\ state' = "RECORDING"
        /\ UNCHANGED postIFrames
     \/ /\ op = "finish"
        /\ DropMuxer
        /\ postIFrames' = 0
        /\ state' = "PRE_BUFFER"
        /\ UNCHANGED <<chunkIdx, chunkBytes, created, opened>>
  /\ IF ok THEN pc' = "notify" /\ UNCHANGED <<op, path, fmt, ok>> ELSE Return
  /\ UNCHANGED <<preBuf, eventId, saved, removed, notified, lastAlarm,
                 shutdownRequested>>

(* The on_video_save callback, after the mutex has been released.          *)
Notify ==
  /\ pc = "notify"
  /\ notified' = notified \cup {path}
  /\ Return
  /\ UNCHANGED <<preBuf, session, muxer, created, opened, saved, removed,
                 lastAlarm, shutdownRequested>>

(* Mutant: the path is taken even if there is no muxer.                    *)
ForceStop_NamesAnyFile ==
  /\ pc = "idle"
  /\ state \notin Inactive
  /\ state' = "FINALIZING" /\ op' = "force" /\ path' = curFile /\ pc' = "io"
  /\ preBuf' = [preBuf EXCEPT !.pkts = <<>>, !.iframes = 0]
  /\ postIFrames' = 0 /\ lastAlarm' = "none"
  /\ UNCHANGED <<chunkIdx, chunkBytes, eventId, muxer, fmt, ok, files,
                 shutdownRequested>>

(* force_stop, first block: it does not reset the byte counter.            *)
ForceStop ==
  /\ pc = "idle"
  /\ state \notin Inactive
  /\ state' = "FINALIZING"
  /\ op' = "force"
  /\ IF ctx # NoFile
     THEN path' = curFile /\ pc' = "io"
     ELSE path' = NoFile /\ pc' = "end"
  /\ preBuf' = [preBuf EXCEPT !.pkts = <<>>, !.iframes = 0]
  /\ postIFrames' = 0
  /\ lastAlarm' = "none"
  /\ UNCHANGED <<chunkIdx, chunkBytes, eventId, muxer, fmt, ok, files,
                 shutdownRequested>>

(* Mutant: a recording cut off by a lost connection is not reported.       *)
ForceStopEnd_Silent ==
  /\ pc = "end" /\ op = "force"
  /\ DropMuxer
  /\ state' = "PRE_BUFFER"
  /\ Return
  /\ UNCHANGED <<preBuf, postIFrames, chunkIdx, chunkBytes, eventId, files,
                 lastAlarm, shutdownRequested>>

(* force_stop, last block.  The callback follows even if the trailer       *)
(* failed: the result of finalize_file_io is not looked at.                *)
ForceStopEnd ==
  /\ pc = "end" /\ op = "force"
  /\ DropMuxer
  /\ state' = "PRE_BUFFER"
  /\ IF path # NoFile THEN pc' = "notify" /\ UNCHANGED <<op, path, fmt, ok>>
                      ELSE Return
  /\ UNCHANGED <<preBuf, postIFrames, chunkIdx, chunkBytes, eventId, files,
                 lastAlarm, shutdownRequested>>

(* Mutant: a recording in POST_BUFFER counts as finished.                  *)
ShutdownBegin_SkipsPostBuffer ==
  /\ pc = "idle"
  /\ shutdownRequested' = TRUE
  /\ op' = "shutdown"
  /\ IF state = "RECORDING" /\ ctx # NoFile
     THEN path' = curFile /\ pc' = "io"
     ELSE path' = NoFile /\ pc' = "end"
  /\ preBuf' = [preBuf EXCEPT !.pkts = <<>>]
  /\ state' = "IDLE" /\ lastAlarm' = "none"
  /\ UNCHANGED <<postIFrames, chunkIdx, chunkBytes, eventId, muxer, fmt, ok,
                 files>>

(***************************************************************************)
(* shutdown, first block, once the RTSP worker and the alarm threads have  *)
(* been joined; CameraNode::stop and the destructor both call it.  It      *)
(* empties the window but leaves its counters alone.                       *)
(***************************************************************************)
ShutdownBegin ==
  /\ pc = "idle"
  /\ shutdownRequested' = TRUE
  /\ op' = "shutdown"
  /\ IF state \notin Inactive /\ ctx # NoFile
     THEN path' = curFile /\ pc' = "io"
     ELSE path' = NoFile /\ pc' = "end"
  /\ preBuf' = [preBuf EXCEPT !.pkts = <<>>]
  /\ state' = "IDLE"
  /\ lastAlarm' = "none"
  /\ UNCHANGED <<postIFrames, chunkIdx, chunkBytes, eventId, muxer, fmt, ok,
                 files>>

ShutdownEnd ==
  /\ pc = "end" /\ op = "shutdown"
  /\ DropMuxer
  /\ Return
  /\ UNCHANGED <<preBuf, session, files, lastAlarm, shutdownRequested>>

-----------------------------------------------------------------------------

(***************************************************************************)
(* The session relies on its users for the order of the calls: nobody      *)
(* calls it with an alarm or a lost connection once shutdown was called.   *)
(* (start_event would begin a new event in an IDLE session.)               *)
(***************************************************************************)
Request == ~shutdownRequested /\ (StartEvent \/ ContinueEvent \/ StopEvent \/ ForceStop)

Close == FinalizeBegin \/ FetchMuxer \/ WriteTrailer \/ FinalizeEnd
           \/ ForceStopEnd \/ ShutdownEnd \/ Notify

Next ==
  \/ Request
  \/ \E p \in Packet : PushPacket(p)
  \/ Close
  \/ ShutdownBegin

Spec == Init /\ [][Next]_vars

-----------------------------------------------------------------------------
(* Properties *)

(* Every variable of the state machine has a value of its type; the        *)
(* window has its own invariant in PreBuffer.                              *)
TypeOK ==
  /\ state \in States
  /\ postIFrames \in Nat /\ eventId \in Nat /\ chunkIdx \in Nat
  /\ chunkBytes \in 0..MaxChunkBytes
  /\ ctx \in FileId \cup {NoFile} /\ outStream \in FileId \cup {NoFile}
  /\ curFile \in FileId \cup {NoFile}
  /\ path \in FileId \cup {NoFile} /\ fmt \in FileId \cup {NoFile}
  /\ shutdownRequested \in BOOLEAN /\ ok \in BOOLEAN
  /\ pc \in {"idle", "finalize", "io", "trailer", "end", "notify"}
  /\ op \in {"none", "rotate", "finish", "force", "shutdown"}
  /\ created \subseteq FileId /\ opened \subseteq created
  /\ saved \subseteq opened /\ removed \subseteq opened /\ notified \subseteq opened
  /\ lastAlarm \in {"none", "start", "continue", "stop"}

(* FINALIZING shields a file exactly while finalize_and_rotate or          *)
(* force_stop is between its first and its last block: no path leaves the  *)
(* state behind, which would drop every later packet and alarm.            *)
FinalizingWindow ==
  state = "FINALIZING" <=>
    pc \in {"io", "trailer", "end"} /\ op \in {"rotate", "finish", "force"}

(* Whatever alarms come while a file is being closed, a session that       *)
(* accepts packets for a file has an open one: write_packet_to_file never  *)
(* meets a muxer whose trailer is written and whose pb is gone, and it     *)
(* reads the time base of a stream that belongs to that muxer.             *)
NoWriteAfterTrailer ==
  state \in {"RECORDING", "POST_BUFFER"} /\ ctx # NoFile =>
    ctx \in opened \ Closed /\ outStream = ctx /\ curFile = ctx

(* Every recording that was begun is closed, with a trailer or by          *)
(* deletion, before out_fmt_ctx_ is reset or replaced; otherwise the file  *)
(* stays open and unplayable for the life of the process.                  *)
NoOpenFileLost == opened \ Closed \subseteq {ctx}

(* The thread that is about to call on_video_save holds the name of a      *)
(* closed file that was not reported before and that no muxer still        *)
(* writes, although the alarm thread may have opened the next one.         *)
ReportsClosedFileOnce ==
  pc = "notify" => path \in Closed \ notified /\ path # ctx

(* avio_open truncates: a session that begins to record, an event or the   *)
(* next chunk, whichever thread it is on, never takes the name of a file   *)
(* that exists already.                                                    *)
NamesAreFresh ==
  [][state' = "RECORDING" /\ state \in Inactive \cup {"FINALIZING"}
       => curFile' \notin created]_vars

(* While an event is being recorded the window and both its counters are   *)
(* at zero, whichever way the session gets in and out of its states; a     *)
(* byte count left over from an earlier event would trigger the emergency  *)
(* cleanup in the next.                                                    *)
WindowParked ==
  state \in {"RECORDING", "POST_BUFFER", "FINALIZING"} => preBuf = EmptyBuffer

(* The session implements the promise about its files.                     *)
VF == INSTANCE VideoFiles WITH open <- opened \ Closed

ImplementsVideoFiles == VF!Spec

-----------------------------------------------------------------------------
(* What the program says of itself, and does not keep                      *)

(* stop_event's log for a Stop during FINALIZING: it "will transition to   *)
(* POST_BUFFER after rotation".  So once the rotation is over, a session   *)
(* whose latest alarm was a Stop is not RECORDING.                         *)
StopHonoured == lastAlarm = "stop" /\ pc = "idle" => state # "RECORDING"

=============================================================================
