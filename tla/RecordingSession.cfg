\* Two events of up to three chunks.  A chunk is full after two packets or
\* whenever the clock says so; every failure of the muxer is possible.
CONSTANTS
  PreIFrames = 1
  MaxPreBufferBytes = 3
  MaxPreBufferPackets = 2
  Sizes = {1}
  PostIFrames = 1
  MaxChunkBytes = 2
  ChunkTimed = TRUE
  MaxEventChunks = 1
  MuxerOutcomes = {"ok", "open_failed", "no_stream", "header_failed"}
  TrailerOutcomes = {TRUE, FALSE}
  NoFile = NoFile
  MaxEvents = 2
  MaxChunks = 2

SPECIFICATION LiveSpec

INVARIANTS
  TypeOK
  FinalizingWindow
  NoWriteAfterTrailer
  NoOpenFileLost
  ReportsClosedFileOnce
  WindowParked

PROPERTIES
  NamesAreFresh
  ImplementsVideoFiles
  PostBufferEnds
  SavedIsReported
