\* A Stop while a chunk is being rotated.
CONSTANTS
  PreIFrames = 1
  MaxPreBufferBytes = 3
  MaxPreBufferPackets = 2
  Sizes = {1}
  PostIFrames = 1
  MaxChunkBytes = 2
  ChunkTimed = FALSE
  MaxEventChunks = 1
  MuxerOutcomes = {"ok"}
  TrailerOutcomes = {TRUE, FALSE}
  NoFile = NoFile
  MaxEvents = 2
  MaxChunks = 2

SPECIFICATION MCSpec

INVARIANT
  StopHonoured
