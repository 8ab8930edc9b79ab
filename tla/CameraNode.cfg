\* Two events of up to two chunks, any number of disconnects.
CONSTANTS
  PreIFrames = 1
  MaxPreBufferBytes = 3
  MaxPreBufferPackets = 1
  Sizes = {1}
  PostIFrames = 1
  MaxChunkBytes = 1
  ChunkTimed = FALSE
  MaxEventChunks = 1
  MuxerOutcomes = {"ok", "open_failed"}
  TrailerOutcomes = {TRUE}
  NoFile = NoFile
  GivesUp = FALSE
  MaxEvents = 2
  MaxChunks = 1

SPECIFICATION LiveNodeSpec

INVARIANTS
  StopLeavesNothingOpen

PROPERTIES
  ImplementsSession
  ImplementsCalls
  StopTerminates
