\* Windows of at most two GOPs.  The byte limit is reached by three large
\* packets, the packet limit by six small ones without a keyframe.
CONSTANTS
  PreIFrames = 2
  MaxPreBufferBytes = 8
  MaxPreBufferPackets = 5
  Sizes = {1, 3}

SPECIFICATION BufferSpec

INVARIANTS
  BufferTypeOK
  WindowAccounts
  WindowBounded
  TrimKeepsNewestGops
