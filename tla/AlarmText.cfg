\* Up to five tokens of every kind of text, in pieces of one or two, and a
\* suffix; objects and arrays nest to a depth of two.
CONSTANTS
  MaxRecursion = 2
  Contexts <- MCContexts
  EventOf <- ParsedEvent
  MaxBuffer = 1
  MaxPiece = 2

SPECIFICATION TextSpec

CHECK_DEADLOCK FALSE

INVARIANTS
  PiecesDoNotMatter
  AcceptsJson
  FilledFitsSized
  FrameEndsWithObject
