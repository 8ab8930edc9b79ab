\* Three attempts with delays 1, 2, 4 limited to 3; one tick of lag shows the
\* wrap-around of the elapsed time; one packet fits the pool and two are held.
CONSTANTS
  PoolCapacity = 1
  MaxAttempts = 3
  BaseDelay = 1
  MaxDelay = 3
  ReadTimeout = 2
  TimeModulus = 16
  MaxLag = 1
  Borrowers = 2

SPECIFICATION LiveStreamSpec

INVARIANTS
  LossKnownWhileDown
  WatchdogOnlyOnConnection
  BackoffExponential
  PacketsReturned

PROPERTIES
  CallbacksAlternate
  GuardedSilenceEnds
  StreamStops
  ImplementsCycle
