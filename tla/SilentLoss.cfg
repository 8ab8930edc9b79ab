\* A connection that the watchdog has ended.
CONSTANTS
  PoolCapacity = 1
  MaxAttempts = 3
  BaseDelay = 1
  MaxDelay = 3
  ReadTimeout = 2
  TimeModulus = 16
  MaxLag = 1
  Borrowers = 2

SPECIFICATION StreamSpec

INVARIANTS
  DisconnectReported
