\* Any number of messages of one connection for one of two cameras.
CONSTANTS
  Cameras <- MCCameras
  Global <- MCGlobal
  Events <- MCEvents
  MaxClients = 1
  MaxPending = 2

SPECIFICATION LiveRecorderSpec

INVARIANTS
  TimerCovers
  LastAlarmHolds
  QuietWhenNodesStop

PROPERTIES
  TimeoutEnds
  ShutdownTerminates
