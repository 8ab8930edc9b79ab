\* Fewer workers than scripts, so that a busy pool queues, and more than one
\* worker, so that they compete for a task.
CONSTANTS
  Workers = {w1, w2}
  Scripts = {s1, s2, s3}
  NoOne = NoOne

SPECIFICATION FairSpec

INVARIANTS
  NoLostWakeup
  ScriptsRunOnce

PROPERTIES
  ScriptsRun
