\* The destructor's store of stop_ and notify_all fall between a worker's
\* test of the predicate and its wait: it is never woken again.
CONSTANTS
  Workers = {w1, w2}
  Scripts = {s1, s2}
  NoOne = NoOne

SPECIFICATION FairSpec

PROPERTY
  ShutdownCompletes
