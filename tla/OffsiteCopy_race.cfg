\* A process may die, there is no set to copy yet, and a run may take the lock
\* between another's look at it and its unlink: two runs meet a dead one's lock.
CONSTANTS
  MaxSets = 0
  MaxFiles = 1
  LocalKeep = 1
  Keep = 1
  Nightly = nightly
  Manual = manual
  Runs <- BothRuns
  UseHash = TRUE
  Racing = TRUE
  Slow = FALSE
  Faults = 1
  None = None
SPECIFICATION Spec
INVARIANT OneCopyRun
