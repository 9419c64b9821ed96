\* Three sets of two files, two kept, two faults, and the scheduled run
\* together with one started by hand.
CONSTANTS
  MaxSets = 3
  MaxFiles = 2
  LocalKeep = 2
  Keep = 2
  Nightly = nightly
  Manual = manual
  Runs <- BothRuns
  UseHash = TRUE
  Racing = FALSE
  Slow = FALSE
  Faults = 2
  None = None
SPECIFICATION FairSpec
INVARIANTS OneCopyRun ManifestMeansWhole
PROPERTIES RetentionKeepsTheNewest LocalSetsReachOffsite
