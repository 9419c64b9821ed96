\* Builds and restores one at a time, any of which fails or dies anywhere,
\* beside an app that follows the link.
CONSTANTS
  Builders = {b1}
  Restorers = {r1}
  Overlap = FALSE
  Parts = {p1, p2}
  Keep = 1
  Builds = 2
  Jobs = 1
  Writes = 1
  Deaths = 1
SPECIFICATION FairSpec
INVARIANTS LinkIsWhole 
PROPERTY NewBundleIsLoaded
