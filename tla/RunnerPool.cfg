\* A job in three chunks and a recording share the pool; a worker
\* dies, the app closes.
CONSTANTS
  Batches = {}
  Jobs = {j1}
  Recordings = {r1}
  Workers = 3
  Games = 2
  Chunks = 3
  Ids = {p1, p2, p3, p4}
  NoPool = NoPool
  NoCall = NoCall
  Crashes = 1
  Closes = TRUE
SPECIFICATION FairSpec
INVARIANTS RecordingsAreServed OnePool OneFleet
PROPERTY EveryCallEnds
\* A stop before every call has ended is what the property rules out.
CHECK_DEADLOCK FALSE
