\* Liveness of the runs, with one restart and no failing statement.
CONSTANTS
  Runs = {r1, r2}
  Keys = {k1, k2}
  NoKey = NoKey
  NoRun = NoRun
  Clients = {c1}
  Games = 2
  Slots = 1
  MaxFaults = 0
  MaxStops = 1
SPECIFICATION FairSpec
PROPERTIES EveryRunEnds CancelStopsTheRun
CHECK_DEADLOCK FALSE
