\* The races of submits, cancels and tasks, with failing statements, late
\* progress writes and one restart.
CONSTANTS
  Runs = {r1, r2}
  Keys = {k1, k2}
  NoKey = NoKey
  NoRun = NoRun
  Clients = {c1, c2}
  Games = 2
  Slots = 1
  MaxFaults = 1
  MaxStops = 1
SPECIFICATION Spec
SYMMETRY Sym
INVARIANTS OneActivePerKey CancelledTaskIsIdle QueueOrderIsStartOrder ActiveRowsOwned
PROPERTIES RowsFollowTheBook
CHECK_DEADLOCK FALSE
