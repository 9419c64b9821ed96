\* One game pitch by pitch, with lost signals, a restart, a league that
\* refuses and a cache that fails and expires.
CONSTANTS
  AtBats = 3
  Tasks = {t1, t2}
  Restarts = 1
  None = None
SPECIFICATION Spec
SYMMETRY Sym
INVARIANTS OneRefresh HistoryIsWhole
PROPERTIES StateAdvances ResimsAscend
