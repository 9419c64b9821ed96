\* A game watched to its end, with no failing statement.
CONSTANTS
  Tables <- OneTable
  MaxRows = 1
  Restarts = 0
  WritesFail = FALSE
  None = None
SPECIFICATION Spec
INVARIANT CompletedRowsAreFinal
