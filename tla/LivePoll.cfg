\* One game from the posted lines to the final out, with failing statements
\* and a restart.
CONSTANTS
  Tables <- TwoTables
  MaxRows = 2
  Restarts = 1
  WritesFail = TRUE
  None = None
SPECIFICATION FairSpec
INVARIANT ClosingIsPregame
PROPERTIES ClosingIsKept LiveGamesAreWatched FinishedGamesAreClosed
