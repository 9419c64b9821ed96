SPECIFICATION Spec
CONSTANTS
  Outs = 3
  Lineup = 2
  PenSize = 1
  Regulation = 1
  MaxInnings = 1
  MaxPitches = 6
  BallsForWalk = 2
  StrikesForOut = 2
  Rows <- Pool
  LooseSteals = TRUE
  LeftHanded <- Lefty
INVARIANTS Balanced OutsOfTheStaffs RunsAreCredited OrderFollowsTheBatters MoundIsFielding
PROPERTY EveryStepGetsOn
