SPECIFICATION FairSpec
CONSTANTS
  Outs = 3
  Lineup = 2
  PenSize = 0
  Regulation = 2
  MaxInnings = 3
  MaxPitches = 13
  BallsForWalk = 1
  StrikesForOut = 1
  Rows <- ShortPool
  LooseSteals = FALSE
  LeftHanded <- Lefty
INVARIANTS GridAddsUp FinalScore
PROPERTY PlaysByTheRules GameEnds
