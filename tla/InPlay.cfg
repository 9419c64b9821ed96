SPECIFICATION PlaySpec
CONSTANT Outs = 3
INVARIANTS BodiesConserved NobodyPasses NoFourthOut ExtraBaseIsRedrawn
CHECK_DEADLOCK FALSE
