\* Iterations with their algebra, over Z_13[X] / (X^2 + 1).
CONSTANTS
  q = 13
  D = 2
  PROJECTION_ROWS = 2
  K_PP = 2
  TAU_SQ = 4
  Seeds = {0, 1}
  Cases <- MCCases
  Changes <- MCChanges
  Squeeze <- MCSqueeze
SPECIFICATION Spec
INVARIANTS
  HonestPasses
  FoldMeansChecks
  AggregatesAreCombinations
  ProjectionTied
  ChangeIsCaught
\* A proof is made and checked once.
CHECK_DEADLOCK FALSE
