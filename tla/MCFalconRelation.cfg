SPECIFICATION Spec
CONSTANTS
  C = 5
  D = 3
  Sizes = {1, 2, 3, 5, 7}
  NullH = {1, 6, 11, 7}
INVARIANTS
  TypeOK
  EachInItsPlace
  HonestSatisfies
  Rigid
  OwnNormOnly
  VerifierBuildsSame
CHECK_DEADLOCK FALSE
