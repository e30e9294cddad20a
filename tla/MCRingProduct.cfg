CONSTANTS
  Searches <- MCSearches
  Radicands = {0, 2, 3, 4}
  Coefficients = {1, 3}
SPECIFICATION Spec
CHECK_DEADLOCK FALSE
INVARIANTS
  NearestPrime
  RootsExist
  BlocksAreResidues
  ProductIsSchoolbook
