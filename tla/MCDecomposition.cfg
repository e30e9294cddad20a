SPECIFICATION DecomposeSpec
CONSTANTS
  Moduli = {3, 5, 13, 29, 37}
  Bases = {1, 2, 3, 4, 5, 7}
  PartCounts = {1, 2, 3, 4}
INVARIANTS TypeOK RoundTrip WithinHalfBase
CHECK_DEADLOCK FALSE
