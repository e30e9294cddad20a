\* Every shape of a recursion for small numbers of signatures.
CONSTANTS
  Counts = {1, 2, 3, 4, 5, 6, 7, 10}
  MAX_DEPTH = 4
  T1s = {2, 4}
  T2s = {1}
  Kappas = {1, 3}
  Nus = {1, 2}
  Mus = {1, 3}
SPECIFICATION ShapesSpec
INVARIANTS
  FoldIsDefined
  NeverLargerThanAssumed
\* The recursion ends.
CHECK_DEADLOCK FALSE
