CONSTANTS
  Depths = {2}
  MaxFaults = 0
  Outcomes = {TRUE, FALSE}
SPECIFICATION Spec
CHECK_DEADLOCK FALSE
INVARIANT
  AcceptedMeansAllChecked
