CONSTANTS
  Depths = {1, 2, 3}
  MaxFaults = 2
  Outcomes = {TRUE, FALSE}
SPECIFICATION MCSpec
CHECK_DEADLOCK FALSE
INVARIANTS
  TypeOK
  Lockstep
  ChallengesBind
  FoldsAgree
  AcceptedIsGenuine
  HonestAccepted
  ProgressMatches
PROPERTIES
  ImplementsOracle
