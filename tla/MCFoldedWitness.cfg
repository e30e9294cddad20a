CONSTANT
  Shapes <- MCShapes
SPECIFICATION CopySpec
CHECK_DEADLOCK FALSE
INVARIANTS
  TypeOK
  FitsVectors
  Placed
PROPERTIES
  NonOverlapping
