SPECIFICATION StreamSpec
CONSTANTS Word = 4
          Byte = 2
          MaxBits = 9
PROPERTY ImplementsQueue
CHECK_DEADLOCK FALSE
