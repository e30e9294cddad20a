SPECIFICATION ScalarSpec
CONSTANTS Word = 8
          Byte = 4
          LenWidth = 3
          UnaryMax = 40
          Params = {0, 1, 3, 7}
          Moduli = {3, 5, 17, 61}
INVARIANT ReadsBack
CHECK_DEADLOCK FALSE
