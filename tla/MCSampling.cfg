SPECIFICATION SamplingSpec
CONSTANTS Top = 15
          MaxTries = 2
          Guard = 3
          Lengths = {1, 2}
          Q = 7
          D = 4
          W = 3
          MaxAttempts = 2
INVARIANTS Unbiased GivesUpLate WeightIsPlaces
CHECK_DEADLOCK FALSE
