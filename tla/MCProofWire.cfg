SPECIFICATION Spec
CONSTANTS Word = 4
          LenWidth = 2
          UnaryMax = 16
          Q = 5
          D = 2
          Byte = 4
          HeaderLen = 3
          ParamsFor <- MCParamsFor
          Proofs <- MCProofs
INVARIANTS Reassembled InStep DamageRefused
CHECK_DEADLOCK FALSE
