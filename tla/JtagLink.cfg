CONSTANTS SIZE = 4
          COUNT_MOD = 8
          COUNT_MAX = 0
          MaxBytes = 5
          BITS = 2
          REQUEST_BITS = 2
          MAX_PAYLOAD = 3
          BIT_MAX = 7
SPECIFICATION Spec
INVARIANTS ShownOnce HeaderHolds
PROPERTIES LinkImplementsRing
