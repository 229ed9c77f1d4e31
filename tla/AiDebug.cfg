CONSTANTS NONE = none
          MODULUS = 8
          LIMIT = 2
          WINDOW = 2
          BUDGET = 4
          Pages <- MCPages
          EmptyPage <- MCEmpty
          RETRIES = 1
          MAX_CLICKS = 2
          MAX_CLEARS = 1
SPECIFICATION FairPanel
INVARIANTS FindingsOfSnapshot Grounded
PROPERTIES LateNeverShown RunSettles
