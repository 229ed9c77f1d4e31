CONSTANTS SIZE = 4
          COUNT_MOD = 16
          COUNT_MAX = 2
          MaxBytes = 18
SPECIFICATION FairSpec
INVARIANTS BytesKept CodesAgree
PROPERTIES HeaderSound ImplementsQueue EverythingSurfaces
