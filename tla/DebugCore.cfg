CONSTANTS DEPTH = 3
          COUNT_MOD = 2
          OVERHEAD = 1
          Holders <- MCHolders
          Legacy <- MCLegacy
          TraceKinds <- MCTraces
          payload_len <- MCLen
SPECIFICATION FairSpec
INVARIANTS LineIsBuffer BytesInOrder Accounts
PROPERTIES EveryFrameLeaves MonitorServed
