CONSTANTS Windows <- MCWindows
          NONE = none
          CHUNK = 2
          IDS = 2
SPECIFICATION SpecAssembly
INVARIANTS WindowExact GapsExact CompleteWhenAll
CHECK_DEADLOCK FALSE
