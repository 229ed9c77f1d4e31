CONSTANTS DEPTH = 3
          ID_MOD = 2
          Sample <- MCSample
          CHUNK = 2
          MaxStall = 3
          Commands <- MCCommands
          Autos <- MCBoth
SPECIFICATION SpecReadout
INVARIANTS SentIsWindow StatusAccounts ReadoutOwned
