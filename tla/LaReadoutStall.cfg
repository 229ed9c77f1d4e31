CONSTANTS DEPTH = 3
          ID_MOD = 2
          Sample <- MCSample
          CHUNK = 2
          MaxStall = 3
          Commands <- MCCalm
          Autos <- MCOff
SPECIFICATION FairReadout
PROPERTIES ReadoutEnds
