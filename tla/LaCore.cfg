CONSTANTS SAMPLE_DEPTH = 3
          DIV_MAX = 2
          DIV_MOD = 3
          ID_MOD = 1
          Modes <- MCModes
          Commands <- MCCommands
SPECIFICATION FairSpec
INVARIANTS WindowIsLast TriggerMarksSample WindowIsFull
PROPERTIES CoreIsCapture CaptureEnds
