CONSTANTS MAX_FRAMES_DUE = 3
          MAX_WRITES = 2
SPECIFICATION FairRender
INVARIANT NothingStale
PROPERTY Fresh
