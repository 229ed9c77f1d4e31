CONSTANTS SOF = 3
          RADIX = 4
          MAX_PAYLOAD = 1
          SOCKETS = 2
          DataSizes = {3, 4}
          HalfCounts = {1, 2}
          MAX_WIRE = 1
          MAX_CHUNKS = 1
          HASTY_BYTES = 3
          Script <- MCScript
          Files <- MCFiles
          SerialBytes <- MCSerial
SPECIFICATION Spec
INVARIANTS StreamIsBatch FramesAreTheTargets NoGlue RecordsOnce
CHECK_DEADLOCK FALSE
