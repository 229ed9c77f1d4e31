CONSTANTS a = a
          b = b
          Keys = {a, b}
          NONE = none
          PERIOD = 4
          MAX_SPANS = 2
          RENDER_ITEMS = 2
          MAX_TIME = 5
          MAX_MADE = 3
          MAX_MARKS = 1
          MAX_WIRE = 2
SPECIFICATION SpecTrace
INVARIANTS SpansTrue LatestDrawn
CHECK_DEADLOCK FALSE
