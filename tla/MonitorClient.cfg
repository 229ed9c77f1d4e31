CONSTANTS depth = depth
          pre = pre
          status = status
          Addr = {depth, pre, status}
          Bit = {0}
          Writable = {depth, pre, status}
          Trigger = {}
          W1C = {status}
          Live <- MCNothing
          CAPTURE_DEPTH = depth
          BadValues <- MCBad
          ResetBank <- MCNothing
          ConfigOrder <- MCOrder
          Configs <- MCConfigs
          DefaultConfig <- MCDefault
          UserReads = {status}
          UserWrites <- MCWrites
          NONE = none
          UNDERWAY = 3
          SEQ_MAX = 3
          APPLIERS = 2
          MAX_OLD = 1
          MAX_BLIND = 1
SPECIFICATION FairMonitor
INVARIANTS AnswersMatch ShownIsDevice LastConfigWins
CHECK_DEADLOCK FALSE
PROPERTY EveryRequestSettles
