SPECIFICATION FairSpec
CONSTANTS
  LastDLBA = 2
  CPM_SECS = 1
  Data = {0, 1}
  Blank = 0
  BUFF_COUNT = 2
  BUFF_SECS = 1
  SEQ_MOD = 2
  MaxFaults = 0
PROPERTY BehavesAsDisk
PROPERTY EveryCallReturns
