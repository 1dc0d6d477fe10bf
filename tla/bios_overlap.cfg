SPECIFICATION HistorySpec
CONSTANTS
  LastDLBA = 3
  CPM_SECS = 1
  Data = {0, 1}
  Blank = 0
  BUFF_COUNT = 2
  BUFF_SECS = 2
  SEQ_MOD = 8
  MaxFaults = 0
PROPERTY ReadReturnsLastWritten
