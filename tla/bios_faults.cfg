SPECIFICATION Spec
CONSTANTS
  LastDLBA = 2
  CPM_SECS = 1
  Data = {0, 1}
  Blank = 0
  BUFF_COUNT = 2
  BUFF_SECS = 2
  SEQ_MOD = 1
  MaxFaults = 1
INVARIANT TypeOK
INVARIANT CopyStaysInBuffer
INVARIANT FlushAllLeavesClean
PROPERTY NoDirtyReuse
PROPERTY DirectoryDurable
