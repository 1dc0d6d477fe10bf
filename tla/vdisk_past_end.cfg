SPECIFICATION HistorySpec
CONSTANTS
  DriveCount = 1
  MAX_OPEN_FAT = 1
  FATFS_MAX_OPEN_FILES = 1
  READ_COUNT = 1
  LastLba = 2
  Data <- MCData
  Written = {99}
  Blank = 99
  Stored <- MCStored
  Lengths <- MCLengths
  MaxCalls = 4
  MaxFaults = 0
PROPERTY WriteLandsAtLba
