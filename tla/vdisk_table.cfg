SPECIFICATION HistorySpec
CONSTANTS
  DriveCount = 3
  MAX_OPEN_FAT = 2
  FATFS_MAX_OPEN_FILES = 2
  READ_COUNT = 2
  LastLba = 1
  Data <- MCData
  Written = {99}
  Blank = 99
  Stored <- MCStored
  Lengths <- MCLengths
  MaxCalls = 4
  MaxFaults = 1
INVARIANTS TypeOK TableMatchesLibrary OpenNeverRefused
PROPERTIES ReadDelivers WriteStaysInImage LengthKept VictimIsLeastRecent
