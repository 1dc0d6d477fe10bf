SPECIFICATION Spec
CONSTANTS
  FAT_BUFFERS = 2
  FAT_BUFFER_SECTORS = 2
  FatSectors = 2
  FatEntries = 6
  SectorSlots = 3
  SectorsPerCluster = 1
  RootSectors = 2
  ClustersKept = 4
  DriverWrites = 1
  FATFS_MAX_OPEN_FILES = 2
  Names = {a, b}
  Bytes = {x, y}
  Modes = {"r+", "a"}
  Uses = {"sectors", "bytes"}
  ByteCounts = {2, 4}
  Offsets = {0, 1}
  Types = {16, 32}
  WordSize = 2147483647
  Label = 5
  FreeClusters <- MCFree
SYMMETRY Symmetry
INVARIANTS TypeOK ReadDelivers ClosedFilesKept ListingMatches ChainsPartition BuffersMatchMedium
CHECK_DEADLOCK FALSE
