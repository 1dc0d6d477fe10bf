SPECIFICATION Spec
CONSTANTS
  Chars = {"a", "b"}
  Files <- MCFiles
  Styles = {"stream", "query", "wait"}
  Formats = {"bin16", "bin32"}
  Escaped = {"b"}
  BufLen = 4
  FATFS_MAX_OPEN_FILES = 2
  MaxTries = 1
  Noise <- MCNoise
  MaxFaults = 1
INVARIANTS TypeOK PrefixUnlessStrayed SessionStores
PROPERTIES SessionEnds
CHECK_DEADLOCK FALSE
