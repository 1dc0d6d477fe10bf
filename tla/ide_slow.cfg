SPECIFICATION FairSpec
CONSTANTS
  LastLBA = 2
  MaxCount = 3
  Data = {0, 1}
  Garbage = garbage
  Identity = identity
  POLLS = 2
  MaxBusy = 6
  MaxGap = 2
  MaxErrors = 1
INVARIANT TypeOK
INVARIANT QuietReadDelivers
INVARIANT QuietWriteStores
INVARIANT NoOverrun
PROPERTY OnlyTheNamedSector
PROPERTY EveryRequestReturns
