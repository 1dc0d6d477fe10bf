SPECIFICATION Spec
CONSTANTS
  LastLBA = 1
  MaxCount = 2
  Data = {0, 1}
  Garbage = garbage
  Identity = identity
  POLLS = 2
  MaxBusy = 1
  MaxGap = 0
  MaxErrors = 1
INVARIANT ZMeansSuccess
