SPECIFICATION Spec
CONSTANTS
  File <- MCFile
  CrcFlags = {TRUE, FALSE}
  SECSIZ = 2
  NSECTS = 2
  RETRYMAX = 3
  ERRORMAX = 2
  REQUESTMAX = 2
  Noise = {4, 21}
  MaxFaults = 3
INVARIANTS TypeOK StoredOrGuessed SenderDoneDelivered
PROPERTIES ErrorsAreFinal SenderEnds LosslessDelivers

CHECK_DEADLOCK FALSE
