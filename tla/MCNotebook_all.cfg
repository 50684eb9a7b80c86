SPECIFICATION FairSpec
CONSTANTS
  k1 = k1
  k2 = k2
  k3 = k3
  b1 = b1
  b2 = b2
  Callers = {c1, c2}
  Nobody = Nobody
  Requests <- FourRequests
  NoBlob = NoBlob
  None = None
  MaxRecords = 3
  MaxBlobs = 1
  MaxTroubles = 2
INVARIANTS BlobsAreThere NoFalseAlarm
PROPERTIES ImplementsLog RowsAreFinished
CHECK_DEADLOCK FALSE
