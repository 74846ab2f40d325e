SPECIFICATION BridgeLiveSpec
CONSTANTS
  TxCapacity = 1
  MaxTx = 2
  DnsModes = {"doh"}
  Batch = 2
  MaxReads = 2
  MaxKeepalives = 0
PROPERTY SessionEnds
PROPERTY QueriesAreTaken
CHECK_DEADLOCK FALSE
