SPECIFICATION BridgeSpec
CONSTANTS
  TxCapacity = 1
  MaxTx = 4
  DnsModes = {"system", "dot"}
  Batch = 2
  MaxReads = 3
  MaxKeepalives = 1
INVARIANT BridgeInv
INVARIANT AtMostOneLateSend
INVARIANT NoPlainDnsOnceWarm
INVARIANT UnaskedEndIsDisconnect
CHECK_DEADLOCK FALSE
