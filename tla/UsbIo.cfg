SPECIFICATION IoLiveSpec
CONSTANTS
  m1 = m1
  m2 = m2
  Broadcast = Broadcast
  Macs <- MCMacs
  Transfers <- MCTransfers
  NumRxBufs = 2
  MaxOutUrbs = 2
  TxCapacity = 2
  MaxTx = 4
  MaxRx = 2
INVARIANT IoTypeOK
INVARIANT RxAccounting
INVARIANT NoWaitOnEmpty
 
INVARIANT TxFifo
INVARIANT RxConserved
PROPERTY ImplementsContract
PROPERTY UnplugEndsThread
PROPERTY StopEndsThread
CHECK_DEADLOCK FALSE
