SPECIFICATION IpcLiveSpec
CONSTANTS
  Clients = {c1, c2}
  Lines = {"stop", "disable", "enable", "status"}
  MaxLines = 2
  MaxWrites = 3
PROPERTY StopIsReported
INVARIANT IpcInv
CHECK_DEADLOCK FALSE
