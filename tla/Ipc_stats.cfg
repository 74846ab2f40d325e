SPECIFICATION IpcLiveSpec
CONSTANTS
  Clients = {c1, c2}
  Lines = {"enable"}
  MaxLines = 2
  MaxWrites = 1
PROPERTY StatsArePushed
CHECK_DEADLOCK FALSE
