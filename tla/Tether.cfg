SPECIFICATION TetherLiveSpec
CONSTANTS
  MaxPlugs = 2
  MaxFailures = 2
  MaxCommands = 2
PROPERTY CtrlCExits
 
INVARIANT TetherInv
 
CHECK_DEADLOCK FALSE
