SPECIFICATION TetherLiveSpec
CONSTANTS
  MaxPlugs = 2
  MaxFailures = 2
  MaxCommands = 2
PROPERTY SigTermExits
CHECK_DEADLOCK FALSE
