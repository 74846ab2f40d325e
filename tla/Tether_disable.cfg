SPECIFICATION TetherSpec
CONSTANTS
  MaxPlugs = 2
  MaxFailures = 2
  MaxCommands = 2
INVARIANT DisableSticks
CHECK_DEADLOCK FALSE
