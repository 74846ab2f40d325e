SPECIFICATION FramingSpec
CONSTANTS
  Modulus <- MCModulus
  Pre = 2
  MinOffset = 2
  Inputs <- MCInputs
INVARIANT FramingTypeOK
INVARIANT FramesWellPlaced
INVARIANT RoundTrip
PROPERTY IterationEnds
CHECK_DEADLOCK FALSE
