SPECIFICATION SetupLiveSpec
CONSTANTS
  MaxFaults = 3
  Servers = {s1, s2}
  MaxRuns = 2
  MaxAttempts = 2
  MaxFrames = 2
INVARIANT SetupInv
INVARIANT MacWhenInStep
INVARIANT LeaseIsGood
INVARIANT CleanRequestMatchesOffer
PROPERTY LinkComesUp
 
CHECK_DEADLOCK FALSE
