SPECIFICATION DotLiveSpec
CONSTANTS
  MaxPool = 2
  MaxQueries = 4
INVARIANT DotInv
INVARIANT AnsweredOnce
INVARIANT NoQuerySkipped
INVARIANT MixUpNeedsKeptConnection
PROPERTY BatchEnds
PROPERTY ImplementsResolver
CHECK_DEADLOCK FALSE
