SPECIFICATION DaemonSpec
CONSTANTS
  Names <- MCNames
  CommandLines <- MCCommandLines
  Files <- MCFiles
INVARIANT DaemonKeepsSettings
INVARIANT CommandLineHolds
INVARIANT DaemonInv
