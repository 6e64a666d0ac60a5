\* Two runs of the program, two attempts for a command.
SPECIFICATION FairSpec
CONSTANTS
  MaxTries = 2
  MaxKeys = 2
  MaxReports = 3
  MaxFaults = 2
  MaxRuns = 2
INVARIANTS TypeOK CallFindsItsByte CommandsReachMouse CleanExit
PROPERTIES SetupAndEndReturn NoByteBlocks
CHECK_DEADLOCK FALSE
