\* One run of the program, nothing fails.
SPECIFICATION Spec
CONSTANTS
  MaxTries = 2
  MaxKeys = 2
  MaxReports = 2
  MaxFaults = 0
  MaxRuns = 1
INVARIANTS SpritesFreed
CHECK_DEADLOCK FALSE
