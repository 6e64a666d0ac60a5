\* Six packets, three reads that fail.
SPECIFICATION Spec
CONSTANTS
  MaxPackets = 6
  MaxFaults = 3
INVARIANTS TypeOK Resynchronised
PROPERTIES WholePackets
CHECK_DEADLOCK FALSE
