\* As mouse_packets.cfg.
SPECIFICATION Spec
CONSTANTS
  MaxPackets = 6
  MaxFaults = 3
PROPERTIES ErrorIsDiscarded
CHECK_DEADLOCK FALSE
