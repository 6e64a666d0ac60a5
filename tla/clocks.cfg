\* Two calls of timer_set_frequency around the bounds it checks, then a reading
\* of the time during which two seconds may pass.
SPECIFICATION Spec
CONSTANTS
  First <- MCFirst
  Last <- MCLast
  Garbage = {0, 255}
  MaxSeconds = 2
  MaxPortFaults = 2
  Timers = {0, 2, 3}
  Freqs = {1, 18, 19, 60, 1193182, 1193183}
  Modes = {4, 6}
  MaxCalls = 2
  MaxTimerFaults = 2
INVARIANTS NeverBehind MixedOnlyByCarry TwoDigits SetsFrequency TypeOK
CHECK_DEADLOCK FALSE
