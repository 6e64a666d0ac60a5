\* Games of two seconds of two ticks, one fill, one word, under fairness.
SPECIFICATION FairSpec
CONSTANTS
  MaxHighScores = 1
  Times = {t1}
  NoTime = NoTime
  MixedTime = MixedTime
  NoFile = NoFile
  OpenMayFail = FALSE
  Durations = {2}
  TicksPerSecond = 2
  MaxStars = 1
  SwipeLength = 1
  Deltas <- MCDeltas
  MaxWords = 1
INVARIANTS TypeOK Lifetimes NoStaleEnter ScreenMatchesState SwipeDiscipline
PROPERTIES GameLength GameEnds EscInMenuQuits ImplementsSession
CHECK_DEADLOCK FALSE
