\* A table of three, four games over three runs of the program; crashes and
\* files that do not open.
SPECIFICATION Spec
CONSTANTS
  MaxHighScores = 3
  Times = {t1}
  NoTime = NoTime
  MixedTime = MixedTime
  NoFile = NoFile
  OpenMayFail = TRUE
  Speeds = {0, 24, 30, 48}
  MayCrash = TRUE
  MaxGames = 4
  MaxSessions = 3
INVARIANTS TypeOK Sorted TopScores FileHoldsTable OnlyEarnedScores
