\* As high_scores.cfg, with two runs of the program and no crash.
SPECIFICATION Spec
CONSTANTS
  MaxHighScores = 3
  Times = {t1}
  NoTime = NoTime
  MixedTime = MixedTime
  NoFile = NoFile
  OpenMayFail = FALSE
  Speeds = {0, 24, 30, 48}
  MayCrash = FALSE
  MaxGames = 5
  MaxSessions = 2
INVARIANTS BestSinceStart
