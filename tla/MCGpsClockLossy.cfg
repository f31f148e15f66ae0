\* Lossy receiver: a pulse message may be lost (two edges between reads).
CONSTANTS
  WEEKSECS <- MCWeekSecs
  GPS_EPOCH = 315964800
  GposSkew <- MCNoSkew
  MaxGap = 2
  GarbageSweek = FALSE
  MaxTime <- MCMaxTime
SPECIFICATION Spec
INVARIANT TimecodeCorrect
