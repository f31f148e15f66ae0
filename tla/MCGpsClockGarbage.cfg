\* A pulse message flagged not valid or not UTC may carry any sweek.
CONSTANTS
  WEEKSECS <- MCWeekSecs
  GPS_EPOCH = 315964800
  GposSkew <- MCSkew
  MaxGap = 1
  GarbageSweek = TRUE
  MaxTime <- MCMaxTime
SPECIFICATION Spec
INVARIANT TimecodeCorrect
