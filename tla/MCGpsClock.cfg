\* Reliable receiver: every pulse message is read, invalid ones carry the
\* right seconds into week.
CONSTANTS
  WEEKSECS <- MCWeekSecs
  GPS_EPOCH = 315964800
  GposSkew <- MCSkew
  MaxGap = 1
  GarbageSweek = FALSE
  MaxTime <- MCMaxTime
SPECIFICATION Spec
INVARIANTS TypeOK TimecodeCorrect
