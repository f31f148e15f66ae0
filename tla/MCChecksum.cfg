CONSTANTS
  Words <- MCWords
  MaxWords = 4
SPECIFICATION Spec
INVARIANT CksumMatchesSpec
CHECK_DEADLOCK FALSE
