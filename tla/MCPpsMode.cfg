CONSTANTS
  Caps <- MCBothEdges
  MaxEdges = 6
  GetcapOutcomes <- MCSuccess
  SetparamsOutcomes <- MCAnyOutcome
  FetchOutcomes <- MCAnyOutcome
SPECIFICATION Spec
INVARIANT ModeAgrees
