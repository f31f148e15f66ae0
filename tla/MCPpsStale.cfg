CONSTANTS
  Caps <- MCBothEdges
  MaxEdges = 6
  GetcapOutcomes <- MCSuccess
  SetparamsOutcomes <- MCSuccess
  FetchOutcomes <- MCSuccess
SPECIFICATION Spec
PROPERTY Fresh
