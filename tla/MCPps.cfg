CONSTANTS
  Caps <- MCBothEdges
  MaxEdges = 6
  GetcapOutcomes <- MCAnyOutcome
  SetparamsOutcomes <- MCAnyOutcome
  FetchOutcomes <- MCAnyOutcome
SPECIFICATION Spec
PROPERTY SamplerSpec
