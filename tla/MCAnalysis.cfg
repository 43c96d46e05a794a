CONSTANTS
  Inputs <- MCInputs
  Ranks <- MCRanks
  Texts <- MCTexts
  Segment <- MCSegment
  Collation <- MCCollation
  MaxGaps = 2
  MaxFanout = 3
  MaxSuggestedLinks = 3
  Weight <- MCWeight
  MaxPromptSuggested = 1
  MaxPromptScent = 1
  Scale = 120
SPECIFICATION Spec
INVARIANTS
  ResolutionIsSound
  GraphIsSound
  StructureIsExact
  TrailsAreTopological
  MeasuresAgree
  AdviceIsSound
  PromptKeepsTheGate
PROPERTIES
  Terminates
