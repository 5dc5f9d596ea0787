SPECIFICATION Spec
CONSTANTS
  MaxToolIterations = 4
  MaxResearchIterations = 18
  MaxToolCalls = 3
  MaxToolIntent = 2
  MaxToolRecovery = 1
  MaxNoContent = 1
  MaxWebResearch = 2
  MinimumItems = 3
INVARIANTS TypeOK  ErrorsShow ResearchVerdict
PROPERTY ReplyEnds
