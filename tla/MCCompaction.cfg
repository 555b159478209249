CONSTANTS
  Compactor = {c1, c2}
  MaxRetries = 1
  MaxLog = 3
  MaxCalls = 2
  MaxImports = 1
SPECIFICATION Spec
INVARIANTS TypeOK NoMessageLost PromptSeesEverything SummaryCoversItsRange
  OneSummaryPerCompact RetryEpisodesClosed
SYMMETRY Symmetry
