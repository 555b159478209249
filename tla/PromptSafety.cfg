CONSTANTS
  MaxCalls = 2
  MaxParallelTools = 1
  SteerBufferSize = 1
  Causes = {"stopped", "cancelled", "foreign"}
  Texts = {TRUE}
  Raisable = {"error", "cancelled"}
  MaxToolTurns = 2
  MaxSteers = 1
  MaxFollowUps = 0
  MaxSets = 1
  MaxAppendFailures = 1
SPECIFICATION Spec
INVARIANTS TypeOK ParallelismBounded ResultsAnswerCalls RequestSeesAllResults
  AbandonedPersistsNothing CleanEndExplained
  ErrNamesTheCause AtMostOneLateRequest NoSendOnClosedEvents
PROPERTIES EventPrecedesResult OnlyBookkeepingAfterDone
