CONSTANTS
  MaxCalls = 2
  MaxParallelTools = 1
  SteerBufferSize = 1
  Causes = {"stopped"}
  Texts = {TRUE}
  Raisable = {"error"}
  MaxToolTurns = 1
  MaxSteers = 0
  MaxFollowUps = 1
  MaxSets = 1
  MaxAppendFailures = 1
SPECIFICATION FairSpec
PROPERTIES CancelEndsPrompt ImplementsContract
