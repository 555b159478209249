CONSTANTS
  MaxCalls = 1
  MaxParallelTools = 1
  SteerBufferSize = 1
  Causes = {"stopped"}
  Texts = {TRUE}
  Raisable = {"error", "stopped", "cancelled"}
  MaxToolTurns = 1
  MaxSteers = 0
  MaxFollowUps = 0
  MaxSets = 0
  MaxAppendFailures = 1
SPECIFICATION Spec
PROPERTY AgentCauseTakesPrecedence
