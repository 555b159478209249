CONSTANTS
  MaxPrompts = 2
  MaxChanges = 2
  Session = {s1, s2}
  NoSession = NoSession
  MayFail = TRUE
SPECIFICATION Spec
INVARIANTS TypeOK SingleRunner CurrentIsInFlight QueueHasADrain ChangeInOnePlace
  LiveContextMeansUnfinished
