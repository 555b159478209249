CONSTANTS
  MaxPrompts = 1
  MaxChanges = 1
  Session = {s1, s2}
  NoSession = NoSession
  MayFail = FALSE
SPECIFICATION Spec
INVARIANT BindRecordsUnboundChange
