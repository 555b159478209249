CONSTANTS
  MaxPrompts = 2
  MaxChanges = 1
  Session = {s1, s2}
  NoSession = NoSession
  MayFail = FALSE
SPECIFICATION Spec
INVARIANT FlushTakesOwnEntries
