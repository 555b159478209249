CONSTANTS
  Caller = {c1, c2}
  Editors = {c2}
  Path <- TwoPaths
  File <- OneFile
  Target <- LinkedTarget
  Canonical <- LinkedCanonical
  Existing = {}
  Removable = {}
  MaxRemovals = 0
  None = None
SPECIFICATION QueueSpec
INVARIANT SameFileExcluded
