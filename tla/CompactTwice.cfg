CONSTANTS
  Compactor = {c1, c2}
  MaxRetries = 0
  MaxLog = 3
  MaxCalls = 1
  MaxImports = 0
SPECIFICATION Spec
INVARIANT CompactCollapses
