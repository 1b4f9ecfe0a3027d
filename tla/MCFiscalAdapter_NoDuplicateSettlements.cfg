CONSTANTS
  Jobs = {j1}
  Hashes = {h1, h2}
  Dedups = {TRUE}
  MaxCalls = 2
  MaxErrors = 0
SPECIFICATION Spec
INVARIANT NoDuplicateSettlements
CHECK_DEADLOCK FALSE
