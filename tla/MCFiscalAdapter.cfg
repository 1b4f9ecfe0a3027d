CONSTANTS
  Jobs = {j1, j2}
  Hashes = {h1, h2}
  Dedups = {TRUE, FALSE}
  MaxCalls = 5
  MaxErrors = 1
SPECIFICATION Spec
SYMMETRY MCSymmetry
INVARIANTS
  TypeOK
  RowNamesItsSettlement
  ConfirmedIsSettled
  SuccessIsConfirmed
CHECK_DEADLOCK FALSE
