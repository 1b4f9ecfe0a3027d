CONSTANTS
  Ids = {a, b}
  MaxPending = 2
  HostYields = TRUE
  MaxSends = 3
  MaxCommands = 2
  MaxRestarts = 1
SPECIFICATION Spec
SYMMETRY MCSymmetry
INVARIANTS
  TypeOK
  AuditExplainsStatus
  ArrivalsAccounted
  ArrivalsInOrder
  DecidedNotOlder
CHECK_DEADLOCK FALSE
