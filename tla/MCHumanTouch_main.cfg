CONSTANTS
  Ids = {a, b}
  MaxPending = 2
  HostYields = FALSE
  MaxSends = 2
  MaxCommands = 2
  MaxRestarts = 0
SPECIFICATION FairSpec
PROPERTY
  ArrivalsHandled
CHECK_DEADLOCK FALSE
