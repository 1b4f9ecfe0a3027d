CONSTANTS
  Ids = {a, b}
  MaxPending = 2
  HostYields = FALSE
  MaxSends = 1
  MaxCommands = 1
  MaxRestarts = 0
SPECIFICATION FairSpec
PROPERTY CommandsAnswered
CHECK_DEADLOCK FALSE
