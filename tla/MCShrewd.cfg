CONSTANTS
  WindowSize = 5
  MinTicks = 2
  MaxTicks = 7
SPECIFICATION FairSpec
INVARIANTS
  TypeOK
  CommandFitsWindow
PROPERTY
  NoiseAnswered
