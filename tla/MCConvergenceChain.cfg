CONSTANTS
  Degree = 3
  Procs = {p, q}
  Problems = {x}
  Times = {"t1", "t2"}
  Deltas <- MCDeltas
  Encode <- MCEncode
  MaxEntries = 2
  MaxRecords = 3
SYMMETRY MCSymmetry
SPECIFICATION Spec
INVARIANTS
  TypeOK
  SerialRunsVerify
  SealedOnce
  EndedMeansSealed
