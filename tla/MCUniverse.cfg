CONSTANTS
  Ids = {a}
  Languages = {rust}
  InvariantNames = {inv}
  TierNumbers = {0, 9}
  MaxInvariants = 2
  MaxCalls = 5
  MaxAdds = 2
SPECIFICATION Spec
SYMMETRY MCSymmetry
INVARIANTS
  TypeOK
  IndexFindsAll
  AddedOnceIsExact
  GatedMeansProven
