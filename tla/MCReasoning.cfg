CONSTANTS
  Agents = {a}
  Tasks = {}
  MaxIds = 3
  MaxSteps = 0
  MaxRelations = 1
  MaxStored = 3
  MaxEvents = 0
SPECIFICATION Spec
INVARIANTS
  FreshAncestryAcyclic
  IdNamesContent
  HasCyclesMeansNoTree
