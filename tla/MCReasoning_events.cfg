CONSTANTS
  Agents = {a}
  Tasks = {t1, t2}
  MaxIds = 2
  MaxSteps = 1
  MaxRelations = 0
  MaxStored = 0
  MaxEvents = 3
SPECIFICATION Spec
SYMMETRY MCSymmetry
INVARIANTS
  TypeOK
  EventsInOrder
