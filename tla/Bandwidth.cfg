SPECIFICATION Spec
CONSTANTS
  Ap = {a1, a2}
  Port = {p1, p2}
  Nowhere = Nowhere
  NoCount = NoCount
  Burst = {2}
  Before = {3}
  Elapsed = {1, 2, 5}
  MinElapsed = 2
  MaxElapsed = 5
  MaxRate = 1
  Cap = 4
SYMMETRY Symmetry
INVARIANTS
  TypeOK
PROPERTIES
  OvercountOnlyAcrossAps
  SteadyIsExact
