CONSTANTS
  Clients = {c1, c2}
  Names = {a}
  MaxId = 1
  MaxOrphans = 0
  FillLimit = 1
  NoTask = NoTask
  Nil = Nil
SYMMETRY Symmetry
SPECIFICATION Spec
INVARIANTS DeletedIsNotServed
