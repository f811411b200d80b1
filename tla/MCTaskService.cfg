CONSTANTS
  Clients = {c1, c2}
  Names = {a}
  MaxId = 1
  MaxOrphans = 1
  FillLimit = 1
  NoTask = NoTask
  Nil = Nil
SPECIFICATION FairSpec
INVARIANTS TypeOK Coherent OneDeleterWins
PROPERTIES TableSpec DeletedRowStaysDeleted LifecycleGuarded StaleHeals
