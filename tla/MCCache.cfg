CONSTANTS
  Keys = {1, 2, 3}
  Values = {v}
  NoValue = NoValue
  Procs = {p1, p2, p3}
  Divisor = 2
  MaxDrift = 1
SYMMETRY Symmetry
SPECIFICATION Spec
INVARIANTS TypeOK LenNeverOvercounts RangeSafe CleanupKeepsMost
PROPERTIES MapSpec OnlyLostOverwritesDrift
