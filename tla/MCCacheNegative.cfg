CONSTANTS
  Keys = {1, 2, 3}
  Values = {v}
  NoValue = NoValue
  Procs = {p1, p2}
  Divisor = 5
  MaxDrift = 1
SYMMETRY Symmetry
SPECIFICATION Spec
INVARIANTS LenNeverNegative
