CONSTANTS
  Keys = {1, 2, 3, 4, 5, 6, 7}
  Values = {v}
  NoValue = NoValue
  Procs = {p1}
  Divisor = 5
  MaxDrift = 1
SPECIFICATION Spec
INVARIANTS ExactAtRest
