CONSTANTS
  Addrs = {a1, a2}
  Procs = {p1, p2}
  Rate = 1
  Burst = 2
  TTL = 3
  Stall = 1
  Lag = 1
  NoHeader = NoHeader
  Group <- OneGroup
  Words = {"api", "tasks", "7", "huge", "swagger"}
  Uint64s = {"7", "huge"}
  Bigints = {"7"}
  Methods = {"GET", "POST", "PATCH", "DELETE", "HEAD", "get"}
  MaxSegments = 4
SPECIFICATION Spec
SYMMETRY Symmetry
INVARIANTS OversizeIs413
