CONSTANTS
  Addresses = {a, b}
  Rotating = {a}
  Threads = {r1, r2}
  MaxAttempts = 2
  Window = 1
  Block = 2
  MaxEntries = 2
  SweepEvery = 2
  Horizon = 3
SYMMETRY Symmetry
SPECIFICATION LimiterSpec
INVARIANTS
  LimiterIsExact
PROPERTIES
  BlockIsKept
