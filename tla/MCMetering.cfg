SPECIFICATION Spec
CONSTANTS
  Cpus = {k1, k2}
  Cookies = {c1, c2}
  Keys = {browser, other}
  Other = other
  Capacity = 1
  Lengths = {1}
  MaxPackets = 4
SYMMETRY CpuSymmetry
INVARIANTS
  TypeOK
  NoByteCountedTwice
  NothingAhead
  SteadyGrows
  SteadyIsExact
  TotalsAreTheCredits
