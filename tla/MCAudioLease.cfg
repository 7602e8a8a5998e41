SPECIFICATION Spec
CONSTANTS
  Cores = {c1, c2}
  NoCore = NoCore
  Num = 2
  Den = 3
  Fifo = 2
  RunsEvicted = FALSE
  MaxClock = 5
  MaxStep = 2
SYMMETRY Interchangeable
INVARIANTS
  TypeOK
  LeaseConsistent
  PcmAccounted
  NeverRefused
