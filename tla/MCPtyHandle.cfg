SPECIFICATION Spec
CONSTANTS
  Procs = {p1, p2}
  Root = p1
  Pids = {n1, n2}
  NoPid = nopid
  Reuse = FALSE
  NSlots = 2
  MaxSeed = 1
  MaxGen = 2
  MaxConns = 2
  Sizes <- OutputAndStatus
  ShortWrites = TRUE
SYMMETRY Interchangeable
INVARIANTS HandleBelongs TableConsistent DeliveredOnce
