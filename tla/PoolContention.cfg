SPECIFICATION Spec
CONSTANTS
  Clients = {a1, a2, l1}
  Lessees = {l1}
  Conns = {c1, c2, c3}
  NoConn = NoConn
  PoolSize = 1
  MaxOverflow = 1
  MinIdle = 2
  MaxWaiters = 2
  MaxUsage = 2
  PrePing = TRUE
  Prewarm = TRUE
  Adaptive = FALSE
  Aging = FALSE
  Expiring = TRUE
  Faults = TRUE
  Impatient = TRUE
  MaxLost = 1
  MaxSurplus = 0
  a1 = a1
  a2 = a2
  c1 = c1
  c2 = c2
  c3 = c3
  l1 = l1
SYMMETRY Symmetry
INVARIANT NoLostWakeup
INVARIANT WaiterAccounting
INVARIANT NoOrphans
PROPERTY LeaseManager
