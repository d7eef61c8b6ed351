SPECIFICATION Spec
CONSTANTS
  Clients = {a1}
  Lessees = {}
  Conns = {c1, c2}
  NoConn = NoConn
  PoolSize = 2
  MaxOverflow = 0
  MinIdle = 2
  MaxWaiters = 1
  MaxUsage = 2
  PrePing = FALSE
  Prewarm = FALSE
  Adaptive = FALSE
  Aging = FALSE
  Expiring = TRUE
  Faults = FALSE
  Impatient = FALSE
  MaxLost = 0
  MaxSurplus = 0
  a1 = a1
  c1 = c1
  c2 = c2
INVARIANT LeasedIsOpen
