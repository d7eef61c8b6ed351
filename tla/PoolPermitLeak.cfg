SPECIFICATION Spec
CONSTANTS
  Clients = {a1, a2}
  Lessees = {}
  Conns = {c1, c2, c3}
  NoConn = NoConn
  PoolSize = 1
  MaxOverflow = 0
  MinIdle = 0
  MaxWaiters = 2
  MaxUsage = 2
  PrePing = FALSE
  Prewarm = FALSE
  Adaptive = FALSE
  Aging = FALSE
  Expiring = FALSE
  Faults = FALSE
  Impatient = FALSE
  MaxLost = 1
  MaxSurplus = 0
  a1 = a1
  a2 = a2
  c1 = c1
  c2 = c2
  c3 = c3
INVARIANT NoPermitDeadlock
