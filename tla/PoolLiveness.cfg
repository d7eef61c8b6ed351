SPECIFICATION FairSpec
CONSTANTS
  Clients = {a1, a2, l1}
  Lessees = {l1}
  Conns = {c1, c2}
  NoConn = NoConn
  PoolSize = 1
  MaxOverflow = 0
  MinIdle = 1
  MaxWaiters = 2
  MaxUsage = 2
  PrePing = TRUE
  Prewarm = FALSE
  Adaptive = TRUE
  Aging = TRUE
  Expiring = FALSE
  Faults = FALSE
  Impatient = TRUE
  MaxLost = 0
  MaxSurplus = 1
  a1 = a1
  a2 = a2
  c1 = c1
  c2 = c2
  l1 = l1
PROPERTY WaitersServed
PROPERTY SocketsClosed
