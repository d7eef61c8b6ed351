SPECIFICATION Spec
CONSTANTS
  Clients = {a1, l1}
  Lessees = {l1}
  Conns = {c1, c2, c3}
  NoConn = NoConn
  PoolSize = 1
  MaxOverflow = 1
  MinIdle = 1
  MaxWaiters = 1
  MaxUsage = 2
  PrePing = TRUE
  Prewarm = TRUE
  Adaptive = TRUE
  Aging = TRUE
  Expiring = TRUE
  Faults = TRUE
  Impatient = TRUE
  MaxLost = 1
  MaxSurplus = 2
  a1 = a1
  c1 = c1
  c2 = c2
  c3 = c3
  l1 = l1
SYMMETRY Symmetry
INVARIANT TypeOK
INVARIANT OneOwner
INVARIANT PermitAccounting
INVARIANT RegistryMatchesLeases
INVARIANT NoSocketLeft
PROPERTY NothingPooledAfterClose
