SPECIFICATION Spec
CONSTANTS
  r1 = r1
  r2 = r2
  Requests = {r1, r2}
  States <- TenStates
  StateOf <- GuestStateOf
  NoRequest = NoRequest
  NoState = NoState
  MaxRetries = 1
  Conns = {c1, c2}
  c1 = c1
  c2 = c2
  NoConn = NoConn
  Permits = 2
  PoolUse <- MCPoolUse
  Migrations = TRUE
  Sharing = TRUE
  Deaths = TRUE
SYMMETRY AllSymmetry
CHECK_DEADLOCK FALSE
INVARIANT TypeOK
INVARIANT OnePlace
INVARIANT TriesBoundRuns
INVARIANT LeasesAgree
PROPERTY RunsAsItsSession
