SPECIFICATION Spec
CONSTANTS
  r1 = r1
  r2 = r2
  Requests = {r1}
  States <- VarStates
  StateOf <- OneStateOf
  NoRequest = NoRequest
  NoState = NoState
  MaxRetries = 1
  Conns = {c1, c2}
  c1 = c1
  c2 = c2
  NoConn = NoConn
  Permits = 2
  PoolUse <- MCPoolUse
  Migrations = TRUE
  Sharing = TRUE
  Deaths = FALSE
CHECK_DEADLOCK FALSE
INVARIANT OneReader
