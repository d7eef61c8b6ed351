SPECIFICATION FairSpec
CONSTANTS
  r1 = r1
  r2 = r2
  Requests = {r1, r2}
  States <- VarStates
  StateOf <- VarStateOf
  NoRequest = NoRequest
  NoState = NoState
  MaxRetries = 1
  Conns = {c1}
  c1 = c1
  NoConn = NoConn
  Permits = 2
  PoolUse <- NewUse
  Migrations = TRUE
  Sharing = FALSE
  Deaths = FALSE
CHECK_DEADLOCK FALSE
PROPERTY RunsAsItsSession
PROPERTY RequestsAnswered
PROPERTY GoesOn
PROPERTY KeepsPromise
