SPECIFICATION FairSpec
CONSTANTS
  r1 = r1
  r2 = r2
  NumSlots = 2
  Requests = {r1, r2}
  States <- MCStates
  StateOf <- SameStateOf
  NoRequest = NoRequest
  NoState = NoState
  MaxRetries = 1
  Sessions = {x1}
  x1 = x1
  NoSession = NoSession
  MaxSessions = 1
  Migrations = TRUE
  Impatient = TRUE
CHECK_DEADLOCK FALSE
INVARIANT TypeOK
INVARIANT OneSlot
INVARIANT RunningSlotsListed
INVARIANT RegisteredAreActive
PROPERTY RoutesWell
PROPERTY ReapsOnlyIdle
PROPERTY QueriesReturn
PROPERTY StopEnds
