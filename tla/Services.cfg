SPECIFICATION Spec
CONSTANTS
  Callers = {c1, c2, c3}
  c1 = c1
  c2 = c2
  c3 = c3
  Threshold = 3
  Cooldown = 2
  MaxFailures = 6
  Handlers = {h1, h2, h3}
  Async = {h3}
  h1 = h1
  h2 = h2
  h3 = h3
  MaxList = 3
  MaxRemoved = 2
  a1 = a1
  a2 = a2
  b1 = b1
  s1 = s1
  s2 = s2
  Creators = {a1, a2, b1}
  Closers = {s1, s2}
  Names = {"a", "b"}
  NameOf <- MCNameOf
  NoPool = NoPool
CHECK_DEADLOCK FALSE
INVARIANT BreakerTypeOK
INVARIANT ClosedBelowThreshold
PROPERTY FailureReopens
PROPERTY Recovers
INVARIANT BusTypeOK
INVARIANT SkipsBounded
INVARIANT ManagerTypeOK
INVARIANT OnePoolPerName
INVARIANT ReadyIsRegistered
INVARIANT ShutPoolsClosed
PROPERTY ShutdownEnds
