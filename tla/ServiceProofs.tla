---------------------------- MODULE ServiceProofs ----------------------------
(***************************************************************************)
(* Theorems about CircuitBreaker, EventBus and PoolManager, for any number *)
(* of callers, handlers, tasks and names, any threshold and cooldown.      *)
(***************************************************************************)
EXTENDS CircuitBreaker, EventBus, PoolManager, SequenceLemmas

-----------------------------------------------------------------------------
(* The circuit breaker *)

\* A half-open breaker has not seen a success yet: the first one closes it.
NoSuccessYet == st = "HALF_OPEN" => successes = 0

BreakerInv == BreakerTypeOK /\ ClosedBelowThreshold /\ NoSuccessYet

\* The breaker begins closed, with no failures, below any threshold (__init__).
LEMMA InitBreaker == BreakerInit => BreakerInv
BY BreakerAssumption
   DEF BreakerInit, BreakerInv, BreakerTypeOK, ClosedBelowThreshold, NoSuccessYet

\* No step breaks the invariant: one lemma's step per action.
LEMMA StepBreaker == BreakerInv /\ [BreakerNext]_breakerVars => BreakerInv'
<1>. SUFFICES ASSUME BreakerInv, [BreakerNext]_breakerVars PROVE BreakerInv'
  OBVIOUS
<1>. USE BreakerAssumption DEF BreakerInv, BreakerTypeOK, ClosedBelowThreshold, NoSuccessYet
<1>1. CASE Tick
  BY <1>1 DEF Tick
<1>2. CASE Reset
  BY <1>2 DEF Reset
<1>3. ASSUME NEW c \in Callers, Allow(c) PROVE BreakerInv'
  <2>1. st' = Current /\ Current \in {"CLOSED", "HALF_OPEN"} /\ busy' = busy \cup {c}
    BY <1>3 DEF Allow
  <2>2. CASE st = "OPEN"
    <3>1. st' = "HALF_OPEN" /\ successes' = 0 /\ UNCHANGED <<failures, age>>
      BY <1>3, <2>1, <2>2 DEF Allow, Current
    <3>. QED
      BY <2>1, <2>2, <3>1
  <2>3. CASE st # "OPEN"
    <3>1. UNCHANGED <<st, failures, age, successes>>
      BY <1>3, <2>3 DEF Allow, Current
    <3>. QED
      BY <2>1, <3>1
  <2>. QED
    BY <2>2, <2>3
<1>4. ASSUME NEW c \in Callers, Succeed(c) PROVE BreakerInv'
  BY <1>4 DEF Succeed
<1>5. ASSUME NEW c \in Callers, Fail(c) PROVE BreakerInv'
  BY <1>5 DEF Fail
<1>6. CASE UNCHANGED breakerVars
  BY <1>6 DEF breakerVars
<1>. QED
  BY <1>1, <1>2, <1>3, <1>4, <1>5, <1>6 DEF BreakerNext

LEMMA BreakerSound == BreakerSpec => []BreakerInv
BY InitBreaker, StepBreaker, PTL DEF BreakerSpec

\* Every variable ranges over the values the code's fields can have.
THEOREM BreakerTyped == BreakerSpec => []BreakerTypeOK
BY BreakerSound, PTL DEF BreakerInv

\* The breaker is closed exactly while the failures that successes have not made up for
\* are below the threshold, whatever order reports of late requests arrive in.
THEOREM BreakerAgrees == BreakerSpec => []ClosedBelowThreshold
BY BreakerSound, PTL DEF BreakerInv

\* One failure while half open opens the breaker again, for the count is still at the
\* threshold (record_failure).
THEOREM BreakerReopens == BreakerSpec => FailureReopens
<1>1. ASSUME BreakerInv, [BreakerNext]_breakerVars
      PROVE  [st = "HALF_OPEN" /\ failures' > failures => st' = "OPEN"]_breakerVars
  <2>. SUFFICES ASSUME st = "HALF_OPEN", failures' > failures PROVE st' = "OPEN"
    OBVIOUS
  <2>1. failures \in Nat /\ Threshold \in Nat /\ failures >= Threshold
    BY <1>1, BreakerAssumption DEF BreakerInv, BreakerTypeOK, ClosedBelowThreshold
  <2>2. PICK c \in Callers : Fail(c)
    BY <1>1, <2>1 DEF BreakerNext, breakerVars, Tick, Reset, Allow, Succeed
  <2>. QED
    BY <2>1, <2>2 DEF Fail
<1>. QED
  BY <1>1, BreakerSound, PTL DEF BreakerSpec, FailureReopens

-----------------------------------------------------------------------------
(* The pool manager: all the proofs need of the lock's line is its head. *)

Shutting == {"closing", "closed", "dropped"}

\* A task that has not been given the lock has made no pool, and one whose pool is being
\* initialized waits for that.
Begun ==
  \A t \in Creators :
    /\ pc[t] \in {"out", "lock"} => life[t] = "none"
    /\ life[t] = "initializing" <=> pc[t] = "initializing"

\* The lock is held, and the name kept free, across the await of initialize().
NameKept ==
  \A t \in Creators : pc[t] = "initializing" => HasLock(t) /\ pools[NameOf[t]] = NoPool

\* A registered pool has been initialized, and only a user has begun to close it.
Registered ==
  \A n \in Names : pools[n] # NoPool =>
    life[pools[n]] = "ready" \/ (life[pools[n]] \in Shutting /\ pools[n] \in byUser)

\* What a closer has found is being closed, and nobody finds it again.
FoundOnce ==
  \A t \in Closers : \A p \in batch[t] :
    /\ life[p] \in Shutting /\ \A n \in Names : pools[n] # p
    /\ \A u \in Closers : u # t => p \notin batch[u]

\* Only its own cancellation ends a close() that a closer runs.
Shutters ==
  \A t \in Closers : pc[t] = "closing" =>
    \A p \in batch[t] \ byUser : life[p] \in {"closing", "closed"}

ManagerInv ==
  /\ ManagerTypeOK /\ Begun /\ NameKept /\ Registered
  /\ ReadyIsRegistered /\ FoundOnce /\ Shutters /\ ShutPoolsClosed

\* Taking one out of a line keeps its kind, and its head if that stays.
LEMMA RemoveAtFacts ==
  ASSUME NEW S, NEW s \in Seq(S), NEW i \in DOMAIN s
  PROVE  /\ RemoveAt(s, i) \in Seq(S)
         /\ s[i] # Head(s) => RemoveAt(s, i) # <<>> /\ Head(RemoveAt(s, i)) = Head(s)
<1>. DEFINE l == SubSeq(s, 1, i - 1)
            r == SubSeq(s, i + 1, Len(s))
<1>1. l \in Seq(S) /\ Len(l) = i - 1
  OBVIOUS
<1>2. r \in Seq(S)
  OBVIOUS
<1>3. RemoveAt(s, i) = l \o r
  BY DEF RemoveAt
<1>4. ASSUME s[i] # Head(s) PROVE l \o r # <<>> /\ Head(l \o r) = Head(s)
  <2>1. i > 1 /\ l[1] = s[1]
    BY <1>4
  <2>2. l # <<>> /\ Head(l \o r) = l[1]
    BY <1>1, <1>2, <2>1
  <2>3. l \o r # <<>>
    BY <1>1, <1>2, <2>1
  <2>. QED
    BY <2>1, <2>2, <2>3
<1>. QED
  BY <1>1, <1>2, <1>3, <1>4

LEMMA InitManager == ManagerInit => ManagerInv
BY TasksAssumption
   DEF ManagerInit, ManagerInv, ManagerTypeOK, Begun, NameKept, Registered,
       ReadyIsRegistered, FoundOnce, Shutters, ShutPoolsClosed, Tasks

-----------------------------------------------------------------------------
(* The steps of create_pool *)

\* Who has the lock is alone in its critical section.
LEMMA Alone ==
  ASSUME NameKept, NEW t, HasLock(t), NEW u \in Creators, pc[u] = "initializing"
  PROVE  u = t
BY DEF NameKept, HasLock

LEMMA CallKeeps == ASSUME ManagerInv, NEW t \in Tasks, Call(t) PROVE ManagerInv'
<1>. USE TasksAssumption DEF ManagerInv, ManagerTypeOK, Tasks, Call, Moves
<1>1. line' \in Seq(Tasks)
  OBVIOUS
<1>2. \A u \in Tasks : HasLock(u) => HasLock(u)'
  BY DEF HasLock
<1>3. ManagerTypeOK'
  BY <1>1
<1>4. Begun' /\ Registered' /\ ReadyIsRegistered'
  BY DEF Begun, Registered, ReadyIsRegistered
<1>5. NameKept'
  BY <1>2 DEF NameKept
<1>6. FoundOnce' /\ Shutters' /\ ShutPoolsClosed'
  BY DEF FoundOnce, Shutters, ShutPoolsClosed
<1>. QED
  BY <1>3, <1>4, <1>5, <1>6

LEMMA CreateKeeps == ASSUME ManagerInv, NEW t \in Creators, Create(t) PROVE ManagerInv'
<1>. USE TasksAssumption DEF ManagerInv, ManagerTypeOK, Tasks, Moves
<1>1. CASE CreateBegin(t)
  <2>. USE <1>1 DEF CreateBegin
  <2>1. life[t] = "none"
    BY DEF Begun
  <2>2. ManagerTypeOK'
    OBVIOUS
  <2>3. Begun'
    BY DEF Begun
  <2>4. NameKept'
    BY DEF NameKept, HasLock
  <2>5. Registered' /\ ReadyIsRegistered'
    BY <2>1 DEF Registered, ReadyIsRegistered, Shutting
  <2>6. FoundOnce' /\ Shutters' /\ ShutPoolsClosed'
    BY <2>1 DEF FoundOnce, Shutters, ShutPoolsClosed, Shutting
  <2>. QED
    BY <2>2, <2>3, <2>4, <2>5, <2>6
<1>2. CASE CreateRefused(t)
  <2>. USE <1>2 DEF CreateRefused
  <2>1. \A u \in Creators : pc[u] # "initializing"
    BY Alone
  <2>2. ManagerTypeOK'
    BY DEF HasLock
  <2>3. Begun' /\ NameKept'
    BY <2>1 DEF Begun, NameKept
  <2>4. Registered' /\ ReadyIsRegistered' /\ FoundOnce' /\ Shutters' /\ ShutPoolsClosed'
    BY DEF Registered, ReadyIsRegistered, FoundOnce, Shutters, ShutPoolsClosed
  <2>. QED
    BY <2>2, <2>3, <2>4
<1>3. CASE CreateEnd(t)
  <2>. USE <1>3 DEF CreateEnd
  <2>1. HasLock(t) /\ pools[NameOf[t]] = NoPool /\ NameOf[t] \in Names
    BY DEF NameKept
  <2>2. \A u \in Creators : pc'[u] # "initializing"
    BY <2>1, Alone
  <2>3. ManagerTypeOK'
    BY <2>1 DEF HasLock
  <2>4. Begun'
    BY DEF Begun
  <2>5. NameKept'
    BY <2>2 DEF NameKept
  <2>6. Registered' /\ ReadyIsRegistered'
    BY <2>1 DEF Registered, ReadyIsRegistered
  <2>7. life[t] = "initializing"
    BY DEF Begun
  <2>8. FoundOnce' /\ Shutters' /\ ShutPoolsClosed'
    BY <2>7 DEF FoundOnce, Shutters, ShutPoolsClosed, Shutting
  <2>. QED
    BY <2>3, <2>4, <2>5, <2>6, <2>8
<1>. QED
  BY <1>1, <1>2, <1>3 DEF Create

-----------------------------------------------------------------------------
(* Closing and cancelling *)

\* A pool closes, for close_all_pools or for its user.
LEMMA PoolsKeep ==
  ASSUME ManagerInv, NEW t \in Creators, PoolCloses(t) \/ UserCloses(t) \/ UserGivesUp(t)
  PROVE  ManagerInv'
<1>. USE TasksAssumption DEF ManagerInv, ManagerTypeOK, Tasks, PoolCloses, UserCloses, UserGivesUp, Shutting
<1>1. ManagerTypeOK'
  OBVIOUS
<1>2. Begun'
  BY DEF Begun
<1>3. NameKept'
  BY DEF NameKept, HasLock
<1>4. Registered' /\ ReadyIsRegistered'
  BY DEF Registered, ReadyIsRegistered
<1>5. FoundOnce' /\ Shutters' /\ ShutPoolsClosed'
  BY DEF FoundOnce, Shutters, ShutPoolsClosed
<1>. QED
  BY <1>1, <1>2, <1>3, <1>4, <1>5

LEMMA ShutKeeps == ASSUME ManagerInv, NEW t \in Closers, Shut(t) PROVE ManagerInv'
<1>. USE TasksAssumption DEF ManagerInv, ManagerTypeOK, Tasks, Moves, Shutting
<1>1. CASE CloseBegin(t)
  <2>. USE <1>1 DEF CloseBegin
  <2>1. \A u \in Creators : pc[u] # "initializing"
    BY Alone
  <2>2. batch'[t] = {pools[n] : n \in Names} \ {NoPool} /\ batch'[t] \subseteq Creators
    OBVIOUS
  <2>3. \A p \in Creators : p \in batch'[t] => life[p] \in {"ready"} \cup Shutting
    BY <2>2 DEF Registered
  <2>4. \A p \in Creators : life[p] = "ready" => p \in batch'[t]
    <3>. SUFFICES ASSUME NEW p \in Creators, life[p] = "ready" PROVE p \in batch'[t]
      OBVIOUS
    <3>1. pools[NameOf[p]] = p /\ NameOf[p] \in Names /\ p # NoPool
      BY DEF ReadyIsRegistered
    <3>. QED
      BY <2>2, <3>1
  <2>5. \A p \in Creators :
          life'[p] = IF p \in batch'[t] /\ life[p] = "ready" THEN "closing" ELSE life[p]
    OBVIOUS
  <2>6. ManagerTypeOK'
    BY <2>2 DEF HasLock
  <2>7. Begun'
    BY <2>3, <2>5 DEF Begun
  <2>8. NameKept'
    BY <2>1 DEF NameKept
  <2>9. Registered' /\ ReadyIsRegistered'
    BY <2>4, <2>5 DEF Registered, ReadyIsRegistered
  <2>10. FoundOnce'
    BY <2>2, <2>3, <2>5 DEF FoundOnce
  <2>11. Shutters'
    BY <2>2, <2>3, <2>5 DEF Shutters, FoundOnce, Registered
  <2>12. ShutPoolsClosed'
    BY <2>5 DEF ShutPoolsClosed, FoundOnce
  <2>. QED
    BY <2>6, <2>7, <2>8, <2>9, <2>10, <2>11, <2>12
<1>2. CASE CloseEnd(t)
  <2>. USE <1>2 DEF CloseEnd, Waits
  <2>1. ManagerTypeOK'
    OBVIOUS
  <2>2. Begun' /\ NameKept' /\ Registered' /\ ReadyIsRegistered'
    BY DEF Begun, NameKept, HasLock, Registered, ReadyIsRegistered
  <2>3. FoundOnce' /\ Shutters' /\ ShutPoolsClosed'
    BY DEF FoundOnce, Shutters, ShutPoolsClosed
  <2>. QED
    BY <2>1, <2>2, <2>3
<1>. QED
  BY <1>1, <1>2 DEF Shut

LEMMA CancelKeeps == ASSUME ManagerInv, NEW t \in Tasks, Cancel(t) PROVE ManagerInv'
<1>. USE TasksAssumption DEF ManagerInv, ManagerTypeOK, Tasks, Cancel, Moves, Shutting
<1>1. /\ line' \in Seq(Tasks)
      /\ \A u \in Tasks : u # t /\ HasLock(u) => HasLock(u)'
  <2>1. CASE line' = line
    BY <2>1 DEF HasLock
  <2>2. ASSUME NEW i \in DOMAIN line, line[i] = t, line' = RemoveAt(line, i)
        PROVE  /\ line' \in Seq(Tasks)
               /\ \A u \in Tasks : u # t /\ HasLock(u) => HasLock(u)'
    BY <2>2, RemoveAtFacts DEF HasLock
  <2>. QED
    BY <2>1, <2>2
<1>2. \A p \in Creators :
        \/ life'[p] = life[p] /\ ~(p = t /\ life[p] = "initializing")
        \/ life'[p] = "dropped" /\ p = t /\ life[p] = "initializing"
  OBVIOUS
<1>3. ManagerTypeOK'
  BY <1>1
<1>4. Begun'
  BY <1>2 DEF Begun
<1>5. NameKept'
  BY <1>1 DEF NameKept
<1>6. Registered' /\ ReadyIsRegistered'
  BY <1>2 DEF Registered, ReadyIsRegistered
<1>7. FoundOnce' /\ Shutters' /\ ShutPoolsClosed'
  BY <1>2 DEF FoundOnce, Shutters, ShutPoolsClosed
<1>. QED
  BY <1>3, <1>4, <1>5, <1>6, <1>7

LEMMA CancelCloseKeeps ==
  ASSUME ManagerInv, NEW t \in Closers, CancelClose(t) PROVE ManagerInv'
<1>. USE TasksAssumption DEF ManagerInv, ManagerTypeOK, Tasks, Moves, Shutting
<1>1. PICK D \in SUBSET Waits(t) :
        life' = [p \in Creators |-> IF p \in D THEN "dropped" ELSE life[p]]
  BY DEF CancelClose
<1>2. /\ pc' = [pc EXCEPT ![t] = "cancelled"] /\ pc[t] \in {"closing", "cancelled"}
      /\ UNCHANGED <<line, pools, batch, byUser>>
  BY DEF CancelClose
<1>3. \A p \in Creators :
        \/ life'[p] = life[p]
        \/ life[p] = "closing" /\ life'[p] = "dropped" /\ p \in batch[t] \ byUser
  BY <1>1 DEF Waits
<1>4. ManagerTypeOK'
  BY <1>1, <1>2
<1>5. Begun' /\ NameKept'
  BY <1>2, <1>3 DEF Begun, NameKept, HasLock
<1>6. Registered' /\ ReadyIsRegistered'
  BY <1>2, <1>3 DEF Registered, ReadyIsRegistered
<1>7. FoundOnce'
  BY <1>2, <1>3 DEF FoundOnce
<1>8. Shutters' /\ ShutPoolsClosed'
  BY <1>2, <1>3 DEF FoundOnce, Shutters, ShutPoolsClosed
<1>. QED
  BY <1>4, <1>5, <1>6, <1>7, <1>8

LEMMA StepManager == ManagerInv /\ [ManagerNext]_managerVars => ManagerInv'
<1>. SUFFICES ASSUME ManagerInv, [ManagerNext]_managerVars PROVE ManagerInv'
  OBVIOUS
<1>1. CASE UNCHANGED managerVars
  BY <1>1 DEF managerVars, ManagerInv, ManagerTypeOK, Begun, NameKept, HasLock, Registered,
              ReadyIsRegistered, FoundOnce, Shutters, ShutPoolsClosed
<1>2. CASE ManagerNext
  BY <1>2, CallKeeps, CreateKeeps, PoolsKeep, ShutKeeps, CancelKeeps, CancelCloseKeeps
     DEF ManagerNext
<1>. QED
  BY <1>1, <1>2

LEMMA ManagerSound == ManagerSpec => []ManagerInv
BY InitManager, StepManager, PTL DEF ManagerSpec

-----------------------------------------------------------------------------
\* Every variable ranges over the values the code's fields can have.
THEOREM ManagerTyped == ManagerSpec => []ManagerTypeOK
BY ManagerSound, PTL DEF ManagerInv

\* Two tasks that create a pool of one name at a time do not both get one: the name is
\* kept under the lock across the await of initialize() (create_pool).
THEOREM NamesDistinct == ManagerSpec => []OnePoolPerName
<1>1. ManagerInv => OnePoolPerName
  <2>. SUFFICES ASSUME ManagerInv, NEW s \in Creators, NEW t \in Creators, s # t,
                       NameOf[s] = NameOf[t], life[s] \in {"initializing", "ready"},
                       life[t] \in {"initializing", "ready"}
                PROVE  FALSE
    BY DEF OnePoolPerName
  <2>1. \A u \in Creators : life[u] = "initializing" =>
           HasLock(u) /\ pools[NameOf[u]] = NoPool
    BY DEF ManagerInv, Begun, NameKept
  <2>2. \A u \in Creators : life[u] = "ready" => pools[NameOf[u]] = u /\ u # NoPool
    BY TasksAssumption DEF ManagerInv, ReadyIsRegistered
  <2>. QED
    BY <2>1, <2>2 DEF HasLock
<1>. QED
  BY <1>1, ManagerSound, PTL

\* Every pool that create_pool returned and nobody has begun to close is in _pools, where
\* close_all_pools finds it.
THEOREM NoPoolLost == ManagerSpec => []ReadyIsRegistered
BY ManagerSound, PTL DEF ManagerInv

\* When close_all_pools returns, every pool it found is closed, except those that a user
\* was closing already (close_all_pools, close).
THEOREM ShutdownCloses == ManagerSpec => []ShutPoolsClosed
BY ManagerSound, PTL DEF ManagerInv

-----------------------------------------------------------------------------
(* The event bus *)

\* The calls to each handler by this emit() if the list it walks stays as it is from now.
CallsDue(c, w, k) == [h \in Handlers |-> c[h] + Cardinality(After(w, k, h))]
Due == CallsDue(called, Walked, at)

\* The calls lacking when each handler h is called f[h] times: the n-th to h, which was
\* subscribed n times in s.
Lacking(s, f) ==
  {c \in Handlers \X (1..Len(s)) : f[c[1]] < c[2] /\ c[2] <= Count(s, c[1])}

\* A removal costs one call at most.
Owed == emitting => Cardinality(Lacking(start, Due)) <= removed

\* Only a walk under way calls a handler or has a list of its own.
AtRest == ~emitting => ~running /\ ~detached

BusInv == BusTypeOK /\ AtRest /\ Owed

LEMMA LackingFinite ==
  ASSUME NEW s \in Seq(Handlers), NEW f
  PROVE  IsFiniteSet(Lacking(s, f)) /\ Cardinality(Lacking(s, f)) \in Nat
<1>1. IsFiniteSet(Handlers) /\ IsFiniteSet(1..Len(s))
  BY HandlersAssumption, FS_Interval, LenProperties
<1>2. IsFiniteSet(Handlers \X (1..Len(s)))
  BY <1>1, FS_Product
<1>3. Lacking(s, f) \in SUBSET (Handlers \X (1..Len(s)))
  BY DEF Lacking
<1>. QED
  BY <1>2, <1>3, FS_Subset, FS_CardinalityType

LEMMA LackingNoMore ==
  ASSUME NEW s \in Seq(Handlers),
         NEW f \in [Handlers -> Nat], NEW g \in [Handlers -> Nat],
         \A x \in Handlers : f[x] <= g[x]
  PROVE  Cardinality(Lacking(s, g)) <= Cardinality(Lacking(s, f))
<1>1. ASSUME NEW x \in Handlers, NEW n \in 1..Len(s), g[x] < n PROVE f[x] < n
  <2>1. f[x] \in Nat /\ g[x] \in Nat /\ n \in Nat /\ f[x] <= g[x]
    BY LenProperties
  <2>. QED
    BY <1>1, <2>1
<1>2. Lacking(s, g) \in SUBSET Lacking(s, f)
  BY <1>1 DEF Lacking
<1>. QED
  BY <1>2, LackingFinite, FS_Subset

LEMMA LackingOneMore ==
  ASSUME NEW s \in Seq(Handlers),
         NEW f \in [Handlers -> Nat], NEW g \in [Handlers -> Nat], NEW y \in Handlers,
         \A x \in Handlers : f[x] <= g[x] + (IF x = y THEN 1 ELSE 0)
  PROVE  Cardinality(Lacking(s, g)) <= Cardinality(Lacking(s, f)) + 1
<1>1. ASSUME NEW x \in Handlers, NEW n \in 1..Len(s), g[x] < n
      PROVE  f[x] < n \/ <<x, n>> = <<y, f[y]>>
  <2>1. f[x] \in Nat /\ g[x] \in Nat /\ n \in Nat
    BY LenProperties
  <2>2. CASE x = y
    <3>1. f[x] <= g[x] + 1
      BY <2>2
    <3>2. f[x] < n \/ n = f[x]
      BY <1>1, <2>1, <3>1
    <3>. QED
      BY <2>2, <3>2
  <2>3. CASE x # y
    <3>1. f[x] <= g[x] + 0
      BY <2>3
    <3>. QED
      BY <1>1, <2>1, <3>1
  <2>. QED
    BY <2>2, <2>3
<1>2. Lacking(s, g) \in SUBSET (Lacking(s, f) \cup {<<y, f[y]>>})
  BY <1>1 DEF Lacking
<1>3. /\ IsFiniteSet(Lacking(s, f) \cup {<<y, f[y]>>})
      /\ Cardinality(Lacking(s, f) \cup {<<y, f[y]>>})
           = IF <<y, f[y]>> \in Lacking(s, f) THEN Cardinality(Lacking(s, f))
                                             ELSE Cardinality(Lacking(s, f)) + 1
  BY LackingFinite, FS_AddElement
<1>4. Cardinality(Lacking(s, g)) <= Cardinality(Lacking(s, f) \cup {<<y, f[y]>>})
  BY <1>2, <1>3, FS_Subset
<1>5. Cardinality(Lacking(s, f)) \in Nat /\ Cardinality(Lacking(s, g)) \in Nat
  BY LackingFinite
<1>. QED
  BY <1>3, <1>4, <1>5

\* The bus begins with no handlers and nothing to emit (__init__).
LEMMA InitBus == BusInit => BusInv
<1>. SUFFICES ASSUME BusInit PROVE BusInv
  OBVIOUS
<1>1. <<>> \in Seq(Handlers)
  OBVIOUS
<1>2. BusTypeOK
  BY <1>1 DEF BusInit, BusTypeOK
<1>. QED
  BY <1>2 DEF BusInit, BusInv, AtRest, Owed

\* An unsubscription takes one entry of the list, if it takes any.
LEMMA OffTakesOne ==
  ASSUME BusTypeOK, NEW h \in Handlers, Off(h)
  PROVE  \/ UNCHANGED list
         \/ h \in ToSet(list) /\ \E j \in 1..Len(list) : list' = RemoveAt(list, j)
<1>1. CASE h \in ToSet(list)
  <2>1. list \in Seq(Handlers) /\ list' = RemoveFirst(list, h)
    BY <1>1 DEF BusTypeOK, Off
  <2>. QED
    BY <1>1, <2>1, RemoveFirstAt
<1>2. CASE h \notin ToSet(list)
  BY <1>2 DEF Off
<1>. QED
  BY <1>1, <1>2

\* What a handler or a task does: the lists stay lists of handlers, and only a walk under
\* way gets a list of its own.
Kept ==
  /\ list' \in Seq(Handlers) /\ walked' \in Seq(Handlers) /\ removed' \in Nat
  /\ detached' \in BOOLEAN /\ (~emitting /\ ~detached => ~detached')

LEMMA ReactKeeps == BusTypeOK /\ React => Kept
<1>. SUFFICES ASSUME BusTypeOK, React PROVE Kept
  OBVIOUS
<1>. USE DEF Kept
<1>1. /\ list \in Seq(Handlers) /\ walked \in Seq(Handlers) /\ removed \in Nat
      /\ detached \in BOOLEAN /\ emitting \in BOOLEAN
  BY DEF BusTypeOK
<1>2. CASE Nothing
  BY <1>1, <1>2 DEF Nothing
<1>3. CASE Clear
  <2>1. <<>> \in Seq(Handlers)
    OBVIOUS
  <2>. QED
    BY <1>1, <1>3, <2>1 DEF Clear
<1>4. ASSUME NEW h \in Handlers, On(h) PROVE Kept
  BY <1>1, <1>4, AppendProperties DEF On
<1>5. ASSUME NEW h \in Handlers, Off(h) PROVE Kept
  <2>1. list' \in Seq(Handlers)
    BY <1>1, <1>5, OffTakesOne, RemoveAtType
  <2>2. removed' \in Nat
    BY <1>1, <1>5 DEF Off
  <2>. QED
    BY <1>1, <1>5, <2>1, <2>2 DEF Off
<1>. QED
  BY <1>2, <1>3, <1>4, <1>5 DEF React

\* While emit() is under way, what a handler does leaves every handler as many entries
\* after a position of the list walked, but for one entry of one handler, which then
\* counts as removed.
CostsNothing(k) ==
  /\ removed' = removed
  /\ \A x : Cardinality(After(Walked, k, x)) <= Cardinality(After(Walked', k, x))

CostsOne(k) ==
  /\ removed' = removed + 1
  /\ \E g \in Handlers : \A x :
       Cardinality(After(Walked, k, x)) <=
         Cardinality(After(Walked', k, x)) + (IF x = g THEN 1 ELSE 0)

LEMMA ReactCosts ==
  ASSUME BusTypeOK, React, emitting, emitting', NEW k \in Nat
  PROVE  Walked' \in Seq(Handlers) /\ (CostsNothing(k) \/ CostsOne(k))
<1>1. /\ list \in Seq(Handlers) /\ walked \in Seq(Handlers) /\ removed \in Nat
      /\ Walked \in Seq(Handlers) /\ detached \in BOOLEAN
  BY DEF BusTypeOK, Walked
<1>2. Walked' \in Seq(Handlers)
  BY ReactKeeps DEF Kept, Walked
<1>3. ASSUME Walked' = Walked, removed' = removed PROVE CostsNothing(k)
  <2>1. \A x : Cardinality(After(Walked, k, x)) \in Nat
    BY <1>1, AfterFinite
  <2>2. \A x : Cardinality(After(Walked, k, x)) <= Cardinality(After(Walked, k, x))
    BY <2>1
  <2>. QED
    BY <1>3, <2>2 DEF CostsNothing
<1>4. CASE Nothing
  <2>1. detached' = detached /\ list' = list /\ walked' = walked /\ removed' = removed
    BY <1>4 DEF Nothing
  <2>2. Walked' = Walked
    BY <2>1 DEF Walked
  <2>. QED
    BY <1>2, <1>3, <2>1, <2>2
<1>5. CASE Clear
  BY <1>1, <1>3, <1>5 DEF Clear, Walked
<1>6. ASSUME NEW h \in Handlers, On(h) PROVE CostsNothing(k)
  <2>1. CASE detached
    BY <1>3, <1>6, <2>1 DEF On, Walked
  <2>2. CASE ~detached
    <3>1. Walked = list /\ Walked' = Append(list, h) /\ removed' = removed
      BY <1>6, <2>2 DEF On, Walked
    <3>2. \A x : Cardinality(After(list, k, x)) <= Cardinality(After(Append(list, h), k, x))
      BY <1>1, AfterAppend
    <3>. QED
      BY <3>1, <3>2 DEF CostsNothing
  <2>. QED
    BY <2>1, <2>2
<1>7. ASSUME NEW h \in Handlers, Off(h) PROVE CostsNothing(k) \/ CostsOne(k)
  <2>1. CASE detached
    BY <1>1, <1>3, <1>7, <2>1 DEF Off, Taking, Walked
  <2>2. CASE h \notin ToSet(list)
    BY <1>1, <1>3, <1>7, <2>2 DEF Off, Taking, Walked
  <2>3. CASE ~detached /\ h \in ToSet(list)
    <3>1. list' = RemoveFirst(list, h) /\ removed' = removed + 1 /\ ~detached'
      BY <1>7, <2>3 DEF Off, Taking
    <3>2. PICK j \in 1..Len(list) : list' = RemoveAt(list, j)
      BY <1>1, <2>3, <3>1, RemoveFirstAt
    <3>3. Walked = list /\ Walked' = RemoveAt(list, j)
      BY <2>3, <3>1, <3>2 DEF Walked
    <3>4. removed' = removed + 1
      BY <3>1
    <3>5. \E g \in Handlers : \A x :
            Cardinality(After(list, k, x)) <=
              Cardinality(After(RemoveAt(list, j), k, x)) + (IF x = g THEN 1 ELSE 0)
      BY <1>1, AfterRemoveAt
    <3>. QED
      BY <3>3, <3>4, <3>5 DEF CostsOne
  <2>. QED
    BY <2>1, <2>2, <2>3
<1>. QED
  BY <1>2, <1>4, <1>5, <1>6, <1>7 DEF React

LEMMA DueType ==
  ASSUME NEW w \in Seq(Handlers), NEW k \in Nat, NEW c \in [Handlers -> Nat]
  PROVE  CallsDue(c, w, k) \in [Handlers -> Nat]
<1>1. \A x \in Handlers : c[x] \in Nat /\ Cardinality(After(w, k, x)) \in Nat
  BY AfterFinite
<1>2. \A x \in Handlers : c[x] + Cardinality(After(w, k, x)) \in Nat
  BY <1>1
<1>. QED
  BY <1>2 DEF CallsDue

\* One turn of emit()'s loop, before what the handler does in it: the call made was due.
LEMMA TurnOwed ==
  ASSUME BusInv, emitting, at < Len(Walked), Called(Walked[at + 1]), Nothing, UNCHANGED start
  PROVE  Owed'
<1>1. /\ Walked \in Seq(Handlers) /\ at \in Nat /\ called \in [Handlers -> Nat]
      /\ Walked[at + 1] \in Handlers
  <2>1. Walked \in Seq(Handlers) /\ at \in Nat
    BY DEF BusInv, BusTypeOK, Walked
  <2>2. at + 1 \in 1..Len(Walked)
    BY <2>1, LenProperties
  <2>. QED
    BY <2>1, <2>2, ElementOfSeq DEF BusInv, BusTypeOK
<1>2. at' = at + 1 /\ Walked' = Walked /\ UNCHANGED <<start, removed>>
  BY DEF Called, Nothing, Walked
<1>3. ASSUME NEW x \in Handlers PROVE Due'[x] = Due[x]
  <2>1. Due[x] = called[x] + Cardinality(After(Walked, at, x))
    BY DEF Due, CallsDue
  <2>2. Due'[x] = called'[x] + Cardinality(After(Walked, at + 1, x))
    BY <1>2 DEF Due, CallsDue
  <2>3. called'[x] = called[x] + (IF x = Walked[at + 1] THEN 1 ELSE 0)
    BY <1>1 DEF Called
  <2>4. Cardinality(After(Walked, at, x))
          = Cardinality(After(Walked, at + 1, x)) + (IF x = Walked[at + 1] THEN 1 ELSE 0)
    BY <1>1, AfterNext
  <2>5. at + 1 \in Nat
    BY <1>1
  <2>6. called[x] \in Nat /\ Cardinality(After(Walked, at + 1, x)) \in Nat
    BY <1>1, <2>5, AfterFinite
  <2>. QED
    BY <2>1, <2>2, <2>3, <2>4, <2>6
<1>4. Lacking(start', Due') = Lacking(start, Due)
  BY <1>2, <1>3 DEF Lacking
<1>. QED
  BY <1>2, <1>4 DEF BusInv, Owed

\* Whatever the handler being called does, one more call may be lacking only for an entry
\* removed.
LEMMA ReactOwes ==
  ASSUME BusInv, React, emitting, emitting', UNCHANGED <<start, called, at>>
  PROVE  Owed'
<1>1. /\ BusTypeOK /\ Walked \in Seq(Handlers) /\ at \in Nat /\ called \in [Handlers -> Nat]
      /\ start \in Seq(Handlers) /\ removed' \in Nat
  BY ReactKeeps DEF BusInv, BusTypeOK, Walked, Kept
<1>2. Due \in [Handlers -> Nat] /\ Due' \in [Handlers -> Nat]
  <2>1. Walked' \in Seq(Handlers)
    BY <1>1, ReactCosts
  <2>. QED
    BY <1>1, <2>1, DueType DEF Due
<1>3. ASSUME NEW x \in Handlers
      PROVE  /\ Due[x] = called[x] + Cardinality(After(Walked, at, x))
             /\ Due'[x] = called[x] + Cardinality(After(Walked', at, x))
  BY DEF Due, CallsDue
<1>4. \A x \in Handlers :
        /\ called[x] \in Nat /\ Cardinality(After(Walked, at, x)) \in Nat
        /\ Cardinality(After(Walked', at, x)) \in Nat
  BY <1>1, AfterFinite, ReactCosts
<1>5. Cardinality(Lacking(start, Due)) <= removed
  BY DEF BusInv, Owed
<1>6. /\ Cardinality(Lacking(start, Due)) \in Nat /\ Cardinality(Lacking(start, Due')) \in Nat
      /\ removed \in Nat /\ removed' \in Nat
  BY <1>1, LackingFinite, LenProperties DEF BusTypeOK
<1>7. CASE CostsNothing(at)
  <2>1. \A x \in Handlers : Due[x] <= Due'[x]
    <3>1. \A x : Cardinality(After(Walked, at, x)) <= Cardinality(After(Walked', at, x))
      BY <1>7 DEF CostsNothing
    <3>. QED
      BY <1>3, <1>4, <3>1
  <2>2. Cardinality(Lacking(start, Due')) <= Cardinality(Lacking(start, Due))
    BY <1>1, <1>2, <2>1, LackingNoMore
  <2>3. removed' = removed
    BY <1>7 DEF CostsNothing
  <2>. QED
    BY <1>5, <1>6, <2>2, <2>3 DEF Owed
<1>8. CASE CostsOne(at)
  <2>1. PICK g \in Handlers : \A x :
          Cardinality(After(Walked, at, x)) <=
            Cardinality(After(Walked', at, x)) + (IF x = g THEN 1 ELSE 0)
    BY <1>8 DEF CostsOne
  <2>2. \A x \in Handlers : Due[x] <= Due'[x] + (IF x = g THEN 1 ELSE 0)
    BY <1>3, <1>4, <2>1
  <2>3. Cardinality(Lacking(start, Due')) <= Cardinality(Lacking(start, Due)) + 1
    BY <1>1, <1>2, <2>2, LackingOneMore
  <2>4. removed' = removed + 1
    BY <1>8 DEF CostsOne
  <2>. QED
    BY <1>5, <1>6, <2>3, <2>4 DEF Owed
<1>. QED
  BY <1>1, <1>7, <1>8, ReactCosts

\* No step of the bus breaks the invariant.
LEMMA BeginKeeps == BusInv /\ EmitBegin => BusInv'
<1>. SUFFICES ASSUME BusInv, EmitBegin PROVE BusInv'
  OBVIOUS
<1>1. /\ BusTypeOK /\ ~detached /\ start' = list /\ at' = 0 /\ removed' = 0
      /\ called' = [h \in Handlers |-> 0] /\ Walked' = list /\ list \in Seq(Handlers)
  BY DEF BusInv, AtRest, EmitBegin, Uncounted, BusTypeOK, Walked
<1>2. BusTypeOK'
  BY <1>1 DEF BusTypeOK, EmitBegin, Uncounted
<1>3. \A x \in Handlers : Due'[x] = Count(list, x)
  <2>1. ASSUME NEW x \in Handlers PROVE After(list, 0, x) = {i \in DOMAIN list : list[i] = x}
    BY <1>1, LenProperties DEF After
  <2>2. ASSUME NEW x \in Handlers PROVE Count(list, x) \in Nat /\ Due'[x] = 0 + Count(list, x)
    BY <1>1, <2>1, AfterFinite DEF Due, CallsDue, Count
  <2>. QED
    BY <2>2
<1>4. \A x \in Handlers : Count(list, x) \in Nat
  <2>1. Due' \in [Handlers -> Nat]
    BY <1>1, <1>2, DueType DEF Due, BusTypeOK
  <2>. QED
    BY <1>3, <2>1
<1>5. Lacking(start', Due') = {}
  <2>1. ASSUME NEW x \in Handlers, NEW n \in 1..Len(list), Due'[x] < n PROVE ~(n <= Count(list, x))
    BY <1>1, <1>3, <1>4, <2>1, LenProperties
  <2>. QED
    BY <1>1, <2>1 DEF Lacking
<1>6. Owed'
  <2>1. Cardinality(Lacking(start', Due')) = 0 /\ removed' = 0
    BY <1>1, <1>5, FS_EmptySet
  <2>. QED
    BY <2>1 DEF Owed
<1>. QED
  BY <1>1, <1>2, <1>6 DEF BusInv, AtRest, EmitBegin

LEMMA TurnKeeps == BusInv /\ (CallHandler \/ CreateTask) => BusInv'
<1>. SUFFICES ASSUME BusInv, CallHandler \/ CreateTask PROVE BusInv'
  OBVIOUS
<1>1. /\ emitting /\ emitting' /\ at < Len(Walked) /\ Called(Walked[at + 1]) /\ Nothing
      /\ UNCHANGED start /\ running' \in BOOLEAN /\ BusTypeOK
  BY DEF BusInv, BusTypeOK, CallHandler, CreateTask
<1>2. Kept
  BY <1>1, ReactKeeps DEF React
<1>3. tasks' \subseteq Async
  BY <1>1 DEF CallHandler, CreateTask, BusTypeOK
<1>4. called' \in [Handlers -> Nat] /\ at' \in Nat
  <2>1. called \in [Handlers -> Nat] /\ at \in Nat
    BY <1>1 DEF BusTypeOK
  <2>2. ASSUME NEW h PROVE [called EXCEPT ![h] = @ + 1] \in [Handlers -> Nat]
    <3>1. [called EXCEPT ![h] = @ + 1]
            = [x \in Handlers |-> IF x = h THEN called[x] + 1 ELSE called[x]]
      BY <2>1
    <3>2. \A x \in Handlers : called[x] \in Nat /\ called[x] + 1 \in Nat
      BY <2>1
    <3>. QED
      BY <3>1, <3>2
  <2>3. called' = [called EXCEPT ![Walked[at + 1]] = @ + 1] /\ at' = at + 1
    BY <1>1 DEF Called
  <2>. QED
    BY <2>1, <2>2, <2>3
<1>5. BusTypeOK'
  BY <1>1, <1>2, <1>3, <1>4 DEF BusTypeOK, Kept
<1>. QED
  BY <1>1, <1>5, TurnOwed DEF BusInv, AtRest

LEMMA HandlerKeeps == BusInv /\ HandlerReacts => BusInv'
<1>. SUFFICES ASSUME BusInv, HandlerReacts PROVE BusInv'
  OBVIOUS
<1>1. /\ emitting /\ emitting' = emitting /\ running' = running /\ React /\ BusTypeOK
      /\ UNCHANGED <<start, called, at, tasks>>
  BY DEF BusInv, AtRest, HandlerReacts
<1>2. Kept
  BY <1>1, ReactKeeps
<1>3. BusTypeOK'
  BY <1>1, <1>2 DEF BusTypeOK, Kept
<1>. QED
  BY <1>1, <1>3, ReactOwes DEF BusInv, AtRest

LEMMA RestKeeps ==
  BusInv /\ (EmitEnd \/ OtherTask \/ \E h \in Handlers : RunTask(h)) => BusInv'
<1>. SUFFICES ASSUME BusInv, EmitEnd \/ OtherTask \/ \E h \in Handlers : RunTask(h)
              PROVE  BusInv'
  OBVIOUS
<1>1. CASE EmitEnd
  <2>1. /\ emitting' = FALSE /\ at' = 0 /\ running' = FALSE
        /\ detached' = FALSE /\ walked' = <<>> /\ start' = <<>>
        /\ called' = [h \in Handlers |-> 0] /\ removed' = 0
        /\ UNCHANGED <<list, tasks>>
    BY <1>1 DEF EmitEnd, Uncounted
  <2>2. <<>> \in Seq(Handlers)
    OBVIOUS
  <2>3. BusTypeOK'
    BY <2>1, <2>2 DEF BusInv, BusTypeOK
  <2>. QED
    BY <2>1, <2>3 DEF BusInv, AtRest, Owed
<1>2. CASE OtherTask \/ \E h \in Handlers : RunTask(h)
  <2>1. /\ ~emitting /\ ~emitting' /\ React /\ tasks' \subseteq tasks
        /\ UNCHANGED <<at, running, start, called>>
    BY <1>2 DEF OtherTask, RunTask, BusInv, BusTypeOK
  <2>2. Kept
    BY <2>1, ReactKeeps DEF BusInv
  <2>3. BusTypeOK'
    <3>1. BusTypeOK /\ UNCHANGED <<emitting, at, running, start, called>>
      BY <1>2 DEF BusInv, OtherTask, RunTask
    <3>. QED
      BY <2>1, <2>2, <3>1 DEF BusTypeOK, Kept
  <2>4. ~running' /\ ~detached'
    BY <2>1, <2>2 DEF BusInv, AtRest, Kept
  <2>. QED
    BY <2>1, <2>3, <2>4 DEF BusInv, AtRest, Owed
<1>. QED
  BY <1>1, <1>2

LEMMA StepBus == BusInv /\ [BusNext]_busVars => BusInv'
<1>. SUFFICES ASSUME BusInv, [BusNext]_busVars PROVE BusInv'
  OBVIOUS
<1>1. CASE UNCHANGED busVars
  <2>1. UNCHANGED <<list, emitting, at, running, detached, walked, tasks, start, called, removed>>
    BY <1>1 DEF busVars, bus, history
  <2>2. BusTypeOK' /\ AtRest'
    BY <2>1 DEF BusInv, BusTypeOK, AtRest
  <2>3. Due' = Due /\ UNCHANGED <<start, removed, emitting>>
    BY <2>1 DEF Due, Walked
  <2>4. Owed'
    BY <2>3 DEF BusInv, Owed
  <2>. QED
    BY <2>2, <2>4 DEF BusInv
<1>. QED
  BY <1>1, BeginKeeps, TurnKeeps, HandlerKeeps, RestKeeps DEF BusNext

LEMMA BusSound == BusSpec => []BusInv
BY InitBus, StepBus, PTL DEF BusSpec

\* Every variable ranges over the values the code's fields can have.
THEOREM BusTyped == BusSpec => []BusTypeOK
BY BusSound, PTL DEF BusInv

\* When emit() has passed the last entry, no call is due any more: those missed are those
\* lacking, one for each subscription removed meanwhile at most.
LEMMA OwedAtEnd == BusInv => SkipsBounded
<1>. SUFFICES ASSUME BusInv, Over PROVE Cardinality(Missed) <= removed
  BY DEF SkipsBounded
<1>1. Walked \in Seq(Handlers) /\ at \in Nat /\ called \in [Handlers -> Nat]
  BY DEF BusInv, BusTypeOK, Walked
<1>2. \A x \in Handlers : Due[x] = called[x]
  <2>1. ASSUME NEW x \in Handlers PROVE Due[x] = called[x] + 0 /\ called[x] \in Nat
    BY <1>1, AfterFinite DEF Due, CallsDue, Over
  <2>. QED
    BY <2>1
<1>3. Missed = Lacking(start, Due)
  BY <1>2 DEF Missed, Lacking
<1>. QED
  BY <1>3 DEF BusInv, Owed, Over

\* Each handler gets the event at least as often as it was subscribed when emit() began,
\* but for one call for each subscription removed meanwhile (emit, off).
THEOREM FewSkipped == BusSpec => []SkipsBounded
BY BusSound, OwedAtEnd, PTL
====
