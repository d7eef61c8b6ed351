------------------------------ MODULE PoolManager ------------------------------
(***************************************************************************)
(* SurrealDBPoolManager (src/purreal/pool.py) and close_pools()            *)
(* (src/purreal/shutdown.py): pools by name, shared by the tasks of a      *)
(* process under one asyncio.Lock, which is held across the await of a     *)
(* new pool's initialize() but not while pools are closed.                 *)
(***************************************************************************)
EXTENDS Integers, FiniteSets, SequencesExt

CONSTANTS
  Creators,     \* tasks that call create_pool(), each for one pool, named after it
  Closers,      \* tasks that call close_pools()
  Names,
  NameOf,       \* per creator: the name it asks for
  NoPool

Tasks == Creators \cup Closers

ASSUME TasksAssumption ==
  /\ Creators \cap Closers = {} /\ IsFiniteSet(Tasks) /\ NoPool \notin Creators
  /\ NameOf \in [Creators -> Names]

VARIABLES
  line,         \* _lock: the task that holds it, then those that wait, in order
  pools,        \* _pools
  life,         \* per pool: "none", "initializing", "ready", "closing", "closed"
                \* or "dropped", when its creation or its closing was cancelled
  pc,           \* per task: "out", "lock", "initializing", "closing", "cancelled" while
                \* closing, "done" or "failed"
  batch,        \* per closer: the pools it found
  byUser        \* the pools whose close() was first called by a user of the pool

managerVars == <<line, pools, life, pc, batch, byUser>>

ManagerInit ==
  /\ line = <<>> /\ pools = [n \in Names |-> NoPool]
  /\ life = [p \in Creators |-> "none"]
  /\ pc = [t \in Tasks |-> "out"] /\ batch = [t \in Closers |-> {}] /\ byUser = {}

HasLock(t) == line # <<>> /\ Head(line) = t
Moves(t, p) == pc' = [pc EXCEPT ![t] = p]

\* create_pool, close_all_pools: up to `async with self._lock`
Call(t) ==
  /\ pc[t] = "out" /\ Moves(t, "lock")
  /\ line' = Append(line, t)
  /\ UNCHANGED <<pools, life, batch, byUser>>

\* mutant: the name is not looked up
CreateBeginAnyway(t) ==
  /\ pc[t] = "lock" /\ HasLock(t)
  /\ Moves(t, "initializing")
  /\ life' = [life EXCEPT ![t] = "initializing"]
  /\ UNCHANGED <<line, pools, batch, byUser>>

CreateBegin(t) ==
  /\ pc[t] = "lock" /\ HasLock(t) /\ pools[NameOf[t]] = NoPool
  /\ Moves(t, "initializing")
  /\ life' = [life EXCEPT ![t] = "initializing"]
  /\ UNCHANGED <<line, pools, batch, byUser>>

\* mutant: the lock is kept
CreateRefusedLocked(t) ==
  /\ pc[t] = "lock" /\ HasLock(t) /\ pools[NameOf[t]] # NoPool
  /\ Moves(t, "failed")
  /\ UNCHANGED <<line, pools, life, batch, byUser>>

\* ValueError: the name is taken
CreateRefused(t) ==
  /\ pc[t] = "lock" /\ HasLock(t) /\ pools[NameOf[t]] # NoPool
  /\ Moves(t, "failed") /\ line' = Tail(line)
  /\ UNCHANGED <<pools, life, batch, byUser>>

CreateEnd(t) ==
  /\ pc[t] = "initializing" /\ Moves(t, "done")
  /\ life' = [life EXCEPT ![t] = "ready"]
  /\ pools' = [pools EXCEPT ![NameOf[t]] = t]
  /\ line' = Tail(line)
  /\ UNCHANGED <<batch, byUser>>

\* mutant: names without a pool are not left out
CloseBeginOfAll(t) ==
  /\ pc[t] = "lock" /\ HasLock(t) /\ Moves(t, "closing")
  /\ batch' = [batch EXCEPT ![t] = {pools[n] : n \in Names}]
  /\ pools' = [n \in Names |-> NoPool]
  /\ life' = [p \in Creators |->
                IF p \in batch'[t] /\ life[p] = "ready" THEN "closing" ELSE life[p]]
  /\ line' = Tail(line)
  /\ UNCHANGED byUser

\* close_all_pools: the copy of the dictionary, then a task for each close(), which
\* returns at once when the pool is closing already.
CloseBegin(t) ==
  /\ pc[t] = "lock" /\ HasLock(t) /\ Moves(t, "closing")
  /\ batch' = [batch EXCEPT ![t] = {pools[n] : n \in Names} \ {NoPool}]
  /\ pools' = [n \in Names |-> NoPool]
  /\ life' = [p \in Creators |->
                IF p \in batch'[t] /\ life[p] = "ready" THEN "closing" ELSE life[p]]
  /\ line' = Tail(line)
  /\ UNCHANGED byUser

\* Each close() of a pool ends, with or without an exception.
PoolCloses(p) ==
  /\ life[p] = "closing"
  /\ life' = [life EXCEPT ![p] = "closed"]
  /\ UNCHANGED <<line, pools, pc, batch, byUser>>

\* The pools whose close() the closer's own tasks still run.
Waits(t) == {p \in batch[t] \ byUser : life[p] = "closing"}

\* mutant: the pools are not awaited
CloseEndAtOnce(t) ==
  /\ pc[t] \in {"closing", "cancelled"}
  /\ Moves(t, IF pc[t] = "closing" THEN "done" ELSE "failed")
  /\ UNCHANGED <<line, pools, life, batch, byUser>>

\* mutant: the dictionary is cleared only now
CloseEndClearing(t) ==
  /\ pc[t] \in {"closing", "cancelled"} /\ Waits(t) = {}
  /\ Moves(t, IF pc[t] = "closing" THEN "done" ELSE "failed")
  /\ pools' = [n \in Names |-> NoPool]
  /\ UNCHANGED <<line, life, batch, byUser>>

\* gather() waits for its tasks even when it has been cancelled.
CloseEnd(t) ==
  /\ pc[t] \in {"closing", "cancelled"} /\ Waits(t) = {}
  /\ Moves(t, IF pc[t] = "closing" THEN "done" ELSE "failed")
  /\ UNCHANGED <<line, pools, life, batch, byUser>>

\* close() called on the pool itself: the manager does not learn of it.
UserCloses(p) ==
  /\ life[p] = "ready"
  /\ life' = [life EXCEPT ![p] = "closing"]
  /\ byUser' = byUser \cup {p}
  /\ UNCHANGED <<line, pools, pc, batch>>

\* That call is cancelled.
UserGivesUp(p) ==
  /\ life[p] = "closing" /\ p \in byUser
  /\ life' = [life EXCEPT ![p] = "dropped"]
  /\ UNCHANGED <<line, pools, pc, batch, byUser>>

\* A cancelled task lets go of the lock; a pool it was initializing is dropped.
Cancel(t) ==
  /\ pc[t] \in {"lock", "initializing"} /\ Moves(t, "failed")
  /\ \E i \in DOMAIN line : line[i] = t /\ line' = RemoveAt(line, i)
  /\ life' = [p \in Creators |->
                IF p = t /\ life[p] = "initializing" THEN "dropped" ELSE life[p]]
  /\ UNCHANGED <<pools, batch, byUser>>

\* gather() cancels the closes it waits for; a close() that is waiting for a loop of its
\* pool takes the cancellation for that loop's and goes on.
CancelClose(t) ==
  /\ pc[t] \in {"closing", "cancelled"} /\ batch[t] # {} /\ Moves(t, "cancelled")
  /\ \E D \in SUBSET Waits(t) :
       life' = [p \in Creators |-> IF p \in D THEN "dropped" ELSE life[p]]
  /\ UNCHANGED <<line, pools, batch, byUser>>

Create(t) == CreateBegin(t) \/ CreateRefused(t) \/ CreateEnd(t)
Shut(t)   == CloseBegin(t) \/ CloseEnd(t)

ManagerNext ==
  \/ \E t \in Tasks : Call(t) \/ Cancel(t)
  \/ \E t \in Creators : Create(t) \/ PoolCloses(t) \/ UserCloses(t) \/ UserGivesUp(t)
  \/ \E t \in Closers : Shut(t) \/ CancelClose(t)

ManagerSpec == ManagerInit /\ [][ManagerNext]_managerVars

-----------------------------------------------------------------------------
(***************************************************************************)
(* Properties                                                              *)
(***************************************************************************)
\* Every variable ranges over the values the code's fields can have.
ManagerTypeOK ==
  /\ line \in Seq(Tasks) /\ pools \in [Names -> Creators \cup {NoPool}]
  /\ life \in [Creators -> {"none", "initializing", "ready", "closing", "closed", "dropped"}]
  /\ pc \in [Tasks -> {"out", "lock", "initializing", "closing", "cancelled", "done", "failed"}]
  /\ batch \in [Closers -> SUBSET Creators] /\ byUser \subseteq Creators

\* Two tasks that create a pool of one name at a time do not both get one: the name is
\* looked up and taken under one lock, held across the await between them (create_pool).
OnePoolPerName ==
  \A s, t \in Creators : s # t /\ NameOf[s] = NameOf[t] =>
    ~(life[s] \in {"initializing", "ready"} /\ life[t] \in {"initializing", "ready"})

\* The manager never loses a pool that is in use: every pool that create_pool returned
\* and that nobody has begun to close is in _pools, where close_all_pools finds it.
ReadyIsRegistered == \A p \in Creators : life[p] = "ready" => pools[NameOf[p]] = p

\* When close_all_pools returns, every pool it found is closed, except those that a user
\* was closing already: though it lets go of the lock before it closes them, and another
\* shutdown may be cancelled meanwhile (close_all_pools, close).
ShutPoolsClosed ==
  \A t \in Closers : pc[t] = "done" => \A p \in batch[t] \ byUser : life[p] = "closed"

\* A shutdown ends, whatever tasks create or close meanwhile, unless it is cancelled.
ShutdownEnds == \A t \in Closers : pc[t] = "lock" ~> pc[t] \in {"done", "failed"}
====
