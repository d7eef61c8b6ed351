---------------------------- MODULE ConnectionPool ----------------------------
(***************************************************************************)
(* SurrealDBConnectionPool (src/purreal/pool.py): a pool of connections,   *)
(* each leased to one client at a time, shared by the asyncio tasks of one *)
(* process.                                                                *)
(*                                                                         *)
(* asyncio runs one task at a time and switches only where a task really   *)
(* suspends, so one action is the code a task runs from one suspension     *)
(* point to the next: waiting for the semaphore, connecting, pinging,      *)
(* closing a socket, sleeping.  After initialize() no critical section of  *)
(* pool._lock suspends, so the lock is never contended and needs no        *)
(* variable of its own.                                                    *)
(***************************************************************************)
EXTENDS Integers, FiniteSets, SequencesExt

CONSTANTS
  Clients,      \* tasks that use the pool
  Lessees,      \* the clients that use checkout/checkin; the others use acquire()
  Conns,        \* identities of PooledConnection objects, reused once garbage
  NoConn,       \* "no connection"
  PoolSize, MaxOverflow, MinIdle, MaxWaiters, MaxUsage,        \* PoolConfig
  PrePing,      \* config: ping a connection idle for longer than the bypass window
  Prewarm, Adaptive,                         \* config: housekeeping features
  Aging,        \* environment: an idle connection can outlast max_idle_time
  Expiring,     \* environment: a connection can outlast max_lifetime
  Faults,       \* environment: pings and housekeeping connects can fail
  Impatient,    \* environment: drain and close can reach their deadlines
  MaxLost,      \* bound: acquisitions and check-ins that fail or are cancelled
                \* while they hold a permit
  MaxSurplus    \* bound: permits housekeeping releases without holding any

MaxConn == PoolSize + MaxOverflow            \* PoolConfig.max_connections
PrewarmBatch == 3                            \* connections pre-warmed in one pass

ASSUME ClientsAssumption == Lessees \subseteq Clients /\ IsFiniteSet(Clients)
ASSUME ConnsAssumption == NoConn \notin Conns /\ IsFiniteSet(Conns)
ASSUME ConfigAssumption ==
  /\ PoolSize \in Nat \ {0} /\ MaxOverflow \in Nat /\ MinIdle \in Nat
  /\ MaxWaiters \in Nat \ {0} /\ MaxUsage \in Nat \ {0}
  /\ MaxLost \in Nat /\ MaxSurplus \in Nat
  /\ {PrePing, Prewarm, Adaptive, Aging, Expiring, Faults, Impatient} \subseteq BOOLEAN

VARIABLES
  init,         \* initialize(): "new", "running" (holds pool._lock), "ready"
  paused, closed,
  ctl,          \* the tasks in drain() and close(): "none", "draining",
                \* "stopping" (close waits for leases), "closing", "done"
  closing,      \* connections close() took out of the registry and has yet to close
  sem, waiters, \* asyncio.Semaphore: its value, its pending futures in order
  waiterCount,  \* _waiter_count
  idle,         \* _idle_queue, a LIFO: its head is the next to be handed out
  all,          \* _all_connections
  checkedOut,   \* _checked_out
  open,         \* connections whose socket is open
  stray,        \* connections whose closing handshake a cancellation cut off
  overflow, expired, usage,                  \* attributes of a PooledConnection
  pc, conn,     \* per client: where it is, the connection it holds
  hk,           \* the housekeeping task
  lost,         \* history: permits gone with a failed or cancelled task
  surplus       \* history: permits released by housekeeping

life     == <<init, paused, closed, ctl, closing>>
queue    == <<sem, waiters>>
attrs    == <<overflow, expired, usage>>
registry == <<all, checkedOut>>
history  == <<lost, surplus>>
vars == <<life, queue, waiterCount, idle, registry, open, stray, attrs,
          pc, conn, hk, history>>

Creating == {"creating", "creatingOverflow"}
\* where a client is suspended; the ones in Holding have taken a permit
Holding  == Creating \cup {"granted", "validating", "discarding", "leased", "releasing"}
Places   == Holding \cup {"out", "waiting"}

HkOff   == [pc |-> "off", conn |-> NoConn, kept |-> <<>>, evicted |-> 0,
            todo |-> 0, size |-> 0]
HkSleep == [HkOff EXCEPT !.pc = "sleep"]

HkStates ==
  [pc : {"off", "sleep", "scaleUp", "scaleDown", "prewarm", "evict", "replenish"},
   conn : Conns \cup {NoConn}, kept : Seq(Conns), evicted : Nat, todo : Nat, size : Nat]

\* Objects nothing refers to any more: the next PooledConnection is one of them.
Fresh == Conns \ (open \cup stray \cup closing \cup all \cup checkedOut \cup ToSet(idle)
                  \cup ToSet(hk.kept) \cup {hk.conn} \cup {conn[cl] : cl \in Clients})

Init ==
  /\ init = "new" /\ paused = FALSE /\ closed = FALSE /\ ctl = "none"
  /\ closing = {}
  /\ sem = MaxConn /\ waiters = <<>> /\ waiterCount = 0
  /\ idle = <<>> /\ all = {} /\ checkedOut = {}
  /\ open = {} /\ stray = {} /\ overflow = {} /\ expired = {}
  /\ usage = [c \in Conns |-> 0]
  /\ pc = [cl \in Clients |-> "out"] /\ conn = [cl \in Clients |-> NoConn]
  /\ hk = HkOff /\ lost = 0 /\ surplus = 0

-----------------------------------------------------------------------------
(***************************************************************************)
(* asyncio.Semaphore.  A released permit is handed to the first pending    *)
(* future; its task counts as a waiter until it runs again.                *)
(***************************************************************************)
Locked == sem = 0 \/ waiters # <<>> \/ \E cl \in Clients : pc[cl] = "granted"

\* _wake_up_next when the value is v, the pending futures w, the clients at p
WakeNext(v, w, p) ==
  IF v > 0 /\ w # <<>>
  THEN sem' = v - 1 /\ waiters' = Tail(w) /\ pc' = [p EXCEPT ![Head(w)] = "granted"]
  ELSE sem' = v /\ waiters' = w /\ pc' = p

\* mutants: the permit is not given back; it is given back twice; nobody is woken
ReleaseNothing(p) == WakeNext(sem, waiters, p)
ReleaseTwice(p) == WakeNext(sem + 2, waiters, p)
ReleaseUnnoticed(p) == sem' = sem + 1 /\ waiters' = waiters /\ pc' = p

ReleasePermit(p) == WakeNext(sem + 1, waiters, p)

-----------------------------------------------------------------------------
(***************************************************************************)
(* Connections: the attributes of one that is dropped are reset, so that a *)
(* fresh object starts with none.                                          *)
(***************************************************************************)
ResetAttrs(c) ==
  /\ overflow' = overflow \ {c} /\ expired' = expired \ {c}
  /\ usage' = [usage EXCEPT ![c] = 0]

\* mutant: the connection stays registered
UnregisterLease(c) == all' = all /\ checkedOut' = checkedOut \ {c} /\ ResetAttrs(c)

\* _destroy_connection up to the await of the socket's close
Unregister(c) ==
  all' = all \ {c} /\ checkedOut' = checkedOut \ {c} /\ ResetAttrs(c)

\* record_use, then _checked_out.add
Lend(c) ==
  /\ usage' = [usage EXCEPT ![c] = @ + 1]
  /\ checkedOut' = checkedOut \cup {c}

Unfit(c) == c \in expired \/ usage[c] >= MaxUsage

\* The loop of _try_get_idle up to where it suspends or returns, and, when the
\* queue is empty, the choice of _create_and_register(overflow=_at_steady_state()).
\* next is where the client suspends.
Scan(cl, next) ==
  \/ /\ idle = <<>>
     /\ next = IF Cardinality(all) >= PoolSize THEN "creatingOverflow" ELSE "creating"
     /\ conn' = [conn EXCEPT ![cl] = NoConn]
     /\ UNCHANGED <<idle, registry, attrs>>
  \/ /\ idle # <<>>
     /\ idle' = Tail(idle)
     /\ conn' = [conn EXCEPT ![cl] = Head(idle)]
     /\ \/ Unfit(Head(idle)) /\ next = "discarding" /\ Unregister(Head(idle))
        \/ /\ ~Unfit(Head(idle)) /\ PrePing /\ next = "validating"
           /\ UNCHANGED <<registry, attrs>>
        \/ /\ ~Unfit(Head(idle)) /\ next = "leased" /\ Lend(Head(idle))
           /\ UNCHANGED <<all, overflow, expired>>

-----------------------------------------------------------------------------
(***************************************************************************)
(* Clients: acquire() / checkout() and checkin().                          *)
(***************************************************************************)
\* The checks of acquire() and checkout(), max_waiters, then the semaphore:
\* either a permit at once, and the client goes on to the idle queue, or a wait.
Request(cl) ==
  /\ pc[cl] = "out" /\ init = "ready" /\ ~closed
  /\ cl \in Lessees \/ ~paused
  /\ waiterCount < MaxWaiters
  /\ \/ /\ ~Locked
        /\ sem' = sem - 1
        /\ \E next \in Holding : Scan(cl, next) /\ pc' = [pc EXCEPT ![cl] = next]
        /\ UNCHANGED <<waiters, waiterCount>>
     \/ /\ Locked
        /\ waiters' = Append(waiters, cl) /\ waiterCount' = waiterCount + 1
        /\ pc' = [pc EXCEPT ![cl] = "waiting"]
        /\ UNCHANGED <<sem, idle, registry, attrs, conn>>
  /\ UNCHANGED <<life, open, stray, hk, history>>

\* mutant: _waiter_count is not decremented
ResumeUncounted(cl) ==
  /\ pc[cl] = "granted"
  /\ waiterCount' = waiterCount
  /\ \E next \in Holding :
       Scan(cl, next) /\ WakeNext(sem, waiters, [pc EXCEPT ![cl] = next])
  /\ UNCHANGED <<life, open, stray, hk, history>>

\* A woken client runs: acquire() of the semaphore passes a further permit on,
\* then the client goes on to the idle queue.
Resume(cl) ==
  /\ pc[cl] = "granted"
  /\ waiterCount' = waiterCount - 1
  /\ \E next \in Holding :
       Scan(cl, next) /\ WakeNext(sem, waiters, [pc EXCEPT ![cl] = next])
  /\ UNCHANGED <<life, open, stray, hk, history>>

\* acquisition_timeout, or the cancellation of a client that waits for a permit
GiveUp(cl) ==
  /\ \/ /\ pc[cl] = "waiting"
        /\ \E i \in DOMAIN waiters : waiters[i] = cl /\ waiters' = RemoveAt(waiters, i)
        /\ pc' = [pc EXCEPT ![cl] = "out"]
        /\ UNCHANGED sem
     \/ pc[cl] = "granted" /\ ReleasePermit([pc EXCEPT ![cl] = "out"])
  /\ waiterCount' = waiterCount - 1
  /\ UNCHANGED <<life, idle, registry, open, stray, attrs, conn, hk, history>>

\* _validate_connection returns True
Validated(cl) ==
  /\ pc[cl] = "validating" /\ conn[cl] \in open
  /\ Lend(conn[cl])
  /\ pc' = [pc EXCEPT ![cl] = "leased"]
  /\ UNCHANGED <<life, queue, waiterCount, idle, all, open, stray, overflow,
                 expired, conn, hk, history>>

\* ... or False: the ping failed or the socket is closed
PingFailed(cl) ==
  /\ pc[cl] = "validating" /\ (Faults \/ conn[cl] \notin open)
  /\ Unregister(conn[cl])
  /\ pc' = [pc EXCEPT ![cl] = "discarding"]
  /\ UNCHANGED <<life, queue, waiterCount, idle, open, stray, conn, hk, history>>

\* The socket of a discarded connection is closed: on to the next idle one.
Discarded(cl) ==
  /\ pc[cl] = "discarding"
  /\ open' = open \ {conn[cl]}
  /\ \E next \in Holding : Scan(cl, next) /\ pc' = [pc EXCEPT ![cl] = next]
  /\ UNCHANGED <<life, queue, waiterCount, stray, hk, history>>

\* _create_connection returns in _create_and_register
Created(cl) ==
  /\ pc[cl] \in Creating
  /\ \E c \in Fresh :
       /\ conn' = [conn EXCEPT ![cl] = c]
       /\ open' = open \cup {c} /\ all' = all \cup {c}
       /\ overflow' = IF pc[cl] = "creatingOverflow" THEN overflow \cup {c} ELSE overflow
       /\ Lend(c)
  /\ pc' = [pc EXCEPT ![cl] = "leased"]
  /\ UNCHANGED <<life, queue, waiterCount, idle, stray, expired, hk, history>>

\* A client fails or is cancelled after it got its permit: nothing gives the permit
\* back.
Lose(cl) ==
  /\ lost < MaxLost
  /\ lost' = lost + 1
  /\ pc' = [pc EXCEPT ![cl] = "out"] /\ conn' = [conn EXCEPT ![cl] = NoConn]
  /\ UNCHANGED <<life, queue, waiterCount, idle, registry, open, attrs, hk, surplus>>

\* every connection attempt failed, or the client was cancelled while it connects
CreateFailed(cl) == pc[cl] \in Creating /\ Lose(cl) /\ UNCHANGED stray

\* A connection that was being pinged stays registered.
CancelAcquiring(cl) ==
  \/ pc[cl] = "validating" /\ Lose(cl) /\ UNCHANGED stray
  \/ pc[cl] = "discarding" /\ Lose(cl) /\ stray' = stray \cup {conn[cl]}

\* mutants: overflow connections are queued; the closed pool queues connections
DiscardableIfUnfit(c) == Unfit(c) \/ closed
DiscardableIfOpen(c) == Unfit(c) \/ c \in overflow

\* _release_connection destroys an old, worn-out or overflow connection, and any
\* connection once the pool is closed; it queues the others.
Discardable(c) == Unfit(c) \/ closed \/ c \in overflow

Release(cl) ==
  /\ pc[cl] = "leased"
  /\ \/ /\ Discardable(conn[cl])
        /\ Unregister(conn[cl])
        /\ pc' = [pc EXCEPT ![cl] = "releasing"]
        /\ UNCHANGED <<queue, idle, conn>>
     \/ /\ ~Discardable(conn[cl])
        /\ checkedOut' = checkedOut \ {conn[cl]}
        /\ idle' = <<conn[cl]>> \o idle
        /\ conn' = [conn EXCEPT ![cl] = NoConn]
        /\ ReleasePermit([pc EXCEPT ![cl] = "out"])
        /\ UNCHANGED <<all, attrs>>
  /\ UNCHANGED <<life, waiterCount, open, stray, hk, history>>

\* The socket of a connection destroyed on release is closed.
Released(cl) ==
  /\ pc[cl] = "releasing"
  /\ open' = open \ {conn[cl]}
  /\ conn' = [conn EXCEPT ![cl] = NoConn]
  /\ ReleasePermit([pc EXCEPT ![cl] = "out"])
  /\ UNCHANGED <<life, waiterCount, idle, registry, stray, attrs, hk, history>>

\* checkin() has no shield: its task can be cancelled during that close.
CancelReleasing(cl) ==
  /\ cl \in Lessees /\ pc[cl] = "releasing"
  /\ Lose(cl) /\ stray' = stray \cup {conn[cl]}

\* A registered connection outlives max_lifetime.
Expire(c) ==
  /\ Expiring /\ c \in all \ expired
  /\ expired' = expired \cup {c}
  /\ UNCHANGED <<life, queue, waiterCount, idle, registry, open, stray, overflow,
                 usage, pc, conn, hk, history>>

-----------------------------------------------------------------------------
(***************************************************************************)
(* Lifecycle: initialize, pause, resume, drain, close.                     *)
(***************************************************************************)
InitializeBegin ==
  /\ init = "new" /\ ~closed
  /\ init' = "running"
  /\ UNCHANGED <<paused, closed, ctl, closing, queue, waiterCount, idle, registry, open,
                 stray, attrs, pc, conn, hk, history>>

\* min_idle connects were gathered; the ones that succeeded are queued, and the
\* housekeeping task starts (it ends at once if the pool was closed meanwhile).
InitializeEnd ==
  /\ init = "running" /\ init' = "ready"
  /\ \E made \in SUBSET Fresh :
       /\ Cardinality(made) = MinIdle \/ (Faults /\ Cardinality(made) < MinIdle)
       /\ all' = all \cup made /\ open' = open \cup made
       /\ idle' = SetToSeq(made) \o idle
  /\ hk' = IF closed THEN HkOff ELSE HkSleep
  /\ UNCHANGED <<paused, closed, ctl, closing, queue, waiterCount, checkedOut, stray,
                 attrs, pc, conn, history>>

SetPaused(b) ==
  /\ paused' = b
  /\ UNCHANGED <<init, closed, ctl, closing, queue, waiterCount, idle, registry, open,
                 stray, attrs, pc, conn, hk, history>>

PausePool  == ~paused /\ SetPaused(TRUE)
ResumePool == paused /\ SetPaused(FALSE)

DrainBegin ==
  /\ ctl = "none"
  /\ ctl' = "draining" /\ paused' = TRUE
  /\ UNCHANGED <<init, closed, closing, queue, waiterCount, idle, registry, open, stray,
                 attrs, pc, conn, hk, history>>

\* close() up to its wait for leases.  Cancelling the housekeeping task drops what
\* it holds: the connections it has taken off the queue do not come back, and a
\* close it was in the middle of is cut off.
StopServing ==
  /\ closed' = TRUE /\ paused' = TRUE /\ ctl' = "stopping"
  /\ hk' = HkOff
  /\ stray' = IF hk.conn = NoConn THEN stray ELSE stray \cup {hk.conn}
  /\ UNCHANGED <<init, closing, queue, waiterCount, idle, registry, open, attrs, pc, conn,
                 history>>

NoLeases == checkedOut = {} \/ Impatient

CloseBegin == ctl \in {"none", "draining"} /\ StopServing
DrainElapsed == ctl = "draining" /\ NoLeases /\ StopServing

\* The second half of close(): the registered connections leave the registry (the
\* idle queue keeps the ones it holds), and a task of its own closes each.
CloseRegistry ==
  /\ ctl = "stopping" /\ NoLeases /\ init # "running"
  /\ ctl' = "closing" /\ closing' = all
  /\ all' = {} /\ checkedOut' = {}
  /\ UNCHANGED <<init, paused, closed, queue, waiterCount, idle, open, stray, attrs,
                 pc, conn, hk, history>>

CloseSocket ==
  /\ \E c \in closing : closing' = closing \ {c} /\ open' = open \ {c}
  /\ UNCHANGED <<init, paused, closed, ctl, queue, waiterCount, idle, registry, stray,
                 attrs, pc, conn, hk, history>>

CloseEnd ==
  /\ ctl = "closing" /\ closing = {}
  /\ ctl' = "done" /\ init' = "new"
  /\ UNCHANGED <<paused, closed, closing, queue, waiterCount, idle, registry, open, stray,
                 attrs, pc, conn, hk, history>>

-----------------------------------------------------------------------------
(***************************************************************************)
(* Housekeeping: one pass of _run_housekeeping is adaptive scaling, then   *)
(* pre-warming, eviction and replenishment.  The operators below are the   *)
(* rest of a pass from a point on, as far as its next suspension; q is the *)
(* idle queue and a the registered connections at that point.              *)
(***************************************************************************)
HkAt(q, a, h) == idle' = q /\ all' = a /\ hk' = h

\* Replenishing to min_idle: each connection is created after the other.
Replenish(q, a) ==
  /\ HkAt(q, a, IF Len(q) < MinIdle /\ Cardinality(a) < MaxConn
                THEN [HkOff EXCEPT !.pc = "replenish", !.todo = MinIdle - Len(q)]
                ELSE HkSleep)
  /\ UNCHANGED <<checkedOut, attrs>>

\* mutant: the connection to evict is kept, too
TakenThrough(q, i) == SubSeq(q, 1, i)

\* what the eviction loop took off the queue q before its i-th connection
TakenBefore(q, i) == SubSeq(q, 1, i - 1)

\* The eviction loop: it takes connections off the queue until one has to go
\* (idle for too long while more than min_idle are registered, or expired); when
\* none has, it queues the ones it kept, the first taken first.  MaxSurplus bounds the
\* permits released, the one of the present step included.
Evict(q, a, kept, evicted) ==
  \/ (\A i \in DOMAIN q : q[i] \notin expired) /\ Replenish(Reverse(kept \o q), a)
  \/ \E i \in DOMAIN q :
       /\ surplus' < MaxSurplus
       /\ \A j \in 1..(i - 1) : q[j] \notin expired
       /\ q[i] \in expired \/ (Aging /\ Cardinality(a) - evicted > MinIdle)
       /\ HkAt(SubSeq(q, i + 1, Len(q)), a \ {q[i]},
               [HkOff EXCEPT !.pc = "evict", !.conn = q[i], !.evicted = evicted,
                             !.kept = kept \o TakenBefore(q, i)])
       /\ checkedOut' = checkedOut \ {q[i]} /\ ResetAttrs(q[i])

\* Pre-warming: the deficit compares a forecast, hence any number, with the idle
\* count, and the room left with the size, both read when the pass began.
PrewarmFrom(q, a, size) ==
  \/ Prewarm /\ UNCHANGED <<checkedOut, attrs>>
     /\ \E n \in 1..PrewarmBatch :
          n <= MaxConn - size /\ HkAt(q, a, [HkOff EXCEPT !.pc = "prewarm", !.todo = n])
  \/ Evict(q, a, <<>>, 0)

\* AdaptiveScaler.decide: latency and cooldown permitting, grow below
\* max_connections, shrink when less than 30% of a pool above min_idle is in use.
MayGrow == Adaptive /\ Cardinality(all) < MaxConn
MayShrink ==
  /\ Adaptive /\ Cardinality(all) > MinIdle /\ Len(idle) > MinIdle
  /\ 10 * Len(idle) > 7 * Cardinality(all)

HkWake ==
  /\ hk.pc = "sleep" /\ UNCHANGED history
  /\ \/ PrewarmFrom(idle, all, Cardinality(all))
     \/ /\ MayGrow
        /\ HkAt(idle, all, [HkOff EXCEPT !.pc = "scaleUp", !.size = Cardinality(all)])
        /\ UNCHANGED <<checkedOut, attrs>>
     \/ /\ MayShrink /\ surplus < MaxSurplus
        /\ HkAt(Tail(idle), all \ {Head(idle)},
                [HkOff EXCEPT !.pc = "scaleDown", !.conn = Head(idle),
                              !.size = Cardinality(all)])
        /\ checkedOut' = checkedOut \ {Head(idle)} /\ ResetAttrs(Head(idle))
  /\ UNCHANGED <<life, queue, waiterCount, open, stray, pc, conn>>

\* A connect of the pass succeeded with c: rest(q, a) is what follows.
HkMade(rest(_, _)) ==
  \E c \in Fresh : open' = open \cup {c} /\ rest(<<c>> \o idle, all \cup {c})
HkNotMade(rest(_, _)) == Faults /\ UNCHANGED open /\ rest(idle, all)

HkScaledUp ==
  /\ hk.pc = "scaleUp" /\ UNCHANGED history
  /\ LET rest(q, a) == PrewarmFrom(q, a, hk.size) IN HkMade(rest) \/ HkNotMade(rest)
  /\ UNCHANGED <<life, queue, waiterCount, stray, pc, conn>>

HkPrewarmed ==
  /\ hk.pc = "prewarm" /\ UNCHANGED history
  /\ LET next(q, a) == IF hk.todo > 1
                       THEN HkAt(q, a, [hk EXCEPT !.todo = @ - 1])
                            /\ UNCHANGED <<checkedOut, attrs>>
                       ELSE Evict(q, a, <<>>, 0)
         stop(q, a) == Evict(q, a, <<>>, 0)
     IN HkMade(next) \/ HkNotMade(stop)
  /\ UNCHANGED <<life, queue, waiterCount, stray, pc, conn>>

\* mutant: replenishing goes on as long as there is room
HkReplenishedToLimit ==
  /\ hk.pc = "replenish"
  /\ LET next(q, a) == HkAt(q, a, IF Cardinality(a) < MaxConn
                                  THEN [hk EXCEPT !.todo = @ - 1] ELSE HkSleep)
         stop(q, a) == HkAt(q, a, HkSleep)
     IN HkMade(next) \/ HkNotMade(stop)
  /\ UNCHANGED <<life, queue, waiterCount, checkedOut, stray, attrs, pc, conn, history>>

HkReplenished ==
  /\ hk.pc = "replenish"
  /\ LET next(q, a) == HkAt(q, a, IF hk.todo > 1 /\ Cardinality(a) < MaxConn
                                  THEN [hk EXCEPT !.todo = @ - 1] ELSE HkSleep)
         stop(q, a) == HkAt(q, a, HkSleep)
     IN HkMade(next) \/ HkNotMade(stop)
  /\ UNCHANGED <<life, queue, waiterCount, checkedOut, stray, attrs, pc, conn, history>>

\* The socket of a connection housekeeping destroyed is closed: it releases a
\* permit, though an idle connection holds none, and goes on.
HkDestroyed ==
  /\ hk.pc \in {"scaleDown", "evict"}
  /\ open' = open \ {hk.conn}
  /\ ReleasePermit(pc)
  /\ surplus' = surplus + 1
  /\ IF hk.pc = "scaleDown" THEN PrewarmFrom(idle, all, hk.size)
                            ELSE Evict(idle, all, hk.kept, hk.evicted + 1)
  /\ UNCHANGED <<life, waiterCount, stray, conn, lost>>

-----------------------------------------------------------------------------
\* the closed pool stays as it is once its clients are gone
Finished ==
  /\ ctl = "done" /\ \A cl \in Clients : pc[cl] = "out"
  /\ UNCHANGED vars

ClientStep(cl) ==
  \/ Request(cl) \/ Resume(cl) \/ GiveUp(cl)
  \/ Validated(cl) \/ PingFailed(cl) \/ Discarded(cl)
  \/ Created(cl) \/ CreateFailed(cl) \/ CancelAcquiring(cl)
  \/ Release(cl) \/ Released(cl) \/ CancelReleasing(cl)

Housekeeping ==
  HkWake \/ HkScaledUp \/ HkPrewarmed \/ HkReplenished \/ HkDestroyed

Lifecycle ==
  \/ InitializeBegin \/ InitializeEnd \/ PausePool \/ ResumePool
  \/ DrainBegin \/ DrainElapsed \/ CloseBegin
  \/ CloseRegistry \/ CloseSocket \/ CloseEnd

Next ==
  \/ \E cl \in Clients : ClientStep(cl)
  \/ \E c \in Conns : Expire(c)
  \/ Housekeeping \/ Lifecycle \/ Finished

Spec == Init /\ [][Next]_vars

\* Fairness: the event loop runs every ready task, network operations end within
\* their timeouts, timers go off, and a client gives its connection back.  Nothing
\* makes a client ask, give up, fail or be cancelled, nor the pool close.
Fairness ==
  /\ \A cl \in Clients :
       /\ WF_vars(Resume(cl)) /\ WF_vars(Validated(cl) \/ PingFailed(cl))
       /\ WF_vars(Discarded(cl)) /\ WF_vars(Created(cl))
       /\ WF_vars(Release(cl)) /\ WF_vars(Released(cl))
  /\ WF_vars(Housekeeping)
  /\ WF_vars(InitializeEnd) /\ WF_vars(DrainElapsed)
  /\ WF_vars(CloseRegistry) /\ WF_vars(CloseSocket) /\ WF_vars(CloseEnd)

FairSpec == Spec /\ Fairness

-----------------------------------------------------------------------------
(***************************************************************************)
(* Properties                                                              *)
(***************************************************************************)
\* Every variable ranges over the values the code's fields can have.
TypeOK ==
  /\ init \in {"new", "running", "ready"} /\ paused \in BOOLEAN /\ closed \in BOOLEAN
  /\ ctl \in {"none", "draining", "stopping", "closing", "done"}
  /\ closing \subseteq Conns
  /\ sem \in Nat /\ waiters \in Seq(Clients) /\ waiterCount \in Int
  /\ idle \in Seq(Conns) /\ all \subseteq Conns /\ checkedOut \subseteq Conns
  /\ open \subseteq Conns /\ stray \subseteq Conns
  /\ overflow \subseteq Conns /\ expired \subseteq Conns /\ usage \in [Conns -> Nat]
  /\ pc \in [Clients -> Places] /\ conn \in [Clients -> Conns \cup {NoConn}]
  /\ hk \in HkStates
  /\ lost \in Nat /\ surplus \in Nat

\* The clients at one of the places in P.
At(P) == {cl \in Clients : pc[cl] \in P}

\* The connections queued in q, kept in the list k, in h and held by clients differ.
Apart(q, k, h) ==
  /\ IsInjective(q) /\ IsInjective(k) /\ ToSet(q) \cap ToSet(k) = {}
  /\ h \notin ToSet(q) \cup ToSet(k)
  /\ \A cl \in Clients : conn[cl] # NoConn => conn[cl] \notin ToSet(q) \cup ToSet(k) \cup {h}

\* A connection has one owner: one place in the idle queue, or in the list of a
\* housekeeping pass, or one client, which no other task can be using or closing
\* (a WebSocket that two coroutines read from raises ConcurrencyError).
OneOwner ==
  /\ Apart(idle, hk.kept, hk.conn)
  /\ \A cl, other \in Clients : cl # other /\ conn[cl] # NoConn => conn[other] # conn[cl]

\* Every permit is in the semaphore, with a client between acquire() and the end
\* of its release, or accounted for as lost or surplus: the only ways the number
\* of clients in possession of a permit can leave max_connections.
PermitAccounting ==
  sem + Cardinality(At(Holding)) + lost = MaxConn + surplus

\* A free permit is never left lying while clients wait: one of them is on its way.
NoLostWakeup == sem > 0 /\ waiters # <<>> => At({"granted"}) # {}

\* _waiter_count counts the clients suspended in the semaphore, the queue holds the
\* ones not woken yet, each once, and max_waiters bounds them.
WaiterAccounting ==
  /\ ToSet(waiters) = At({"waiting"}) /\ IsInjective(waiters)
  /\ waiterCount = Cardinality(At({"waiting", "granted"}))
  /\ waiterCount <= MaxWaiters

\* Until close() clears the registry, _checked_out is exactly what clients hold, and
\* a connection in the idle queue is registered, open, steady, within max_usage_count
\* and held by nobody.
RegistryMatchesLeases ==
  ctl \notin {"closing", "done"} =>
    /\ checkedOut = {conn[cl] : cl \in At({"leased"})}
    /\ ToSet(idle) \subseteq (all \cap open) \ (checkedOut \cup overflow)
    /\ \A c \in ToSet(idle) : usage[c] < MaxUsage

\* While the pool is open every registered connection is in the idle queue, in the
\* hands of a housekeeping pass, or held by a client; a cancelled client can leave
\* at most one behind.
NoOrphans ==
  ~closed =>
    Cardinality(all \ (ToSet(idle) \cup ToSet(hk.kept) \cup {conn[cl] : cl \in Clients}))
      <= lost

\* Once the pool is closed and its clients are gone no socket is left open, but for
\* those whose closing handshake a cancellation cut off.
NoSocketLeft == ctl = "done" /\ At(Holding) = {} => open \subseteq stray

\* After close() began nothing is put back into the idle queue (initialize(), if it
\* was running, still fills it).
NothingPooledAfterClose ==
  [][closed /\ init # "running" => ToSet(idle') \subseteq ToSet(idle)]_vars

\* The pool as a lease manager: a client that pings or uses a connection leases it,
\* and no more than max_connections (and the surplus) are leased at a time.
Leases == INSTANCE ExclusiveLeases WITH
  Limit <- MaxConn + MaxSurplus,
  lease <- [cl \in Clients |->
              IF pc[cl] \in {"validating", "leased"} THEN conn[cl] ELSE NoConn]
LeaseManager == Leases!Spec

\* A client that waits for a permit gets one without its timeout's help, when no
\* other client fails or is cancelled while it holds one.
WaitersServed == \A cl \in Clients : pc[cl] = "waiting" ~> pc[cl] # "waiting"

\* A closed pool ends up without an open socket.
SocketsClosed == closed ~> [](open \subseteq stray)

-----------------------------------------------------------------------------
(***************************************************************************)
(* What the repository's documents say of the pool.                        *)
(***************************************************************************)
\* "Peak connections <= max_connections" (PERFORMANCE_TESTING.md), of the connections
\* that clients hold at a time.
InUseWithinLimit == Cardinality(At({"leased"})) <= MaxConn

\* "Connection pooling that doesn't deadlock" (WHY-lol.md): when clients wait for a
\* permit, some client has one that it will give back.
NoPermitDeadlock == waiters # <<>> => At(Holding) # {}

\* pause(): "Stop handing out connections" (README.md), of the clients that have not
\* got as far as a connection of their own when the pool is paused.
PausedHandsOutNothing ==
  [][\A cl \in Clients :
       paused /\ pc[cl] \in {"out", "waiting", "granted"} => pc'[cl] # "leased"]_vars

\* drain(): "Wait for in-flight, then close" (README.md): no client holds a
\* connection whose socket the pool has closed.
LeasedIsOpen == \A cl \in Clients : pc[cl] = "leased" => conn[cl] \in open
====
