# Purreal in TLA+

Purreal is an asyncio connection pool for SurrealDB. A SurrealDB WebSocket
serves one reader at a time, so the library leases each connection to one task,
and on top of that multiplexes many virtual sessions over a few leases. This
directory holds its specification: TLA+ modules translated from
`src/purreal/*.py`, TLC configurations that check them on small instances, and
proofs that TLAPS checks for instances of any size.

| file | what it is |
| --- | --- |
| `ConnectionPool.tla` | `SurrealDBConnectionPool` (pool.py): clients, waiting queue, housekeeping, lifecycle; its properties |
| `ExclusiveLeases.tla` | what a pool promises: exclusive leases, at most `Limit` of them |
| `PhysicalSlot.tla` | `PhysicalSlot` (multiplexer.py): drain loop, switching of session states, teleports, migration, stop, over the pool as its clients see it |
| `RequestSlots.tla` | what slots promise their router: queues, one request served at a time, bounded tries, one reply |
| `Multiplexer.tla` | `SessionMultiplexer`, `SessionRouter`, `VirtualSession` (multiplexer.py), over `RequestSlots` |
| `CircuitBreaker.tla` | `CircuitBreaker` (predictive.py) |
| `EventBus.tla` | `EventBus` (events.py) |
| `PoolManager.tla` | `SurrealDBPoolManager` (pool.py) and `close_pools` (shutdown.py) |
| `MC*.tla`, `*.cfg` | the instances TLC checks |
| `ConnectionPoolProofs.tla`, `PermitProofs.tla`, `RegistryProofs.tla` | the pool: typing and ownership; permits, waiting queue and wakeups, it implements `ExclusiveLeases`; registry, sockets and orphans |
| `SlotProofs.tla`, `SlotIsolationProofs.tla` | the slot: typing, requests, tries, it implements `RequestSlots`; leases and session states |
| `MultiplexerProofs.tla` | the multiplexer: typing, list of slots, registry, reaper, routing, where requests are |
| `ServiceProofs.tla` | the circuit breaker, the event bus and the pool manager |
| `SequenceLemmas.tla` | lemmas about sequences, their elements and how often those occur, and about least elements |
| `PROJECT.json` | components, runs, mutants, the map from definitions to source lines, findings, hazards, theorems |

## The system

| component | state | operations | correct when |
| --- | --- | --- | --- |
| Connection pool, `pool.py` | idle queue (LIFO), semaphore, registry `_all_connections`, `_checked_out`, waiter count, lifecycle flags, two background tasks | `acquire`, `checkout`/`checkin`, `initialize`, `pause`/`resume`, `drain`, `close`, housekeeping | one owner per connection; permits conserved; waiters served; registry agrees with the leases; nothing left open after close |
| Pooled connection, `types.py` | usage count, expiry, overflow flag, socket | `record_use`, `record_release`, `is_expired` | worn-out, expired and overflow connections are not pooled again |
| Adaptive scaler, `predictive.py` | time of the last decision | `decide` | grows only below the limit, shrinks only above the minimum |
| Demand predictor, latency oracle, `predictive.py` | statistics | `record`, `predict_demand`, `is_degraded` | numerical |
| Circuit breaker, `predictive.py` | closed/open/half-open, failures, time of the last one | `allows_request`, `record_success`, `record_failure`, `reset` | closed while failures are few; opens again on a failed probe; recovers |
| Event bus, `events.py` | handler lists | `on`, `off`, `clear`, `emit` | what one handler does to the list costs the others little |
| Physical slot, `multiplexer.py` | leased connection, the session state it is known to have, request queue, drain task, health | `start`, `enqueue`, drain loop, teleport, `proactive_migrate`, `stop` | a connection is used by one coroutine; a request runs in its own session's state; no request is lost, doubled or run too often; every future is resolved |
| Virtual session, `multiplexer.py` | status, session state with variables | `query` and its shorthands, `let`, `close` | a query returns; a session that is registered is active |
| Session router, `multiplexer.py` | none | `route` | a matching slot with a short queue before others, a live slot before a dead one |
| Session multiplexer, `multiplexer.py` | slots, registered sessions, reaper and migration tasks | `start`, `stop`, `get_session` | no slot leaked, no request lost, `stop` ends |
| Pool manager, shutdown, `pool.py`, `shutdown.py` | named pools under a lock | `create_pool`, `close_all_pools`, `close_pools` | one pool per name; every pool closed |

The multiplexer's slots call `checkout` and `checkin` of the pool; sessions put
requests into a slot's queue and await a future that the slot's drain loop
resolves. The pool calls the predictor, the oracle, the scaler, the breakers and
the event bus synchronously, none of which suspends. Everything runs in one event
loop.

What is hard in this code is what happens across `await`s: a timeout racing a
grant, a cancellation between two steps of an acquisition, housekeeping that
holds half of the idle queue while it awaits a close, a close that overtakes
clients on their way to a lease, a migration that replaces a connection under the
drain loop, a session state half applied when its connection fails, requests that
arrive while slots are stopped one by one. `PROJECT.json` lists each such hazard at
its line, with the property that covers it or the reason none does.

How the modules fit together:

    Multiplexer  --INSTANCE-->  RequestSlots  <--implemented by--  PhysicalSlot
                                                                     | uses the pool as
                                                                     | its clients see it
    ConnectionPool  --implements-->  ExclusiveLeases  - - - - - - - -+
    CircuitBreaker, EventBus, PoolManager: share no state with the others

`RequestSlots` is an abstract specification used on both sides: `PhysicalSlot`
implements it (`KeepsPromise`, `GoesOn`), and `Multiplexer` composes several of its
slots with router, sessions and background tasks. A multiplexer over fully detailed
slots and pool would be out of TLC's reach.

## ConnectionPool: how the model corresponds to the code

**Steps.** An asyncio task runs undisturbed until it really suspends: in
`semaphore.acquire()` when the semaphore is locked, in a connect, a ping, the
close of a socket, or a sleep. An action is all the code a task runs between
two such points. `async with self._lock` suspends only when the lock is held,
and the only critical section that suspends inside is that of `initialize()`;
before it ends nobody but `close()` wants the lock, so `init = "running"` stands
for it. `events.emit` awaits nothing, so it is no suspension. Which ready task
runs next is left open, a superset of the loop's FIFO order.

**Clients.** `pc[cl]` is where a client is suspended:

| `pc` | code |
| --- | --- |
| `out` | not in the pool |
| `waiting`, `granted` | in `semaphore.acquire()`; `granted` when a release has handed it a permit and it has not run yet |
| `validating` | the ping of `_validate_connection` |
| `discarding` | closing the socket in `_destroy_connection`, called by `_try_get_idle` |
| `creating`, `creatingOverflow` | the connect of `_create_connection`; overflow is decided before it |
| `leased` | holds the connection |
| `releasing` | closing the socket in `_destroy_connection`, called by `_release_connection` |

`Lessees` are the clients that use `checkout`/`checkin`: they do not look at
`paused`, and a cancellation can hit their release; the release of `acquire()`
is shielded. The semaphore is asyncio's: a value, a FIFO of futures, a release
that hands its permit to the first future (`WakeNext`), a task that gives its
permit on when it was cancelled after the grant (`GiveUp`).

`_try_get_idle` is `Scan`: from the head of the LIFO up to the next suspension.
Whether a connection has been idle for longer than the bypass window is a
choice (`PrePing` says whether it may be pinged at all). The retries of
`_create_connection` are one step that succeeds (`Created`) or ends in an
exception (`CreateFailed`).

**Housekeeping.** A pass is one coroutine with a suspension at every connect
and close. `hk` holds its program counter and its local variables: the
connection it is closing, the eviction loop's `temp` list (`kept`), its counter
`evicted`, the iterations left (`todo`) and the `size` read at the beginning.
`PrewarmFrom`, `Evict` and `Replenish` are the rest of the pass from a point
on; each calls the next the way the code falls through. `predict_demand` and
the latency percentile are arbitrary; time spent idle is a choice made where
the code reads the clock (`Aging`), expiry is an action (`Expire`), because two
readers must agree on it.

**Lifecycle.** `close()` is five steps: it stops housekeeping (`StopServing`),
waits for `_checked_out` or its deadline, empties the registry
(`CloseRegistry`), closes each connection in a task of its own (`CloseSocket`)
and returns (`CloseEnd`). Cancelling the housekeeping task drops what it holds:
its `temp` list is gone, and a close that it was awaiting is cut off. Such a
socket goes to `stray`: nothing in the code closes it again, and whether the
cancelled handshake got far enough is not known.

**Identities.** `Conns` stands for the objects' unique ids. A connection nothing
refers to any more is garbage and its name is used again (`Fresh`), so
that a finite set serves behaviours of any length.

**Not modelled**: statistics, leak detection (it logs), breakers (one failed
ping destroys the connection and drops its breaker, so that none reaches the
threshold of 5), cancelling the tasks that run `initialize()` or `close()`,
sockets of failed connection attempts, a client that checks in twice.

## PhysicalSlot and RequestSlots

`drain` says where the drain loop is suspended and what its local variables are:
`idle` (in `_queue.get`), `use` and `let` (the calls of `_apply_state`), `query`
(`_execute`), `checkout` (in `_handle_connection_failure`). `drain.conn` is the
connection object the call was made on, which a migration may have replaced in
`_conn` since; `drain.lets` is `needs_vars`, decided before the USE, while which
variables to set is decided after it from the `_state` of that moment, as in the
code. A call that fails may or may not have had its effect in the database
(`Effect`, `NoEffect`), be it a timeout, a lost connection or a cancellation by
`stop()`. `Error` is an exception other than those of the connection;
`GiveUp` and `Teleport` are `_handle_connection_failure` before its checkout,
`Teleported` and `TeleportFails` after it.

`server` is the session state the database keeps per connection. A new connection
is in the pool's namespace and database (`PoolUse`). The pool is what the slot can
see of it: permits, idle LIFO and leases; whether a checkin pools the connection or
closes it is the pool's choice (`keep`). `other` is another client of the pool: it
leases a connection, runs on it what it likes, which leaves it in any session state
(`OtherRuns`; `acquire()` hands out the bare connection, another slot runs USE and LET
on its own), and returns it. With `Deaths` it may be a slot whose teleport fails: it
returns its connection and goes on using it, whoever leases it next (`OtherDies`).
`torn` and `strayed` are history: a state was left half applied, or a migration came
between its application; a slot, this one or the other, has given back a connection it
goes on using, or what it did not hold, or dropped what it did. All of that happens in
the code; the properties they appear in say what holds as long as it has not.

`RequestSlots` keeps of this the queue, the request served, health, the known
state, tries and replies. Its steps are those of the detailed module with the
connection left out; a call that fails, is retried and succeeds is `Take`,
`Reconnect`, `Requeue`. `SwitchState` is the end of `_apply_state`.

## Multiplexer

`ctl`, `listed` and `tasks` are the progress of `start()` and `stop()`: `_slots`
grows by one slot per checkout; the router and the background tasks come after the
last, so a query before that raises and leaves its session QUEUED (`QueryNowhere`).
`stop()` suspends in each slot's stop, and sessions go on meanwhile: `query` looks at
the session, not at `_closed`. `Route` is the loop of `SessionRouter.route` written as
what it finds: the first slot among those of the highest score above -1, the first
slot of all if there is none. `wants` is a session's `_state` (`let` replaces one
variable); `status` is its `_session_state`, which `query` overwrites when it returns
whatever it has become (`Return`). `owner` and `awaited` say whose query a request is and
whether its task still waits; a task cancelled there (`Withdraw`) leaves its session
EXECUTING. `outlived` is history: the queries under way when another query of their session
returned. `Reap` takes any of the idle sessions: which have been idle for
`session_idle_timeout` is a question of the clock.

## CircuitBreaker, EventBus, PoolManager

**CircuitBreaker.** `Callers` ask `allows_request` before each request and report its
end, in any order: late reports are the point. `age` is the time since the last
failure, counted up to the cooldown. OPEN turns into HALF_OPEN in the property
`state`, when somebody reads it (`Current`), while `record_*` read the field.

**EventBus.** One kind of event. `emit` walks the list itself by index (`at`), and a
handler may subscribe, unsubscribe and clear while it is called (`running`), any number of
times (`HandlerReacts`); `clear` drops the list `emit` walks (`detached`, `walked`). A coroutine handler becomes a task that runs
after `emit` (`tasks`).

**PoolManager.** `line` is the lock: its holder, then those that wait. `create_pool`
holds it across `initialize()`; `close_all_pools` empties the dictionary under it and
awaits the closes without it. A pool is named after the task that creates it. Users may
close a pool behind the manager's back (`byUser`); `close()` of such a pool returns at
once when a shutdown calls it, so that `CloseEnd` waits only for the closes the shutdown
itself runs (`Waits`). Any task may be cancelled: `gather` passes a shutdown's
cancellation to the closes it waits for, and those that wait for a loop of their pool
swallow it and go on; it raises only when all have ended (`CancelClose`, `CloseEnd`).

## Properties

One type invariant per module. The others, each aimed at hazards of the code:

Pool:

- `OneOwner`: no connection is in two of idle queue, `temp` list, housekeeping's
  hands and any client's hands, nor twice in one.
- `PermitAccounting`: semaphore value + clients that hold a permit + permits lost
  = `max_connections` + surplus permits. The code loses permits (a failure or a
  cancellation after the grant) and makes surplus ones (housekeeping releases
  without having acquired); the invariant says these are the only leaks.
- `NoLostWakeup`: no free permit while clients wait, unless one is on its way.
- `WaiterAccounting`: `_waiter_count` is the number of clients suspended in the
  semaphore, within `max_waiters`; the queue holds each of them once.
- `RegistryMatchesLeases`: `_checked_out` is what clients hold; pooled
  connections are registered, open, not overflow, below `max_usage_count`.
- `NoOrphans`: every registered connection of an open pool has an owner, except
  one per cancelled client.
- `NoSocketLeft`, `NothingPooledAfterClose`: what a closed pool leaves behind.
- `LeaseManager`: the pool implements `ExclusiveLeases`, where a lease lasts from
  the ping on and the limit is `max_connections` plus the surplus.
- `WaitersServed`, `SocketsClosed`: liveness.

Slot:

- `OnePlace`: a request that waits for its reply is in the queue once or is being
  served, through teleports, retries and cancellations.
- `TriesBoundRuns`: the database runs a request at most once per try, at most
  `1 + MAX_RETRIES` times, and at least once if the reply is a result.
- `RunsAsItsSession`: when a query is sent, the connection is in its session's
  namespace and database with all its variables, whatever earlier lessees ran on it and
  others run elsewhere meanwhile. It speaks of the moment of sending, and only while
  neither `torn` nor `strayed` holds: after a state was half applied, a migration came
  between, or a slot went on with a connection it had returned, the code gives no such
  guarantee (see Findings). It allows more variables than the session's.
- `LeasesAgree`: slot and pool agree on what the slot has on lease, nobody else has
  it, no permit is lost.
- `KeepsPromise`, `GoesOn`: the slot implements `RequestSlots` and gives the fairness
  the multiplexer's specification assumes of it. `RequestsAnswered`: every request
  gets a reply or the slot is stopped.

Multiplexer:

- `OneSlot`: a request is with one slot, once; of those without a reply, `stop()` loses
  at most one per slot.
- `RunningSlotsListed`: `stop()` finds every slot that runs, however `start()` ended.
- `RegisteredAreActive`: registered sessions are active, at most `max_sessions`.
- `RoutesWell`: a request goes to a healthy slot that has its state, one of shortest
  queue, if there is one and queues are below 50; never to a dead or reconnecting slot
  while a healthy one has an empty queue.
- `ReapsOnlyIdle`: a session whose query is under way is not reaped, whatever queries
  went before, unless another query of the session returned while it was under way.
- `QueriesReturn`, `StopEnds`: liveness.

Services: `ClosedBelowThreshold`, `FailureReopens`, `Recovers` (breaker);
`SkipsBounded` (bus: the calls missed, counted per handler against its subscriptions when
`emit` began, are at most as many as the subscriptions removed meanwhile);
`OnePoolPerName`, `ReadyIsRegistered`, `ShutPoolsClosed` (when a shutdown returns, the
pools it found are closed, except those a user was closing already), `ShutdownEnds`
(manager).

Every property has a mutant in `PROJECT.json`: a definition changed the way a
bug would change the code, under which TLC finds the property violated.

## Runs

| run | instance | shows |
| --- | --- | --- |
| `pool_housekeeping` | one `acquire` client, one `checkout` client, 3 connections, size 1 + overflow 1, all features and faults | `TypeOK`, `OneOwner`, `PermitAccounting`, `RegistryMatchesLeases`, `NoSocketLeft`, `NothingPooledAfterClose` |
| `pool_contention` | 3 clients for 2 permits, 2 waiting places, expiry, pre-warming, one loss | `NoLostWakeup`, `WaiterAccounting`, `NoOrphans`, `LeaseManager` |
| `pool_liveness` | 3 clients for 1 permit and a surplus one, 2 connections, scaling and eviction, fairness | `WaitersServed`, `SocketsClosed` |
| `slot_safety` | 2 requests of a session, 2 connections and permits, one retry, migrations, another client, in another tenant's namespace, that may be a slot and die | `TypeOK`, `OnePlace`, `TriesBoundRuns`, `LeasesAgree`, `RunsAsItsSession` |
| `slot_liveness` | 2 sessions of one tenant that set different variables, 1 connection, migrations, fairness | `RunsAsItsSession`, `RequestsAnswered`, `GoesOn`, `KeepsPromise` |
| `mux` | 2 slots, 1 session that may set a variable, 2 requests, one retry, reaper, migrations, cancellations, fairness | `TypeOK`, `OneSlot`, `RunningSlotsListed`, `RegisteredAreActive`, `RoutesWell`, `ReapsOnlyIdle`, `QueriesReturn`, `StopEnds` |
| `services` | breaker: 3 callers, threshold 3, cooldown 2; bus: 3 handlers, one asynchronous; manager: 3 creators of 2 names, 2 closers | the properties of the three |
| `pool_in_use_limit`, `pool_permit_leak`, `pool_pause`, `pool_drain`, `slot_one_reader` | violations | see Findings |

`MCServices` puts three modules that share no state into one run: each behaviour is a
behaviour of one of them.

**Bounds of the pool.** The instances of the passing runs have one more connection than
`max_connections`: room for a connection being closed while its successor is made,
and for the registry to outgrow its limit. When no identity is fresh a connect waits
for one to become garbage; this only removes behaviours. `MaxUsage = 2` lets a
connection be pooled once and worn out next. `MaxLost` and `MaxSurplus` bound the
leaks: without them the semaphore grows forever. `MaxSurplus` is 2
in `pool_housekeeping`, so that one pass can evict twice, 1 in `pool_liveness`, and 0
in `pool_contention`, where housekeeping only creates. With `MaxSurplus` reached
the pass evicts nothing more, and a pass that must evict an expired connection
stays where it is. Two clients are the least that contend, three the least with a
queue of two behind a holder. The safety runs use symmetry in the connections and
in the clients that call `acquire()`, the liveness run does not, since TLC's
symmetry reduction is unsound for liveness.

**Bounds of the slot.** In `slot_safety` a session works among another tenant's: new
connections are in that tenant's namespace, and the other client leaves what it leases
there or in the session's own. Both requests are of one session, so that the run may use
symmetry in the requests; that one request runs on what another session's left behind is
the business of `slot_liveness`, with the variables that stand between sessions of one
tenant. One retry reaches every branch of the failure handler (the second failure gives
up). With two connections and two permits the other client can hold the connection a
teleport or a migration wants, so that checkouts fail or return the connection just given
back. Once something is astray the other client returns nothing more (a bound in the
guards of `OtherReleases` and `OtherDies`; in the code a dead slot that is stopped returns
its connection a second time): `LeasesAgree` and `RunsAsItsSession` say nothing from then
on, and the other properties hold whichever checkouts succeed. `slot_liveness` has one
connection, for which migration and teleport compete; the checkout of the other fails,
and the other client is left out. That the slot keeps its promise needs nothing of the
other client, which changes no variable of `RequestSlots`. The theorems hold for any
sessions, connections and requests.

**Bounds of the multiplexer.** Two slots: one can be dead, reconnecting, stopped or
in another state while the other is not. Two requests of a session can be under way
together, or one after the other with a variable set in between. Two sessions, or three
requests, with fairness are beyond five minutes; the theorems cover any number.
With at most two requests no queue comes near the 50 where a matching slot loses to
others. The other threshold, a best score of -1, is passed by a single queued request on
a slot without affinity (-10): then the first slot is taken, as in the code.
`RoutingSound` covers queues of any length.

**Bounds of the services.** `MaxFailures = 6` is twice the threshold, so that failures
are counted while the breaker is open; it stops callers from failing further, which
is also a bound on `Recovers`: each late report of a failure puts off the cooldown,
and no caller is allowed meanwhile, so at most three are late. `MaxList = 3` entries let
a handler be listed twice beside another; without a bound a handler that subscribes
whenever it is called makes `emit` endless. `MaxRemoved = 2` bounds the entries a list
loses during one `emit`: a handler that unsubscribes and subscribes in turn could remove any
number.

**Fairness of the pool** (`Fairness`). Weak fairness on what the event loop guarantees: a
woken task runs; a ping, a connect or a close ends, because each has a timeout; the
housekeeping timer goes off; `drain()` and `close()` go on after their deadlines,
which always come (`Impatient`). Also weakly fair is `Release`: a client gives its
connection back, the contract of the pool. Nothing is assumed to make a client ask,
time out, fail or be cancelled, nor to make the pool pause, drain or close. Faults
are off in this run: with them `WaitersServed` fails, for a client whose pings all
fail can discard connections forever as fast as housekeeping replenishes them
(`acquisition_timeout` covers only the semaphore). Expiry is off because an
expired connection must be evicted and the bound on surplus permits would stop the
pass, pre-warming because with two connections its connect could find none fresh and
wait for ever; scaling and eviction are on, so `close()` meets a pass in the middle of
a close.

**Fairness of the slot and the multiplexer.** The drain loop's steps (`DrainStep`) are
weakly fair: the task runs and each call it awaits ends. A query has a timeout of 30
seconds and a checkout the pool's; USE and LET have none in the code
(multiplexer.py:131, 141), so that their ending is an assumption about the database.
`GoesOn` shows that this gives each slot the fairness `FairSpec` of `Multiplexer` assumes
(`Progress`). There, a task whose future is resolved runs, and `stop()` goes on; nothing
makes anyone ask, cancel, migrate or stop.

**Fairness of the services.** Time passes, allowed requests end, some caller keeps asking
the breaker (without that it remains OPEN, since only a reader changes it). The task that
holds the manager's lock goes on, `initialize()` and `close()` end, by their timeouts.

## Findings

- **In-use limit** (`pool_in_use_limit`, pool.py:595, 645, 649). Housekeeping
  releases a permit for each idle connection it destroys. One eviction, and
  `max_connections + 1` connections are in use; PERFORMANCE_TESTING.md:90 expects
  "Peak connections ≤ max_connections".
- **Permit leak** (`pool_permit_leak`, pool.py:355-362). A connect that fails, or a
  cancellation during ping, discard or connect, loses the permit. Enough of them and
  everybody waits for nobody; WHY-lol.md:37 promises "Connection pooling that doesn't
  deadlock".
- **Pause** (`pool_pause`, pool.py:258, 272). Clients that already wait, and
  `checkout()`, get connections from a paused pool; README.md:170 says "Stop handing
  out connections".
- **Drain** (`pool_drain`, pool.py:217). `close()` waits for `_checked_out`; a client
  that discards an expired connection is not in it and goes on with the next idle one,
  whose socket `close()` has closed meanwhile; README.md:172 says "Wait for in-flight,
  then close".
- **One reader** (`slot_one_reader`, multiplexer.py:196). `proactive_migrate` checks in
  the connection on which the drain loop awaits an answer, and the pool lends it to
  another client; WHY-lol.md:52 says "One `recv` at a time per socket. Period."

The models do the following as the code does, and the properties above are stated so as to
hold in spite of it. No run is spent on them:

| code | what happens | document |
| --- | --- | --- |
| multiplexer.py:194, 143 | a migration between the USE and the query: the query runs in the new connection's namespace, and `_state` says otherwise (`torn`) | README.md:485, isolated sessions |
| multiplexer.py:141 | a LET fails after others succeeded or after the USE: `_state` is what it was, the connection is not (`torn`) | README.md:485 |
| multiplexer.py:139 | variables of earlier sessions are never unset | README.md:485 |
| multiplexer.py:132 | another session's credentials are not signed in | WHY-lol.md:34, 100 |
| multiplexer.py:173 | a broken connection is checked in like a good one, and the LIFO hands it out next, often to the same slot | WHY-lol.md:111 |
| multiplexer.py:173, 184 | a slot whose teleport fails keeps the connection it has returned and serves requests on it; when its new lessee has run USE on it, `_state` is wrong and a query runs in the other's namespace (`strayed`) | README.md:485 |
| multiplexer.py:74 | `stop()` never resolves the future of the request being served | README.md:259 |
| multiplexer.py:299 | a session closed during a query is IDLE, active again, when it returns | README.md:286 |
| multiplexer.py:299, 469 | of two queries of a session under way the first to return makes it IDLE, and it is reaped during the second | README.md:232 |
| multiplexer.py:316 | a score below 0 (a long queue) loses to the first slot, dead or alive | |
| multiplexer.py:440 | `max_queue_per_slot` is never read | README.md:233 |
| pool.py:197, 740 | a shutdown does not wait for a pool that a user, or another shutdown, has begun to close | shutdown.py:14 |
| predictive.py:161 | half open, the breaker lets every request through | README.md:393 |
| events.py:32 | a handler that unsubscribes makes `emit` skip the next one | |

## Proofs

The theorems hold for all values of the constants that meet the modules' assumptions
(finite sets, natural limits, null values outside the sets they stand beside). Each
safety theorem has the same shape: an inductive invariant, one lemma for `Init` and one
per group of actions, a temporal step at the end.

`ConnectionPoolProofs.tla`:

- `TypeCorrect == Spec => []TypeOK`. `TypeOK` alone is not inductive: a discarded or
  released connection must be one (`usage[NoConn]` has no meaning), so the invariant
  adds `HasConn`, that a client past the idle queue has a connection.
- `OwnersDistinct == Spec => []OneOwner`. Inductive with the typing invariant. The
  proof follows the connection: lemmas say which connections a tail, a prefix, a
  reversal or a concatenation of sequences holds and that no element repeats; `Fresh`
  keeps a new connection apart from the owned ones; `EvictOwners` and
  `PrewarmOwners` carry the ownership through the rest of a housekeeping pass.

`PermitProofs.tla`:

- `PermitsAccounted`, `WaitersAccounted` and `NoWakeupLost`: `PermitAccounting`,
  `WaiterAccounting` and `NoLostWakeup` hold always. Together they are inductive
  (`QueueInv`); alone they are not, for a release counts correctly only if the head of
  the queue is a client that waits and stands there once. A client's step is one of
  four moves, a lemma each: it changes its place and a permit may wake somebody
  (`MoveAndWake`, over `Woken`), it changes its place and nothing happens to the queue
  (`MoveOnly`), it joins the queue (`Joined`) or leaves it (`Withdrawn`). `MovedCount`
  counts the clients in a set of places before and after a move.
- `PoolLeases == Spec => LeaseManager`, the refinement. A client's step leaves the
  place and connection of the others alone, except that it may wake one, which has no
  lease (`ClientAlone`); its own lease it can only obtain, keep or end (`ClientMay`).
  Then the invariants after the step suffice (`LeaseStep`): `OneOwner` makes what was
  granted nobody else's, `PermitAccounting` and `SurplusBounded` keep the leases within
  the limit.

`RegistryProofs.tla`, about what `_all_connections`, `_checked_out` and the sockets have to
do with each other:

- `RegistrySynchronised`, `HandledStaysOpen`, `NothingLeftOpen`, `NothingPooled` follow from
  one inductive invariant, `RegistryInv`. The properties look at moments (an open pool, a
  closed one), the invariant says how the pool gets from one to the other. `Phases`: which
  combinations of lifecycle flags exist, and that housekeeping is off when the pool is not
  in service. `PassState` and `Hands`: when a pass and a client refer to a connection.
  `Sockets`: a registered connection is open, one on its way out is not registered, and
  an open one is one or the other, or cut off. `Registered`, until `close()` clears the
  registry: `_checked_out` is what is lent; what clients handle is registered; what is
  pooled, or may be pooled again by the eviction loop, is registered, steady and not worn
  out; an unregistered connection has the attributes of a new one (its name may be used
  again). `Emptied`, afterwards: only connections made too late are registered, and
  they are lent.
- The steps of a client are proved against what all others hold (`Context`,
  `ClientContext`): a step changes its own place, connection and permit only. A housekeeping
  pass is summarised once (`HousekeepingStep`): whichever way the code falls through
  pre-warming, eviction and replenishing, the connections it drops come from the idle queue
  or its own list, those it keeps come from there too, and the pass stops at a connect,
  at a close of a dropped connection or at its end.
- `HandledStaysOpen` is the positive side of the finding on `drain()`: a client's connection
  can be closed under its hands only once `close()` has cleared the registry.
- `OrphansBounded == Spec => []NoOrphans`: a step of a client that leaves a registered
  connection to nobody also loses a permit (`ClientOrphans`); housekeeping and lifecycle
  leave none (`HousekeepingOrphans`, `LifecycleOrphans`).

`SlotProofs.tla`:

- `SlotTyped`, `RequestsInOnePlace`, `RunsBounded`. `TypeOK` needs `Control`: what the
  drain loop's place says about the request it serves and the connection. `OnePlace` and
  `TriesBoundRuns` need each other's help: `RequestInv` adds to `OnePlace` that the runs of
  a request are counted by its tries (`Counted`) and that one that was never asked has
  none (`Unasked`).
- `SlotKeepsPromise == Spec => KeepsPromise`, the refinement: each detailed step is a step of
  `RequestSlots` or leaves its variables alone. The end of a call is the abstract slot's
  `SwitchState` or `Answer`, a failure `Reconnect` or `GiveUp`, by the tries left.

`SlotIsolationProofs.tla`:

- `LeasesKept == Spec => []LeasesAgree`. While nothing has strayed, each checkout, checkin and
  exchange of connections conserves permits and leases (`Conserves`); a checkout takes the
  head of a queue without repetition or a fresh connection.
- `SessionsIsolated == Spec => RunsAsItsSession`. The invariant follows `_apply_state`: what
  `_state` says of the connection is true (`Known`), and what has been applied so far and
  what is still to do make up the session's state (`Applied`). The other client may run
  anything, but on a connection that is not the slot's as long as nothing has strayed: that
  is `LeasesAgree`, so the one theorem rests on the other (`OtherKnows`). A connection that is
  opened, by whomever, is none the slot uses. `VarsAssumption`, one value per
  variable, is needed: a second LET of a name would undo the first.

`MultiplexerProofs.tla`:

- `MuxTyped`, `SlotsFound`, `RegistrySound`, `ReaperSpares` follow from one invariant, `MuxInv`. It
  adds that fewer than all slots are listed while `start()` goes on, that a query's
  session exists (`Control`), and that a query awaited while its session is idle is one
  during which another query of the session returned (`Asking`).
- `RoutingSound == Spec => RoutesWell`: `Route` finds a slot that no eligible slot beats
  (`RouteBest`), since a finite set of integers has a least element, which is proved by
  well-founded inclusion of finite sets; the rest is arithmetic on scores. TLC sees queues
  of at most two, the theorem any length.
- `RequestsWithOneSlot == Spec => []OneSlot`: slots share no request (`Apart`), a drain loop drops
  only requests it has resolved (`Kept`), and each stop adds at most one lost request and
  exactly one stopped slot (`FewLost`).

`ServiceProofs.tla`:

- `BreakerTyped`, `BreakerAgrees`, `BreakerReopens`: the success counter is 0 while the breaker is
  half open (`NoSuccessYet`), which bounds it.
- `ManagerTyped`, `NamesDistinct`, `NoPoolLost`, `ShutdownCloses`: the task at the head of the lock's
  line is the only one that initializes (`Begun`); a pool that is ready is in the
  dictionary under its name, which nobody else's can take meanwhile (`NameKept`,
  `Registered`); what a closer has found is being closed and no other closer finds it
  (`FoundOnce`), so that only its own cancellation, or a user's, cuts a close off
  (`Shutters`).

- `BusTyped`, `FewSkipped`. `SkipsBounded` looks at the end of `emit` only. The invariant
  (`Owed`) counts, at any point of the walk, the calls that will be lacking if the list
  stays as it is from there: `Due` adds the calls made to the occurrences after the
  position. A turn of the loop moves one from the one to the other (`AfterNext`, `TurnOwed`);
  what the handler then does, as often as it likes, is `ReactOwes`: an unsubscription before or
  after the position costs one occurrence of one handler (`AfterRemoveAt`), so one more call
  may be lacking (`LackingOneMore`), and one more entry is removed.

Every invariant and every action property that a passing run checks is a theorem, and so are
the refinements `LeaseManager` and `KeepsPromise`. What stays with TLC is what rests on
fairness and `ENABLED`, of which TLAPS proves nothing: `WaitersServed`, `SocketsClosed`,
`RequestsAnswered`, `GoesOn`, `QueriesReturn`, `StopEnds`, `Recovers`, `ShutdownEnds`.

## Not modelled

- Demand predictor and latency oracle: floating-point statistics over the clock. Their
  results are choices where the pool uses them.
- Statistics, leak detection and logging of the pool, `get_stats` of pool and multiplexer:
  written, never read by control.
- Breakers inside the pool: one failed ping destroys the connection and drops its breaker,
  so that none reaches the threshold of 5.
- Cancelling the tasks that run `initialize()` or `close()` of a pool; sockets of failed
  connection attempts; a client that checks in twice.
- In a slot, the suspension inside `checkin()` when the pool closes the connection: a
  cancellation there is the pool's hazard at pool.py:282.
- A second or concurrent `start()` or `stop()` of a multiplexer; a value that `let` cannot
  hash.
- Tests, examples and benchmarks: they drive the library.

## Plan

Done: the pool with its abstract specification; the slot, its abstract specification and
the multiplexer over it; breaker, bus and manager; the theorems above. Next:

1. The safety half of the liveness properties: in which states a task that must go on finds
   its action's guard true, as lemmas without `ENABLED`.
2. What holds instead of the properties the findings refute: bounds on the connections in
   use and on the permits lost, for each number of evictions and failures.
3. A larger instance of the multiplexer with two sessions, for safety only, if a run becomes
   free.
