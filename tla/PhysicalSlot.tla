----------------------------- MODULE PhysicalSlot -----------------------------
(***************************************************************************)
(* PhysicalSlot (src/purreal/multiplexer.py): one connection of the pool   *)
(* that serves the requests of many sessions.  Its drain loop brings the   *)
(* connection into the session state a request wants, runs it, and after   *)
(* a connection failure changes the connection ("teleports") and retries.  *)
(* Concurrently a migration may replace the connection before it expires,  *)
(* and stop() ends the slot.                                               *)
(*                                                                         *)
(* An action is the code a task runs from one suspension to the next: in   *)
(* USE, in LET, in the query, in checkout().  checkin() is one step; when  *)
(* the pool closes the connection the step stands for its await as well.   *)
(***************************************************************************)
EXTENDS Integers, FiniteSets, SequencesExt

CONSTANTS
  Requests,     \* PendingRequest objects, each asked once
  States,       \* PhysicalState values: records ns, db, creds, vars (a set of pairs)
  StateOf,      \* per request: the state it must run in
  NoRequest, NoState,
  MaxRetries,   \* MAX_RETRIES
  Conns, NoConn,            \* connections, an identity is used again once garbage
  Permits,      \* of the pool's semaphore
  PoolUse,      \* <<ns, db>> of a new connection
  Migrations,   \* environment: connections can come close to their expiry
  Sharing,      \* environment: another client uses the pool
  Deaths        \* environment: that client is a slot too, whose teleport can fail

ASSUME RequestsAssumption == NoRequest \notin Requests /\ IsFiniteSet(Requests)
ASSUME StatesAssumption == NoState \notin States /\ StateOf \in [Requests -> States]
\* a dictionary: one value for each variable
ASSUME VarsAssumption == \A st \in States : \A p, q \in st.vars : p[1] = q[1] => p = q
ASSUME LimitsAssumption ==
  MaxRetries \in Nat /\ Permits \in Nat /\ {Migrations, Sharing, Deaths} \subseteq BOOLEAN
ASSUME ConnsAssumption == NoConn \notin Conns /\ IsFiniteSet(Conns)

VARIABLES
  pool,         \* the pool as its clients see it: permits, idle LIFO, leases
  other,        \* the connection another client of the pool uses
  server,       \* per connection: the session state the database keeps for it
  phase,        \* "new", "running", "stopped"
  conn, state, queue, health,          \* _conn, _state, _queue, _health
  serving,      \* the request the drain loop has taken off the queue
  drain,        \* where the drain loop is suspended, and its local variables
  old,          \* proactive_migrate(): the connection to be replaced, or NoConn
  tries, reply, \* per request: retry_count, its future
  executed,     \* history, per request: how often the database ran it
  torn,         \* history: _state may differ from the connection's session state
  strayed       \* history: a slot has given back a connection it did not hold or goes
                \* on with, or dropped one it did hold

slot     == <<phase, conn, state, queue, health, serving, drain>>
requests == <<tries, reply>>
world    == <<pool, other, server>>
history  == <<executed, torn, strayed>>
vars == <<slot, old, requests, world, history>>

Use(st) == <<st.ns, st.db>>
Variables == UNION {st.vars : st \in States}
Sessions  == [use : {Use(st) : st \in States} \cup {PoolUse}, vars : SUBSET Variables]
Talking == {"use", "let", "query"}     \* suspended in a call on drain.conn
Resting == [pc |-> "idle", conn |-> NoConn, lets |-> FALSE, todo |-> {}]

-----------------------------------------------------------------------------
(***************************************************************************)
(* The pool (SurrealDBConnectionPool, specified in ConnectionPool): a      *)
(* checkout takes a permit and the last idle connection, or a new one; a   *)
(* checkin puts the connection back or closes it, and releases a permit.   *)
(***************************************************************************)
Fresh == Conns \ (pool.lent \cup ToSet(pool.idle) \cup {conn, old, other, drain.conn})

Available(c) ==
  /\ pool.sem > 0
  /\ IF pool.idle # <<>> THEN c = Head(pool.idle) ELSE c \in Fresh

CheckedOut(p, c) ==
  [sem |-> p.sem - 1,
   idle |-> IF p.idle # <<>> THEN Tail(p.idle) ELSE <<>>,
   lent |-> p.lent \cup {c}]

CheckedIn(p, c, keep) ==
  [sem |-> p.sem + 1,
   idle |-> IF keep THEN <<c>> \o p.idle ELSE p.idle,
   lent |-> p.lent \ {c}]

\* A connection not taken from the idle queue is a new one.
Opened(c) ==
  IF pool.idle # <<>> THEN server
  ELSE [server EXCEPT ![c] = [use |-> PoolUse, vars |-> {}]]

OtherAcquires(c) ==
  /\ Sharing /\ other = NoConn /\ Available(c)
  /\ other' = c /\ pool' = CheckedOut(pool, c) /\ server' = Opened(c)
  /\ UNCHANGED <<slot, old, requests, history>>

\* Whatever the other client runs on its connection: acquire() hands it out as it is, and
\* a slot applies the states of its own requests.
OtherRuns(session) ==
  /\ other # NoConn /\ server' = [server EXCEPT ![other] = session]
  /\ UNCHANGED <<slot, old, requests, pool, other, history>>

\* The other client is a slot whose teleport fails: it has returned its connection and goes
\* on with it.  Bound: nothing is astray yet.
OtherDies(keep) ==
  /\ Deaths /\ other # NoConn /\ ~strayed
  /\ pool' = CheckedIn(pool, other, keep) /\ strayed' = TRUE
  /\ UNCHANGED <<slot, old, requests, other, server, executed, torn>>

\* Bound: nothing is astray yet.  What holds afterwards does not depend on the pool.
OtherReleases(keep) ==
  /\ other # NoConn /\ ~strayed
  /\ other' = NoConn /\ pool' = CheckedIn(pool, other, keep)
  /\ UNCHANGED <<slot, old, requests, server, history>>

-----------------------------------------------------------------------------
Init ==
  /\ pool = [sem |-> Permits, idle |-> <<>>, lent |-> {}] /\ other = NoConn
  /\ server = [c \in Conns |-> [use |-> PoolUse, vars |-> {}]]
  /\ phase = "new" /\ conn = NoConn /\ state = NoState /\ queue = <<>>
  /\ health = "HEALTHY" /\ serving = NoRequest /\ drain = Resting /\ old = NoConn
  /\ tries = [r \in Requests |-> 0] /\ reply = [r \in Requests |-> "none"]
  /\ executed = [r \in Requests |-> 0] /\ torn = FALSE /\ strayed = FALSE

\* start(), from the end of its checkout on
Start(c) ==
  /\ phase = "new" /\ Available(c)
  /\ phase' = "running" /\ conn' = c
  /\ pool' = CheckedOut(pool, c) /\ server' = Opened(c)
  /\ UNCHANGED <<state, queue, health, serving, drain, old, requests, other, history>>

\* mutant: without the test of future.done()
ResolvedAgain(r, a) == [reply EXCEPT ![r] = a]

Resolved(r, a) == [reply EXCEPT ![r] = IF @ = "pending" THEN a ELSE @]

Enqueue(r) ==
  /\ phase # "new" /\ reply[r] = "none"
  /\ reply' = [reply EXCEPT ![r] = "pending"]
  /\ queue' = Append(queue, r)
  /\ UNCHANGED <<phase, conn, state, health, serving, drain, old, tries, world, history>>

\* The task that awaits the request's future is cancelled.
Cancel(r) ==
  /\ reply[r] = "pending"
  /\ reply' = [reply EXCEPT ![r] = "cancelled"]
  /\ UNCHANGED <<slot, old, tries, world, history>>

-----------------------------------------------------------------------------
(***************************************************************************)
(* _apply_state.  Whether LETs are needed is decided before the USE, from  *)
(* which variables they take is decided after it.                          *)
(***************************************************************************)
NeedsUse(want) == state # NoState => Use(state) # Use(want)
\* mutant: a new connection gets no variables
NeedsVarsOnSwitch(want) == state # NoState /\ state.vars # want.vars

NeedsVars(want) == state # NoState => state.vars # want.vars
CurrentVars == IF state = NoState THEN {} ELSE state.vars

\* _execute: the query is sent on the connection the slot has now
Send == drain' = [Resting EXCEPT !.pc = "query", !.conn = conn]

\* from the LETs on, on connection c; lets is the value of needs_vars
ApplyVars(want, c, lets) ==
  LET todo == IF lets THEN want.vars \ CurrentVars ELSE {}
  IN  \/ /\ todo = {} /\ state' = want /\ Send
      \/ /\ todo # {} /\ state' = state
         /\ drain' = [pc |-> "let", conn |-> c, lets |-> lets, todo |-> todo]

ApplyState(want) ==
  \/ /\ state = want /\ state' = state /\ Send
  \/ /\ state # want /\ NeedsUse(want) /\ state' = state
     /\ drain' = [pc |-> "use", conn |-> conn, lets |-> NeedsVars(want), todo |-> {}]
  \/ /\ state # want /\ ~NeedsUse(want)
     /\ ApplyVars(want, conn, NeedsVars(want))

\* _drain_loop: the next request, unless its future is done
\* mutant: a dead slot leaves its loop
WaitingAlive ==
  phase = "running" /\ drain.pc = "idle" /\ queue # <<>> /\ health # "DEAD"

Waiting == phase = "running" /\ drain.pc = "idle" /\ queue # <<>>

Skip ==
  /\ Waiting /\ reply[Head(queue)] # "pending"
  /\ queue' = Tail(queue)
  /\ UNCHANGED <<phase, conn, state, health, serving, drain, old, requests, world, history>>

Take ==
  /\ Waiting /\ reply[Head(queue)] = "pending"
  /\ queue' = Tail(queue) /\ serving' = Head(queue)
  /\ ApplyState(StateOf[Head(queue)])
  /\ torn' = (torn /\ state # NoState)
  /\ UNCHANGED <<phase, conn, health, old, requests, world, executed, strayed>>

Set(variables, p) == {q \in variables : q[1] # p[1]} \cup {p}

\* What the call the drain loop awaits does in the database.
UseDone == server' = [server EXCEPT ![drain.conn].use = Use(StateOf[serving])]
LetDone(p) == server' = [server EXCEPT ![drain.conn].vars = Set(@, p)]
QueryDone == executed' = [executed EXCEPT ![serving] = @ + 1]

Effect ==
  \/ drain.pc = "use" /\ UseDone /\ executed' = executed
  \/ drain.pc = "let" /\ (\E p \in drain.todo : LetDone(p)) /\ executed' = executed
  \/ drain.pc = "query" /\ QueryDone /\ server' = server

NoEffect == UNCHANGED <<server, executed>>

UseEnds ==
  /\ drain.pc = "use" /\ UseDone
  /\ ApplyVars(StateOf[serving], drain.conn, drain.lets)
  /\ UNCHANGED <<phase, conn, queue, health, serving, old, requests, pool, other, history>>

LetEnds ==
  /\ drain.pc = "let"
  /\ \E p \in drain.todo :
       /\ LetDone(p)
       /\ \/ /\ drain.todo # {p} /\ state' = state
             /\ drain' = [drain EXCEPT !.todo = @ \ {p}]
          \/ /\ drain.todo = {p} /\ state' = StateOf[serving] /\ Send
  /\ UNCHANGED <<phase, conn, queue, health, serving, old, requests, pool, other, history>>

\* The drain loop is done with the request; a is its reply.
Finish(a) ==
  /\ reply' = Resolved(serving, a) /\ serving' = NoRequest /\ drain' = Resting

Answer ==
  /\ drain.pc = "query" /\ QueryDone /\ Finish("ok")
  /\ UNCHANGED <<phase, conn, state, queue, health, old, tries, world, torn, strayed>>

\* A state left half applied is not what _state says.
Abandoned == torn \/ (drain.pc \in {"use", "let"} /\ state # NoState)

\* any exception but those of the connection
Error ==
  /\ drain.pc \in Talking /\ (Effect \/ NoEffect) /\ Finish("error")
  /\ torn' = Abandoned
  /\ UNCHANGED <<phase, conn, state, queue, health, old, tries, pool, other, strayed>>

-----------------------------------------------------------------------------
(***************************************************************************)
(* _handle_connection_failure                                              *)
(***************************************************************************)
CallFails == drain.pc \in Talking /\ (Effect \/ NoEffect)

GiveUp ==
  /\ CallFails /\ tries[serving] >= MaxRetries
  /\ tries' = [tries EXCEPT ![serving] = @ + 1]
  /\ Finish("error")
  /\ torn' = Abandoned
  /\ UNCHANGED <<phase, conn, state, queue, health, old, pool, other, strayed>>

\* mutant: > for >=
TeleportOnceMore(keep) ==
  /\ CallFails /\ tries[serving] <= MaxRetries
  /\ tries' = [tries EXCEPT ![serving] = @ + 1]
  /\ health' = "RECONNECTING" /\ state' = NoState
  /\ pool' = CheckedIn(pool, conn, keep)
  /\ drain' = [Resting EXCEPT !.pc = "checkout"]
  /\ UNCHANGED <<phase, conn, queue, serving, old, reply, other, torn, strayed>>

\* mutant: _state is kept
TeleportInState(keep) ==
  /\ CallFails /\ tries[serving] < MaxRetries
  /\ tries' = [tries EXCEPT ![serving] = @ + 1]
  /\ health' = "RECONNECTING"
  /\ pool' = CheckedIn(pool, conn, keep)
  /\ drain' = [Resting EXCEPT !.pc = "checkout"]
  /\ UNCHANGED <<phase, conn, state, queue, serving, old, reply, other, torn, strayed>>

\* The broken connection is returned to the pool like any other.
Teleport(keep) ==
  /\ CallFails /\ tries[serving] < MaxRetries
  /\ tries' = [tries EXCEPT ![serving] = @ + 1]
  /\ health' = "RECONNECTING" /\ state' = NoState
  /\ pool' = CheckedIn(pool, conn, keep)
  /\ drain' = [Resting EXCEPT !.pc = "checkout"]
  /\ UNCHANGED <<phase, conn, queue, serving, old, reply, other, torn, strayed>>

\* mutant: the request is not put back
TeleportedWithout(c) ==
  /\ drain.pc = "checkout" /\ Available(c)
  /\ conn' = c /\ pool' = CheckedOut(pool, c) /\ server' = Opened(c)
  /\ health' = "HEALTHY" /\ serving' = NoRequest /\ drain' = Resting
  /\ UNCHANGED <<phase, state, queue, old, requests, other, history>>

Teleported(c) ==
  /\ drain.pc = "checkout" /\ Available(c)
  /\ conn' = c /\ pool' = CheckedOut(pool, c) /\ server' = Opened(c)
  /\ health' = "HEALTHY" /\ queue' = Append(queue, serving)
  /\ serving' = NoRequest /\ drain' = Resting
  /\ UNCHANGED <<phase, state, old, requests, other, history>>

\* mutant: the future is forgotten
TeleportFailsSilently ==
  /\ drain.pc = "checkout"
  /\ health' = "DEAD" /\ serving' = NoRequest /\ drain' = Resting /\ strayed' = TRUE
  /\ UNCHANGED <<phase, conn, state, queue, old, requests, world, executed, torn>>

\* _conn still refers to the connection that was returned.
TeleportFails ==
  /\ drain.pc = "checkout"
  /\ health' = "DEAD" /\ Finish("error") /\ strayed' = TRUE
  /\ UNCHANGED <<phase, conn, state, queue, old, tries, world, executed, torn>>

-----------------------------------------------------------------------------
(***************************************************************************)
(* proactive_migrate, called by the multiplexer's migration task           *)
(***************************************************************************)
\* The drain loop has changed the connection, or is about to.
Crossed == conn # old \/ drain.pc = "checkout"

Migrate ==
  /\ Migrations /\ phase = "running" /\ old = NoConn
  /\ old' = conn
  /\ UNCHANGED <<slot, requests, world, history>>

\* mutant: the old connection is not returned
MigratedAlone(c, keep) ==
  /\ old # NoConn /\ Available(c)
  /\ conn' = c /\ state' = NoState
  /\ pool' = CheckedOut(pool, c) /\ server' = Opened(c)
  /\ old' = NoConn
  /\ torn' = (torn \/ drain.pc \in {"use", "let"})
  /\ strayed' = (strayed \/ Crossed)
  /\ UNCHANGED <<phase, queue, health, serving, drain, requests, other, executed>>

Migrated(c, keep) ==
  /\ old # NoConn /\ Available(c)
  /\ conn' = c /\ state' = NoState
  /\ pool' = CheckedIn(CheckedOut(pool, c), old, keep) /\ server' = Opened(c)
  /\ old' = NoConn
  /\ torn' = (torn \/ drain.pc \in {"use", "let"})
  /\ strayed' = (strayed \/ Crossed)
  /\ UNCHANGED <<phase, queue, health, serving, drain, requests, other, executed>>

MigrateFails ==
  /\ old # NoConn
  /\ conn' = old /\ old' = NoConn
  /\ torn' = (torn \/ conn # old) /\ strayed' = (strayed \/ Crossed)
  /\ UNCHANGED <<phase, state, queue, health, serving, drain, requests, world, executed>>

-----------------------------------------------------------------------------
\* mutant: _conn is set to None before it is returned
StopForgetting(keep) ==
  /\ phase = "running"
  /\ phase' = "stopped" /\ queue' = <<>>
  /\ reply' = [r \in Requests |->
                 IF reply[r] = "pending" /\ r \in ToSet(queue) THEN "error" ELSE reply[r]]
  /\ serving' = NoRequest /\ drain' = Resting /\ old' = NoConn
  /\ IF drain.pc \in Talking THEN Effect \/ NoEffect ELSE NoEffect
  /\ conn' = NoConn /\ pool' = CheckedIn(pool, conn', keep)
  /\ strayed' = (strayed \/ drain.pc = "checkout")
  /\ UNCHANGED <<state, health, tries, other, torn>>

\* stop(), after the multiplexer has cancelled the migration: the drain loop is
\* cancelled wherever it is, the requests in the queue fail.
Stop(keep) ==
  /\ phase = "running"
  /\ phase' = "stopped" /\ queue' = <<>>
  /\ reply' = [r \in Requests |->
                 IF reply[r] = "pending" /\ r \in ToSet(queue) THEN "error" ELSE reply[r]]
  /\ serving' = NoRequest /\ drain' = Resting /\ old' = NoConn
  /\ IF drain.pc \in Talking THEN Effect \/ NoEffect ELSE NoEffect
  /\ pool' = CheckedIn(pool, conn, keep) /\ conn' = NoConn
  /\ strayed' = (strayed \/ drain.pc = "checkout")
  /\ UNCHANGED <<state, health, tries, other, torn>>

DrainStep ==
  \/ Skip \/ Take \/ UseEnds \/ LetEnds \/ Answer \/ Error \/ GiveUp \/ TeleportFails
  \/ (\E keep \in BOOLEAN : Teleport(keep)) \/ (\E c \in Conns : Teleported(c))

Next ==
  \/ (\E c \in Conns : Start(c) \/ OtherAcquires(c))
  \/ (\E session \in Sessions : OtherRuns(session))
  \/ (\E keep \in BOOLEAN : OtherReleases(keep) \/ OtherDies(keep) \/ Stop(keep))
  \/ (\E r \in Requests : Enqueue(r) \/ Cancel(r))
  \/ DrainStep
  \/ Migrate \/ MigrateFails \/ \E c \in Conns, keep \in BOOLEAN : Migrated(c, keep)

Spec == Init /\ [][Next]_vars

\* Fairness: the drain loop runs, and each call it awaits ends: a query within 30
\* seconds, a checkout within the pool's timeout.  Nothing makes anyone ask, cancel,
\* migrate or stop.
FairSpec == Spec /\ WF_vars(DrainStep)

-----------------------------------------------------------------------------
(***************************************************************************)
(* Properties                                                              *)
(***************************************************************************)
\* Every variable ranges over the values the code's fields can have.
TypeOK ==
  /\ pool \in [sem : Nat, idle : Seq(Conns), lent : SUBSET Conns]
  /\ other \in Conns \cup {NoConn} /\ server \in [Conns -> Sessions]
  /\ phase \in {"new", "running", "stopped"}
  /\ conn \in Conns \cup {NoConn} /\ old \in Conns \cup {NoConn}
  /\ state \in States \cup {NoState} /\ queue \in Seq(Requests)
  /\ health \in {"HEALTHY", "RECONNECTING", "DEAD"}
  /\ serving \in Requests \cup {NoRequest}
  /\ drain \in [pc : Talking \cup {"idle", "checkout"}, conn : Conns \cup {NoConn},
                lets : BOOLEAN, todo : SUBSET Variables]
  /\ tries \in [Requests -> Nat] /\ executed \in [Requests -> Nat]
  /\ reply \in [Requests -> {"none", "pending", "ok", "error", "cancelled"}]
  /\ torn \in BOOLEAN /\ strayed \in BOOLEAN

\* Through teleports, retries and cancellations no request is lost or doubled: one
\* that waits for its reply stands in the queue once or is being served, not both
\* (_drain_loop, _handle_connection_failure).
OnePlace ==
  /\ IsInjective(queue) /\ serving \notin ToSet(queue)
  /\ \A r \in Requests :
       /\ r \in ToSet(queue) \cup {serving} => reply[r] # "none"
       /\ phase = "running" /\ reply[r] = "pending" => r \in ToSet(queue) \cup {serving}

\* However often the connection fails, the database runs a request at most once per
\* try, at least once when its reply is a result, and it is tried at most
\* 1 + MAX_RETRIES times (_handle_connection_failure).
TriesBoundRuns ==
  \A r \in Requests :
    /\ executed[r] <= MaxRetries + 1 /\ tries[r] <= MaxRetries + 1
    /\ r \in ToSet(queue) => executed[r] <= tries[r]
    /\ reply[r] = "ok" => executed[r] >= 1

Sends == drain.pc # "query" /\ drain'.pc = "query"

\* The connection c is in the namespace of the state st and has its variables.
Known(c, st) == server[c].use = Use(st) /\ st.vars \subseteq server[c].vars

\* Whatever those who leased the connection before, or lease others now, have run, a query
\* is sent on a connection that is in its session's namespace and database and has all its
\* variables.  Not so when a state was left half applied, a migration overtook its
\* application, or a slot, this one or another, goes on with a connection it has returned
\* (_apply_state, _execute).
RunsAsItsSession ==
  [][Sends /\ ~torn' /\ ~strayed' => Known(drain.conn, StateOf[serving])']_vars

\* The connections the slot has on lease: none while it waits for a new one.
Held == IF phase = "running" /\ drain.pc # "checkout" THEN {conn} ELSE {}

\* The slot and the pool agree on what the slot has on lease, nobody else has it, and
\* no permit is lost or made, unless a teleport failed, a slot was stopped during one or a
\* migration that crossed one went before (checkout and checkin in PhysicalSlot).
LeasesAgree ==
  ~strayed =>
    /\ pool.lent = Held \cup ({other} \ {NoConn}) /\ other \notin Held
    /\ ToSet(pool.idle) \cap pool.lent = {} /\ IsInjective(pool.idle)
    /\ pool.sem + Cardinality(pool.lent) = Permits

\* The slot keeps what its router relies on: the promise of RequestSlots.
Slot == INSTANCE RequestSlots WITH
  Slots <- {"slot"},
  phase <- [s \in {"slot"} |-> phase], queue <- [s \in {"slot"} |-> queue],
  serving <- [s \in {"slot"} |-> serving], health <- [s \in {"slot"} |-> health],
  state <- [s \in {"slot"} |-> state]

KeepsPromise == Slot!Spec

\* What the fairness of the multiplexer's slots rests on: the calls a request needs end,
\* so that a slot that has work goes on with it (_drain_loop).
GoesOn == Slot!Fairness

\* A request is answered whatever fails, unless the slot is stopped (_drain_loop).
RequestsAnswered ==
  \A r \in Requests : reply[r] = "pending" ~> (reply[r] # "pending" \/ phase = "stopped")

\* "One recv at a time per socket" (WHY-lol.md): the connection on which the drain loop
\* awaits an answer is in nobody else's hands.
OneReader == drain.pc \in Talking => other # drain.conn

====
