------------------------------ MODULE Multiplexer ------------------------------
(***************************************************************************)
(* SessionMultiplexer (src/purreal/multiplexer.py): many virtual sessions  *)
(* over a few physical slots, with the router, the reaper of idle          *)
(* sessions, the migration task, start() and stop().  Of the slots it      *)
(* knows what RequestSlots says, which PhysicalSlot implements.            *)
(***************************************************************************)
EXTENDS Integers, FiniteSets, SequencesExt

CONSTANTS
  NumSlots,
  Requests, States, StateOf, NoRequest, NoState, MaxRetries,      \* see RequestSlots
  Sessions, NoSession,      \* VirtualSession objects, each created once
  MaxSessions,  \* max_sessions
  Migrations,   \* environment: connections can come close to their expiry
  Impatient     \* environment: tasks that wait for a query can be cancelled

ASSUME RequestsAssumption == NoRequest \notin Requests /\ IsFiniteSet(Requests)
ASSUME StatesAssumption == NoState \notin States /\ StateOf \in [Requests -> States]
ASSUME SessionsAssumption == NoSession \notin Sessions /\ IsFiniteSet(Sessions)
ASSUME NumbersAssumption ==
  NumSlots \in Nat \ {0} /\ {MaxRetries, MaxSessions} \subseteq Nat
ASSUME SwitchesAssumption == {Migrations, Impatient} \subseteq BOOLEAN

Slots == 1..NumSlots

VARIABLES
  phase, queue, serving, health, state, tries, reply,             \* see RequestSlots
  ctl,          \* "new", "starting", "failed", "running", "stopping", "stopped"
  listed,       \* the length of _slots: slots 1 to listed are in it
  tasks,        \* the reaper and migration tasks run
  status,       \* per session: "none" before get_session(), then _session_state
  wants,        \* per session: _state, with the variables of let()
  registered,   \* _sessions
  owner,        \* per request: its session
  awaited,      \* the requests whose future a task awaits in _execute
  outlived      \* history: those during whose await another query of their session returned

P == INSTANCE RequestSlots

slotVars == <<phase, queue, serving, health, state, tries, reply>>
session == <<status, wants, registered>>
asking  == <<owner, awaited, outlived>>
control == <<ctl, listed, tasks>>
vars == <<slotVars, control, session, asking>>

Init ==
  /\ P!Init
  /\ ctl = "new" /\ listed = 0 /\ tasks = FALSE
  /\ status = [x \in Sessions |-> "none"] /\ wants = [x \in Sessions |-> NoState]
  /\ registered = {}
  /\ owner = [r \in Requests |-> NoSession] /\ awaited = {} /\ outlived = {}

Closed == ctl \in {"stopping", "stopped"}            \* _closed

-----------------------------------------------------------------------------
(***************************************************************************)
(* SessionRouter.route: the first slot of the highest score above -1, the  *)
(* first slot of all if there is none.                                     *)
(***************************************************************************)
Affinity(st, want) ==
  IF st = want THEN 1000
  ELSE IF st = NoState THEN 0
  ELSE IF st.ns # want.ns THEN 0
  ELSE IF st.db = want.db THEN 500 ELSE 200

\* mutant: reconnecting slots are not penalized
ScoreUnpenalized(s, want) == Affinity(state[s], want) - 10 * Len(queue[s])

Score(s, want) ==
  Affinity(state[s], want) - 10 * Len(queue[s])
    - (IF health[s] = "RECONNECTING" THEN 5000 ELSE 0)

Eligible(s, want) == health[s] # "DEAD" /\ Score(s, want) > -1

Best(candidates, want) ==
  {s \in candidates : \A t \in candidates : Score(t, want) <= Score(s, want)}

Route(want) ==
  LET candidates == {s \in 1..listed : Eligible(s, want)}
  IN  IF candidates = {} THEN 1 ELSE Min(Best(candidates, want))

-----------------------------------------------------------------------------
(***************************************************************************)
(* VirtualSession                                                          *)
(***************************************************************************)
Active(x) == status[x] \notin {"none", "EXPIRED", "CLOSED"}

GetSession(x, st) ==
  /\ status[x] = "none" /\ ~Closed /\ Cardinality(registered) < MaxSessions
  /\ st.vars = {}
  /\ status' = [status EXCEPT ![x] = "IDLE"]
  /\ wants' = [wants EXCEPT ![x] = st]
  /\ registered' = registered \cup {x}
  /\ UNCHANGED <<slotVars, control, asking>>

Let(x, st) ==
  /\ Active(x)
  /\ \E p \in st.vars :
       st = [wants[x] EXCEPT !.vars = {q \in @ : q[1] # p[1]} \cup {p}]
  /\ wants' = [wants EXCEPT ![x] = st]
  /\ UNCHANGED <<slotVars, control, status, registered, asking>>

\* The router exists and has slots: start() has ended, stop() has not.
Routing == listed = NumSlots

\* query(), up to the await of its future
Query(x, r) ==
  /\ Active(x) /\ StateOf[r] = wants[x]
  /\ Routing
  /\ P!Enqueue(Route(wants[x]), r)
  /\ status' = [status EXCEPT ![x] = "EXECUTING"]
  /\ owner' = [owner EXCEPT ![r] = x] /\ awaited' = awaited \cup {r}
  /\ UNCHANGED <<control, wants, registered, outlived>>

\* Without router or slots route() raises, and the session remains QUEUED.
QueryNowhere(x) ==
  /\ Active(x) /\ ~Routing
  /\ status' = [status EXCEPT ![x] = "QUEUED"]
  /\ UNCHANGED <<slotVars, control, wants, registered, asking>>

\* query(), after the await: a result or an exception
Return(r) ==
  /\ r \in awaited /\ reply[r] \in {"ok", "error"}
  /\ awaited' = awaited \ {r}
  /\ outlived' = outlived \cup {q \in awaited' : owner[q] = owner[r]}
  /\ status' = [status EXCEPT ![owner[r]] = "IDLE"]
  /\ UNCHANGED <<slotVars, control, wants, registered, owner>>

\* A cancellation is no Exception: the session remains EXECUTING.
Withdraw(r) ==
  /\ Impatient /\ r \in awaited
  /\ awaited' = awaited \ {r}
  /\ P!Cancel(r) \/ (reply[r] # "pending" /\ UNCHANGED slotVars)
  /\ UNCHANGED <<control, session, owner, outlived>>

\* mutant: the session stays in _sessions
CloseRegistered(x) ==
  /\ status[x] # "none"
  /\ status' = [status EXCEPT ![x] = "CLOSED"]
  /\ UNCHANGED <<slotVars, control, wants, registered, asking>>

Close(x) ==
  /\ status[x] # "none"
  /\ status' = [status EXCEPT ![x] = "CLOSED"]
  /\ registered' = registered \ {x}
  /\ UNCHANGED <<slotVars, control, wants, asking>>

-----------------------------------------------------------------------------
(***************************************************************************)
(* Background tasks                                                        *)
(***************************************************************************)
\* mutant: without the test of _session_state
ReapAny(X) ==
  /\ tasks /\ X # {} /\ X \subseteq registered
  /\ status' = [x \in Sessions |-> IF x \in X THEN "EXPIRED" ELSE status[x]]
  /\ registered' = registered \ X
  /\ UNCHANGED <<slotVars, control, wants, asking>>

\* _reaper_loop: the sessions that have been idle for too long are some of these
Reap(X) ==
  /\ tasks /\ X # {} /\ X \subseteq registered
  /\ \A x \in X : status[x] = "IDLE"
  /\ status' = [x \in Sessions |-> IF x \in X THEN "EXPIRED" ELSE status[x]]
  /\ registered' = registered \ X
  /\ UNCHANGED <<slotVars, control, wants, asking>>

\* _migration_loop: the end of a successful proactive_migrate
Migrate(s) ==
  /\ Migrations /\ tasks /\ P!Forget(s)
  /\ UNCHANGED <<control, session, asking>>

Progress(s) == P!Progress(s) /\ UNCHANGED <<control, session, asking>>
Serve(s)    == P!Serve(s) /\ UNCHANGED <<control, session, asking>>

-----------------------------------------------------------------------------
(***************************************************************************)
(* start() and stop().  Each slot's start and stop suspends, so sessions   *)
(* go on while the others are stopped.                                     *)
(***************************************************************************)
StartSlot ==
  /\ ctl \in {"new", "starting"}
  /\ P!Start(listed + 1)
  /\ listed' = listed + 1
  /\ tasks' = (listed' = NumSlots)
  /\ ctl' = IF listed' = NumSlots THEN "running" ELSE "starting"
  /\ UNCHANGED <<session, asking>>

\* A checkout fails: the slots before it keep their connections.
StartFails ==
  /\ ctl \in {"new", "starting"}
  /\ ctl' = "failed"
  /\ UNCHANGED <<slotVars, listed, tasks, session, asking>>

StopBegin ==
  /\ ctl \in {"running", "failed"}
  /\ ctl' = "stopping" /\ tasks' = FALSE
  /\ UNCHANGED <<slotVars, listed, session, asking>>

\* mutant: dead slots are passed over
StopSlotAlive(s) ==
  /\ ctl = "stopping" /\ \A t \in 1..listed : t < s => phase[t] = "stopped"
  /\ health[s] # "DEAD" /\ P!Stop(s)
  /\ UNCHANGED <<control, session, asking>>

\* The slots are stopped in the order of the list.
StopSlot(s) ==
  /\ ctl = "stopping" /\ \A t \in 1..listed : t < s => phase[t] = "stopped"
  /\ P!Stop(s)
  /\ UNCHANGED <<control, session, asking>>

\* mutant: the slots' stop() is not awaited
StopEndAtOnce ==
  /\ ctl = "stopping"
  /\ ctl' = "stopped" /\ listed' = 0 /\ registered' = {}
  /\ UNCHANGED <<slotVars, tasks, status, wants, asking>>

\* mutant: all slots are thought to be listed
StopEndOfAll ==
  /\ ctl = "stopping" /\ \A s \in 1..listed : phase[s] = "stopped"
  /\ ctl' = "stopped" /\ listed' = listed - NumSlots /\ registered' = {}
  /\ UNCHANGED <<slotVars, tasks, status, wants, asking>>

StopEnd ==
  /\ ctl = "stopping" /\ \A s \in 1..listed : phase[s] = "stopped"
  /\ ctl' = "stopped" /\ listed' = 0 /\ registered' = {}
  /\ UNCHANGED <<slotVars, tasks, status, wants, asking>>

Next ==
  \/ \E x \in Sessions :
       \/ QueryNowhere(x) \/ Close(x)
       \/ \E st \in States : GetSession(x, st) \/ Let(x, st)
       \/ \E r \in Requests : Query(x, r)
  \/ \E r \in Requests : Return(r) \/ Withdraw(r)
  \/ \E X \in SUBSET Sessions : Reap(X)
  \/ \E s \in Slots : Migrate(s) \/ Serve(s) \/ StopSlot(s)
  \/ StartSlot \/ StartFails \/ StopBegin \/ StopEnd

Spec == Init /\ [][Next]_vars

\* Fairness: the drain loops run and what they await ends; a task whose future is done
\* runs; start() and stop() go on.  Nothing makes anyone ask, cancel, migrate or stop.
FairSpec ==
  /\ Spec
  /\ \A s \in Slots : WF_vars(Progress(s))
  /\ \A r \in Requests : WF_vars(Return(r))
  /\ WF_vars(\E s \in Slots : StopSlot(s)) /\ WF_vars(StopEnd)

-----------------------------------------------------------------------------
(***************************************************************************)
(* Properties                                                              *)
(***************************************************************************)
\* Every variable ranges over the values the code's fields can have.
TypeOK ==
  /\ phase \in [Slots -> {"new", "running", "stopped"}]
  /\ queue \in [Slots -> Seq(Requests)]
  /\ serving \in [Slots -> Requests \cup {NoRequest}]
  /\ health \in [Slots -> {"HEALTHY", "RECONNECTING", "DEAD"}]
  /\ state \in [Slots -> States \cup {NoState}]
  /\ tries \in [Requests -> Nat]
  /\ reply \in [Requests -> {"none", "pending", "ok", "error", "cancelled"}]
  /\ ctl \in {"new", "starting", "failed", "running", "stopping", "stopped"}
  /\ listed \in 0..NumSlots /\ tasks \in BOOLEAN
  /\ status \in [Sessions -> {"none", "IDLE", "QUEUED", "EXECUTING", "EXPIRED", "CLOSED"}]
  /\ wants \in [Sessions -> States \cup {NoState}] /\ registered \subseteq Sessions
  /\ owner \in [Requests -> Sessions \cup {NoSession}]
  /\ awaited \subseteq Requests /\ outlived \subseteq Requests

Hands(s) == ToSet(queue[s]) \cup ({serving[s]} \ {NoRequest})

\* A request is with one slot, once; one that has no reply yet is with a slot, unless it
\* was being served when its slot was stopped: stop() loses at most one per slot
\* (SessionMultiplexer._route_request, stop, PhysicalSlot).
OneSlot ==
  /\ \A s \in Slots : IsInjective(queue[s]) /\ serving[s] \notin ToSet(queue[s])
  /\ \A s, t \in Slots : s # t => Hands(s) \cap Hands(t) = {}
  /\ Cardinality({r \in Requests : reply[r] = "pending" /\ \A s \in Slots : r \notin Hands(s)})
       <= Cardinality({s \in Slots : phase[s] = "stopped"})

\* stop() finds every slot that runs in _slots, whether start() ended, failed or was
\* cancelled; when it has ended none runs.
RunningSlotsListed ==
  /\ \A s \in Slots : phase[s] = "running" => s <= listed
  /\ ctl = "stopped" => \A s \in Slots : phase[s] # "running"

\* _sessions holds no session that has been closed or expired and has no query under
\* way, and no more than max_sessions (get_session, close, _reaper_loop).
RegisteredAreActive ==
  /\ Cardinality(registered) <= MaxSessions
  /\ \A x \in registered : Active(x)

\* "Same (ns, db, creds, vars)" wins and "lowest queue depth breaks ties" (WHY-lol.md): a
\* request whose state some healthy slot has goes to such a slot, one with the shortest
\* queue among them, while queues are short; no request goes to a dead or reconnecting
\* slot while a healthy one has an empty queue (SessionRouter.route).
Matching(want) == {s \in 1..listed : health[s] = "HEALTHY" /\ state[s] = want}
RoutesWell ==
  [][\A x \in Sessions, r \in Requests : Query(x, r) => \E s \in 1..listed :
       /\ queue'[s] # queue[s]
       /\ \A t \in Matching(StateOf[r]) : Len(queue[t]) < 50 =>
            s \in Matching(StateOf[r]) /\ Len(queue[s]) <= Len(queue[t])
       /\ health[s] # "HEALTHY" =>
            \A t \in 1..listed : health[t] = "HEALTHY" => queue[t] # <<>>]_vars

\* A session with a query under way is not idle, and the reaper leaves it alone, whatever
\* it asked, cancelled or let fail before; not so when its tasks ask several queries at a
\* time and one returns while another is under way (_reaper_loop, VirtualSession._execute).
Expires(x) == status[x] # "EXPIRED" /\ status'[x] = "EXPIRED"
ReapsOnlyIdle ==
  [][\A x \in Sessions : Expires(x) =>
       \A r \in awaited : owner[r] = x => r \in outlived]_vars

\* While the multiplexer runs, a query returns: no fault makes its task wait forever
\* (VirtualSession._execute).
QueriesReturn ==
  \A r \in Requests : r \in awaited ~> (r \notin awaited \/ ctl \in {"stopping", "stopped"})

\* stop() ends, however many requests arrive meanwhile (SessionMultiplexer.stop).
StopEnds == ctl = "stopping" ~> ctl = "stopped"

====
