------------------------- MODULE SlotIsolationProofs -------------------------
(***************************************************************************)
(* More theorems about PhysicalSlot: what the slot has on lease, and that  *)
(* a query is sent as its session's while connections are used only by     *)
(* those who have them on lease, whatever they run on them.                *)
(***************************************************************************)
EXTENDS SlotProofs

-----------------------------------------------------------------------------
(* Leases *)

\* What the pool alone keeps: no connection is idle and on lease, or idle twice, and each
\* lease has its permit.
Conserves(p) ==
  /\ p \in PoolStates
  /\ ToSet(p.idle) \cap p.lent = {} /\ IsInjective(p.idle)
  /\ p.sem + Cardinality(p.lent) = Permits

LEMMA CheckedOutConserves ==
  ASSUME Conserves(pool), NEW c \in Conns, Available(c)
  PROVE  /\ Conserves(CheckedOut(pool, c))
         /\ c \notin pool.lent /\ CheckedOut(pool, c).lent = pool.lent \cup {c}
<1>. DEFINE p == CheckedOut(pool, c)
<1>1. p \in PoolStates /\ p.lent = pool.lent \cup {c} /\ p.sem = pool.sem - 1
  BY CheckedOutType DEF Conserves, CheckedOut
<1>2. c \notin pool.lent /\ ToSet(p.idle) \cap p.lent = {} /\ IsInjective(p.idle)
  <2>1. CASE pool.idle # <<>>
    <3>1. /\ c \in ToSet(pool.idle) /\ c \notin ToSet(Tail(pool.idle))
          /\ ToSet(Tail(pool.idle)) \subseteq ToSet(pool.idle) /\ IsInjective(Tail(pool.idle))
      BY <2>1, ElemsTail DEF Conserves, PoolStates, Available
    <3>2. p.idle = Tail(pool.idle)
      BY <2>1 DEF CheckedOut
    <3>. QED
      BY <1>1, <3>1, <3>2 DEF Conserves
  <2>2. CASE pool.idle = <<>>
    <3>1. p.idle = <<>> /\ c \notin pool.lent
      BY <2>2 DEF CheckedOut, Available, Fresh
    <3>. QED
      BY <3>1, ElemsEmpty
  <2>. QED
    BY <2>1, <2>2
<1>3. Cardinality(p.lent) = Cardinality(pool.lent) + 1
  <2>1. IsFiniteSet(pool.lent)
    BY ConnsAssumption, FS_Subset DEF Conserves, PoolStates
  <2>. QED
    BY <1>1, <1>2, <2>1, FS_AddElement
<1>4. p.sem + Cardinality(p.lent) = Permits
  <2>1. Cardinality(pool.lent) \in Nat /\ pool.sem \in Nat
    BY ConnsAssumption, FS_Subset, FS_CardinalityType DEF Conserves, PoolStates
  <2>. QED
    BY <1>1, <1>3, <2>1, LimitsAssumption DEF Conserves
<1>. QED
  BY <1>1, <1>2, <1>4 DEF Conserves

LEMMA CheckedInConserves ==
  ASSUME NEW p, Conserves(p), NEW c \in p.lent, NEW keep
  PROVE  Conserves(CheckedIn(p, c, keep)) /\ CheckedIn(p, c, keep).lent = p.lent \ {c}
<1>. DEFINE q == CheckedIn(p, c, keep)
<1>1. c \in Conns /\ q \in PoolStates /\ q.lent = p.lent \ {c} /\ q.sem = p.sem + 1
  BY CheckedInType DEF Conserves, PoolStates, CheckedIn
<1>2. ToSet(q.idle) \subseteq ToSet(p.idle) \cup {c} /\ IsInjective(q.idle)
  <2>1. CASE keep
    <3>1. q.idle = <<c>> \o p.idle /\ c \notin ToSet(p.idle)
      BY <2>1 DEF CheckedIn, Conserves
    <3>. QED
      BY <1>1, <3>1, ElemsCons DEF Conserves, PoolStates
  <2>2. CASE ~keep
    BY <2>2 DEF CheckedIn, Conserves
  <2>. QED
    BY <2>1, <2>2
<1>3. q.sem + Cardinality(q.lent) = Permits
  <2>1. IsFiniteSet(p.lent)
    BY ConnsAssumption, FS_Subset DEF Conserves, PoolStates
  <2>2. Cardinality(q.lent) = Cardinality(p.lent) - 1
    BY <1>1, <2>1, FS_RemoveElement
  <2>3. Cardinality(p.lent) \in Nat /\ p.sem \in Nat
    BY <2>1, FS_CardinalityType DEF Conserves, PoolStates
  <2>. QED
    BY <1>1, <2>2, <2>3, LimitsAssumption DEF Conserves
<1>. QED
  BY <1>1, <1>2, <1>3 DEF Conserves

\* What LeasesAgree says when nothing went astray.
Agree ==
  /\ Conserves(pool) /\ other \notin Held
  /\ pool.lent = Held \cup ({other} \ {NoConn})

LEMMA AgreeIs == TypeInv => (LeasesAgree <=> (strayed \/ Agree))
BY DEF TypeInv, TypeOK, LeasesAgree, Agree, Conserves, PoolStates

\* A step that leaves the pool, its other client and what the slot holds alone.
LEMMA SameLeases ==
  ASSUME Agree, Held' = Held, UNCHANGED <<pool, other>>
  PROVE  Agree'
BY DEF Agree, Conserves

LEMMA OutsideAgrees ==
  ASSUME TypeInv, Agree, ~strayed',
         \/ \E c \in Conns : Start(c) \/ OtherAcquires(c)
         \/ \E session \in Sessions : OtherRuns(session)
         \/ \E keep \in BOOLEAN : OtherReleases(keep) \/ OtherDies(keep)
         \/ \E r \in Requests : Enqueue(r) \/ Cancel(r)
  PROVE  Agree'
<1>. USE DEF slot, requests, world, history
<1>1. ASSUME NEW c \in Conns, Start(c) PROVE Agree'
  <2>1. Held = {} /\ drain.pc # "checkout" /\ Held' = {c} /\ other' = other
    BY <1>1 DEF Start, Held, TypeInv, Control
  <2>2. Conserves(pool') /\ c \notin pool.lent /\ pool'.lent = pool.lent \cup {c}
    BY <1>1, CheckedOutConserves DEF Start, Agree
  <2>. QED
    BY <2>1, <2>2, ConnsAssumption DEF Agree, Conserves
<1>2. ASSUME NEW c \in Conns, OtherAcquires(c) PROVE Agree'
  <2>1. Held' = Held /\ other = NoConn /\ other' = c
    BY <1>2 DEF OtherAcquires, Held
  <2>2. Conserves(pool') /\ c \notin pool.lent /\ pool'.lent = pool.lent \cup {c}
    BY <1>2, CheckedOutConserves DEF OtherAcquires, Agree
  <2>. QED
    BY <2>1, <2>2, ConnsAssumption DEF Agree, Conserves
<1>3. ASSUME NEW keep \in BOOLEAN, OtherReleases(keep) PROVE Agree'
  <2>1. Held' = Held /\ other # NoConn /\ other' = NoConn /\ other \in pool.lent
    BY <1>3 DEF OtherReleases, Held, Agree
  <2>2. Conserves(pool') /\ pool'.lent = pool.lent \ {other}
    BY <1>3, <2>1, CheckedInConserves DEF OtherReleases, Agree
  <2>3. NoConn \notin Held
    BY ConnsAssumption DEF Held, TypeInv, Control
  <2>. QED
    BY <2>1, <2>2, <2>3 DEF Agree, Conserves
<1>4. ASSUME NEW r \in Requests, Enqueue(r) \/ Cancel(r) PROVE Agree'
  BY <1>4, SameLeases DEF Enqueue, Cancel, Held
<1>5. ASSUME NEW session \in Sessions, OtherRuns(session) PROVE Agree'
  BY <1>5, SameLeases DEF OtherRuns, Held
<1>6. ~ \E keep \in BOOLEAN : OtherDies(keep)
  BY DEF OtherDies
<1>. QED
  BY <1>1, <1>2, <1>3, <1>4, <1>5, <1>6

LEMMA DrainAgrees ==
  ASSUME TypeInv, TypeInv', Agree, DrainStep, ~strayed'
  PROVE  Agree'
<1>. USE DEF slot, requests, world, history
<1>1. drain.pc # "idle" => phase = "running" /\ conn \in Conns
  BY DEF TypeInv, TypeOK, Control
<1>2. CASE Skip \/ Take \/ UseEnds \/ LetEnds \/ Answer \/ Error \/ GiveUp
  <2>1. UNCHANGED <<pool, other, phase, conn, health>>
    BY <1>2 DEF Skip, Take, UseEnds, LetEnds, Answer, Error, GiveUp
  <2>2. drain.pc # "checkout"
    BY <1>2 DEF Skip, Take, Waiting, UseEnds, LetEnds, Answer, Error, GiveUp, CallFails, Talking
  <2>3. phase = "running" => drain'.pc # "checkout"
    BY <2>1, <2>2 DEF TypeInv, Control
  <2>. QED
    BY <2>1, <2>2, <2>3, SameLeases DEF Held
<1>3. ASSUME NEW keep \in BOOLEAN, Teleport(keep) PROVE Agree'
  <2>1. Held = {conn} /\ Held' = {} /\ other' = other
    BY <1>1, <1>3 DEF Teleport, CallFails, Talking, Held, Resting
  <2>2. Conserves(pool') /\ pool'.lent = pool.lent \ {conn}
    BY <1>3, <2>1, CheckedInConserves DEF Teleport, Agree
  <2>. QED
    BY <2>1, <2>2 DEF Agree, Conserves
<1>4. ASSUME NEW c \in Conns, Teleported(c) PROVE Agree'
  <2>1. Held = {} /\ Held' = {c} /\ other' = other
    BY <1>1, <1>4, RestingType DEF Teleported, Held
  <2>2. Conserves(pool') /\ c \notin pool.lent /\ pool'.lent = pool.lent \cup {c}
    BY <1>4, CheckedOutConserves DEF Teleported, Agree
  <2>. QED
    BY <2>1, <2>2, ConnsAssumption DEF Agree, Conserves
<1>5. CASE TeleportFails
  BY <1>5 DEF TeleportFails
<1>. QED
  BY <1>2, <1>3, <1>4, <1>5 DEF DrainStep

\* A migration that no teleport crossed: the connection to be replaced is still the slot's.
LEMMA MigrationAgrees ==
  ASSUME TypeInv, Agree, ~strayed',
         Migrate \/ MigrateFails \/ \E c \in Conns, keep \in BOOLEAN : Migrated(c, keep)
  PROVE  Agree'
<1>. USE DEF slot, requests, world, history
<1>1. CASE Migrate
  BY <1>1, SameLeases DEF Migrate, Held
<1>2. CASE MigrateFails
  <2>1. conn' = conn
    BY <1>2 DEF MigrateFails, Crossed, TypeInv, TypeOK
  <2>. QED
    BY <1>2, <2>1, SameLeases DEF MigrateFails, Held
<1>3. ASSUME NEW c \in Conns, NEW keep \in BOOLEAN, Migrated(c, keep) PROVE Agree'
  <2>1. /\ phase = "running" /\ old = conn /\ drain.pc # "checkout"
        /\ UNCHANGED <<phase, drain, other>> /\ conn' = c
    BY <1>3 DEF Migrated, Crossed, TypeInv, TypeOK, Control
  <2>2. Held = {conn} /\ Held' = {c}
    BY <2>1 DEF Held
  <2>3. /\ Conserves(CheckedOut(pool, c)) /\ c \notin pool.lent
        /\ CheckedOut(pool, c).lent = pool.lent \cup {c}
    BY <1>3, CheckedOutConserves DEF Migrated, Agree
  <2>4. conn \in pool.lent
    BY <2>2 DEF Agree
  <2>5. Conserves(pool') /\ pool'.lent = (pool.lent \cup {c}) \ {conn}
    BY <1>3, <2>1, <2>3, <2>4, CheckedInConserves DEF Migrated
  <2>. QED
    BY <2>1, <2>2, <2>3, <2>4, <2>5, ConnsAssumption DEF Agree, Conserves
<1>. QED
  BY <1>1, <1>2, <1>3

LEMMA StopAgrees ==
  ASSUME TypeInv, Agree, ~strayed', NEW keep, Stop(keep)
  PROVE  Agree'
<1>1. Held = {conn} /\ Held' = {} /\ other' = other
  BY DEF Stop, Held
<1>2. Conserves(pool') /\ pool'.lent = pool.lent \ {conn}
  BY <1>1, CheckedInConserves DEF Stop, Agree
<1>. QED
  BY <1>1, <1>2 DEF Agree, Conserves

\* The slot and the pool agree on leases and permits, for any number of connections,
\* permits and requests, unless a teleport failed or was crossed (checkout and checkin in
\* PhysicalSlot).
THEOREM LeasesKept == Spec => []LeasesAgree
<1>1. Init => LeasesAgree
  BY ElemsEmpty, FS_EmptySet, LimitsAssumption DEF Init, LeasesAgree, Held
<1>2. TypeInv /\ TypeInv' /\ LeasesAgree /\ [Next]_vars => LeasesAgree'
  <2>. SUFFICES ASSUME TypeInv, TypeInv', LeasesAgree, [Next]_vars, ~strayed'
                PROVE  Agree'
    BY AgreeIs DEF LeasesAgree, Agree, Conserves
  <2>1. ~strayed
    BY DEF Next, vars, slot, requests, world, history, Start, OtherAcquires, OtherRuns,
           OtherReleases, OtherDies, Stop, Enqueue, Cancel, DrainStep, Skip, Take, UseEnds,
           LetEnds, Answer, Error, GiveUp, TeleportFails, Teleport, Teleported, Migrate,
           MigrateFails, Migrated
  <2>2. Agree
    BY <2>1, AgreeIs
  <2>3. CASE UNCHANGED vars
    BY <2>2, <2>3, SameLeases DEF vars, slot, world, Held
  <2>. QED
    BY <2>2, <2>3, OutsideAgrees, DrainAgrees, MigrationAgrees, StopAgrees DEF Next
<1>. QED
  BY <1>1, <1>2, Typed, PTL DEF Spec

-----------------------------------------------------------------------------
(* Sessions *)

\* What is left to do is what _apply_state will do: _state is what the connection has
\* between two applications; in one, the variables that are not in todo are set.
Applied ==
  /\ state # NoState /\ drain.pc \notin {"use", "let"} => Known(conn, state)
  /\ drain.pc = "use" =>
       /\ drain.conn = conn /\ CurrentVars \subseteq server[conn].vars
       /\ drain.lets \/ StateOf[serving].vars \subseteq CurrentVars
  /\ drain.pc = "let" =>
       /\ drain.conn = conn /\ drain.todo \subseteq StateOf[serving].vars
       /\ server[conn].use = Use(StateOf[serving])
       /\ StateOf[serving].vars \ drain.todo \subseteq server[conn].vars

SessionInv ==
  /\ phase = "new" \/ drain.pc = "checkout" => state = NoState
  /\ drain.pc \in Talking => drain.conn \in Conns
  /\ ~torn /\ ~strayed /\ phase = "running" => Applied

\* A connection that is opened is none of the slot's.
LEMMA OpenedApart ==
  ASSUME TypeOK, NEW c \in Conns, Available(c), NEW d \in Conns,
         d \in {conn, drain.conn}
  PROVE  Opened(c)[d] = server[d]
BY DEF Available, Opened, Fresh, TypeOK

LEMMA ApplyVarsSends ==
  ASSUME NEW want, NEW c, NEW lets, ApplyVars(want, c, lets)
  PROVE  drain'.conn \in {conn, c} /\ drain'.pc \in {"query", "let"}
<1>1. CASE Send
  BY <1>1 DEF Send, Resting
<1>2. ASSUME NEW todo, drain' = [pc |-> "let", conn |-> c, lets |-> lets, todo |-> todo]
      PROVE  drain'.conn \in {conn, c} /\ drain'.pc \in {"query", "let"}
  BY <1>2
<1>. QED
  BY <1>1, <1>2 DEF ApplyVars

\* The LETs of _apply_state: what is sent brings the connection to the wanted state.
LEMMA ApplyVarsKnows ==
  ASSUME TypeInv, conn \in Conns, NEW want \in States, NEW lets \in BOOLEAN,
         ApplyVars(want, conn, lets),
         server'[conn].use = Use(want), CurrentVars \subseteq server'[conn].vars,
         lets \/ want.vars \subseteq CurrentVars,
         StateOf[serving'] = want, conn' = conn
  PROVE  Applied' /\ drain'.conn \in Conns
<1>. DEFINE todo == IF lets THEN want.vars \ CurrentVars ELSE {}
<1>1. want.vars \ todo \subseteq server'[conn].vars /\ todo \subseteq want.vars
  OBVIOUS
<1>2. CASE todo = {} /\ state' = want /\ Send
  BY <1>1, <1>2 DEF Applied, Known, Send, Resting
<1>3. CASE /\ todo # {} /\ state' = state
           /\ drain' = [pc |-> "let", conn |-> conn, lets |-> lets, todo |-> todo]
  BY <1>1, <1>3 DEF Applied
<1>. QED
  BY <1>2, <1>3 DEF ApplyVars

LEMMA TakeKnows ==
  ASSUME TypeInv, SessionInv, Take
  PROVE  SessionInv'
<1>. USE DEF world
<1>. DEFINE want == StateOf[Head(queue)]
<1>1. /\ phase = "running" /\ drain.pc = "idle" /\ conn \in Conns /\ serving' \in Requests
      /\ serving' = Head(queue) /\ UNCHANGED <<phase, conn, server, strayed>>
  BY DEF Take, Waiting, TypeInv, TypeOK, Control
<1>2. want \in States /\ want # NoState
  BY <1>1, StatesAssumption
<1>3. ApplyState(want)
  BY DEF Take
<1>4. ~torn' /\ ~strayed => CurrentVars \subseteq server[conn].vars
                            /\ (state # NoState => Known(conn, state))
  BY <1>1 DEF Take, SessionInv, Applied, CurrentVars, Known
<1>5. CASE state = want /\ state' = state /\ Send
  BY <1>1, <1>2, <1>4, <1>5 DEF SessionInv, Applied, Known, Send, Resting, Talking
<1>6. CASE /\ state # want /\ NeedsUse(want) /\ state' = state
           /\ drain' = [pc |-> "use", conn |-> conn, lets |-> NeedsVars(want), todo |-> {}]
  <2>1. CurrentVars' = CurrentVars
    BY <1>6 DEF CurrentVars
  <2>2. NeedsVars(want) \/ want.vars \subseteq CurrentVars
    BY DEF NeedsVars, CurrentVars
  <2>. QED
    BY <1>1, <1>4, <1>6, <2>1, <2>2 DEF SessionInv, Applied, Talking
<1>7. CASE ~NeedsUse(want) /\ ApplyVars(want, conn, NeedsVars(want))
  <2>1. state # NoState /\ Use(state) = Use(want)
    BY <1>7 DEF NeedsUse
  <2>2. NeedsVars(want) \in BOOLEAN /\ (NeedsVars(want) \/ want.vars \subseteq CurrentVars)
    BY DEF NeedsVars, CurrentVars
  <2>3. drain'.conn \in Conns /\ drain'.pc # "checkout"
    BY <1>1, <1>7, ApplyVarsSends
  <2>4. ~torn' /\ ~strayed' => Applied'
    BY <1>1, <1>2, <1>4, <1>7, <2>1, <2>2, ApplyVarsKnows DEF Known
  <2>. QED
    BY <1>1, <2>3, <2>4 DEF SessionInv
<1>. QED
  BY <1>3, <1>5, <1>6, <1>7 DEF ApplyState

LEMMA UseKnows ==
  ASSUME TypeInv, SessionInv, UseEnds
  PROVE  SessionInv'
<1>. DEFINE want == StateOf[serving]
<1>1. /\ phase = "running" /\ drain.pc = "use" /\ drain.conn \in Conns /\ conn \in Conns
      /\ serving \in Requests /\ UNCHANGED <<phase, conn, serving, torn, strayed>>
  BY DEF UseEnds, SessionInv, Talking, TypeInv, TypeOK, Control, history
<1>2. want \in States
  BY <1>1, StatesAssumption
<1>3. ApplyVars(want, drain.conn, drain.lets) /\ drain.lets \in BOOLEAN
  BY DEF UseEnds, TypeInv, TypeOK
<1>4. server'[drain.conn].use = Use(want) /\ server'[drain.conn].vars = server[drain.conn].vars
  BY <1>1 DEF UseEnds, UseDone, TypeInv, TypeOK, Sessions
<1>5. drain'.conn \in Conns /\ drain'.pc # "checkout"
  BY <1>1, <1>3, ApplyVarsSends
<1>6. ~torn' /\ ~strayed' => Applied'
  <2>. SUFFICES ASSUME ~torn, ~strayed PROVE Applied'
    BY <1>1
  <2>1. /\ drain.conn = conn /\ CurrentVars \subseteq server[conn].vars
        /\ drain.lets \/ want.vars \subseteq CurrentVars
    BY <1>1 DEF SessionInv, Applied
  <2>. QED
    BY <1>1, <1>2, <1>3, <1>4, <2>1, ApplyVarsKnows
<1>. QED
  BY <1>1, <1>5, <1>6 DEF SessionInv

\* A LET replaces the value of its variable and no other wanted one.
LEMMA LetKnows ==
  ASSUME TypeInv, SessionInv, LetEnds
  PROVE  SessionInv'
<1>. DEFINE want == StateOf[serving]
<1>1. /\ phase = "running" /\ drain.pc = "let" /\ drain.conn \in Conns /\ conn \in Conns
      /\ serving \in Requests /\ UNCHANGED <<phase, conn, serving, torn, strayed>>
  BY DEF LetEnds, SessionInv, Talking, TypeInv, TypeOK, Control, history
<1>2. want \in States
  BY <1>1, StatesAssumption
<1>3. PICK p \in drain.todo :
        /\ LetDone(p)
        /\ \/ /\ drain.todo # {p} /\ state' = state
              /\ drain' = [drain EXCEPT !.todo = @ \ {p}]
           \/ /\ drain.todo = {p} /\ state' = want /\ Send
  BY DEF LetEnds
<1>4. /\ server'[drain.conn].use = server[drain.conn].use
      /\ server'[drain.conn].vars = Set(server[drain.conn].vars, p)
  BY <1>1, <1>3 DEF LetDone, TypeInv, TypeOK, Sessions
<1>5. /\ drain'.conn \in Conns /\ drain'.conn \in {drain.conn, conn}
      /\ \/ drain'.pc = "let" /\ drain'.todo = drain.todo \ {p} /\ drain'.conn = drain.conn
         \/ drain'.pc = "query" /\ drain'.conn = conn /\ drain.todo = {p} /\ state' = want
  BY <1>1, <1>3 DEF TypeInv, TypeOK, Send, Resting
<1>6. ~torn' /\ ~strayed' => Applied'
  <2>. SUFFICES ASSUME ~torn, ~strayed PROVE Applied'
    BY <1>1
  <2>1. /\ drain.conn = conn /\ drain.todo \subseteq want.vars
        /\ server[conn].use = Use(want)
        /\ want.vars \ drain.todo \subseteq server[conn].vars
    BY <1>1 DEF SessionInv, Applied
  <2>2. want.vars \ (drain.todo \ {p}) \subseteq server'[conn].vars
    <3>1. \A q \in want.vars : q # p => q[1] # p[1]
      BY <1>2, <1>3, <2>1, VarsAssumption
    <3>. QED
      BY <1>4, <2>1, <3>1 DEF Set
  <2>. QED
    BY <1>1, <1>4, <1>5, <2>1, <2>2 DEF Applied, Known
<1>. QED
  BY <1>1, <1>5, <1>6 DEF SessionInv

\* The drain loop is done with a request, in whatever way.
LEMMA EndKnows ==
  ASSUME TypeInv, SessionInv, Answer \/ Error \/ GiveUp
  PROVE  SessionInv'
<1>1. /\ phase = "running" /\ drain.pc \in Talking /\ drain' = Resting
      /\ UNCHANGED <<phase, conn, state, strayed>>
  BY DEF Answer, Error, GiveUp, CallFails, Finish, Talking, TypeInv, TypeOK, Control
<1>2. drain'.pc = "idle"
  BY <1>1, RestingType
<1>3. ASSUME ~torn', state # NoState PROVE server' = server /\ drain.pc = "query" /\ ~torn
  <2>1. CASE Answer
    BY <1>3, <2>1 DEF Answer, world
  <2>2. CASE Error \/ GiveUp
    <3>1. torn' = Abandoned /\ (Effect \/ NoEffect)
      BY <2>2 DEF Error, GiveUp, CallFails
    <3>2. ~torn /\ drain.pc = "query"
      BY <1>1, <1>3, <3>1 DEF Abandoned, Talking
    <3>. QED
      BY <3>1, <3>2 DEF Effect, NoEffect
  <2>3. ~torn
    BY <1>3, <2>1, <2>2 DEF Answer
  <2>. QED
    BY <1>3, <2>1, <2>2 DEF Answer
<1>4. ~torn' /\ ~strayed' /\ state # NoState => Known(conn, state)'
  BY <1>1, <1>3 DEF SessionInv, Applied, Known
<1>. QED
  BY <1>1, <1>2, <1>4 DEF SessionInv, Applied, Talking

LEMMA DrainKnows == ASSUME TypeInv, SessionInv, DrainStep PROVE SessionInv'
<1>. USE DEF slot, requests, world, history
<1>1. drain.pc # "idle" => phase = "running"
  BY DEF TypeInv, Control
<1>2. CASE Skip
  BY <1>2 DEF Skip, SessionInv, Applied, Known, CurrentVars
<1>3. ASSUME NEW keep \in BOOLEAN, Teleport(keep) PROVE SessionInv'
  <2>1. drain'.pc = "checkout" /\ state' = NoState /\ phase' = phase
    BY <1>3 DEF Teleport, Resting
  <2>. QED
    BY <2>1 DEF SessionInv, Applied, Talking
<1>4. ASSUME NEW c \in Conns, Teleported(c) PROVE SessionInv'
  <2>1. drain.pc = "checkout" /\ drain'.pc = "idle" /\ phase = "running"
        /\ UNCHANGED <<phase, state, torn>>
    BY <1>1, <1>4, RestingType DEF Teleported
  <2>. QED
    BY <2>1 DEF SessionInv, Applied, Talking
<1>5. CASE TeleportFails
  <2>1. strayed' /\ drain.pc = "checkout" /\ drain'.pc = "idle" /\ UNCHANGED <<phase, state>>
    BY <1>5, RestingType DEF TeleportFails, Finish
  <2>. QED
    BY <1>1, <2>1 DEF SessionInv, Talking
<1>. QED
  BY <1>2, <1>3, <1>4, <1>5, TakeKnows, UseKnows, LetKnows, EndKnows DEF DrainStep

\* What another client runs on its connection is not run on the slot's, while the slot and
\* the pool agree on who has which.
LEMMA OtherKnows ==
  ASSUME TypeInv, LeasesAgree, SessionInv, NEW session, OtherRuns(session)
  PROVE  SessionInv'
<1>1. UNCHANGED <<phase, conn, state, serving, drain, torn, strayed>>
  BY DEF OtherRuns, slot, history
<1>. SUFFICES ASSUME ~torn, ~strayed, phase = "running" PROVE Applied'
  BY <1>1 DEF SessionInv
<1>2. Applied /\ conn \in Conns
  BY DEF SessionInv, TypeInv, Control
<1>3. CASE drain.pc = "checkout"
  BY <1>1, <1>3 DEF SessionInv, Applied
<1>4. CASE drain.pc # "checkout"
  <2>1. other # conn
    BY <1>4 DEF LeasesAgree, Held
  <2>2. server'[conn] = server[conn]
    BY <1>2, <2>1 DEF OtherRuns, TypeInv, TypeOK
  <2>. QED
    BY <1>1, <1>2, <2>2 DEF Applied, Known, CurrentVars
<1>. QED
  BY <1>3, <1>4

LEMMA OutsideKnows ==
  ASSUME TypeInv, LeasesAgree, SessionInv,
         \/ \E c \in Conns : Start(c) \/ OtherAcquires(c)
         \/ \E session \in Sessions : OtherRuns(session)
         \/ \E keep \in BOOLEAN : OtherReleases(keep) \/ OtherDies(keep)
         \/ \E r \in Requests : Enqueue(r) \/ Cancel(r)
  PROVE  SessionInv'
<1>. USE DEF slot, requests, world, history
<1>1. ASSUME NEW c \in Conns, Start(c) PROVE SessionInv'
  <2>1. state' = NoState /\ drain'.pc = "idle" /\ phase' = "running"
    BY <1>1 DEF Start, SessionInv, TypeInv, Control
  <2>. QED
    BY <2>1 DEF SessionInv, Applied, Talking
<1>2. ASSUME NEW c \in Conns, OtherAcquires(c) PROVE SessionInv'
  <2>1. server' = Opened(c) /\ UNCHANGED <<phase, conn, state, serving, drain, torn, strayed>>
    BY <1>2 DEF OtherAcquires
  <2>2. \A d \in Conns : d \in {conn, drain.conn} => server'[d] = server[d]
    BY <1>2, <2>1, OpenedApart DEF OtherAcquires, TypeInv
  <2>3. phase = "running" => conn \in Conns
    BY DEF TypeInv, Control
  <2>. QED
    BY <2>1, <2>2, <2>3 DEF SessionInv, Applied, Known, CurrentVars, Talking
<1>3. ASSUME NEW keep \in BOOLEAN, OtherReleases(keep) PROVE SessionInv'
  BY <1>3 DEF OtherReleases, SessionInv, Applied, Known, CurrentVars
<1>4. ASSUME NEW r \in Requests, Enqueue(r) \/ Cancel(r) PROVE SessionInv'
  BY <1>4 DEF Enqueue, Cancel, SessionInv, Applied, Known, CurrentVars
<1>5. ASSUME NEW keep \in BOOLEAN, OtherDies(keep) PROVE SessionInv'
  BY <1>5 DEF OtherDies, SessionInv
<1>. QED
  BY <1>1, <1>2, <1>3, <1>4, <1>5, OtherKnows

\* After a migration nothing is known of the connection, and nothing need be; one while a
\* state is being applied is what torn records.
LEMMA MigrationKnows ==
  ASSUME TypeInv, SessionInv,
         Migrate \/ MigrateFails \/ \E c \in Conns, keep \in BOOLEAN : Migrated(c, keep)
  PROVE  SessionInv'
<1>. USE DEF slot, requests, world, history
<1>1. CASE Migrate
  BY <1>1 DEF Migrate, SessionInv, Applied, Known, CurrentVars
<1>2. CASE MigrateFails
  <2>1. UNCHANGED <<phase, state, serving, drain, server>> /\ (~torn' => ~torn /\ conn' = conn)
        /\ (~strayed' => ~strayed)
    BY <1>2 DEF MigrateFails
  <2>. QED
    BY <2>1 DEF SessionInv, Applied, Known, CurrentVars
<1>3. ASSUME NEW c \in Conns, NEW keep \in BOOLEAN, Migrated(c, keep) PROVE SessionInv'
  <2>1. /\ state' = NoState /\ UNCHANGED <<phase, drain>>
        /\ ~torn' => drain.pc \notin {"use", "let"}
    BY <1>3 DEF Migrated
  <2>. QED
    BY <2>1 DEF SessionInv, Applied, Talking
<1>. QED
  BY <1>1, <1>2, <1>3

LEMMA StopKnows == ASSUME NEW keep, Stop(keep) PROVE SessionInv'
BY RestingType DEF Stop, SessionInv, Talking

\* A query is sent on the slot's connection once _state is the state it wants.
LEMMA SendsInState ==
  ASSUME TypeInv, Next, Sends
  PROVE  /\ drain'.conn = conn' /\ phase' = "running"
         /\ state' = StateOf[serving'] /\ state' \in States
<1>. USE DEF slot, requests, world, history
<1>1. Take \/ UseEnds \/ LetEnds
  <2>1. drain' # Resting /\ drain' # drain /\ drain'.pc # "checkout"
    BY RestingType DEF Sends
  <2>2. ~ \E keep \in BOOLEAN : Teleport(keep)
    BY <2>1 DEF Teleport, Resting
  <2>3. ~ \E c \in Conns : Teleported(c) \/ Start(c) \/ OtherAcquires(c)
    BY <2>1 DEF Teleported, Start, OtherAcquires
  <2>4. ~ (Skip \/ Answer \/ Error \/ GiveUp \/ TeleportFails)
    BY <2>1 DEF Skip, Answer, Error, GiveUp, TeleportFails, Finish
  <2>5. ~ \E r \in Requests : Enqueue(r) \/ Cancel(r)
    BY <2>1 DEF Enqueue, Cancel
  <2>6. ~ \E keep \in BOOLEAN : OtherReleases(keep) \/ OtherDies(keep) \/ Stop(keep)
    BY <2>1 DEF OtherReleases, OtherDies, Stop
  <2>7. ~ \E session \in Sessions : OtherRuns(session)
    BY <2>1 DEF OtherRuns
  <2>8. ~ (Migrate \/ MigrateFails \/ \E c \in Conns, keep \in BOOLEAN : Migrated(c, keep))
    BY <2>1 DEF Migrate, MigrateFails, Migrated
  <2>. QED
    BY <2>2, <2>3, <2>4, <2>5, <2>6, <2>7, <2>8 DEF Next, DrainStep
<1>2. ASSUME NEW want, NEW c, NEW lets, ApplyVars(want, c, lets)
      PROVE  state' = want /\ Send
  BY <1>2 DEF ApplyVars, Sends
<1>3. Send => drain'.conn = conn
  BY DEF Send, Resting
<1>4. CASE Take
  <2>1. phase' = "running" /\ conn' = conn /\ serving' \in Requests /\ serving' = Head(queue)
    BY <1>4 DEF Take, Waiting, TypeInv, TypeOK
  <2>2. ApplyState(StateOf[serving'])
    BY <1>4, <2>1 DEF Take
  <2>3. state' = StateOf[serving'] /\ Send
    BY <1>2, <2>2 DEF ApplyState, Sends
  <2>. QED
    BY <1>3, <2>1, <2>3, StatesAssumption
<1>5. CASE UseEnds
  <2>1. phase' = "running" /\ conn' = conn /\ serving' = serving /\ serving \in Requests
    BY <1>5 DEF UseEnds, TypeInv, TypeOK, Control
  <2>2. state' = StateOf[serving] /\ Send
    BY <1>2, <1>5 DEF UseEnds
  <2>. QED
    BY <1>3, <2>1, <2>2, StatesAssumption
<1>6. CASE LetEnds
  <2>1. phase' = "running" /\ conn' = conn /\ serving' = serving /\ serving \in Requests
    BY <1>6 DEF LetEnds, TypeInv, TypeOK, Control
  <2>2. PICK p \in drain.todo :
          \/ drain' = [drain EXCEPT !.todo = @ \ {p}]
          \/ state' = StateOf[serving] /\ Send
    BY <1>6 DEF LetEnds
  <2>3. drain.pc = "let"
    BY <1>6 DEF LetEnds
  <2>4. state' = StateOf[serving] /\ Send
    BY <2>2, <2>3 DEF Sends, TypeInv, TypeOK
  <2>. QED
    BY <1>3, <2>1, <2>4, StatesAssumption
<1>. QED
  BY <1>1, <1>4, <1>5, <1>6

\* For any sessions, connections and faults, and whatever the pool's other clients run, a
\* query is sent in the namespace and database of its session and with all its variables,
\* unless a state was left half applied, a migration overtook its application, or a slot
\* went on with a connection it had returned (_apply_state, _execute).
THEOREM SessionsIsolated == Spec => RunsAsItsSession
<1>1. Init => SessionInv
  BY RestingType DEF Init, SessionInv, Talking
<1>2. TypeInv /\ LeasesAgree /\ SessionInv /\ [Next]_vars => SessionInv'
  <2>. SUFFICES ASSUME TypeInv, LeasesAgree, SessionInv, [Next]_vars PROVE SessionInv'
    OBVIOUS
  <2>1. CASE UNCHANGED vars
    BY <2>1 DEF vars, slot, world, history, SessionInv, Applied, Known, CurrentVars
  <2>. QED
    BY <2>1, OutsideKnows, DrainKnows, MigrationKnows, StopKnows DEF Next
<1>3. TypeInv /\ SessionInv' /\ [Next]_vars =>
        [Sends /\ ~torn' /\ ~strayed' => Known(drain.conn, StateOf[serving])']_vars
  <2>. SUFFICES ASSUME TypeInv, SessionInv', Next, Sends, ~torn', ~strayed'
                PROVE  Known(drain.conn, StateOf[serving])'
    OBVIOUS
  <2>1. /\ drain'.conn = conn' /\ phase' = "running"
        /\ state' = StateOf[serving'] /\ state' # NoState
    BY SendsInState, StatesAssumption
  <2>2. Known(conn, state)'
    BY <2>1 DEF SessionInv, Applied, Sends
  <2>. QED
    BY <2>1, <2>2 DEF Known
<1>. QED
  BY <1>1, <1>2, <1>3, Typed, LeasesKept, PTL DEF Spec, RunsAsItsSession
====
