------------------------------ MODULE SlotProofs ------------------------------
(***************************************************************************)
(* Theorems about PhysicalSlot, for any number of requests, session states *)
(* and connections, any limit of retries and any number of permits.        *)
(***************************************************************************)
EXTENDS PhysicalSlot, SequenceLemmas

-----------------------------------------------------------------------------
(* Types *)

PoolStates  == [sem : Nat, idle : Seq(Conns), lent : SUBSET Conns]
DrainStates == [pc : Talking \cup {"idle", "checkout"}, conn : Conns \cup {NoConn},
                lets : BOOLEAN, todo : SUBSET Variables]

\* Where the drain loop is agrees with what the slot's fields say: it serves a request
\* unless it waits for one, the slot reconnects exactly while it awaits a checkout, and
\* only a running slot has a loop or a migration.
Control ==
  /\ phase = "running" => conn \in Conns
  /\ phase # "running" => drain.pc = "idle" /\ old = NoConn
  /\ drain.pc = "idle" <=> serving = NoRequest
  /\ phase = "running" => (drain.pc = "checkout" <=> health = "RECONNECTING")
  /\ phase = "new" => health = "HEALTHY"

TypeInv == TypeOK /\ Control

LEMMA RestingType == Resting \in DrainStates /\ Resting.pc = "idle"
BY DEF Resting, DrainStates

LEMMA CheckedOutType ==
  ASSUME NEW c \in Conns, pool \in PoolStates, Available(c)
  PROVE  CheckedOut(pool, c) \in PoolStates
<1>1. pool.sem - 1 \in Nat
  BY DEF Available, PoolStates
<1>2. (IF pool.idle # <<>> THEN Tail(pool.idle) ELSE <<>>) \in Seq(Conns)
  BY DEF PoolStates
<1>3. pool.lent \cup {c} \subseteq Conns
  BY DEF PoolStates
<1>. QED
  BY <1>1, <1>2, <1>3 DEF CheckedOut, PoolStates

LEMMA CheckedInType ==
  ASSUME NEW p \in PoolStates, NEW c \in Conns, NEW keep
  PROVE  CheckedIn(p, c, keep) \in PoolStates
<1>1. <<c>> \o p.idle \in Seq(Conns) /\ p.idle \in Seq(Conns)
  BY ElemsCons DEF PoolStates
<1>2. p.sem + 1 \in Nat /\ p.lent \ {c} \subseteq Conns
  BY DEF PoolStates
<1>. QED
  BY <1>1, <1>2 DEF CheckedIn, PoolStates

LEMMA OpenedType ==
  ASSUME server \in [Conns -> Sessions], NEW c
  PROVE  Opened(c) \in [Conns -> Sessions]
<1>1. [use |-> PoolUse, vars |-> {}] \in Sessions
  BY DEF Sessions
<1>. QED
  BY <1>1 DEF Opened

\* What the calls of the drain loop do to the sessions in the database.
LEMMA EffectTypes ==
  ASSUME TypeOK, drain.pc \in Talking, serving \in Requests, Effect \/ NoEffect
  PROVE  server' \in [Conns -> Sessions] /\ executed' \in [Requests -> Nat]
<1>1. CASE drain.pc = "use" /\ UseDone /\ executed' = executed
  <2>1. Use(StateOf[serving]) \in {Use(st) : st \in States}
    BY StatesAssumption
  <2>2. \A x \in Sessions : [x EXCEPT !.use = Use(StateOf[serving])] \in Sessions
    BY <2>1 DEF Sessions
  <2>. QED
    BY <1>1, <2>2 DEF UseDone, TypeOK
<1>2. ASSUME NEW p \in drain.todo, LetDone(p), executed' = executed
      PROVE  server' \in [Conns -> Sessions] /\ executed' \in [Requests -> Nat]
  <2>1. p \in Variables
    BY <1>2 DEF TypeOK
  <2>2. \A x \in Sessions : [x EXCEPT !.vars = Set(@, p)] \in Sessions
    BY <2>1 DEF Sessions, Set
  <2>. QED
    BY <1>2, <2>2 DEF LetDone, TypeOK
<1>3. CASE drain.pc = "query" /\ QueryDone /\ server' = server
  BY <1>3 DEF QueryDone, TypeOK
<1>4. CASE NoEffect
  BY <1>4 DEF NoEffect, TypeOK
<1>. QED
  BY <1>1, <1>2, <1>3, <1>4 DEF Effect

\* _apply_state either is done with the state or waits in USE or in a LET.
LEMMA ApplyVarsTypes ==
  ASSUME TypeOK, NEW want \in States, NEW c \in Conns \cup {NoConn}, NEW lets \in BOOLEAN,
         conn \in Conns, ApplyVars(want, c, lets)
  PROVE  /\ drain' \in DrainStates /\ drain'.pc \in Talking
         /\ state' \in {state, want}
<1>1. CASE state' = want /\ Send
  BY <1>1 DEF Send, Resting, DrainStates, Talking
<1>2. ASSUME NEW todo, todo \subseteq want.vars, state' = state,
             drain' = [pc |-> "let", conn |-> c, lets |-> lets, todo |-> todo]
      PROVE  drain' \in DrainStates /\ drain'.pc \in Talking
  <2>1. todo \subseteq Variables
    BY <1>2 DEF Variables
  <2>. QED
    BY <1>2, <2>1 DEF DrainStates, Talking
<1>. QED
  BY <1>1, <1>2 DEF ApplyVars

LEMMA ApplyStateTypes ==
  ASSUME TypeOK, NEW want \in States, conn \in Conns, ApplyState(want)
  PROVE  /\ drain' \in DrainStates /\ drain'.pc \in Talking
         /\ state' \in {state, want}
<1>1. NeedsVars(want) \in BOOLEAN
  BY DEF NeedsVars
<1>2. CASE ApplyVars(want, conn, NeedsVars(want))
  BY <1>1, <1>2, ApplyVarsTypes
<1>3. CASE state' = state /\ Send
  BY <1>3 DEF Send, Resting, DrainStates, Talking
<1>4. CASE /\ state' = state
           /\ drain' = [pc |-> "use", conn |-> conn, lets |-> NeedsVars(want), todo |-> {}]
  BY <1>1, <1>4 DEF DrainStates, Talking
<1>. QED
  BY <1>2, <1>3, <1>4 DEF ApplyState

LEMMA InitTypes == Init => TypeInv
<1>. SUFFICES ASSUME Init PROVE TypeInv
  OBVIOUS
<1>1. pool \in PoolStates /\ drain \in DrainStates
  BY RestingType, LimitsAssumption DEF Init, PoolStates
<1>2. server \in [Conns -> Sessions]
  <2>1. [use |-> PoolUse, vars |-> {}] \in Sessions
    BY DEF Sessions
  <2>. QED
    BY <2>1 DEF Init
<1>3. TypeOK
  <2>1. /\ phase = "new" /\ health = "HEALTHY" /\ torn = FALSE /\ strayed = FALSE
        /\ conn = NoConn /\ old = NoConn /\ other = NoConn
        /\ state = NoState /\ serving = NoRequest /\ queue \in Seq(Requests)
    BY DEF Init
  <2>2. /\ tries \in [Requests -> Nat] /\ executed \in [Requests -> Nat]
        /\ reply \in [Requests -> {"none", "pending", "ok", "error", "cancelled"}]
    BY DEF Init
  <2>. QED
    BY <1>1, <1>2, <2>1, <2>2 DEF TypeOK, PoolStates, DrainStates
<1>4. Control
  BY DEF Init, Control, Resting
<1>. QED
  BY <1>3, <1>4 DEF TypeInv

\* Other users of the pool, and of the slot.
LEMMA OutsideTypes ==
  ASSUME TypeInv,
         \/ \E c \in Conns : Start(c) \/ OtherAcquires(c)
         \/ \E session \in Sessions : OtherRuns(session)
         \/ \E keep \in BOOLEAN : OtherReleases(keep) \/ OtherDies(keep)
         \/ \E r \in Requests : Enqueue(r) \/ Cancel(r)
  PROVE  TypeInv'
<1>. USE DEF TypeInv, slot, requests, world, history
<1>1. ASSUME NEW c \in Conns, Start(c) PROVE TypeInv'
  <2>1. pool' \in PoolStates /\ server' \in [Conns -> Sessions]
    BY <1>1, CheckedOutType, OpenedType DEF Start, TypeOK, PoolStates
  <2>2. TypeOK'
    BY <1>1, <2>1 DEF Start, TypeOK, PoolStates
  <2>3. Control'
    BY <1>1 DEF Start, Control, TypeOK
  <2>. QED
    BY <2>2, <2>3
<1>2. ASSUME NEW c \in Conns, OtherAcquires(c) PROVE TypeInv'
  <2>1. pool' \in PoolStates /\ server' \in [Conns -> Sessions]
    BY <1>2, CheckedOutType, OpenedType DEF OtherAcquires, TypeOK, PoolStates
  <2>2. TypeOK'
    BY <1>2, <2>1 DEF OtherAcquires, TypeOK, PoolStates
  <2>3. Control'
    BY <1>2 DEF OtherAcquires, Control
  <2>. QED
    BY <2>2, <2>3
<1>3. ASSUME NEW keep \in BOOLEAN, OtherReleases(keep) PROVE TypeInv'
  <2>1. pool' \in PoolStates
    BY <1>3, CheckedInType DEF OtherReleases, TypeOK, PoolStates
  <2>2. TypeOK'
    BY <1>3, <2>1 DEF OtherReleases, TypeOK, PoolStates
  <2>3. Control'
    BY <1>3 DEF OtherReleases, Control
  <2>. QED
    BY <2>2, <2>3
<1>4. ASSUME NEW r \in Requests, Enqueue(r) PROVE TypeInv'
  BY <1>4, ElemsAppend DEF Enqueue, TypeOK, Control
<1>5. ASSUME NEW r \in Requests, Cancel(r) PROVE TypeInv'
  BY <1>5 DEF Cancel, TypeOK, Control
<1>6. ASSUME NEW session \in Sessions, OtherRuns(session) PROVE TypeInv'
  <2>1. server' \in [Conns -> Sessions]
    BY <1>6 DEF OtherRuns, TypeOK
  <2>. QED
    BY <1>6, <2>1 DEF OtherRuns, TypeOK, Control
<1>7. ASSUME NEW keep \in BOOLEAN, OtherDies(keep) PROVE TypeInv'
  <2>1. pool' \in PoolStates
    BY <1>7, CheckedInType DEF OtherDies, TypeOK, PoolStates
  <2>2. TypeOK'
    BY <1>7, <2>1 DEF OtherDies, TypeOK, PoolStates
  <2>3. Control'
    BY <1>7 DEF OtherDies, Control
  <2>. QED
    BY <2>2, <2>3
<1>. QED
  BY <1>1, <1>2, <1>3, <1>4, <1>5, <1>6, <1>7

\* A request is resolved with an answer.
LEMMA ResolvedType ==
  ASSUME TypeOK, NEW r, NEW a \in {"ok", "error"}
  PROVE  Resolved(r, a) \in [Requests -> {"none", "pending", "ok", "error", "cancelled"}]
BY DEF TypeOK, Resolved

LEMMA DrainTypes == ASSUME TypeInv, DrainStep PROVE TypeInv'
<1>. USE DEF TypeInv, slot, requests, world, history
<1>1. drain.pc # "idle" => phase = "running" /\ conn \in Conns /\ serving \in Requests
  BY DEF Control, TypeOK
<1>2. CASE Skip
  <2>1. queue' \in Seq(Requests)
    BY <1>2 DEF Skip, Waiting, TypeOK
  <2>2. TypeOK'
    BY <1>2, <2>1 DEF Skip, TypeOK
  <2>. QED
    BY <1>2, <2>2 DEF Skip, Control
<1>3. CASE Take
  <2>1. /\ queue' \in Seq(Requests) /\ serving' \in Requests
        /\ phase = "running" /\ drain.pc = "idle" /\ conn \in Conns
    BY <1>3 DEF Take, Waiting, TypeOK, Control
  <2>2. StateOf[Head(queue)] \in States
    BY <1>3, <2>1, StatesAssumption DEF Take
  <2>3. drain' \in DrainStates /\ drain'.pc \in Talking /\ state' \in States \cup {NoState}
    BY <1>3, <2>1, <2>2, ApplyStateTypes DEF Take, TypeOK
  <2>4. torn' \in BOOLEAN
    BY <1>3 DEF Take
  <2>5. TypeOK'
    BY <1>3, <2>1, <2>3, <2>4 DEF Take, TypeOK, DrainStates
  <2>6. Control'
    BY <1>3, <2>1, <2>3, RequestsAssumption DEF Take, Control, Talking
  <2>. QED
    BY <2>5, <2>6
<1>4. CASE UseEnds
  <2>1. StateOf[serving] \in States
    BY <1>1, <1>4, StatesAssumption DEF UseEnds
  <2>2. drain' \in DrainStates /\ drain'.pc \in Talking /\ state' \in States \cup {NoState}
    BY <1>1, <1>4, <2>1, ApplyVarsTypes DEF UseEnds, TypeOK
  <2>3. server' \in [Conns -> Sessions]
    <3>1. Effect \/ NoEffect
      BY <1>4 DEF UseEnds, Effect, history
    <3>. QED
      BY <1>1, <1>4, <3>1, EffectTypes DEF UseEnds, Talking
  <2>4. TypeOK'
    BY <1>4, <2>2, <2>3 DEF UseEnds, TypeOK, DrainStates
  <2>5. Control'
    BY <1>1, <1>4, <2>2 DEF UseEnds, Control, Talking
  <2>. QED
    BY <2>4, <2>5
<1>5. CASE LetEnds
  <2>1. StateOf[serving] \in States
    BY <1>1, <1>5, StatesAssumption DEF LetEnds
  <2>2. drain' \in DrainStates /\ drain'.pc \in Talking /\ state' \in States \cup {NoState}
    <3>1. PICK p \in drain.todo :
            \/ state' = state /\ drain' = [drain EXCEPT !.todo = @ \ {p}]
            \/ state' = StateOf[serving] /\ Send
      BY <1>5 DEF LetEnds
    <3>2. CASE state' = state /\ drain' = [drain EXCEPT !.todo = @ \ {p}]
      BY <1>5, <3>2 DEF LetEnds, TypeOK, DrainStates, Talking
    <3>3. CASE state' = StateOf[serving] /\ Send
      BY <1>1, <1>5, <2>1, <3>3 DEF LetEnds, Send, Resting, DrainStates, Talking
    <3>. QED
      BY <3>1, <3>2, <3>3
  <2>3. server' \in [Conns -> Sessions]
    <3>1. Effect \/ NoEffect
      BY <1>5 DEF LetEnds, Effect, history
    <3>. QED
      BY <1>1, <1>5, <3>1, EffectTypes DEF LetEnds, Talking
  <2>4. TypeOK'
    BY <1>5, <2>2, <2>3 DEF LetEnds, TypeOK, DrainStates
  <2>5. Control'
    BY <1>1, <1>5, <2>2 DEF LetEnds, Control, Talking
  <2>. QED
    BY <2>4, <2>5
<1>6. ASSUME CallFails PROVE
        /\ server' \in [Conns -> Sessions] /\ executed' \in [Requests -> Nat]
        /\ phase = "running" /\ conn \in Conns /\ serving \in Requests
        /\ drain.pc \in Talking /\ Abandoned \in BOOLEAN
  BY <1>1, <1>6, EffectTypes DEF CallFails, Talking, Abandoned
<1>7. CASE Answer
  <2>1. executed' \in [Requests -> Nat] /\ drain' = Resting /\ serving' = NoRequest
    BY <1>1, <1>7 DEF Answer, QueryDone, TypeOK, Finish
  <2>2. TypeOK'
    BY <1>7, <2>1, RestingType, ResolvedType DEF Answer, Finish, TypeOK, DrainStates
  <2>3. Control'
    BY <1>1, <1>7, <2>1, RestingType DEF Answer, Control
  <2>. QED
    BY <2>2, <2>3
<1>8. CASE Error
  <2>1. CallFails /\ drain' = Resting /\ serving' = NoRequest
    BY <1>8 DEF Error, CallFails, Finish
  <2>2. TypeOK'
    BY <1>6, <1>8, <2>1, RestingType, ResolvedType DEF Error, Finish, TypeOK, DrainStates
  <2>3. Control'
    BY <1>6, <1>8, <2>1, RestingType DEF Error, Control, Talking
  <2>. QED
    BY <2>2, <2>3
<1>9. CASE GiveUp
  <2>1. CallFails /\ drain' = Resting /\ serving' = NoRequest /\ tries' \in [Requests -> Nat]
    BY <1>6, <1>9 DEF GiveUp, Finish, TypeOK
  <2>2. TypeOK'
    BY <1>6, <1>9, <2>1, RestingType, ResolvedType DEF GiveUp, Finish, TypeOK, DrainStates
  <2>3. Control'
    BY <1>6, <1>9, <2>1, RestingType DEF GiveUp, Control, Talking
  <2>. QED
    BY <2>2, <2>3
<1>10. ASSUME NEW keep \in BOOLEAN, Teleport(keep) PROVE TypeInv'
  <2>1. CallFails /\ tries' \in [Requests -> Nat]
    BY <1>6, <1>10 DEF Teleport, TypeOK
  <2>2. pool' \in PoolStates
    BY <1>6, <1>10, <2>1, CheckedInType DEF Teleport, TypeOK, PoolStates
  <2>3. drain' \in DrainStates /\ drain'.pc = "checkout"
    BY <1>10 DEF Teleport, Resting, DrainStates
  <2>4. TypeOK'
    BY <1>6, <1>10, <2>1, <2>2, <2>3 DEF Teleport, TypeOK, PoolStates, DrainStates
  <2>5. Control'
    BY <1>6, <1>10, <2>1, <2>3, RequestsAssumption DEF Teleport, Control
  <2>. QED
    BY <2>4, <2>5
<1>11. ASSUME NEW c \in Conns, Teleported(c) PROVE TypeInv'
  <2>1. pool' \in PoolStates /\ server' \in [Conns -> Sessions]
    BY <1>11, CheckedOutType, OpenedType DEF Teleported, TypeOK, PoolStates
  <2>2. queue' \in Seq(Requests)
    BY <1>1, <1>11, ElemsAppend DEF Teleported, TypeOK
  <2>3. TypeOK'
    BY <1>11, <2>1, <2>2, RestingType DEF Teleported, TypeOK, PoolStates, DrainStates
  <2>4. Control'
    BY <1>1, <1>11, RestingType DEF Teleported, Control
  <2>. QED
    BY <2>3, <2>4
<1>12. CASE TeleportFails
  <2>1. drain' = Resting /\ serving' = NoRequest
    BY <1>12 DEF TeleportFails, Finish
  <2>2. TypeOK'
    BY <1>12, <2>1, RestingType, ResolvedType DEF TeleportFails, Finish, TypeOK, DrainStates
  <2>3. Control'
    BY <1>1, <1>12, <2>1, RestingType DEF TeleportFails, Control
  <2>. QED
    BY <2>2, <2>3
<1>. QED
  BY <1>2, <1>3, <1>4, <1>5, <1>7, <1>8, <1>9, <1>10, <1>11, <1>12 DEF DrainStep

LEMMA MigrationTypes ==
  ASSUME TypeInv,
         Migrate \/ MigrateFails \/ \E c \in Conns, keep \in BOOLEAN : Migrated(c, keep)
  PROVE  TypeInv'
<1>. USE DEF TypeInv, slot, requests, world, history
<1>1. CASE Migrate
  BY <1>1 DEF Migrate, TypeOK, Control
<1>2. CASE MigrateFails
  BY <1>2 DEF MigrateFails, TypeOK, Control
<1>3. ASSUME NEW c \in Conns, NEW keep \in BOOLEAN, Migrated(c, keep) PROVE TypeInv'
  <2>1. phase = "running" /\ old \in Conns
    BY <1>3 DEF Migrated, Control, TypeOK
  <2>2. pool' \in PoolStates /\ server' \in [Conns -> Sessions]
    BY <1>3, <2>1, CheckedOutType, CheckedInType, OpenedType
    DEF Migrated, TypeOK, PoolStates
  <2>3. TypeOK'
    BY <1>3, <2>2 DEF Migrated, TypeOK, PoolStates
  <2>4. Control'
    BY <1>3, <2>1 DEF Migrated, Control
  <2>. QED
    BY <2>3, <2>4
<1>. QED
  BY <1>1, <1>2, <1>3

LEMMA StopTypes == ASSUME TypeInv, NEW keep, Stop(keep) PROVE TypeInv'
<1>. USE DEF TypeInv
<1>1. phase = "running" /\ conn \in Conns
  BY DEF Stop, Control
<1>2. server' \in [Conns -> Sessions] /\ executed' \in [Requests -> Nat]
  <2>1. CASE drain.pc \in Talking
    <3>1. serving \in Requests
      BY <2>1 DEF Control, TypeOK, Talking
    <3>. QED
      BY <2>1, <3>1, EffectTypes DEF Stop
  <2>2. CASE drain.pc \notin Talking
    BY <2>2 DEF Stop, NoEffect, TypeOK
  <2>. QED
    BY <2>1, <2>2
<1>3. pool' \in PoolStates
  BY <1>1, CheckedInType DEF Stop, TypeOK, PoolStates
<1>4. TypeOK'
  BY <1>2, <1>3, RestingType DEF Stop, TypeOK, PoolStates, DrainStates
<1>5. Control'
  BY RestingType DEF Stop, Control
<1>. QED
  BY <1>4, <1>5

LEMMA StepTypes == TypeInv /\ [Next]_vars => TypeInv'
<1>1. ASSUME TypeInv, UNCHANGED vars PROVE TypeInv'
  BY <1>1 DEF vars, slot, requests, world, history, TypeInv, TypeOK, Control
<1>. QED
  BY <1>1, OutsideTypes, DrainTypes, MigrationTypes, StopTypes DEF Next

LEMMA Typed == Spec => []TypeInv
BY InitTypes, StepTypes, PTL DEF Spec

\* Every variable ranges over the values the code's fields can have.
THEOREM SlotTyped == Spec => []TypeOK
<1>1. TypeInv => TypeOK
  BY DEF TypeInv
<1>. QED
  BY <1>1, Typed, PTL

-----------------------------------------------------------------------------
(* Requests: where they are, how often they are tried and run *)

Waits(r) == r \in ToSet(queue) \cup {serving}

\* A request that waits has been tried less often than MAX_RETRIES allows, and run no
\* more often than tried: the next try may run it once more.
Counted ==
  \A r \in Requests :
    /\ reply[r] = "none" => tries[r] = 0 /\ executed[r] = 0
    /\ Waits(r) => tries[r] <= MaxRetries /\ executed[r] <= tries[r]
    /\ tries[r] <= MaxRetries + 1 /\ executed[r] <= MaxRetries + 1
    /\ reply[r] = "ok" => executed[r] >= 1

\* A slot that has not been started has been asked nothing.
Unasked == phase = "new" => \A r \in Requests : reply[r] = "none"

RequestInv == OnePlace /\ Counted /\ Unasked

LEMMA InitRequests == Init => RequestInv
<1>. SUFFICES ASSUME Init PROVE RequestInv
  OBVIOUS
<1>1. ToSet(queue) = {} /\ IsInjective(queue) /\ serving \notin Requests
  BY ElemsEmpty, RequestsAssumption DEF Init
<1>. QED
  BY <1>1, LimitsAssumption
     DEF Init, RequestInv, OnePlace, Counted, Unasked, Waits

\* A call runs the request it is for at most once.
LEMMA RunsOnce ==
  ASSUME TypeOK, serving \in Requests, Effect \/ NoEffect
  PROVE  executed' \in {executed, [executed EXCEPT ![serving] = @ + 1]}
BY DEF Effect, NoEffect, QueryDone

LEMMA SameRequests ==
  ASSUME RequestInv, UNCHANGED <<queue, serving, requests, executed>>,
         phase' = phase \/ phase = "new"
  PROVE  RequestInv'
BY DEF RequestInv, OnePlace, Counted, Unasked, Waits, requests

LEMMA AskedRequests ==
  ASSUME TypeInv, RequestInv, NEW r \in Requests, Enqueue(r) \/ Cancel(r)
  PROVE  RequestInv'
<1>. USE DEF TypeInv, TypeOK, RequestInv, Unasked, world, history
<1>1. CASE Enqueue(r)
  <2>1. /\ ~Waits(r) /\ tries[r] = 0 /\ executed[r] = 0
    BY <1>1 DEF Enqueue, OnePlace, Counted, Waits
  <2>2. ToSet(queue') = ToSet(queue) \cup {r} /\ IsInjective(queue')
    BY <1>1, <2>1, ElemsAppend DEF Enqueue, OnePlace, Waits
  <2>3. /\ serving' = serving /\ tries' = tries /\ executed' = executed /\ phase' = phase
        /\ reply' = [reply EXCEPT ![r] = "pending"] /\ phase # "new"
    BY <1>1 DEF Enqueue
  <2>4. OnePlace'
    BY <2>1, <2>2, <2>3 DEF OnePlace, Waits
  <2>5. Counted'
    BY <2>1, <2>2, <2>3, LimitsAssumption DEF Counted, Waits
  <2>. QED
    BY <2>3, <2>4, <2>5
<1>2. CASE Cancel(r)
  BY <1>2 DEF Cancel, OnePlace, Counted, Waits, slot
<1>. QED
  BY <1>1, <1>2

\* The request being served is answered.
LEMMA FinishedRequest ==
  ASSUME TypeInv, RequestInv, serving \in Requests, phase' = phase, queue' = queue,
         NEW a \in {"ok", "error"}, Finish(a),
         \/ tries' = tries
         \/ tries' = [tries EXCEPT ![serving] = @ + 1],
         executed' \in {executed, [executed EXCEPT ![serving] = @ + 1]},
         a = "ok" => executed' = [executed EXCEPT ![serving] = @ + 1]
  PROVE  RequestInv'
<1>. USE DEF TypeInv, TypeOK, RequestInv
<1>1. /\ serving' = NoRequest /\ serving' \notin Requests /\ ToSet(queue) \subseteq Requests
      /\ serving \notin ToSet(queue)
  BY RequestsAssumption, ElemsType DEF Finish, OnePlace
<1>2. \A r \in Requests : reply'[r] =
        IF r = serving /\ reply[r] = "pending" THEN a ELSE reply[r]
  BY DEF Finish, Resolved
<1>3. \A r \in Requests :
        /\ r # serving => tries'[r] = tries[r] /\ executed'[r] = executed[r]
        /\ Waits(r)' => Waits(r) /\ r # serving
  BY <1>1 DEF Waits
<1>4. OnePlace'
  BY <1>1, <1>2 DEF OnePlace
<1>5. /\ tries[serving] \in Nat /\ executed[serving] \in Nat /\ reply[serving] # "none"
      /\ tries[serving] <= MaxRetries /\ executed[serving] <= tries[serving]
      /\ tries'[serving] \in {tries[serving], tries[serving] + 1}
      /\ executed'[serving] \in {executed[serving], executed[serving] + 1}
      /\ a = "ok" => executed'[serving] = executed[serving] + 1
  BY DEF OnePlace, Counted, Waits
<1>6. \A r \in Requests : tries[r] \in Nat /\ executed[r] \in Nat
  OBVIOUS
<1>7. Counted'
  <2>. SUFFICES ASSUME NEW r \in Requests
                PROVE  /\ reply'[r] = "none" => tries'[r] = 0 /\ executed'[r] = 0
                       /\ Waits(r)' => tries'[r] <= MaxRetries /\ executed'[r] <= tries'[r]
                       /\ tries'[r] <= MaxRetries + 1 /\ executed'[r] <= MaxRetries + 1
                       /\ reply'[r] = "ok" => executed'[r] >= 1
    BY DEF Counted
  <2>1. CASE r = serving
    BY <1>2, <1>3, <1>5, <2>1, LimitsAssumption DEF Counted
  <2>2. CASE r # serving
    BY <1>2, <1>3, <2>2 DEF Counted
  <2>. QED
    BY <2>1, <2>2
<1>8. Unasked'
  BY <1>2, <1>5 DEF Unasked
<1>. QED
  BY <1>4, <1>7, <1>8

\* What the head of a queue without repetition leaves behind.
LEMMA HeadTaken ==
  ASSUME TypeInv, OnePlace, queue # <<>>
  PROVE  /\ Head(queue) \in Requests /\ Head(queue) \in ToSet(queue)
         /\ ToSet(Tail(queue)) = ToSet(queue) \ {Head(queue)} /\ IsInjective(Tail(queue))
<1>1. queue \in Seq(Requests) /\ IsInjective(queue)
  BY DEF TypeInv, TypeOK, OnePlace
<1>. QED
  BY <1>1, ElemsTail, ElemsExactTail

LEMMA DrainRequests == ASSUME TypeInv, RequestInv, DrainStep PROVE RequestInv'
<1>. USE DEF RequestInv
<1>1. drain.pc # "idle" => phase = "running" /\ serving \in Requests
  BY DEF TypeInv, Control, TypeOK
<1>2. ASSUME CallFails PROVE
        /\ serving \in Requests /\ phase = "running"
        /\ executed' \in {executed, [executed EXCEPT ![serving] = @ + 1]}
  BY <1>1, <1>2, RunsOnce DEF CallFails, Talking, TypeInv
<1>3. CASE Skip
  <2>1. /\ ToSet(queue') = ToSet(queue) \ {Head(queue)} /\ IsInjective(queue')
        /\ reply[Head(queue)] # "pending"
    BY <1>3, HeadTaken DEF Skip, Waiting
  <2>2. UNCHANGED <<phase, serving, tries, reply, executed>>
    BY <1>3 DEF Skip, requests, history
  <2>. QED
    BY <2>1, <2>2 DEF OnePlace, Counted, Unasked, Waits
<1>4. CASE Take
  <2>1. /\ ToSet(queue') = ToSet(queue) \ {Head(queue)} /\ IsInjective(queue')
        /\ Head(queue) \in ToSet(queue) /\ serving' = Head(queue)
    BY <1>4, HeadTaken DEF Take, Waiting
  <2>2. serving = NoRequest /\ serving \notin Requests
    BY <1>4, RequestsAssumption DEF Take, Waiting, TypeInv, Control
  <2>3. UNCHANGED <<phase, tries, reply, executed>>
    BY <1>4 DEF Take, requests
  <2>. QED
    BY <2>1, <2>2, <2>3 DEF OnePlace, Counted, Unasked, Waits
<1>5. CASE UseEnds \/ LetEnds
  BY <1>5, SameRequests DEF UseEnds, LetEnds, requests, history
<1>6. CASE Answer
  <2>1. serving \in Requests /\ executed' = [executed EXCEPT ![serving] = @ + 1]
    BY <1>1, <1>6 DEF Answer, QueryDone
  <2>. QED
    BY <1>6, <2>1, FinishedRequest DEF Answer
<1>7. CASE Error
  <2>1. CallFails
    BY <1>7 DEF Error, CallFails
  <2>. QED
    BY <1>2, <1>7, <2>1, FinishedRequest DEF Error
<1>8. CASE GiveUp
  <2>1. CallFails
    BY <1>8 DEF GiveUp
  <2>. QED
    BY <1>2, <1>8, <2>1, FinishedRequest DEF GiveUp
<1>9. ASSUME NEW keep \in BOOLEAN, Teleport(keep) PROVE RequestInv'
  <2>1. /\ serving \in Requests /\ phase = "running"
        /\ executed' \in {executed, [executed EXCEPT ![serving] = @ + 1]}
    BY <1>2, <1>9 DEF Teleport
  <2>2. /\ UNCHANGED <<phase, queue, serving, reply>> /\ tries[serving] < MaxRetries
        /\ tries' = [tries EXCEPT ![serving] = @ + 1]
    BY <1>9 DEF Teleport
  <2>3. /\ \A r \in Requests : tries[r] \in Nat /\ executed[r] \in Nat
        /\ \A r \in Requests \ {serving} :
             tries'[r] = tries[r] /\ executed'[r] = executed[r]
        /\ tries'[serving] = tries[serving] + 1 /\ reply[serving] # "none"
        /\ executed'[serving] \in {executed[serving], executed[serving] + 1}
        /\ executed[serving] <= tries[serving]
    BY <2>1, <2>2 DEF TypeInv, TypeOK, OnePlace, Counted, Waits
  <2>4. Counted'
    <3>. SUFFICES ASSUME NEW r \in Requests
                  PROVE  /\ reply'[r] = "none" => tries'[r] = 0 /\ executed'[r] = 0
                         /\ Waits(r)' => tries'[r] <= MaxRetries /\ executed'[r] <= tries'[r]
                         /\ tries'[r] <= MaxRetries + 1 /\ executed'[r] <= MaxRetries + 1
                         /\ reply'[r] = "ok" => executed'[r] >= 1
      BY DEF Counted
    <3>1. CASE r = serving
      BY <2>1, <2>2, <2>3, <3>1, LimitsAssumption DEF Counted
    <3>2. CASE r # serving
      BY <2>2, <2>3, <3>2 DEF Counted, Waits
    <3>. QED
      BY <3>1, <3>2
  <2>. QED
    BY <2>2, <2>4 DEF OnePlace, Unasked
<1>10. ASSUME NEW c \in Conns, Teleported(c) PROVE RequestInv'
  <2>1. serving \in Requests /\ serving \notin ToSet(queue) /\ IsInjective(queue)
    BY <1>1, <1>10 DEF Teleported, OnePlace
  <2>2. ToSet(queue') = ToSet(queue) \cup {serving} /\ IsInjective(queue')
    BY <1>10, <2>1, ElemsAppend DEF Teleported, TypeInv, TypeOK
  <2>3. /\ serving' = NoRequest /\ serving' \notin Requests
        /\ UNCHANGED <<phase, tries, reply, executed>>
    BY <1>10, RequestsAssumption DEF Teleported, requests, history
  <2>4. ToSet(queue') \subseteq Requests
    BY <2>1, <2>2, ElemsType DEF TypeInv, TypeOK
  <2>. QED
    BY <2>1, <2>2, <2>3, <2>4 DEF OnePlace, Counted, Unasked, Waits
<1>11. CASE TeleportFails
  BY <1>1, <1>11, FinishedRequest DEF TeleportFails
<1>. QED
  BY <1>3, <1>4, <1>5, <1>6, <1>7, <1>8, <1>9, <1>10, <1>11 DEF DrainStep

LEMMA StopRequests == ASSUME TypeInv, RequestInv, NEW keep, Stop(keep) PROVE RequestInv'
<1>. USE DEF RequestInv
<1>1. /\ ToSet(queue') = {} /\ IsInjective(queue') /\ serving' = NoRequest
      /\ serving' \notin Requests /\ tries' = tries /\ phase' = "stopped"
  BY ElemsEmpty, RequestsAssumption DEF Stop
<1>2. \A r \in Requests : reply'[r] =
        IF reply[r] = "pending" /\ r \in ToSet(queue) THEN "error" ELSE reply[r]
  BY DEF Stop
<1>3. \/ executed' = executed
      \/ serving \in Requests /\ executed' = [executed EXCEPT ![serving] = @ + 1]
  <2>1. CASE drain.pc \in Talking
    <3>1. serving \in Requests
      BY <2>1 DEF TypeInv, Control, TypeOK, Talking
    <3>. QED
      BY <2>1, <3>1, RunsOnce DEF Stop, TypeInv
  <2>2. CASE drain.pc \notin Talking
    BY <2>2 DEF Stop, NoEffect
  <2>. QED
    BY <2>1, <2>2
<1>4. OnePlace' /\ Unasked'
  BY <1>1 DEF OnePlace, Unasked
<1>5. Counted'
  <2>. SUFFICES ASSUME NEW r \in Requests
                PROVE  /\ reply'[r] = "none" => tries[r] = 0 /\ executed'[r] = 0
                       /\ tries[r] <= MaxRetries + 1 /\ executed'[r] <= MaxRetries + 1
                       /\ reply'[r] = "ok" => executed'[r] >= 1
    BY <1>1 DEF Counted, Waits
  <2>1. tries[r] \in Nat /\ executed[r] \in Nat
    BY DEF TypeInv, TypeOK
  <2>2. CASE executed'[r] = executed[r]
    BY <1>2, <2>1, <2>2 DEF Counted
  <2>3. CASE serving = r /\ executed'[r] = executed[r] + 1
    BY <1>2, <2>1, <2>3, LimitsAssumption DEF Counted, Waits, OnePlace
  <2>. QED
    BY <1>3, <2>2, <2>3 DEF TypeInv, TypeOK
<1>. QED
  BY <1>4, <1>5

LEMMA StepRequests == TypeInv /\ RequestInv /\ [Next]_vars => RequestInv'
<1>. SUFFICES ASSUME TypeInv, RequestInv, [Next]_vars PROVE RequestInv'
  OBVIOUS
<1>. USE SameRequests DEF slot, requests, world, history
<1>1. CASE UNCHANGED vars
  BY <1>1 DEF vars
<1>2. CASE \E c \in Conns : Start(c) \/ OtherAcquires(c)
  BY <1>2 DEF Start, OtherAcquires
<1>3. CASE \/ \E session \in Sessions : OtherRuns(session)
           \/ \E keep \in BOOLEAN : OtherReleases(keep) \/ OtherDies(keep)
  BY <1>3 DEF OtherRuns, OtherReleases, OtherDies
<1>4. CASE Migrate \/ MigrateFails \/ \E c \in Conns, keep \in BOOLEAN : Migrated(c, keep)
  BY <1>4 DEF Migrate, MigrateFails, Migrated
<1>. QED
  BY <1>1, <1>2, <1>3, <1>4, AskedRequests, DrainRequests, StopRequests DEF Next

LEMMA RequestsSound == Spec => []RequestInv
BY InitRequests, StepRequests, Typed, PTL DEF Spec

\* No request is lost or doubled through teleports, retries and cancellations: one that
\* waits for its reply is in the queue once or is being served, not both (_drain_loop,
\* _handle_connection_failure).
THEOREM RequestsInOnePlace == Spec => []OnePlace
<1>1. RequestInv => OnePlace
  BY DEF RequestInv
<1>. QED
  BY <1>1, RequestsSound, PTL

\* The database runs a request at most once per try, and it is tried at most
\* 1 + MAX_RETRIES times (_handle_connection_failure).
THEOREM RunsBounded == Spec => []TriesBoundRuns
<1>1. RequestInv => TriesBoundRuns
  BY DEF RequestInv, Counted, Waits, TriesBoundRuns
<1>. QED
  BY <1>1, RequestsSound, PTL

-----------------------------------------------------------------------------
(* The slot implements RequestSlots *)

\* What the promise speaks of.
Seen == <<phase, queue, serving, health, state, tries, reply>>

LEMMA SameSeen == UNCHANGED Seen => UNCHANGED Slot!slotVars
BY DEF Seen, Slot!slotVars, Slot!slots, Slot!requests

LEMMA InitPromise == Init => Slot!Init
BY DEF Init, Slot!Init

LEMMA OutsidePromise ==
  ASSUME TypeInv,
         \/ \E c \in Conns : Start(c) \/ OtherAcquires(c)
         \/ \E session \in Sessions : OtherRuns(session)
         \/ \E keep \in BOOLEAN : OtherReleases(keep) \/ OtherDies(keep)
         \/ \E r \in Requests : Enqueue(r) \/ Cancel(r)
  PROVE  Slot!Next \/ UNCHANGED Seen
<1>. USE DEF slot, requests, world, history
<1>1. ASSUME NEW c \in Conns, Start(c) PROVE Slot!Start("slot")
  BY <1>1 DEF Start, Slot!Start, Slot!requests
<1>2. CASE \/ \E c \in Conns : OtherAcquires(c)
           \/ \E session \in Sessions : OtherRuns(session)
           \/ \E keep \in BOOLEAN : OtherReleases(keep) \/ OtherDies(keep)
  BY <1>2 DEF OtherAcquires, OtherRuns, OtherReleases, OtherDies, Seen
<1>3. ASSUME NEW r \in Requests, Enqueue(r) PROVE Slot!Enqueue("slot", r)
  BY <1>3 DEF Enqueue, Slot!Enqueue
<1>4. ASSUME NEW r \in Requests, Cancel(r) PROVE Slot!Cancel(r)
  BY <1>4 DEF Cancel, Slot!Cancel, Slot!slots
<1>. QED
  BY <1>1, <1>2, <1>3, <1>4 DEF Slot!Next

LEMMA DrainPromise ==
  ASSUME TypeInv, RequestInv, DrainStep
  PROVE  Slot!Serve("slot") \/ UNCHANGED Seen
<1>. USE DEF slot, requests, world, history
<1>1. drain.pc # "idle" => phase = "running" /\ serving \in Requests /\ conn \in Conns
  BY DEF TypeInv, Control, TypeOK
<1>2. drain.pc = "idle" <=> serving = NoRequest
  BY DEF TypeInv, Control
<1>3. phase = "running" => (drain.pc = "checkout" <=> health = "RECONNECTING")
  BY DEF TypeInv, Control
<1>4. drain.pc \in Talking => Slot!Busy("slot")
  BY <1>1, <1>3, RequestsAssumption DEF Slot!Busy, Talking
<1>5. drain.pc = "checkout" => Slot!Teleporting("slot")
  BY <1>1, <1>3, RequestsAssumption DEF Slot!Teleporting
<1>6. Waiting => Slot!Idle("slot")
  BY <1>2 DEF Waiting, Slot!Idle
<1>7. CASE Skip
  BY <1>6, <1>7 DEF Skip, Slot!Skip, Slot!requests, Slot!Serve, Slot!Progress
<1>8. CASE Take
  <2>1. Head(queue) \in Requests /\ StateOf[Head(queue)] \in States /\ conn \in Conns
    BY <1>8, HeadTaken, StatesAssumption
       DEF Take, Waiting, RequestInv, TypeInv, Control
  <2>2. state' \in {state, StateOf[Head(queue)]}
    BY <1>8, <2>1, ApplyStateTypes DEF Take, TypeInv
  <2>. QED
    BY <1>6, <1>8, <2>2 DEF Take, Slot!Take, Slot!requests, Slot!Serve, Slot!Progress
<1>9. CASE UseEnds \/ LetEnds
  <2>1. StateOf[serving] \in States /\ drain.pc \in Talking
    BY <1>1, <1>9, StatesAssumption DEF UseEnds, LetEnds, Talking
  <2>2. state' \in {state, StateOf[serving]}
    <3>1. CASE UseEnds
      BY <1>1, <2>1, <3>1, ApplyVarsTypes DEF UseEnds, Talking, TypeInv, TypeOK
    <3>2. CASE LetEnds
      BY <3>2 DEF LetEnds
    <3>. QED
      BY <1>9, <3>1, <3>2
  <2>3. UNCHANGED <<phase, queue, serving, health, tries, reply>>
    BY <1>9 DEF UseEnds, LetEnds
  <2>4. CASE state' = state
    BY <2>3, <2>4 DEF Seen
  <2>5. CASE state' = StateOf[serving]
    BY <1>4, <2>1, <2>3, <2>5 DEF Slot!SwitchState, Slot!requests, Slot!Serve
  <2>. QED
    BY <2>2, <2>4, <2>5
<1>10. ASSUME NEW a \in {"ok", "error"}, Finish(a)
       PROVE  reply' = Slot!Resolved(serving, a) /\ serving' = NoRequest
  BY <1>10 DEF Finish, Resolved, Slot!Resolved
<1>11. CASE Answer \/ Error
  <2>1. PICK a \in {"ok", "error"} : Finish(a)
    BY <1>11 DEF Answer, Error
  <2>2. drain.pc \in Talking /\ UNCHANGED <<phase, queue, health, state, tries>>
    BY <1>11 DEF Answer, Error, Talking
  <2>3. Slot!Answer("slot")
    BY <1>4, <1>10, <2>1, <2>2 DEF Slot!Answer
  <2>. QED
    BY <2>3 DEF Slot!Serve, Slot!Progress
<1>12. CASE GiveUp
  <2>1. drain.pc \in Talking /\ serving \in Requests /\ tries[serving] >= MaxRetries
    BY <1>1, <1>12 DEF GiveUp, CallFails, Talking
  <2>2. tries[serving] = MaxRetries
    BY <2>1, LimitsAssumption
       DEF TypeInv, TypeOK, RequestInv, Counted, Waits
  <2>3. Slot!GiveUp("slot")
    BY <1>4, <1>10, <1>12, <2>1, <2>2 DEF GiveUp, Slot!GiveUp
  <2>. QED
    BY <2>3 DEF Slot!Serve, Slot!Progress
<1>13. ASSUME NEW keep \in BOOLEAN, Teleport(keep) PROVE Slot!Reconnect("slot")
  BY <1>4, <1>13 DEF Teleport, CallFails, Slot!Reconnect
<1>14. ASSUME NEW c \in Conns, Teleported(c) PROVE Slot!Requeue("slot")
  BY <1>5, <1>14 DEF Teleported, Slot!Requeue, Slot!requests
<1>15. CASE TeleportFails
  <2>1. Slot!Die("slot")
    BY <1>5, <1>10, <1>15 DEF TeleportFails, Slot!Die
  <2>. QED
    BY <2>1 DEF Slot!Serve, Slot!Progress
<1>. QED
  BY <1>7, <1>8, <1>9, <1>11, <1>12, <1>13, <1>14, <1>15
     DEF DrainStep, Slot!Serve, Slot!Progress

LEMMA MigrationPromise ==
  ASSUME TypeInv,
         Migrate \/ MigrateFails \/ \E c \in Conns, keep \in BOOLEAN : Migrated(c, keep)
  PROVE  Slot!Forget("slot") \/ UNCHANGED Seen
<1>. USE DEF slot, requests, world, history
<1>1. CASE Migrate \/ MigrateFails
  BY <1>1 DEF Migrate, MigrateFails, Seen
<1>2. ASSUME NEW c \in Conns, NEW keep \in BOOLEAN, Migrated(c, keep)
      PROVE  Slot!Forget("slot")
  <2>1. phase = "running"
    BY <1>2 DEF Migrated, TypeInv, TypeOK, Control
  <2>. QED
    BY <1>2, <2>1 DEF Migrated, Slot!Forget, Slot!requests
<1>. QED
  BY <1>1, <1>2

LEMMA StopPromise == ASSUME NEW keep, Stop(keep) PROVE Slot!Stop("slot")
<1>. DEFINE Queued(r) == \E i \in DOMAIN queue : queue[i] = r
            Failed(r) == IF reply[r] = "pending" /\ r \in ToSet(queue) THEN "error" ELSE reply[r]
            Promised(r) == IF reply[r] = "pending" /\ Queued(r) THEN "error" ELSE reply[r]
<1>1. \A r : r \in ToSet(queue) <=> Queued(r)
  BY DEF ToSet
<1>2. \A r : Failed(r) = Promised(r)
  <2>. HIDE DEF Queued
  <2>. QED
    BY <1>1
<1>3. reply' = [r \in Requests |-> Failed(r)]
  BY DEF Stop
<1>4. reply' = [r \in Requests |-> Promised(r)]
  <2>. HIDE DEF Failed, Promised
  <2>. QED
    BY <1>2, <1>3
<1>5. phase = "running" /\ phase' = "stopped" /\ queue' = <<>> /\ serving' = NoRequest
      /\ UNCHANGED <<health, state, tries>>
  BY DEF Stop
<1>. QED
  BY <1>4, <1>5 DEF Slot!Stop

\* The slot keeps what its router relies on (module Multiplexer): the steps of its drain
\* loop, of a migration and of stop() are those RequestSlots allows, or invisible.
THEOREM SlotKeepsPromise == Spec => KeepsPromise
<1>1. TypeInv /\ RequestInv /\ [Next]_vars => [Slot!Next]_(Slot!slotVars)
  <2>. SUFFICES ASSUME TypeInv, RequestInv, [Next]_vars
                PROVE  Slot!Next \/ UNCHANGED Slot!slotVars
    OBVIOUS
  <2>1. CASE UNCHANGED vars
    BY <2>1, SameSeen DEF vars, slot, requests, Seen
  <2>2. CASE Next
    BY <2>2, OutsidePromise, DrainPromise, MigrationPromise, StopPromise, SameSeen
       DEF Next, Slot!Next
  <2>. QED
    BY <2>1, <2>2
<1>. QED
  BY <1>1, InitPromise, Typed, RequestsSound, PTL DEF Spec, KeepsPromise, Slot!Spec
====
