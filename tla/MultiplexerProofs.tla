-------------------------- MODULE MultiplexerProofs --------------------------
(***************************************************************************)
(* Theorems about Multiplexer, for any number of slots, sessions and       *)
(* requests, and queues of any length.                                     *)
(***************************************************************************)
EXTENDS Multiplexer, SequenceLemmas

-----------------------------------------------------------------------------
(* Types *)

SlotTypes ==
  /\ phase \in [Slots -> {"new", "running", "stopped"}]
  /\ queue \in [Slots -> Seq(Requests)]
  /\ serving \in [Slots -> Requests \cup {NoRequest}]
  /\ health \in [Slots -> {"HEALTHY", "RECONNECTING", "DEAD"}]
  /\ state \in [Slots -> States \cup {NoState}]
  /\ tries \in [Requests -> Nat]
  /\ reply \in [Requests -> {"none", "pending", "ok", "error", "cancelled"}]

ControlTypes ==
  /\ ctl \in {"new", "starting", "failed", "running", "stopping", "stopped"}
  /\ listed \in 0..NumSlots /\ tasks \in BOOLEAN

SessionTypes ==
  /\ status \in [Sessions -> {"none", "IDLE", "QUEUED", "EXECUTING", "EXPIRED", "CLOSED"}]
  /\ wants \in [Sessions -> States \cup {NoState}] /\ registered \subseteq Sessions
  /\ owner \in [Requests -> Sessions \cup {NoSession}]
  /\ awaited \subseteq Requests /\ outlived \subseteq Requests

LEMMA TypesSplit == TypeOK <=> SlotTypes /\ ControlTypes /\ SessionTypes
BY DEF TypeOK, SlotTypes, ControlTypes, SessionTypes

LEMMA ServeTypes ==
  ASSUME SlotTypes, NEW s \in Slots, P!Serve(s)
  PROVE  SlotTypes' /\ phase' = phase
<1>. USE DEF SlotTypes, P!requests, P!Resolved
<1>1. CASE P!Skip(s)
  <2>1. Tail(queue[s]) \in Seq(Requests)
    BY <1>1 DEF P!Skip, P!Idle
  <2>. QED
    BY <1>1, <2>1 DEF P!Skip
<1>2. CASE P!Take(s)
  <2>1. Tail(queue[s]) \in Seq(Requests) /\ Head(queue[s]) \in Requests
    BY <1>2 DEF P!Take, P!Idle
  <2>2. StateOf[Head(queue[s])] \in States
    BY <2>1, StatesAssumption
  <2>. QED
    BY <1>2, <2>1, <2>2 DEF P!Take
<1>3. ASSUME P!Busy(s) \/ P!Teleporting(s) PROVE serving[s] \in Requests
  BY <1>3 DEF P!Busy, P!Teleporting
<1>4. CASE P!SwitchState(s)
  BY <1>3, <1>4, StatesAssumption DEF P!SwitchState
<1>5. CASE P!Answer(s)
  <2>1. PICK a \in {"ok", "error"} : reply' = P!Resolved(serving[s], a)
    BY <1>5 DEF P!Answer
  <2>2. serving' \in [Slots -> Requests \cup {NoRequest}]
        /\ UNCHANGED <<phase, queue, health, state, tries>>
    BY <1>5 DEF P!Answer
  <2>. QED
    BY <2>1, <2>2
<1>6. CASE P!Reconnect(s)
  BY <1>3, <1>6 DEF P!Reconnect
<1>7. CASE P!GiveUp(s)
  BY <1>3, <1>7 DEF P!GiveUp
<1>8. CASE P!Requeue(s)
  <2>1. Append(queue[s], serving[s]) \in Seq(Requests)
    BY <1>3, <1>8, ElemsAppend DEF P!Requeue
  <2>. QED
    BY <1>8, <2>1 DEF P!Requeue
<1>9. CASE P!Die(s)
  BY <1>9 DEF P!Die
<1>. QED
  BY <1>1, <1>2, <1>4, <1>5, <1>6, <1>7, <1>8, <1>9 DEF P!Serve, P!Progress

LEMMA OtherSlotTypes ==
  ASSUME SlotTypes,
         \/ \E s \in Slots : P!Start(s) \/ P!Forget(s) \/ P!Stop(s)
         \/ \E s \in Slots, r \in Requests : P!Enqueue(s, r)
         \/ \E r \in Requests : P!Cancel(r)
  PROVE  SlotTypes'
<1>. USE DEF SlotTypes, P!requests, P!slots
<1>1. ASSUME NEW s \in Slots, NEW r \in Requests, P!Enqueue(s, r) PROVE SlotTypes'
  <2>1. Append(queue[s], r) \in Seq(Requests)
    BY ElemsAppend
  <2>. QED
    BY <1>1, <2>1 DEF P!Enqueue
<1>2. ASSUME NEW s \in Slots, P!Stop(s) PROVE SlotTypes'
  <2>1. <<>> \in Seq(Requests)
    OBVIOUS
  <2>. QED
    BY <1>2, <2>1 DEF P!Stop
<1>. QED
  BY <1>1, <1>2 DEF P!Start, P!Forget, P!Cancel

-----------------------------------------------------------------------------
(* Routing *)

LEMMA ScoreType ==
  ASSUME SlotTypes, NEW s \in Slots, NEW want
  PROVE  /\ Len(queue[s]) \in Nat
         /\ Affinity(state[s], want) \in {0, 200, 500, 1000} /\ Score(s, want) \in Int
         /\ Affinity(state[s], want) = 1000 => state[s] = want
<1>1. Len(queue[s]) \in Nat
  BY LenProperties DEF SlotTypes
<1>2. Affinity(state[s], want) \in {0, 200, 500, 1000}
      /\ (Affinity(state[s], want) = 1000 => state[s] = want)
  BY DEF Affinity
<1>. QED
  BY <1>1, <1>2 DEF Score

\* The router chooses a slot of the list, one that no other beats if any is eligible.
LEMMA RouteBest ==
  ASSUME SlotTypes, listed = NumSlots, NEW want
  PROVE  /\ Route(want) \in Slots
         /\ \A t \in Slots : Eligible(t, want) =>
              Eligible(Route(want), want) /\ Score(t, want) <= Score(Route(want), want)
<1>. DEFINE candidates == {s \in 1..listed : Eligible(s, want)}
<1>1. Slots = 1..listed /\ Slots \subseteq Int /\ 1 \in Slots
  BY NumbersAssumption DEF Slots
<1>2. CASE candidates = {}
  BY <1>1, <1>2 DEF Route
<1>3. CASE candidates # {}
  <2>1. candidates \subseteq Slots /\ IsFiniteSet(candidates)
    <3>1. IsFiniteSet(1..listed)
      BY FS_Interval, NumbersAssumption
    <3>2. candidates \subseteq 1..listed
      OBVIOUS
    <3>. HIDE DEF candidates
    <3>. QED
      BY <1>1, <3>1, <3>2, FS_Subset
  <2>2. Best(candidates, want) # {}
    <3>. DEFINE f == [s \in candidates |-> 0 - Score(s, want)]
    <3>1. \A s \in candidates : Score(s, want) \in Int
      BY <2>1, ScoreType
    <3>2. f \in [candidates -> Int]
      BY <3>1
    <3>. HIDE DEF candidates
    <3>3. PICK u \in candidates : \A v \in candidates : f[u] <= f[v]
      <4>. HIDE DEF f
      <4>. QED
        BY <1>3, <2>1, <3>2, LeastValue
    <3>4. \A v \in candidates : Score(v, want) <= Score(u, want)
      BY <3>1, <3>3
    <3>. QED
      BY <3>4 DEF Best
  <2>3. Best(candidates, want) \subseteq Int /\ IsFiniteSet(Best(candidates, want))
    BY <1>1, <2>1, FS_Subset DEF Best
  <2>4. Min(Best(candidates, want)) \in Best(candidates, want)
    BY <2>2, <2>3, LeastOfFinite DEF Min
  <2>5. Route(want) = Min(Best(candidates, want))
    BY <1>3 DEF Route
  <2>. QED
    BY <1>1, <2>1, <2>4, <2>5 DEF Best
<1>. QED
  BY <1>2, <1>3

-----------------------------------------------------------------------------
(* The list of slots, the registry of sessions and who asks *)

\* start() adds one slot at a time; a query belongs to a session that exists.
Control ==
  /\ ctl \in {"new", "starting"} => listed < NumSlots
  /\ \A r \in Requests : owner[r] # NoSession => reply[r] # "none" /\ status[owner[r]] # "none"
  /\ \A r \in awaited : owner[r] # NoSession

\* A session that is idle while a query of its own is awaited has had another one return
\* meanwhile.
Asking == \A r \in awaited : status[owner[r]] = "IDLE" => r \in outlived

MuxInv ==
  /\ SlotTypes /\ ControlTypes /\ SessionTypes
  /\ Control /\ Asking /\ RunningSlotsListed /\ RegisteredAreActive

LEMMA InitMux == Init => MuxInv
<1>. SUFFICES ASSUME Init PROVE MuxInv
  OBVIOUS
<1>1. SlotTypes
  BY DEF Init, P!Init, SlotTypes
<1>2. ControlTypes /\ SessionTypes
  <2>1. ctl = "new" /\ listed = 0 /\ tasks = FALSE
    BY DEF Init
  <2>2. listed \in 0..NumSlots
    BY <2>1, NumbersAssumption
  <2>. QED
    BY <2>1, <2>2 DEF Init, ControlTypes, SessionTypes
<1>3. Control /\ Asking
  BY NumbersAssumption DEF Init, Control, Asking
<1>4. RunningSlotsListed
  BY DEF Init, P!Init, RunningSlotsListed
<1>5. RegisteredAreActive
  BY NumbersAssumption, FS_EmptySet DEF Init, RegisteredAreActive
<1>. QED
  BY <1>1, <1>2, <1>3, <1>4, <1>5 DEF MuxInv

LEMMA CountRegistered ==
  ASSUME SessionTypes
  PROVE  /\ MaxSessions \in Nat
         /\ Cardinality(registered) <= MaxSessions =>
              \A X : Cardinality(registered \ X) <= MaxSessions
         /\ Cardinality(registered) < MaxSessions =>
              \A x : Cardinality(registered \cup {x}) <= MaxSessions
<1>1. IsFiniteSet(registered) /\ Cardinality(registered) \in Nat
  BY SessionsAssumption, FS_Subset, FS_CardinalityType DEF SessionTypes
<1>2. MaxSessions \in Nat
  BY NumbersAssumption
<1>3. ASSUME NEW X
      PROVE  /\ Cardinality(registered \ X) \in Nat
             /\ Cardinality(registered \ X) <= Cardinality(registered)
  BY <1>1, FS_Subset, FS_CardinalityType
<1>4. ASSUME NEW x
      PROVE  Cardinality(registered \cup {x}) \in {Cardinality(registered), Cardinality(registered) + 1}
  <2>1. CASE x \in registered
    <3>1. registered \cup {x} = registered
      BY <2>1
    <3>. QED
      BY <3>1
  <2>2. CASE x \notin registered
    BY <1>1, <2>2, FS_AddElement
  <2>. QED
    BY <2>1, <2>2
<1>. QED
  BY <1>1, <1>2, <1>3, <1>4

\* A step that leaves sessions and who asks alone, and un-asks no request.
LEMMA SessionsAlone ==
  ASSUME Asking, RegisteredAreActive, UNCHANGED <<session, asking>>
  PROVE  Asking' /\ RegisteredAreActive'
BY DEF session, asking, Asking, RegisteredAreActive, Active

\* What a step of a slot does to requests: those asked remain so.
LEMMA RepliesKeep ==
  ASSUME SlotTypes,
         \/ \E s \in Slots : P!Start(s) \/ P!Serve(s) \/ P!Forget(s) \/ P!Stop(s)
         \/ \E s \in Slots, r \in Requests : P!Enqueue(s, r)
         \/ \E r \in Requests : P!Cancel(r)
  PROVE  \A r \in Requests : reply[r] # "none" => reply'[r] # "none"
<1>. USE DEF SlotTypes, P!requests, P!slots, P!Resolved
<1>1. ASSUME NEW s \in Slots, P!Serve(s)
      PROVE  \A r \in Requests : reply[r] # "none" => reply'[r] # "none"
  BY <1>1 DEF P!Serve, P!Progress, P!Skip, P!Take, P!SwitchState, P!Answer, P!Reconnect,
              P!GiveUp, P!Requeue, P!Die
<1>2. ASSUME NEW s \in Slots, P!Stop(s)
      PROVE  \A r \in Requests : reply[r] # "none" => reply'[r] # "none"
  BY <1>2 DEF P!Stop
<1>. QED
  BY <1>1, <1>2 DEF P!Start, P!Forget, P!Enqueue, P!Cancel

\* Steps of drain loops and migrations.
LEMMA ServeKeeps ==
  ASSUME MuxInv, NEW s \in Slots, Serve(s) \/ Migrate(s)
  PROVE  MuxInv'
<1>1. SlotTypes /\ ControlTypes /\ SessionTypes
  BY DEF MuxInv
<1>2. SlotTypes' /\ phase' = phase /\ UNCHANGED <<control, session, asking>>
  <2>1. CASE Serve(s)
    BY <1>1, <2>1, ServeTypes DEF Serve
  <2>2. CASE Migrate(s)
    BY <1>1, <2>2, OtherSlotTypes DEF Migrate, P!Forget
  <2>. QED
    BY <2>1, <2>2
<1>3. ControlTypes' /\ SessionTypes'
  BY <1>1, <1>2 DEF ControlTypes, SessionTypes, control, session, asking
<1>4. \A r \in Requests : reply[r] # "none" => reply'[r] # "none"
  BY <1>1, RepliesKeep DEF Serve, Migrate
<1>5. Control'
  BY <1>1, <1>2, <1>4 DEF MuxInv, Control, control, session, asking, SessionTypes
<1>6. RunningSlotsListed'
  BY <1>2 DEF MuxInv, RunningSlotsListed, control
<1>. QED
  BY <1>2, <1>3, <1>5, <1>6, SessionsAlone DEF MuxInv

\* start() and stop()
LEMMA LifeKeeps ==
  ASSUME MuxInv, StartSlot \/ StartFails \/ StopBegin \/ StopEnd \/ \E s \in Slots : StopSlot(s)
  PROVE  MuxInv'
<1>1. SlotTypes /\ ControlTypes /\ SessionTypes
  BY DEF MuxInv
<1>2. SessionTypes' /\ Asking' /\ RegisteredAreActive' /\ owner' = owner /\ status' = status
      /\ UNCHANGED <<awaited, outlived>>
  <2>1. CASE StopEnd
    <3>1. registered' = {} /\ UNCHANGED <<status, wants, owner, awaited, outlived>>
      BY <2>1 DEF StopEnd, asking
    <3>. QED
      BY <1>1, <3>1, NumbersAssumption, FS_EmptySet
         DEF MuxInv, SessionTypes, Asking, RegisteredAreActive
  <2>2. CASE ~StopEnd
    <3>1. UNCHANGED <<session, asking>>
      BY <2>2 DEF StartSlot, StartFails, StopBegin, StopSlot
    <3>. QED
      BY <1>1, <3>1, SessionsAlone DEF MuxInv, SessionTypes, session, asking
  <2>. QED
    BY <2>1, <2>2
<1>3. CASE StartSlot
  <2>1. listed + 1 \in Slots
    BY <1>1, <1>3, NumbersAssumption DEF StartSlot, MuxInv, Control, ControlTypes, Slots
  <2>2. SlotTypes' /\ phase' = [phase EXCEPT ![listed + 1] = "running"]
    BY <1>1, <1>3, <2>1, OtherSlotTypes DEF StartSlot, P!Start
  <2>3. ControlTypes' /\ listed' = listed + 1 /\ ctl' \in {"starting", "running"}
        /\ (ctl' = "starting" => listed' < NumSlots)
    BY <1>1, <1>3, <2>1, NumbersAssumption DEF StartSlot, ControlTypes, Slots
  <2>4. \A r \in Requests : reply[r] # "none" => reply'[r] # "none"
    BY <1>1, <1>3, <2>1, RepliesKeep DEF StartSlot
  <2>5. Control'
    BY <1>2, <2>3, <2>4, <1>1 DEF MuxInv, Control, SessionTypes
  <2>6. RunningSlotsListed'
    BY <1>1, <2>1, <2>2, <2>3 DEF MuxInv, RunningSlotsListed, SlotTypes, ControlTypes, Slots
  <2>. QED
    BY <1>2, <2>2, <2>3, <2>5, <2>6 DEF MuxInv
<1>4. CASE StartFails \/ StopBegin
  <2>1. UNCHANGED <<slotVars, listed>> /\ ctl' \in {"failed", "stopping"} /\ tasks' \in BOOLEAN
    BY <1>1, <1>4 DEF StartFails, StopBegin, ControlTypes
  <2>2. SlotTypes' /\ ControlTypes' /\ Control' /\ RunningSlotsListed'
    BY <1>1, <1>2, <2>1 DEF slotVars, SlotTypes, ControlTypes, MuxInv, Control, RunningSlotsListed
  <2>. QED
    BY <1>2, <2>2 DEF MuxInv
<1>5. ASSUME NEW s \in Slots, StopSlot(s) PROVE MuxInv'
  <2>1. SlotTypes' /\ phase' = [phase EXCEPT ![s] = "stopped"] /\ UNCHANGED control
        /\ ctl = "stopping"
    BY <1>1, <1>5, OtherSlotTypes DEF StopSlot, P!Stop
  <2>2. \A r \in Requests : reply[r] # "none" => reply'[r] # "none"
    BY <1>1, <1>5, RepliesKeep DEF StopSlot
  <2>3. ControlTypes' /\ Control' /\ RunningSlotsListed'
    BY <1>1, <1>2, <2>1, <2>2
       DEF control, SlotTypes, ControlTypes, MuxInv, Control, RunningSlotsListed, SessionTypes
  <2>. QED
    BY <1>2, <2>1, <2>3 DEF MuxInv
<1>6. CASE StopEnd
  <2>1. UNCHANGED slotVars /\ listed' = 0 /\ ctl' = "stopped" /\ tasks' = tasks
        /\ \A s \in 1..listed : phase[s] = "stopped"
    BY <1>6 DEF StopEnd
  <2>2. \A s \in Slots : phase[s] # "running"
    BY <1>1, <2>1 DEF MuxInv, RunningSlotsListed, ControlTypes, Slots
  <2>3. SlotTypes' /\ ControlTypes' /\ Control' /\ RunningSlotsListed'
    BY <1>1, <1>2, <2>1, <2>2, NumbersAssumption
       DEF slotVars, SlotTypes, ControlTypes, MuxInv, Control, RunningSlotsListed
  <2>. QED
    BY <1>2, <2>3 DEF MuxInv
<1>. QED
  BY <1>3, <1>4, <1>5, <1>6

\* A session begins once and becomes idle again only when a query of its own ends.
LEMMA StatusMoves ==
  ASSUME MuxInv, UNCHANGED <<ctl, listed, reply, owner, awaited, outlived>>,
         \A x \in Sessions : status[x] # "none" => status'[x] # "none",
         \A x \in Sessions : status'[x] = "IDLE" => status[x] \in {"IDLE", "none"}
  PROVE  Control' /\ Asking'
BY DEF MuxInv, SessionTypes, Control, Asking

\* What tasks that use sessions do, but for queries.
LEMMA SessionKeeps ==
  ASSUME MuxInv,
         \/ \E x \in Sessions : QueryNowhere(x) \/ Close(x)
         \/ \E x \in Sessions, st \in States : GetSession(x, st) \/ Let(x, st)
         \/ \E X \in SUBSET Sessions : Reap(X)
  PROVE  MuxInv'
<1>1. SlotTypes /\ ControlTypes /\ SessionTypes /\ RegisteredAreActive
  BY DEF MuxInv
<1>2. SlotTypes' /\ ControlTypes' /\ RunningSlotsListed'
  <2>1. UNCHANGED <<slotVars, control>>
    BY DEF QueryNowhere, Close, GetSession, Let, Reap
  <2>. QED
    BY <1>1, <2>1 DEF slotVars, control, SlotTypes, ControlTypes, MuxInv, RunningSlotsListed
<1>3. UNCHANGED <<ctl, listed, reply, owner, awaited, outlived>>
  BY DEF QueryNowhere, Close, GetSession, Let, Reap, slotVars, control, asking
<1>. DEFINE Kept == /\ SessionTypes' /\ RegisteredAreActive'
                    /\ \A x \in Sessions : status[x] # "none" => status'[x] # "none"
                    /\ \A x \in Sessions : status'[x] = "IDLE" => status[x] \in {"IDLE", "none"}
<1>. SUFFICES Kept
  BY <1>2, <1>3, StatusMoves DEF MuxInv
<1>4. ASSUME NEW x \in Sessions, NEW st \in States, GetSession(x, st) PROVE Kept
  <2>1. Cardinality(registered') <= MaxSessions
    BY <1>1, <1>4, CountRegistered DEF GetSession
  <2>2. /\ status[x] = "none" /\ status' = [status EXCEPT ![x] = "IDLE"]
        /\ wants' = [wants EXCEPT ![x] = st] /\ registered' = registered \cup {x}
    BY <1>4 DEF GetSession
  <2>. QED
    BY <1>1, <1>3, <2>1, <2>2 DEF SessionTypes, RegisteredAreActive, Active
<1>5. ASSUME NEW x \in Sessions, NEW st \in States, Let(x, st) PROVE Kept
  BY <1>1, <1>3, <1>5 DEF Let, SessionTypes, RegisteredAreActive, Active
<1>6. ASSUME NEW x \in Sessions, QueryNowhere(x) PROVE Kept
  <2>1. status' = [status EXCEPT ![x] = "QUEUED"] /\ UNCHANGED <<wants, registered>>
        /\ status[x] # "none"
    BY <1>6 DEF QueryNowhere, Active
  <2>. QED
    BY <1>1, <1>3, <2>1 DEF SessionTypes, RegisteredAreActive, Active
<1>7. ASSUME NEW x \in Sessions, Close(x) PROVE Kept
  <2>1. Cardinality(registered') <= MaxSessions
    BY <1>1, <1>7, CountRegistered DEF Close, RegisteredAreActive
  <2>2. /\ status' = [status EXCEPT ![x] = "CLOSED"] /\ registered' = registered \ {x}
        /\ wants' = wants /\ status[x] # "none"
    BY <1>7 DEF Close
  <2>. QED
    BY <1>1, <1>3, <2>1, <2>2 DEF SessionTypes, RegisteredAreActive, Active
<1>8. ASSUME NEW X \in SUBSET Sessions, Reap(X) PROVE Kept
  <2>1. Cardinality(registered') <= MaxSessions
    BY <1>1, <1>8, CountRegistered DEF Reap, RegisteredAreActive
  <2>2. /\ status' = [x \in Sessions |-> IF x \in X THEN "EXPIRED" ELSE status[x]]
        /\ registered' = registered \ X /\ wants' = wants
    BY <1>8 DEF Reap
  <2>. QED
    BY <1>1, <1>3, <2>1, <2>2 DEF SessionTypes, RegisteredAreActive, Active
<1>. QED
  BY <1>4, <1>5, <1>6, <1>7, <1>8

\* A query is asked, returns or is withdrawn.
LEMMA QueryKeeps ==
  ASSUME MuxInv,
         \/ \E x \in Sessions, r \in Requests : Query(x, r)
         \/ \E r \in Requests : Return(r) \/ Withdraw(r)
  PROVE  MuxInv'
<1>1. SlotTypes /\ ControlTypes /\ SessionTypes /\ Control /\ Asking
      /\ RunningSlotsListed /\ RegisteredAreActive
  BY DEF MuxInv
<1>2. ControlTypes' /\ UNCHANGED <<ctl, listed, tasks, wants, registered>>
  BY <1>1 DEF Query, Return, Withdraw, control, session, ControlTypes
<1>3. ASSUME NEW x \in Sessions, NEW r \in Requests, Query(x, r) PROVE MuxInv'
  <2>1. /\ Routing /\ Active(x) /\ status' = [status EXCEPT ![x] = "EXECUTING"]
        /\ owner' = [owner EXCEPT ![r] = x] /\ awaited' = awaited \cup {r}
        /\ outlived' = outlived
    BY <1>3 DEF Query
  <2>2. PICK s \in Slots : s = Route(wants[x])
    BY <1>1, <2>1, RouteBest DEF Routing
  <2>3. P!Enqueue(s, r)
    BY <1>3, <2>2 DEF Query
  <2>4. SlotTypes' /\ phase' = phase /\ reply' = [reply EXCEPT ![r] = "pending"]
        /\ reply[r] = "none"
    BY <1>1, <2>3, OtherSlotTypes DEF P!Enqueue
  <2>5. owner[r] = NoSession /\ r \notin awaited /\ x # NoSession
    BY <1>1, <2>4, SessionsAssumption DEF Control
  <2>6. SessionTypes' /\ RegisteredAreActive' /\ RunningSlotsListed'
    BY <1>1, <1>2, <2>1, <2>4
       DEF SessionTypes, RegisteredAreActive, RunningSlotsListed, Active
  <2>7. Control'
    BY <1>1, <1>2, <2>1, <2>4, <2>5 DEF Control, SessionTypes, SlotTypes, Active
  <2>8. Asking'
    BY <1>1, <2>1, <2>5 DEF Asking, Control, SessionTypes
  <2>. QED
    BY <1>2, <2>4, <2>6, <2>7, <2>8 DEF MuxInv
<1>4. ASSUME NEW r \in Requests, Return(r) PROVE MuxInv'
  <2>1. /\ r \in awaited /\ awaited' = awaited \ {r} /\ UNCHANGED <<slotVars, owner>>
        /\ status' = [status EXCEPT ![owner[r]] = "IDLE"]
        /\ outlived' = outlived \cup {q \in awaited' : owner[q] = owner[r]}
    BY <1>4 DEF Return
  <2>2. owner[r] \in Sessions /\ status[owner[r]] # "none"
    BY <1>1, <2>1 DEF Control, SessionTypes
  <2>3. SlotTypes' /\ SessionTypes' /\ RunningSlotsListed' /\ Control'
    BY <1>1, <1>2, <2>1, <2>2
       DEF slotVars, SlotTypes, SessionTypes, RunningSlotsListed, Control
  <2>4. Asking' /\ RegisteredAreActive'
    BY <1>1, <1>2, <2>1, <2>2 DEF Asking, Control, SessionTypes, RegisteredAreActive, Active
  <2>. QED
    BY <1>2, <2>3, <2>4 DEF MuxInv
<1>5. ASSUME NEW r \in Requests, Withdraw(r) PROVE MuxInv'
  <2>1. awaited' = awaited \ {r} /\ UNCHANGED <<phase, status, owner, outlived>>
    BY <1>5 DEF Withdraw, P!Cancel, P!slots, slotVars, session
  <2>2. SlotTypes' /\ \A q \in Requests : reply[q] # "none" => reply'[q] # "none"
    <3>1. CASE P!Cancel(r)
      BY <1>1, <3>1, OtherSlotTypes, RepliesKeep
    <3>2. CASE UNCHANGED slotVars
      BY <1>1, <3>2 DEF slotVars, SlotTypes
    <3>. QED
      BY <1>5, <3>1, <3>2 DEF Withdraw
  <2>3. SessionTypes' /\ RunningSlotsListed' /\ Control' /\ Asking' /\ RegisteredAreActive'
    BY <1>1, <1>2, <2>1, <2>2
       DEF SessionTypes, RunningSlotsListed, Control, Asking, RegisteredAreActive, Active
  <2>. QED
    BY <1>2, <2>2, <2>3 DEF MuxInv
<1>. QED
  BY <1>3, <1>4, <1>5

LEMMA StepMux == MuxInv /\ [Next]_vars => MuxInv'
<1>1. ASSUME MuxInv, UNCHANGED vars PROVE MuxInv'
  BY <1>1 DEF vars, slotVars, control, session, asking, MuxInv, SlotTypes, ControlTypes,
              SessionTypes, Control, Asking, RunningSlotsListed, RegisteredAreActive, Active
<1>. QED
  BY <1>1, ServeKeeps, LifeKeeps, SessionKeeps, QueryKeeps DEF Next

LEMMA MuxSound == Spec => []MuxInv
BY InitMux, StepMux, PTL DEF Spec

-----------------------------------------------------------------------------
\* Every variable ranges over the values the code's fields can have.
THEOREM MuxTyped == Spec => []TypeOK
<1>1. MuxInv => TypeOK
  BY TypesSplit DEF MuxInv
<1>. QED
  BY <1>1, MuxSound, PTL

\* stop() finds every slot that runs in _slots, for any number of slots, and when it has
\* ended none runs (SessionMultiplexer.start, stop).
THEOREM SlotsFound == Spec => []RunningSlotsListed
BY MuxSound, PTL DEF MuxInv

\* _sessions holds no session that has been closed or expired, and no more than
\* max_sessions, for any number of sessions (get_session, close, _reaper_loop).
THEOREM RegistrySound == Spec => []RegisteredAreActive
BY MuxSound, PTL DEF MuxInv

\* The reaper leaves a session alone whose query is under way, whatever queries it asked
\* before; only one during which another query of the session returned is not safe from it
\* (_reaper_loop, VirtualSession._execute).
THEOREM ReaperSpares == Spec => ReapsOnlyIdle
<1>1. MuxInv /\ [Next]_vars =>
        [\A x \in Sessions : Expires(x) =>
           \A r \in awaited : owner[r] = x => r \in outlived]_vars
  <2>. SUFFICES ASSUME MuxInv, Next, NEW x \in Sessions,
                       status[x] # "EXPIRED", status'[x] = "EXPIRED",
                       NEW r \in awaited, owner[r] = x
                PROVE  r \in outlived
    BY DEF Expires
  <2>1. status[x] = "IDLE"
    <3>1. ASSUME NEW X \in SUBSET Sessions, Reap(X) PROVE status[x] = "IDLE"
      BY <3>1 DEF Reap
    <3>2. ASSUME NEW y \in Sessions, NEW a \in {"IDLE", "QUEUED", "EXECUTING", "CLOSED"},
                 status' = [status EXCEPT ![y] = a]
          PROVE  FALSE
      BY <3>2 DEF MuxInv, SessionTypes
    <3>3. ASSUME status' = status PROVE FALSE
      BY <3>3
    <3>. QED
      BY <3>1, <3>2, <3>3
         DEF Next, QueryNowhere, Close, GetSession, Let, Query, Return, Withdraw, Migrate, Serve,
             StopSlot, StartSlot, StartFails, StopBegin, StopEnd, session, MuxInv, Control,
             SessionTypes
  <2>. QED
    BY <2>1 DEF MuxInv, Asking
<1>. QED
  BY <1>1, MuxSound, PTL DEF Spec, ReapsOnlyIdle

\* A request whose state some healthy slot has goes to such a slot, one with the shortest
\* queue among them, while queues are short; and no request to a dead or reconnecting slot
\* while a healthy one has an empty queue: for any number of slots (SessionRouter.route).
THEOREM RoutingSound == Spec => RoutesWell
<1>1. ASSUME MuxInv, NEW x \in Sessions, NEW r \in Requests, Query(x, r)
      PROVE  \E s \in 1..listed :
               /\ queue'[s] # queue[s]
               /\ \A t \in Matching(StateOf[r]) : Len(queue[t]) < 50 =>
                    s \in Matching(StateOf[r]) /\ Len(queue[s]) <= Len(queue[t])
               /\ health[s] # "HEALTHY" =>
                    \A t \in 1..listed : health[t] = "HEALTHY" => queue[t] # <<>>
  <2>. DEFINE want == StateOf[r]
              s == Route(want)
  <2>1. SlotTypes /\ listed = NumSlots /\ P!Enqueue(s, r) /\ 1..listed = Slots
        /\ want \in States /\ want # NoState
    BY <1>1, StatesAssumption DEF MuxInv, Query, Routing, Slots
  <2>2. /\ s \in Slots
        /\ \A t \in Slots : Eligible(t, want) =>
             Eligible(s, want) /\ Score(t, want) <= Score(s, want)
    BY <2>1, RouteBest
  <2>. HIDE DEF want, s
  <2>3. queue'[s] # queue[s]
    <3>1. queue[s] \in Seq(Requests) /\ queue'[s] = Append(queue[s], r)
      BY <2>1, <2>2 DEF SlotTypes, P!Enqueue
    <3>2. Len(queue'[s]) = Len(queue[s]) + 1 /\ Len(queue[s]) \in Nat
      BY <3>1, AppendProperties, LenProperties
    <3>. QED
      BY <3>2
  <2>4. ASSUME NEW t \in Slots
        PROVE  /\ Len(queue[t]) \in Nat /\ Score(t, want) \in Int
               /\ Affinity(state[t], want) \in {0, 200, 500, 1000}
               /\ Affinity(state[t], want) = 1000 => state[t] = want
               /\ health[t] = "HEALTHY" =>
                    Score(t, want) = Affinity(state[t], want) - 10 * Len(queue[t])
               /\ Score(t, want) <= Affinity(state[t], want) - 10 * Len(queue[t])
               /\ Eligible(t, want) => Score(t, want) > -1 /\ health[t] # "DEAD"
    <3>1. /\ Len(queue[t]) \in Nat /\ Score(t, want) \in Int
          /\ Affinity(state[t], want) \in {0, 200, 500, 1000}
          /\ Affinity(state[t], want) = 1000 => state[t] = want
      BY <2>1, ScoreType
    <3>2. CASE health[t] = "RECONNECTING"
      <4>1. Score(t, want) = Affinity(state[t], want) - 10 * Len(queue[t]) - 5000
        BY <3>2 DEF Score
      <4>. QED
        BY <3>1, <3>2, <4>1 DEF Eligible
    <3>3. CASE health[t] # "RECONNECTING"
      <4>1. Score(t, want) = Affinity(state[t], want) - 10 * Len(queue[t]) - 0
        BY <3>3 DEF Score
      <4>. QED
        BY <3>1, <4>1 DEF Eligible
    <3>. QED
      BY <3>2, <3>3
  <2>5. Eligible(s, want) => health[s] = "HEALTHY"
    <3>1. health[s] = "RECONNECTING" =>
            Score(s, want) = Affinity(state[s], want) - 10 * Len(queue[s]) - 5000
      BY DEF Score
    <3>2. health[s] = "RECONNECTING" => Score(s, want) < 0
      BY <2>2, <2>4, <3>1
    <3>. QED
      BY <2>1, <2>2, <2>4, <3>2 DEF SlotTypes
  <2>6. ASSUME NEW t \in Matching(want), Len(queue[t]) < 50
        PROVE  s \in Matching(want) /\ Len(queue[s]) <= Len(queue[t])
    <3>1. t \in Slots /\ health[t] = "HEALTHY" /\ Affinity(state[t], want) = 1000
      <4>1. t \in Slots /\ health[t] = "HEALTHY" /\ state[t] = want
        BY <2>1, <2>6 DEF Matching
      <4>. QED
        BY <2>1, <4>1 DEF Affinity
    <3>2. Eligible(t, want) /\ Score(t, want) = 1000 - 10 * Len(queue[t])
      BY <2>4, <2>6, <3>1 DEF Eligible
    <3>3. Eligible(s, want) /\ 1000 - 10 * Len(queue[t]) <= Score(s, want)
      BY <2>2, <3>1, <3>2
    <3>4. Len(queue[t]) \in Nat /\ Len(queue[s]) \in Nat /\ Score(s, want) \in Int
          /\ Affinity(state[s], want) \in {0, 200, 500, 1000}
          /\ Score(s, want) <= Affinity(state[s], want) - 10 * Len(queue[s])
          /\ (Affinity(state[s], want) = 1000 => state[s] = want)
      BY <2>2, <2>4, <3>1
    <3>5. Score(s, want) > 500
      BY <2>6, <3>3, <3>4
    <3>6. Affinity(state[s], want) = 1000
      BY <3>4, <3>5
    <3>7. Len(queue[s]) <= Len(queue[t])
      BY <3>3, <3>4, <3>6
    <3>. QED
      BY <2>1, <2>2, <2>5, <3>3, <3>4, <3>6, <3>7 DEF Matching
  <2>7. ASSUME health[s] # "HEALTHY", NEW t \in Slots, health[t] = "HEALTHY", queue[t] = <<>>
        PROVE  FALSE
    <3>1. Len(queue[t]) = 0
      BY <2>7
    <3>2. Eligible(t, want)
      BY <2>4, <2>7, <3>1 DEF Eligible
    <3>. QED
      BY <2>2, <2>5, <2>7, <3>2
  <2>. QED
    BY <2>1, <2>2, <2>3, <2>6, <2>7 DEF want
<1>2. MuxInv /\ [Next]_vars =>
        [\A x \in Sessions, r \in Requests : Query(x, r) => \E s \in 1..listed :
           /\ queue'[s] # queue[s]
           /\ \A t \in Matching(StateOf[r]) : Len(queue[t]) < 50 =>
                s \in Matching(StateOf[r]) /\ Len(queue[s]) <= Len(queue[t])
           /\ health[s] # "HEALTHY" =>
                \A t \in 1..listed : health[t] = "HEALTHY" => queue[t] # <<>>]_vars
  BY <1>1
<1>. QED
  BY <1>2, MuxSound, PTL DEF Spec, RoutesWell

-----------------------------------------------------------------------------
(* Where requests are *)

Lost    == {r \in Requests : reply[r] = "pending" /\ \A s \in Slots : r \notin Hands(s)}
Stopped == {s \in Slots : phase[s] = "stopped"}

\* No request is with two slots, or twice with one; those with a slot have been asked.
Apart ==
  /\ \A s \in Slots : IsInjective(queue[s]) /\ serving[s] \notin ToSet(queue[s])
  /\ \A s, t \in Slots : s # t => Hands(s) \cap Hands(t) = {}
  /\ \A s \in Slots : \A r \in Hands(s) : r \in Requests /\ reply[r] # "none"

\* A step that adds no request to slot s, touches no other, and takes from s only requests
\* that it has resolved.
Kept(s) ==
  /\ \A t \in Slots \ {s} : queue'[t] = queue[t] /\ serving'[t] = serving[t]
  /\ IsInjective(queue'[s]) /\ serving'[s] \notin ToSet(queue'[s])
  /\ Hands(s)' \subseteq Hands(s)
  /\ \A r \in Requests :
       /\ reply[r] # "none" => reply'[r] # "none"
       /\ reply'[r] = "pending" => reply[r] = "pending" /\ (r \in Hands(s) => r \in Hands(s)')

LEMMA KeptApart ==
  ASSUME Apart, NEW s \in Slots, Kept(s)
  PROVE  Apart' /\ Lost' \subseteq Lost
<1>1. \A t \in Slots : t # s => Hands(t)' = Hands(t)
  BY DEF Kept, Hands
<1>2. \A t \in Slots : Hands(t)' \subseteq Hands(t)
  BY <1>1 DEF Kept
<1>3. Apart'
  BY <1>2 DEF Apart, Kept
<1>4. Lost' \subseteq Lost
  BY <1>1 DEF Lost, Kept
<1>. QED
  BY <1>3, <1>4

LEMMA ServeKept ==
  ASSUME SlotTypes, Apart, NEW s \in Slots, P!Serve(s)
  PROVE  Kept(s)
<1>. USE DEF P!requests, P!Resolved
<1>1. queue[s] \in Seq(Requests) /\ IsInjective(queue[s]) /\ serving[s] \notin ToSet(queue[s])
      /\ ToSet(queue[s]) \subseteq Requests /\ NoRequest \notin Requests
  BY ElemsType, RequestsAssumption DEF SlotTypes, Apart
<1>2. queue[s] # <<>> =>
        /\ Head(queue[s]) \in ToSet(queue[s]) /\ Head(queue[s]) \in Requests
        /\ IsInjective(Tail(queue[s]))
        /\ ToSet(Tail(queue[s])) = ToSet(queue[s]) \ {Head(queue[s])}
  BY <1>1, ElemsTail, ElemsExactTail
<1>3. CASE P!Skip(s)
  <2>1. queue' = [queue EXCEPT ![s] = Tail(@)] /\ UNCHANGED <<serving, reply>>
        /\ reply[Head(queue[s])] # "pending" /\ queue[s] # <<>> /\ serving[s] = NoRequest
    BY <1>3 DEF P!Skip, P!Idle
  <2>. QED
    BY <1>1, <1>2, <2>1 DEF Kept, Hands, SlotTypes
<1>4. CASE P!Take(s)
  <2>1. queue' = [queue EXCEPT ![s] = Tail(@)] /\ reply' = reply
        /\ serving' = [serving EXCEPT ![s] = Head(queue[s])]
        /\ queue[s] # <<>> /\ serving[s] = NoRequest
    BY <1>4 DEF P!Take, P!Idle
  <2>. QED
    BY <1>1, <1>2, <2>1 DEF Kept, Hands, SlotTypes
<1>5. CASE P!SwitchState(s) \/ P!Reconnect(s)
  <2>1. UNCHANGED <<queue, serving, reply>>
    BY <1>5 DEF P!SwitchState, P!Reconnect
  <2>. QED
    BY <1>1, <2>1 DEF Kept, Hands
<1>6. CASE P!Answer(s) \/ P!GiveUp(s) \/ P!Die(s)
  <2>1. queue' = queue /\ serving' = [serving EXCEPT ![s] = NoRequest]
        /\ serving[s] # NoRequest
    BY <1>6 DEF P!Answer, P!GiveUp, P!Die, P!Busy, P!Teleporting
  <2>2. PICK a \in {"ok", "error"} : reply' = P!Resolved(serving[s], a)
    BY <1>6 DEF P!Answer, P!GiveUp, P!Die
  <2>3. \A r \in Requests :
          /\ reply[r] # "none" => reply'[r] # "none"
          /\ reply'[r] = "pending" => reply[r] = "pending" /\ r # serving[s]
    BY <2>2 DEF SlotTypes
  <2>. QED
    BY <1>1, <2>1, <2>3 DEF Kept, Hands, SlotTypes
<1>7. CASE P!Requeue(s)
  <2>1. queue' = [queue EXCEPT ![s] = Append(@, serving[s])] /\ reply' = reply
        /\ serving' = [serving EXCEPT ![s] = NoRequest] /\ serving[s] # NoRequest
    BY <1>7 DEF P!Requeue, P!Teleporting
  <2>2. serving[s] \in Requests
    BY <2>1 DEF SlotTypes
  <2>3. /\ ToSet(Append(queue[s], serving[s])) = ToSet(queue[s]) \cup {serving[s]}
        /\ IsInjective(Append(queue[s], serving[s]))
    BY <1>1, <2>2, ElemsAppend
  <2>. QED
    BY <1>1, <2>1, <2>2, <2>3 DEF Kept, Hands, SlotTypes
<1>. QED
  BY <1>3, <1>4, <1>5, <1>6, <1>7 DEF P!Serve, P!Progress

LEMMA EnqueueApart ==
  ASSUME SlotTypes, Apart, NEW s \in Slots, NEW r \in Requests, P!Enqueue(s, r)
  PROVE  Apart' /\ Lost' \subseteq Lost
<1>1. /\ reply[r] = "none" /\ reply' = [reply EXCEPT ![r] = "pending"]
      /\ queue' = [queue EXCEPT ![s] = Append(@, r)] /\ serving' = serving
  BY DEF P!Enqueue
<1>2. queue[s] \in Seq(Requests) /\ \A t \in Slots : r \notin Hands(t)
  BY <1>1 DEF SlotTypes, Apart
<1>3. ToSet(Append(queue[s], r)) = ToSet(queue[s]) \cup {r} /\ IsInjective(Append(queue[s], r))
  BY <1>2, ElemsAppend DEF Apart, Hands
<1>4. /\ Hands(s)' = Hands(s) \cup {r}
      /\ \A t \in Slots : t # s => Hands(t)' = Hands(t)
  BY <1>1, <1>3 DEF Hands, SlotTypes
<1>5. serving[s] # r
  BY <1>2, RequestsAssumption DEF Hands
<1>6. Apart'
  <2>1. queue'[s] = Append(queue[s], r) /\ \A t \in Slots : t # s => queue'[t] = queue[t]
    BY <1>1 DEF SlotTypes
  <2>2. ASSUME NEW t \in Slots
        PROVE  IsInjective(queue'[t]) /\ serving'[t] \notin ToSet(queue'[t])
    BY <1>1, <1>3, <1>5, <2>1 DEF Apart
  <2>3. ASSUME NEW t \in Slots, NEW u \in Slots, t # u
        PROVE  Hands(t)' \cap Hands(u)' = {}
    BY <1>2, <1>4, <2>3 DEF Apart
  <2>4. ASSUME NEW t \in Slots, NEW q \in Hands(t)'
        PROVE  q \in Requests /\ reply'[q] # "none"
    <3>1. q = r \/ q \in Hands(t)
      BY <1>4
    <3>2. reply \in [Requests -> {"none", "pending", "ok", "error", "cancelled"}]
      BY DEF SlotTypes
    <3>3. q \in Hands(t) => q \in Requests /\ reply[q] # "none"
      BY DEF Apart
    <3>. QED
      BY <1>1, <3>1, <3>2, <3>3
  <2>. QED
    BY <2>2, <2>3, <2>4 DEF Apart
<1>7. Lost' \subseteq Lost
  BY <1>1, <1>4 DEF Lost, SlotTypes
<1>. QED
  BY <1>6, <1>7

\* stop() loses the request being served, and no other.
LEMMA StopApart ==
  ASSUME SlotTypes, Apart, NEW s \in Slots, P!Stop(s)
  PROVE  Apart' /\ Lost' \subseteq Lost \cup {serving[s]}
<1>1. /\ queue' = [queue EXCEPT ![s] = <<>>]
      /\ serving' = [serving EXCEPT ![s] = NoRequest]
      /\ \A r \in Requests :
           /\ reply[r] # "none" => reply'[r] # "none"
           /\ reply'[r] = "pending" => reply[r] = "pending" /\ r \notin ToSet(queue[s])
  BY DEF P!Stop, ToSet
<1>2. Hands(s)' = {} /\ \A t \in Slots : t # s => Hands(t)' = Hands(t)
  BY <1>1, ElemsEmpty DEF Hands, SlotTypes
<1>3. Apart'
  BY <1>1, <1>2, ElemsEmpty DEF Apart, SlotTypes
<1>4. Lost' \subseteq Lost \cup {serving[s]}
  BY <1>1, <1>2 DEF Lost, Hands
<1>. QED
  BY <1>3, <1>4

LEMMA IdleApart ==
  ASSUME Apart, UNCHANGED <<queue, serving>>,
         \A r \in Requests : reply[r] # "none" => reply'[r] # "none",
         \A r \in Requests : reply'[r] = "pending" => reply[r] = "pending"
  PROVE  Apart' /\ Lost' \subseteq Lost
BY DEF Apart, Lost, Hands

FewLost == Cardinality(Lost) <= Cardinality(Stopped)

LEMMA SlotsFinite == IsFiniteSet(Slots)
BY NumbersAssumption, FS_Interval DEF Slots

LEMMA FewLostKept ==
  ASSUME FewLost, Lost' \subseteq Lost, Stopped' = Stopped
  PROVE  FewLost'
<1>1. IsFiniteSet(Lost) /\ IsFiniteSet(Lost') /\ Cardinality(Lost') <= Cardinality(Lost)
  BY RequestsAssumption, FS_Subset DEF Lost
<1>2. Cardinality(Stopped) \in Nat
  BY SlotsFinite, FS_Subset, FS_CardinalityType DEF Stopped
<1>. QED
  BY <1>1, <1>2, FS_CardinalityType DEF FewLost

LEMMA OneSlotStep ==
  ASSUME MuxInv, Apart, FewLost, [Next]_vars
  PROVE  Apart' /\ FewLost'
<1>. SlotTypes
  BY DEF MuxInv
<1>1. ASSUME Apart' /\ Lost' \subseteq Lost,
             \A s \in Slots : phase'[s] = "stopped" <=> phase[s] = "stopped"
      PROVE  Apart' /\ FewLost'
  BY <1>1, FewLostKept DEF Stopped
<1>2. ASSUME NEW x \in Sessions, NEW r \in Requests, Query(x, r)
      PROVE  Apart' /\ FewLost'
  <2>1. PICK s \in Slots : s = Route(wants[x])
    BY <1>2, RouteBest DEF Routing, Query
  <2>2. P!Enqueue(s, r)
    BY <1>2, <2>1 DEF Query
  <2>3. phase' = phase
    BY <2>2 DEF P!Enqueue
  <2>. QED
    BY <1>1, <2>2, <2>3, EnqueueApart
<1>3. ASSUME NEW s \in Slots, Serve(s) PROVE Apart' /\ FewLost'
  <2>1. P!Serve(s)
    BY <1>3 DEF Serve
  <2>. QED
    BY <1>1, <2>1, ServeTypes, ServeKept, KeptApart
<1>4. ASSUME NEW s \in Slots, StopSlot(s) PROVE Apart' /\ FewLost'
  <2>1. P!Stop(s)
    BY <1>4 DEF StopSlot
  <2>2. Stopped' = Stopped \cup {s} /\ s \notin Stopped
    BY <2>1 DEF P!Stop, Stopped, SlotTypes
  <2>3. Cardinality(Stopped') = Cardinality(Stopped) + 1 /\ Cardinality(Stopped) \in Nat
    <3>1. IsFiniteSet(Stopped)
      BY SlotsFinite, FS_Subset DEF Stopped
    <3>. QED
      BY <2>2, <3>1, FS_AddElement, FS_CardinalityType
  <2>4. Apart' /\ Lost' \subseteq Lost \cup {serving[s]}
    BY <2>1, StopApart
  <2>5. Cardinality(Lost') <= Cardinality(Lost) + 1
        /\ Cardinality(Lost') \in Nat /\ Cardinality(Lost) \in Nat
    <3>1. IsFiniteSet(Lost)
      BY RequestsAssumption, FS_Subset DEF Lost
    <3>2. IsFiniteSet(Lost \cup {serving[s]})
          /\ Cardinality(Lost \cup {serving[s]}) <= Cardinality(Lost) + 1
          /\ Cardinality(Lost) \in Nat
      <4>1. Cardinality(Lost) \in Nat
        BY <3>1, FS_CardinalityType
      <4>2. /\ IsFiniteSet(Lost \cup {serving[s]})
            /\ Cardinality(Lost \cup {serving[s]}) =
                 IF serving[s] \in Lost THEN Cardinality(Lost) ELSE Cardinality(Lost) + 1
        BY <3>1, FS_AddElement
      <4>. HIDE DEF Lost
      <4>. QED
        BY <4>1, <4>2
    <3>3. IsFiniteSet(Lost') /\ Cardinality(Lost') <= Cardinality(Lost \cup {serving[s]})
      BY <2>4, <3>2, FS_Subset
    <3>. QED
      BY <3>1, <3>2, <3>3, FS_CardinalityType, FS_AddElement
  <2>. QED
    BY <2>3, <2>4, <2>5 DEF FewLost
<1>5. ASSUME \/ UNCHANGED slotVars
             \/ \E s \in Slots : P!Start(s) \/ P!Forget(s)
             \/ \E r \in Requests : P!Cancel(r)
      PROVE  Apart' /\ FewLost'
  <2>1. /\ UNCHANGED <<queue, serving>>
        /\ \A s \in Slots : phase'[s] = "stopped" <=> phase[s] = "stopped"
    BY <1>5 DEF P!Start, P!Forget, P!Cancel, P!slots, P!requests, slotVars, SlotTypes
  <2>2. \A r \in Requests : /\ reply[r] # "none" => reply'[r] # "none"
                            /\ reply'[r] = "pending" => reply[r] = "pending"
    BY <1>5 DEF P!Start, P!Forget, P!Cancel, P!slots, P!requests, slotVars, SlotTypes
  <2>. QED
    BY <1>1, <2>1, <2>2, IdleApart
<1>6. StartSlot => \E s \in Slots : P!Start(s)
  BY NumbersAssumption DEF StartSlot, MuxInv, Control, ControlTypes, Slots
<1>. QED
  BY <1>2, <1>3, <1>4, <1>5, <1>6
     DEF Next, vars, QueryNowhere, Close, GetSession, Let, Return, Withdraw, Reap, Migrate,
         StartFails, StopBegin, StopEnd

\* A request is with one slot, once, and stop() loses at most one request per slot, for
\* any number of slots and requests (SessionMultiplexer._route_request, stop, PhysicalSlot).
THEOREM RequestsWithOneSlot == Spec => []OneSlot
<1>1. Init => Apart /\ FewLost
  <2>. SUFFICES ASSUME Init PROVE Apart /\ FewLost
    OBVIOUS
  <2>1. \A s \in Slots : queue[s] = <<>> /\ serving[s] = NoRequest /\ Hands(s) = {}
    BY ElemsEmpty DEF Init, P!Init, Hands
  <2>2. Apart
    BY <2>1, ElemsEmpty DEF Apart
  <2>3. Lost = {}
    BY DEF Init, P!Init, Lost
  <2>4. Cardinality(Stopped) \in Nat
    BY SlotsFinite, FS_Subset, FS_CardinalityType DEF Stopped
  <2>. QED
    BY <2>2, <2>3, <2>4, FS_EmptySet DEF FewLost
<1>2. MuxInv /\ Apart /\ FewLost /\ [Next]_vars => (Apart /\ FewLost)'
  BY OneSlotStep
<1>3. Apart /\ FewLost => OneSlot
  BY DEF Apart, FewLost, OneSlot, Lost, Stopped
<1>. QED
  BY <1>1, <1>2, <1>3, MuxSound, PTL DEF Spec
====
