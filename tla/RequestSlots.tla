----------------------------- MODULE RequestSlots -----------------------------
(***************************************************************************)
(* What the physical slots of a multiplexer promise (PhysicalSlot in       *)
(* src/purreal/multiplexer.py, seen from its router): a queue of requests, *)
(* one of which is being served; a request is tried a bounded number of    *)
(* times and its future is resolved once.  What happens to connections is  *)
(* the detailed specification's (module PhysicalSlot).                     *)
(***************************************************************************)
EXTENDS Integers, Sequences

CONSTANTS
  Slots,
  Requests,     \* PendingRequest objects, each asked once
  States,       \* PhysicalState values
  StateOf,      \* per request: the state it must run in
  NoRequest, NoState,
  MaxRetries    \* MAX_RETRIES

VARIABLES
  phase,        \* per slot: "new", "running", "stopped"
  queue,        \* per slot: _queue
  serving,      \* per slot: the request its drain loop has taken off the queue
  health,       \* per slot: _health
  state,        \* per slot: _state, the session state its connection is known to have
  tries,        \* per request: retry_count
  reply         \* per request: its future

slots    == <<phase, queue, serving, health, state>>
requests == <<tries, reply>>
slotVars == <<slots, requests>>

Init ==
  /\ phase = [s \in Slots |-> "new"] /\ queue = [s \in Slots |-> <<>>]
  /\ serving = [s \in Slots |-> NoRequest] /\ health = [s \in Slots |-> "HEALTHY"]
  /\ state = [s \in Slots |-> NoState]
  /\ tries = [r \in Requests |-> 0] /\ reply = [r \in Requests |-> "none"]

\* The replies once the request r's future is resolved with a, unless it is done.
Resolved(r, a) == [reply EXCEPT ![r] = IF @ = "pending" THEN a ELSE @]

Start(s) ==
  /\ phase[s] = "new"
  /\ phase' = [phase EXCEPT ![s] = "running"]
  /\ UNCHANGED <<queue, serving, health, state, requests>>

\* A stopped slot takes requests too: nothing in enqueue() looks.
Enqueue(s, r) ==
  /\ phase[s] # "new" /\ reply[r] = "none"
  /\ reply' = [reply EXCEPT ![r] = "pending"]
  /\ queue' = [queue EXCEPT ![s] = Append(@, r)]
  /\ UNCHANGED <<phase, serving, health, state, tries>>

Idle(s) == phase[s] = "running" /\ serving[s] = NoRequest /\ queue[s] # <<>>

\* A request whose future is done is dropped.
Skip(s) ==
  /\ Idle(s) /\ reply[Head(queue[s])] # "pending"
  /\ queue' = [queue EXCEPT ![s] = Tail(@)]
  /\ UNCHANGED <<phase, serving, health, state, requests>>

\* mutant: the request stays in the queue
TakePeeking(s) ==
  /\ Idle(s) /\ reply[Head(queue[s])] = "pending"
  /\ serving' = [serving EXCEPT ![s] = Head(queue[s])]
  /\ \E st \in {state[s], StateOf[Head(queue[s])]} : state' = [state EXCEPT ![s] = st]
  /\ UNCHANGED <<phase, queue, health, requests>>

\* The new state is known at once when nothing needs to be sent for it.
Take(s) ==
  /\ Idle(s) /\ reply[Head(queue[s])] = "pending"
  /\ queue' = [queue EXCEPT ![s] = Tail(@)]
  /\ serving' = [serving EXCEPT ![s] = Head(queue[s])]
  /\ \E st \in {state[s], StateOf[Head(queue[s])]} : state' = [state EXCEPT ![s] = st]
  /\ UNCHANGED <<phase, health, requests>>

Busy(s) == phase[s] = "running" /\ serving[s] # NoRequest /\ health[s] # "RECONNECTING"
Teleporting(s) == phase[s] = "running" /\ serving[s] # NoRequest /\ health[s] = "RECONNECTING"

SwitchState(s) ==
  /\ Busy(s)
  /\ state' = [state EXCEPT ![s] = StateOf[serving[s]]]
  /\ UNCHANGED <<phase, queue, serving, health, requests>>

Answer(s) ==
  /\ Busy(s)
  /\ \E a \in {"ok", "error"} : reply' = Resolved(serving[s], a)
  /\ serving' = [serving EXCEPT ![s] = NoRequest]
  /\ UNCHANGED <<phase, queue, health, state, tries>>

\* The connection failed and the request may be tried again.
Reconnect(s) ==
  /\ Busy(s) /\ tries[serving[s]] < MaxRetries
  /\ tries' = [tries EXCEPT ![serving[s]] = @ + 1]
  /\ health' = [health EXCEPT ![s] = "RECONNECTING"]
  /\ state' = [state EXCEPT ![s] = NoState]
  /\ UNCHANGED <<phase, queue, serving, reply>>

\* The last try failed as well: tries counts it, and the error is the reply.
GiveUp(s) ==
  /\ Busy(s) /\ tries[serving[s]] = MaxRetries
  /\ tries' = [tries EXCEPT ![serving[s]] = @ + 1]
  /\ reply' = Resolved(serving[s], "error")
  /\ serving' = [serving EXCEPT ![s] = NoRequest]
  /\ UNCHANGED <<phase, queue, health, state>>

Requeue(s) ==
  /\ Teleporting(s)
  /\ health' = [health EXCEPT ![s] = "HEALTHY"]
  /\ queue' = [queue EXCEPT ![s] = Append(@, serving[s])]
  /\ serving' = [serving EXCEPT ![s] = NoRequest]
  /\ UNCHANGED <<phase, state, requests>>

\* mutant: the future is forgotten
DieSilently(s) ==
  /\ Teleporting(s)
  /\ health' = [health EXCEPT ![s] = "DEAD"]
  /\ serving' = [serving EXCEPT ![s] = NoRequest]
  /\ UNCHANGED <<phase, queue, state, requests>>

Die(s) ==
  /\ Teleporting(s)
  /\ health' = [health EXCEPT ![s] = "DEAD"]
  /\ reply' = Resolved(serving[s], "error")
  /\ serving' = [serving EXCEPT ![s] = NoRequest]
  /\ UNCHANGED <<phase, queue, state, tries>>

\* Migration to another connection, whose session state is unknown.
Forget(s) ==
  /\ phase[s] = "running"
  /\ state' = [state EXCEPT ![s] = NoState]
  /\ UNCHANGED <<phase, queue, serving, health, requests>>

\* stop() fails the requests in the queue; the one being served is forgotten.
Stop(s) ==
  /\ phase[s] = "running"
  /\ phase' = [phase EXCEPT ![s] = "stopped"]
  /\ queue' = [queue EXCEPT ![s] = <<>>]
  /\ serving' = [serving EXCEPT ![s] = NoRequest]
  /\ reply' = [r \in Requests |->
                 IF reply[r] = "pending" /\ \E i \in DOMAIN queue[s] : queue[s][i] = r
                 THEN "error" ELSE reply[r]]
  /\ UNCHANGED <<health, state, tries>>

\* The task that awaits the request's future is cancelled.
Cancel(r) ==
  /\ reply[r] = "pending"
  /\ reply' = [reply EXCEPT ![r] = "cancelled"]
  /\ UNCHANGED <<slots, tries>>

\* The steps that bring a slot's requests on, and all the steps of its drain loop.
Progress(s) ==
  Skip(s) \/ Take(s) \/ Answer(s) \/ Reconnect(s) \/ GiveUp(s) \/ Requeue(s) \/ Die(s)

Serve(s) == Progress(s) \/ SwitchState(s)

Next ==
  \/ \E s \in Slots :
       Start(s) \/ Serve(s) \/ Forget(s) \/ Stop(s) \/ \E r \in Requests : Enqueue(s, r)
  \/ \E r \in Requests : Cancel(r)

Spec == Init /\ [][Next]_slotVars

\* A slot that has work goes on with it.
Fairness == \A s \in Slots : WF_slotVars(Progress(s))
====
