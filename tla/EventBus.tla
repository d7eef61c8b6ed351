------------------------------- MODULE EventBus -------------------------------
(***************************************************************************)
(* EventBus (src/purreal/events.py), for one kind of event.  emit() walks  *)
(* the list of handlers itself, not a copy.  It awaits nothing, so that no *)
(* task runs before it ends; but the handlers it calls may subscribe and   *)
(* unsubscribe, and clear the bus, while it is under way.                  *)
(***************************************************************************)
EXTENDS Integers, FiniteSets, SequencesExt

CONSTANTS
  Handlers,
  Async,        \* the handlers that are coroutine functions: each runs as a task
  MaxList,      \* bound: subscriptions at a time, which nothing in the code bounds
  MaxRemoved    \* bound: entries a list loses while emit() walks it, likewise

ASSUME HandlersAssumption == Async \subseteq Handlers /\ IsFiniteSet(Handlers)
ASSUME BoundsAssumption == MaxList \in Nat /\ MaxRemoved \in Nat

VARIABLES
  list,         \* _handlers[event]
  emitting,     \* emit() is under way
  at,           \* how many of the entries of the list it has passed
  running,      \* a synchronous handler is being called
  detached,     \* clear() has dropped the list that emit() walks
  walked,       \* that list, once detached
  tasks,        \* the asynchronous handlers with tasks that have not run yet
  start,        \* history: the list when emit() began
  called,       \* history, per handler: calls by this emit()
  removed       \* history: how many entries the list walked has lost since then

bus     == <<list, emitting, at, running, detached, walked, tasks>>
history == <<start, called, removed>>
busVars == <<bus, history>>

BusInit ==
  /\ list = <<>> /\ emitting = FALSE /\ at = 0 /\ running = FALSE
  /\ detached = FALSE /\ walked = <<>> /\ tasks = {}
  /\ start = <<>> /\ called = [h \in Handlers |-> 0] /\ removed = 0

-----------------------------------------------------------------------------
(***************************************************************************)
(* on, off and clear, called by a task or by a handler                     *)
(***************************************************************************)
On(h) ==
  /\ Len(list) < MaxList
  /\ list' = Append(list, h)
  /\ UNCHANGED <<detached, walked, removed>>

Taking(h) == emitting /\ ~detached /\ h \in ToSet(list)

\* mutant: every entry is removed
OffAll(h) ==
  /\ list' = SelectSeq(list, LAMBDA g : g # h)
  /\ removed' = removed + IF Taking(h) THEN 1 ELSE 0
  /\ removed' <= MaxRemoved
  /\ UNCHANGED <<detached, walked>>

\* list.remove: the first entry; a ValueError is swallowed
Off(h) ==
  /\ list' = IF h \in ToSet(list) THEN RemoveFirst(list, h) ELSE list
  /\ removed' = removed + IF Taking(h) THEN 1 ELSE 0
  /\ removed' <= MaxRemoved
  /\ UNCHANGED <<detached, walked>>

Clear ==
  /\ list' = <<>>
  /\ detached' = emitting
  /\ walked' = IF emitting /\ ~detached THEN list ELSE walked
  /\ UNCHANGED removed

Nothing == UNCHANGED <<list, detached, walked, removed>>

\* One call of the bus; a handler or a task makes any number of them.
React == Nothing \/ Clear \/ \E h \in Handlers : On(h) \/ Off(h)

-----------------------------------------------------------------------------
(***************************************************************************)
(* emit                                                                    *)
(***************************************************************************)
Walked == IF detached THEN walked ELSE list

Uncounted == called' = [h \in Handlers |-> 0] /\ removed' = 0

EmitBegin ==
  /\ ~emitting /\ list # <<>>
  /\ emitting' = TRUE /\ at' = 0
  /\ start' = list /\ Uncounted
  /\ UNCHANGED <<list, running, detached, walked, tasks>>

Called(h) == called' = [called EXCEPT ![h] = @ + 1] /\ at' = at + 1

\* The handler called before has returned.
CallHandler ==
  /\ emitting /\ at < Len(Walked)
  /\ LET h == Walked[at + 1] IN h \notin Async /\ Called(h)
  /\ running' = TRUE
  /\ Nothing
  /\ UNCHANGED <<emitting, tasks, start>>

\* The handler being called subscribes, unsubscribes or clears; an exception it raises in
\* the end is swallowed and changes nothing.
HandlerReacts ==
  /\ running /\ React
  /\ UNCHANGED <<emitting, at, running, tasks, start, called>>

\* mutant: without iscoroutinefunction
CreateTaskAlways ==
  /\ emitting /\ at < Len(Walked)
  /\ LET h == Walked[at + 1]
     IN  Called(h) /\ tasks' = tasks \cup {h}
  /\ running' = FALSE
  /\ Nothing
  /\ UNCHANGED <<emitting, start>>

CreateTask ==
  /\ emitting /\ at < Len(Walked)
  /\ LET h == Walked[at + 1]
     IN  h \in Async /\ Called(h) /\ tasks' = tasks \cup {h}
  /\ running' = FALSE
  /\ Nothing
  /\ UNCHANGED <<emitting, start>>

EmitEnd ==
  /\ emitting /\ at >= Len(Walked)
  /\ emitting' = FALSE /\ at' = 0 /\ running' = FALSE /\ detached' = FALSE /\ walked' = <<>>
  /\ start' = <<>> /\ Uncounted
  /\ UNCHANGED <<list, tasks>>

\* A task of an asynchronous handler runs; it may have others.
RunTask(h) ==
  /\ ~emitting /\ h \in tasks
  /\ tasks' \in {tasks, tasks \ {h}}
  /\ React
  /\ UNCHANGED <<emitting, at, running, start, called>>

\* Any other task of the program subscribes, unsubscribes or clears.
OtherTask ==
  /\ ~emitting /\ React
  /\ UNCHANGED <<emitting, at, running, tasks, start, called>>

BusNext ==
  EmitBegin \/ CallHandler \/ HandlerReacts \/ CreateTask \/ EmitEnd \/ OtherTask
    \/ \E h \in Handlers : RunTask(h)

BusSpec == BusInit /\ [][BusNext]_busVars

-----------------------------------------------------------------------------
(***************************************************************************)
(* Properties                                                              *)
(***************************************************************************)
\* Every variable ranges over the values the code's fields can have.
BusTypeOK ==
  /\ list \in Seq(Handlers) /\ walked \in Seq(Handlers) /\ start \in Seq(Handlers)
  /\ emitting \in BOOLEAN /\ running \in BOOLEAN /\ detached \in BOOLEAN /\ at \in Nat
  /\ tasks \subseteq Async /\ called \in [Handlers -> Nat]
  /\ removed \in Nat

Count(s, h) == Cardinality({i \in DOMAIN s : s[i] = h})
Over == emitting /\ at >= Len(Walked)

\* The calls <<h, n>> that emit() owes and has not made: the n-th to h, which was
\* subscribed n times and called fewer.
Missed ==
  {c \in Handlers \X (1..Len(start)) : called[c[1]] < c[2] /\ c[2] <= Count(start, c[1])}

\* Each handler gets the event at least as often as it was subscribed when emit() began,
\* whatever the others do, except that each subscription removed meanwhile can cost one
\* call, its own or the next handler's: no more is skipped (emit, off).
SkipsBounded == Over => Cardinality(Missed) <= removed
====
