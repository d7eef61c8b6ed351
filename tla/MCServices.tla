------------------------------ MODULE MCServices ------------------------------
(***************************************************************************)
(* A model-checking instance of the three components that share no state   *)
(* with any other: CircuitBreaker, EventBus and PoolManager.  A behaviour  *)
(* is one of either; a state of the other two is their first.              *)
(***************************************************************************)
EXTENDS CircuitBreaker, EventBus, PoolManager, TLC

CONSTANTS a1, a2, b1

\* two creators compete for a name
MCNameOf == (a1 :> "a") @@ (a2 :> "a") @@ (b1 :> "b")

VARIABLE part

vars == <<part, breakerVars, busVars, managerVars>>

Init ==
  /\ part \in {"breaker", "bus", "manager"}
  /\ BreakerInit /\ BusInit /\ ManagerInit

Next ==
  /\ part' = part
  /\ \/ part = "breaker" /\ BreakerNext /\ UNCHANGED <<busVars, managerVars>>
     \/ part = "bus" /\ BusNext /\ UNCHANGED <<breakerVars, managerVars>>
     \/ part = "manager" /\ ManagerNext /\ UNCHANGED <<breakerVars, busVars>>

\* Fairness of the breaker: time passes, every request ends, some caller keeps asking.
BreakerFair ==
  /\ WF_vars(part = "breaker" /\ Tick /\ UNCHANGED <<part, busVars, managerVars>>)
  /\ WF_vars(part = "breaker" /\ (\E c \in Callers : Allow(c))
               /\ UNCHANGED <<part, busVars, managerVars>>)
  /\ \A c \in Callers :
       WF_vars(part = "breaker" /\ (Succeed(c) \/ Fail(c))
                 /\ UNCHANGED <<part, busVars, managerVars>>)

\* Fairness of the manager: a task that has the lock or need not wait goes on,
\* initialize() and close() end.  Nothing makes anyone call or cancel.
ManagerFair ==
  /\ \A t \in Creators :
       WF_vars(part = "manager" /\ Create(t) /\ UNCHANGED <<part, breakerVars, busVars>>)
  /\ \A t \in Creators :
       WF_vars(part = "manager" /\ PoolCloses(t) /\ UNCHANGED <<part, breakerVars, busVars>>)
  /\ \A t \in Closers :
       WF_vars(part = "manager" /\ Shut(t) /\ UNCHANGED <<part, breakerVars, busVars>>)

Spec == Init /\ [][Next]_vars /\ BreakerFair /\ ManagerFair
====
