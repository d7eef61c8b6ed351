---------------------------- MODULE CircuitBreaker ----------------------------
(***************************************************************************)
(* CircuitBreaker (src/purreal/predictive.py): counts the failures of the  *)
(* requests callers make, rejects requests for a cooldown once there are   *)
(* too many, then lets some through to see whether to close again.  The    *)
(* state changes from OPEN to HALF_OPEN when somebody reads it.            *)
(***************************************************************************)
EXTENDS Integers, FiniteSets

CONSTANTS
  Callers,      \* tasks that ask the breaker before each request
  Threshold, Cooldown,
  MaxFailures   \* bound: failures counted, which nothing in the code bounds

ASSUME BreakerAssumption ==
  /\ Threshold \in Nat \ {0} /\ Cooldown \in Nat /\ MaxFailures \in Nat
  /\ IsFiniteSet(Callers)

VARIABLES
  st,           \* _state
  failures,     \* _failure_count
  age,          \* time since _last_failure_time, counted up to the cooldown
  successes,    \* _success_count_in_half_open
  busy          \* callers whose request was allowed and has not ended yet

breakerVars == <<st, failures, age, successes, busy>>

BreakerInit ==
  /\ st = "CLOSED" /\ failures = 0 /\ age = Cooldown /\ successes = 0
  /\ busy = {}

Tick ==
  /\ age < Cooldown
  /\ age' = age + 1
  /\ UNCHANGED <<st, failures, successes, busy>>

\* mutant: the field is read, not the property
CurrentField == st

\* What a reader of the property `state` sees.
Current == IF st = "OPEN" /\ age >= Cooldown THEN "HALF_OPEN" ELSE st

\* mutant: _success_count_in_half_open is not reset
AllowCounting(c) ==
  /\ c \notin busy /\ Current \in {"CLOSED", "HALF_OPEN"}
  /\ st' = Current
  /\ busy' = busy \cup {c}
  /\ UNCHANGED <<failures, age, successes>>

\* mutant: half open, the failures are counted anew
AllowAnew(c) ==
  /\ c \notin busy /\ Current \in {"CLOSED", "HALF_OPEN"}
  /\ st' = Current
  /\ successes' = IF st = "OPEN" THEN 0 ELSE successes
  /\ failures' = IF st = "OPEN" /\ Current = "HALF_OPEN" THEN 0 ELSE failures
  /\ busy' = busy \cup {c}
  /\ UNCHANGED age

\* allows_request, and the request if it is
Allow(c) ==
  /\ c \notin busy /\ Current \in {"CLOSED", "HALF_OPEN"}
  /\ st' = Current
  /\ successes' = IF st = "OPEN" THEN 0 ELSE successes
  /\ busy' = busy \cup {c}
  /\ UNCHANGED <<failures, age>>

\* mutant: _failure_count is not reset
SucceedCounting(c) ==
  /\ c \in busy /\ busy' = busy \ {c}
  /\ \/ /\ st = "HALF_OPEN"
        /\ st' = "CLOSED" /\ successes' = successes + 1
        /\ failures' = failures
     \/ /\ st = "CLOSED"
        /\ failures' = (IF failures > 0 THEN failures - 1 ELSE 0)
        /\ UNCHANGED <<st, successes>>
     \/ st = "OPEN" /\ UNCHANGED <<st, failures, successes>>
  /\ age' = age

\* record_success: on the field _state, not on the property that looks at the clock
Succeed(c) ==
  /\ c \in busy /\ busy' = busy \ {c}
  /\ \/ /\ st = "HALF_OPEN"
        /\ st' = "CLOSED" /\ failures' = 0 /\ successes' = successes + 1
     \/ /\ st = "CLOSED"
        /\ failures' = (IF failures > 0 THEN failures - 1 ELSE 0)
        /\ UNCHANGED <<st, successes>>
     \/ st = "OPEN" /\ UNCHANGED <<st, failures, successes>>
  /\ age' = age

\* record_failure
Fail(c) ==
  /\ c \in busy /\ failures < MaxFailures
  /\ busy' = busy \ {c}
  /\ failures' = failures + 1 /\ age' = 0
  /\ st' = IF failures' >= Threshold THEN "OPEN" ELSE st
  /\ UNCHANGED successes

Reset ==
  /\ st' = "CLOSED" /\ failures' = 0
  /\ UNCHANGED <<age, successes, busy>>

BreakerNext == Tick \/ Reset \/ \E c \in Callers : Allow(c) \/ Succeed(c) \/ Fail(c)

BreakerSpec == BreakerInit /\ [][BreakerNext]_breakerVars

-----------------------------------------------------------------------------
(***************************************************************************)
(* Properties                                                              *)
(***************************************************************************)
\* Every variable ranges over the values the code's fields can have.
BreakerTypeOK ==
  /\ st \in {"CLOSED", "OPEN", "HALF_OPEN"} /\ failures \in Nat
  /\ age \in 0..Cooldown /\ successes \in {0, 1}
  /\ busy \subseteq Callers

\* The breaker is closed exactly while the failures that successes have not made up for
\* are below the threshold, whatever order reports of late requests arrive in.
ClosedBelowThreshold == (st = "CLOSED") <=> (failures < Threshold)

\* One failure while half open, of a probe or of a request allowed long before, opens
\* the breaker again: the count is still at the threshold (record_failure).
FailureReopens == [][st = "HALF_OPEN" /\ failures' > failures => st' = "OPEN"]_breakerVars

\* An open breaker lets requests through again: reports of requests allowed before it
\* opened put the end of the cooldown off only so often (state, record_failure).
Recovers == st = "OPEN" ~> st # "OPEN"
====
