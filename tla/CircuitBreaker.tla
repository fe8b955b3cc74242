--------------------------- MODULE CircuitBreaker ---------------------------
(***************************************************************************)
(* The circuit breaker in front of Redis and Kafka                         *)
(* (infrastructure/redis/circuit-breaker.ts).  One instance is shared by   *)
(* every caller of its owner; `execute' checks the state, awaits the       *)
(* guarded function and only then records how it went, so any number of    *)
(* calls are in flight while the state changes under them.                 *)
(***************************************************************************)
EXTENDS Naturals

CONSTANTS
  Calls,             \* callers that may be inside execute at one time
  FailureThreshold,  \* options.failureThreshold (5 for Redis, 3 for Kafka)
  MaxFailures        \* where the counter sticks (2^53 for a number)

ASSUME ThresholdAssumption ==
  /\ FailureThreshold \in Nat \ {0}
  /\ MaxFailures \in Nat /\ MaxFailures >= FailureThreshold

VARIABLES
  state,       \* CLOSED, OPEN or HALF_OPEN
  failures,    \* failures since the last success
  resetTimer,  \* the timer of scheduleReset is armed
  call         \* what each caller is doing or got last

vars == <<state, failures, resetTimer, call>>

States == {"CLOSED", "OPEN", "HALF_OPEN"}
Outcomes == {"none", "resolved", "failed", "rejected"}

Init ==
  /\ state = "CLOSED"
  /\ failures = 0
  /\ resetTimer = FALSE
  /\ call = [c \in Calls |-> "none"]

\* execute up to the await of func.
Execute(c) ==
  /\ call[c] # "running" /\ state # "OPEN"
  /\ call' = [call EXCEPT ![c] = "running"]
  /\ UNCHANGED <<state, failures, resetTimer>>

\* execute throws at once: func is never called.
Reject(c) ==
  /\ call[c] # "running" /\ state = "OPEN"
  /\ call' = [call EXCEPT ![c] = "rejected"]
  /\ UNCHANGED <<state, failures, resetTimer>>

\* Mutant: a success only clears the count.
SucceedUncounted(c) ==
  /\ call[c] = "running"
  /\ call' = [call EXCEPT ![c] = "resolved"]
  /\ failures' = 0
  /\ UNCHANGED <<state, resetTimer>>

\* func resolved: onSuccess.
Succeed(c) ==
  /\ call[c] = "running"
  /\ call' = [call EXCEPT ![c] = "resolved"]
  /\ failures' = 0
  /\ state' = IF state = "HALF_OPEN" THEN "CLOSED" ELSE state
  /\ UNCHANGED resetTimer

\* Mutant: one failure more than the threshold.
TripsPast(n) ==
  \/ state = "CLOSED" /\ n > FailureThreshold
  \/ state = "HALF_OPEN"

Trips(n) ==
  \/ state = "CLOSED" /\ n >= FailureThreshold
  \/ state = "HALF_OPEN"

Increment(n) == IF n < MaxFailures THEN n + 1 ELSE n

\* func rejected: onFailure, with setState(OPEN) and scheduleReset.
FailCall(c) ==
  /\ call[c] = "running"
  /\ call' = [call EXCEPT ![c] = "failed"]
  /\ failures' = Increment(failures)
  /\ IF Trips(failures')
     THEN state' = "OPEN" /\ resetTimer' = TRUE
     ELSE UNCHANGED <<state, resetTimer>>

\* The callback of scheduleReset's timer.
Reset ==
  /\ resetTimer
  /\ state' = "HALF_OPEN"
  /\ resetTimer' = FALSE
  /\ UNCHANGED <<failures, call>>

Next ==
  \/ Reset
  \/ \E c \in Calls : Execute(c) \/ Reject(c) \/ Succeed(c) \/ FailCall(c)

Spec == Init /\ [][Next]_vars

-----------------------------------------------------------------------------
\* Every variable has its type.
TypeOK ==
  /\ state \in States
  /\ failures \in 0..MaxFailures
  /\ resetTimer \in BOOLEAN
  /\ call \in [Calls -> Outcomes \cup {"running"}]

\* The reset timer is armed exactly while the breaker is open: late failures
\* neither re-arm nor drop it, so an open breaker is never stuck and a closed
\* one is never half-opened (scheduleReset against onSuccess and onFailure of
\* calls that were in flight).
TimerIffOpen == resetTimer <=> state = "OPEN"

\* However the calls in flight end, a closed breaker has room for one more
\* failure: failures counted while it was open are forgotten when it closes
\* (onSuccess against onFailure).
ClosedBelowThreshold == state = "CLOSED" => failures < FailureThreshold

\* The three are inductive together: ClosedBelowThreshold needs no more than
\* the state, and TimerIffOpen tells where Reset can start.
BreakerInv == TypeOK /\ TimerIffOpen /\ ClosedBelowThreshold

\* An open breaker is left by its timer only, never by a call that was started
\* before it opened and resolves late (the state test of onSuccess).
LateAnswersKeepItOpen ==
  [][state = "OPEN" => state' \in {"OPEN", "HALF_OPEN"}]_vars

\* Once the dependency has stopped failing, a breaker that callers keep using
\* closes for good (execute, onSuccess, scheduleReset).
Recovers ==
  /\ []<><<\E c \in Calls : Execute(c)>>_vars
  /\ <>[][\A c \in Calls : ~FailCall(c)]_vars
  => <>[](state = "CLOSED")
=============================================================================
