--------------------------- MODULE CircuitBreaker ---------------------------
(***************************************************************************)
(* The circuit breaker the order service keeps in front of the product       *)
(* service (order-service/internal/resilience/circuitbreaker.go).            *)
(*                                                                          *)
(* One breaker is shared by every goroutine that calls the product service.  *)
(* Execute takes the mutex twice, in allowRequest and in recordFailure or     *)
(* recordSuccess, and calls the service in between without it: a result can   *)
(* therefore reach the breaker in another state than the one that admitted    *)
(* the call.                                                                 *)
(***************************************************************************)
EXTENDS Integers

CONSTANTS
    Callers,            \* goroutines that share the breaker
    FailureThreshold,   \* config.FailureThreshold
    SuccessThreshold,   \* config.SuccessThreshold
    OpenTimeout         \* config.OpenTimeout, in clock ticks

ASSUME FailureThresholdAssumption == FailureThreshold \in Nat \ {0}
ASSUME SuccessThresholdAssumption == SuccessThreshold \in Nat \ {0}
ASSUME OpenTimeoutAssumption == OpenTimeout \in Nat

VARIABLES
    state,      \* cb.state
    failures,   \* cb.consecutiveFailures
    successes,  \* cb.consecutiveSuccesses, counted up to SuccessThreshold
    age,        \* time.Since(cb.lastFailureTime), counted up to OpenTimeout
    pc,         \* whether a caller is inside fn()
    result,     \* what its last Execute returned
    recent,     \* history: results recorded since the last change of state,
                \* latest first
    openFor     \* history: time since the breaker opened, up to OpenTimeout

vars == <<state, failures, successes, age, pc, result, recent, openFor>>

States  == {"closed", "half-open", "open"}
Results == {"none", "ok", "failed", "rejected"}
Window  == 1 .. (FailureThreshold + SuccessThreshold)

TypeOK ==
    /\ state \in States
    /\ failures \in Nat
    /\ successes \in 0 .. SuccessThreshold
    /\ age \in 0 .. OpenTimeout
    /\ pc \in [Callers -> {"idle", "calling"}]
    /\ result \in [Callers -> Results]
    /\ recent \in [Window -> {"none", "ok", "failed"}]
    /\ openFor \in 0 .. OpenTimeout

NoResults == [i \in Window |-> "none"]

(* NewCircuitBreaker.  lastFailureTime is the zero time: its age is huge.     *)
Init ==
    /\ state = "closed"
    /\ failures = 0
    /\ successes = 0
    /\ age = OpenTimeout
    /\ pc = [c \in Callers |-> "idle"]
    /\ result = [c \in Callers |-> "none"]
    /\ recent = NoResults
    /\ openFor = 0

-----------------------------------------------------------------------------
UpTo(n, bound) == IF n < bound THEN n ELSE bound

(* Mutant: a transition keeps the counters.                                  *)
TransitionToKeepsCounters(newState) ==
    /\ state' = newState
    /\ recent' = NoResults
    /\ openFor' = 0
    /\ UNCHANGED <<failures, successes>>

(* transitionTo, for a new state other than the current one.                  *)
TransitionTo(newState) ==
    /\ state' = newState
    /\ failures' = 0
    /\ successes' = 0
    /\ recent' = NoResults
    /\ openFor' = 0

(* allowRequest lets every request through unless the breaker is open.        *)
Admit(c) ==
    /\ pc[c] = "idle"
    /\ state # "open"
    /\ pc' = [pc EXCEPT ![c] = "calling"]
    /\ UNCHANGED <<state, failures, successes, age, result, recent, openFor>>

(* allowRequest on an open breaker whose timeout has passed: this request is  *)
(* the first probe.                                                          *)
AdmitProbe(c) ==
    /\ pc[c] = "idle"
    /\ state = "open"
    /\ age >= OpenTimeout
    /\ TransitionTo("half-open")
    /\ pc' = [pc EXCEPT ![c] = "calling"]
    /\ UNCHANGED <<age, result>>

(* Mutant: a rejected request counts as a failure and restarts the timeout.    *)
RejectRestartsTimeout(c) ==
    /\ pc[c] = "idle"
    /\ state = "open"
    /\ age < OpenTimeout
    /\ age' = 0
    /\ result' = [result EXCEPT ![c] = "rejected"]
    /\ UNCHANGED <<state, failures, successes, pc, recent, openFor>>

(* Execute returns ErrCircuitOpen without calling fn.                        *)
Reject(c) ==
    /\ pc[c] = "idle"
    /\ state = "open"
    /\ age < OpenTimeout
    /\ result' = [result EXCEPT ![c] = "rejected"]
    /\ UNCHANGED <<state, failures, successes, age, pc, recent, openFor>>

Return(c, r) ==
    /\ pc' = [pc EXCEPT ![c] = "idle"]
    /\ result' = [result EXCEPT ![c] = r]

(* The history variable: r is the latest result of this state.               *)
Recorded(r) == [i \in Window |-> IF i = 1 THEN r ELSE recent[i - 1]]

(* Mutant: the breaker opens one failure late.                               *)
RecordFailureOpensLate(c) ==
    /\ pc[c] = "calling"
    /\ Return(c, "failed")
    /\ age' = 0
    /\ \/ /\ \/ state = "closed" /\ failures >= FailureThreshold
             \/ state = "half-open"
          /\ TransitionTo("open")
       \/ /\ \/ state = "closed" /\ failures < FailureThreshold
             \/ state = "open"
          /\ failures' = failures + 1
          /\ successes' = 0
          /\ recent' = Recorded("failed")
          /\ UNCHANGED <<state, openFor>>

(* fn returned an error; recordFailure, whatever state the breaker is in now. *)
RecordFailure(c) ==
    /\ pc[c] = "calling"
    /\ Return(c, "failed")
    /\ age' = 0
    /\ \/ /\ \/ state = "closed" /\ failures + 1 >= FailureThreshold
             \/ state = "half-open"
          /\ TransitionTo("open")
       \/ /\ \/ state = "closed" /\ failures + 1 < FailureThreshold
             \/ state = "open"
          /\ failures' = failures + 1
          /\ successes' = 0
          /\ recent' = Recorded("failed")
          /\ UNCHANGED <<state, openFor>>

(* Mutant: a success does not end the run of failures.                        *)
RecordSuccessKeepsFailures(c) ==
    /\ pc[c] = "calling"
    /\ Return(c, "ok")
    /\ UNCHANGED age
    /\ \/ /\ state = "half-open" /\ successes + 1 >= SuccessThreshold
          /\ TransitionTo("closed")
       \/ /\ state # "half-open" \/ successes + 1 < SuccessThreshold
          /\ successes' = UpTo(successes + 1, SuccessThreshold)
          /\ recent' = Recorded("ok")
          /\ UNCHANGED <<state, failures, openFor>>

(* fn returned nil; recordSuccess.                                           *)
RecordSuccess(c) ==
    /\ pc[c] = "calling"
    /\ Return(c, "ok")
    /\ UNCHANGED age
    /\ \/ /\ state = "half-open" /\ successes + 1 >= SuccessThreshold
          /\ TransitionTo("closed")
       \/ /\ state # "half-open" \/ successes + 1 < SuccessThreshold
          /\ failures' = 0
          /\ successes' = UpTo(successes + 1, SuccessThreshold)
          /\ recent' = Recorded("ok")
          /\ UNCHANGED <<state, openFor>>

(* The clock.                                                                *)
Tick ==
    /\ age < OpenTimeout \/ (state = "open" /\ openFor < OpenTimeout)
    /\ age' = UpTo(age + 1, OpenTimeout)
    /\ openFor' = IF state = "open" THEN UpTo(openFor + 1, OpenTimeout) ELSE openFor
    /\ UNCHANGED <<state, failures, successes, pc, result, recent>>

Next ==
    \/ Tick
    \/ \E c \in Callers :
          \/ Admit(c)
          \/ AdmitProbe(c)
          \/ Reject(c)
          \/ RecordFailure(c)
          \/ RecordSuccess(c)

Spec == Init /\ [][Next]_vars

(* Time passes, and a call that was sent returns: the HTTP client of the       *)
(* order service gives up after 5 seconds.  No fairness on the callers: they   *)
(* are not bound to send anything.                                           *)
Fairness ==
    /\ WF_vars(Tick)
    /\ \A c \in Callers : WF_vars(RecordFailure(c) \/ RecordSuccess(c))

FairSpec == Spec /\ Fairness

-----------------------------------------------------------------------------
(* The last n results recorded in this state were all r.                     *)
LastAre(n, r) == \A i \in 1 .. n : recent[i] = r

(* A closed breaker has not sat through FailureThreshold failures in a row,    *)
(* and a half-open one has not sat through SuccessThreshold successes, nor     *)
(* one failure, whoever recorded them and in whatever state those calls were   *)
(* admitted.                                                                 *)
NoOverdueTransition ==
    /\ state = "closed" => ~ LastAre(FailureThreshold, "failed")
    /\ state = "half-open" =>
          /\ ~ LastAre(SuccessThreshold, "ok")
          /\ \A i \in Window : recent[i] # "failed"

(* Why: the counters count exactly the latest run of equal results, as far as  *)
(* the state looks at them.                                                  *)
CountersExact ==
    /\ state = "closed" =>
          /\ failures < FailureThreshold
          /\ LastAre(failures, "failed")
          /\ recent[failures + 1] # "failed"
    /\ state = "half-open" =>
          /\ failures = 0
          /\ successes < SuccessThreshold
          /\ LastAre(successes, "ok")
          /\ \A i \in Window : i > successes => recent[i] = "none"

(* The breaker moves Closed -> Open -> Half-Open -> Closed or back to Open, and *)
(* each move is earned: opening by FailureThreshold consecutive failures        *)
(* recorded since it closed, closing by SuccessThreshold consecutive successes  *)
(* recorded since it went half-open, probing by a full OpenTimeout without any   *)
(* recorded failure.                                                         *)
Earned ==
    \/ state' = state
    \/ /\ state = "closed" /\ state' = "open"
       /\ LastAre(FailureThreshold - 1, "failed")
       /\ \E c \in Callers : pc[c] = "calling" /\ result'[c] = "failed"
    \/ /\ state = "half-open" /\ state' = "open"
       /\ \E c \in Callers : pc[c] = "calling" /\ result'[c] = "failed"
    \/ /\ state = "half-open" /\ state' = "closed"
       /\ LastAre(SuccessThreshold - 1, "ok")
       /\ \E c \in Callers : pc[c] = "calling" /\ result'[c] = "ok"
    \/ /\ state = "open" /\ state' = "half-open"
       /\ age = OpenTimeout

TransitionsEarned == [][Earned]_vars

(* An open breaker never gets stuck refusing: it leaves the state, or it is     *)
(* ready to let the next request probe, however the callers keep hammering it.  *)
OpenEnds == (state = "open") ~> (state # "open" \/ age = OpenTimeout)

(* What the documentation says of the open state: OpenTimeout after it opened,  *)
(* the breaker lets a request probe.                                         *)
HalfOpenOnTime == state = "open" /\ openFor = OpenTimeout => age = OpenTimeout
=============================================================================
