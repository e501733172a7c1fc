------------------------ MODULE ResilientClient_proofs ------------------------
(***************************************************************************)
(* Proofs about CircuitBreaker and about ResilientClient, which uses it: for any *)
(* number of goroutines, any number of retries, any thresholds and any timeout.   *)
(***************************************************************************)
EXTENDS ResilientClient, TLAPS

-----------------------------------------------------------------------------
(* The breaker, whoever calls it.                                              *)

USE FailureThresholdAssumption, SuccessThresholdAssumption, OpenTimeoutAssumption

(* The breaker's fields keep their types, whatever state a result finds it in. *)
THEOREM TypeCorrect == Spec => []TypeOK
<1> USE DEF TypeOK, States, Results, Window, NoResults
<1>1. Init => TypeOK
  BY DEF Init
<1>2. TypeOK /\ [Next]_vars => TypeOK'
  <2> SUFFICES ASSUME TypeOK, [Next]_vars PROVE TypeOK'
    OBVIOUS
  <2>1. CASE Tick
    BY <2>1 DEF Tick, UpTo
  <2>2. ASSUME NEW c \in Callers, Admit(c) PROVE TypeOK'
    BY <2>2 DEF Admit
  <2>3. ASSUME NEW c \in Callers, AdmitProbe(c) PROVE TypeOK'
    BY <2>3 DEF AdmitProbe, TransitionTo
  <2>4. ASSUME NEW c \in Callers, Reject(c) PROVE TypeOK'
    BY <2>4 DEF Reject
  <2>5. ASSUME NEW c \in Callers, RecordFailure(c) PROVE TypeOK'
    BY <2>5 DEF RecordFailure, Return, TransitionTo, Recorded
  <2>6. ASSUME NEW c \in Callers, RecordSuccess(c) PROVE TypeOK'
    BY <2>6 DEF RecordSuccess, Return, TransitionTo, Recorded, UpTo
  <2>7. CASE UNCHANGED vars
    BY <2>7 DEF vars
  <2> QED
    BY <2>1, <2>2, <2>3, <2>4, <2>5, <2>6, <2>7 DEF Next
<1> QED
  BY <1>1, <1>2, PTL DEF Spec

-----------------------------------------------------------------------------
(* Recording one more result r after a run of n of them makes a run of n + 1.  *)
LEMMA RunGrows ==
    ASSUME NEW n \in Nat, n + 1 \in Window, NEW r, LastAre(n, r),
           recent' = Recorded(r)
    PROVE  \A i \in 1 .. (n + 1) : recent'[i] = r
BY DEF LastAre, Recorded, Window

(* The counters of a closed or half-open breaker always describe the results   *)
(* recorded in that state: a transition forgets the results of the state it    *)
(* leaves, and a late result counts in the state it finds.                    *)
LEMMA CountersStep == TypeOK /\ CountersExact /\ [Next]_vars => CountersExact'
<1> SUFFICES ASSUME TypeOK, CountersExact, [Next]_vars PROVE CountersExact'
  OBVIOUS
<1> USE DEF TypeOK, States, Window
<1>1. CASE Tick
  BY <1>1 DEF Tick, CountersExact, LastAre
<1>2. ASSUME NEW c \in Callers, Admit(c) PROVE CountersExact'
  BY <1>2 DEF Admit, CountersExact, LastAre
<1>3. ASSUME NEW c \in Callers, AdmitProbe(c) PROVE CountersExact'
  BY <1>3 DEF AdmitProbe, TransitionTo, CountersExact, LastAre, NoResults
<1>4. ASSUME NEW c \in Callers, Reject(c) PROVE CountersExact'
  BY <1>4 DEF Reject, CountersExact, LastAre
<1>5. ASSUME NEW c \in Callers, RecordFailure(c) PROVE CountersExact'
  <2>1. CASE TransitionTo("open")
    BY <2>1 DEF TransitionTo, CountersExact
  <2>2. CASE ~ TransitionTo("open")
    <3>1. /\ failures' = failures + 1 /\ recent' = Recorded("failed") /\ state' = state
          /\ \/ state = "closed" /\ failures + 1 < FailureThreshold
             \/ state = "open"
      BY <1>5, <2>2 DEF RecordFailure
    <3>2. CASE state = "open"
      BY <3>1, <3>2 DEF CountersExact
    <3>3. CASE state = "closed"
      <4>1. LastAre(failures, "failed") /\ recent[failures + 1] # "failed"
        BY <3>3 DEF CountersExact
      <4>2. \A i \in 1 .. (failures + 1) : recent'[i] = "failed"
        BY <3>1, <3>3, <4>1, RunGrows
      <4>3. recent'[failures + 2] # "failed"
        BY <3>1, <3>3, <4>1 DEF Recorded
      <4> QED
        BY <3>1, <3>3, <4>2, <4>3 DEF CountersExact, LastAre
    <3> QED
      BY <3>1, <3>2, <3>3
  <2> QED
    BY <2>1, <2>2
<1>6. ASSUME NEW c \in Callers, RecordSuccess(c) PROVE CountersExact'
  <2>1. CASE TransitionTo("closed")
    BY <2>1 DEF TransitionTo, CountersExact, LastAre, NoResults
  <2>2. CASE ~ TransitionTo("closed")
    <3>1. /\ failures' = 0 /\ recent' = Recorded("ok") /\ state' = state
          /\ successes' = UpTo(successes + 1, SuccessThreshold)
          /\ state # "half-open" \/ successes + 1 < SuccessThreshold
      BY <1>6, <2>2 DEF RecordSuccess
    <3>2. CASE state = "closed"
      BY <3>1, <3>2 DEF CountersExact, LastAre, Recorded
    <3>3. CASE state = "half-open"
      <4>1. LastAre(successes, "ok") /\ \A i \in Window : i > successes => recent[i] = "none"
        BY <3>3 DEF CountersExact
      <4>2. successes' = successes + 1
        BY <3>1, <3>3 DEF UpTo
      <4>3. \A i \in 1 .. (successes + 1) : recent'[i] = "ok"
        BY <3>1, <3>3, <4>1, RunGrows
      <4>4. \A i \in Window : i > successes' => recent'[i] = "none"
        BY <3>1, <4>1, <4>2 DEF Recorded
      <4> QED
        BY <3>1, <3>3, <4>2, <4>3, <4>4 DEF CountersExact, LastAre
    <3>4. CASE state = "open"
      BY <3>1, <3>4 DEF CountersExact
    <3> QED
      BY <3>2, <3>3, <3>4
  <2> QED
    BY <2>1, <2>2
<1>7. CASE UNCHANGED vars
  BY <1>7 DEF vars, CountersExact, LastAre
<1> QED
  BY <1>1, <1>2, <1>3, <1>4, <1>5, <1>6, <1>7 DEF Next

(* The counters are exact in every state of every execution.                 *)
THEOREM CountersInvariant == Spec => [](TypeOK /\ CountersExact)
<1>1. Init => CountersExact
  BY DEF Init, CountersExact, LastAre, NoResults, Window
<1> QED
  BY <1>1, CountersStep, TypeCorrect, PTL DEF Spec

(* The breaker never overlooks a reason to open or to close.                  *)
THEOREM NothingOverdue == Spec => []NoOverdueTransition
<1>1. TypeOK /\ CountersExact => NoOverdueTransition
  <2> SUFFICES ASSUME TypeOK, CountersExact PROVE NoOverdueTransition
    OBVIOUS
  <2>1. CASE state = "closed"
    BY <2>1 DEF TypeOK, CountersExact, NoOverdueTransition, LastAre, Window
  <2>2. CASE state = "half-open"
    <3>1. /\ successes \in Nat /\ successes < SuccessThreshold
          /\ LastAre(successes, "ok")
          /\ \A i \in Window : i > successes => recent[i] = "none"
      BY <2>2 DEF TypeOK, CountersExact
    <3>2. successes + 1 \in Window /\ successes + 1 \in 1 .. SuccessThreshold
      BY <3>1 DEF Window
    <3>3. ~ LastAre(SuccessThreshold, "ok")
      BY <3>1, <3>2 DEF LastAre
    <3>4. \A i \in Window : recent[i] # "failed"
      BY <3>1 DEF LastAre, Window
    <3> QED
      BY <2>2, <3>3, <3>4 DEF NoOverdueTransition
  <2>3. CASE state = "open"
    BY <2>3 DEF NoOverdueTransition
  <2> QED
    BY <2>1, <2>2, <2>3 DEF TypeOK, States
<1> QED
  BY <1>1, CountersInvariant, PTL

(* The breaker only moves Closed -> Open -> Half-Open -> Closed or Open, and     *)
(* never without the full run of results, or the full timeout, that the        *)
(* configuration asks for.                                                   *)
THEOREM TransitionsAreEarned == Spec => TransitionsEarned
<1>1. TypeOK /\ CountersExact /\ [Next]_vars => [Earned]_vars
  <2> SUFFICES ASSUME TypeOK, CountersExact, Next PROVE Earned
    OBVIOUS
  <2> USE DEF TypeOK, States, Results
  <2>1. CASE Tick
    BY <2>1 DEF Tick, Earned
  <2>2. ASSUME NEW c \in Callers, Admit(c) \/ Reject(c) PROVE Earned
    BY <2>2 DEF Admit, Reject, Earned
  <2>3. ASSUME NEW c \in Callers, AdmitProbe(c) PROVE Earned
    BY <2>3 DEF AdmitProbe, TransitionTo, Earned
  <2>4. ASSUME NEW c \in Callers, RecordFailure(c) PROVE Earned
    <3>1. result'[c] = "failed" /\ pc[c] = "calling"
      BY <2>4 DEF RecordFailure, Return
    <3>2. CASE state = "closed" /\ failures + 1 >= FailureThreshold /\ state' = "open"
      <4>1. failures = FailureThreshold - 1
        BY <3>2 DEF CountersExact
      <4> QED
        BY <3>1, <3>2, <4>1 DEF Earned, CountersExact
    <3>3. CASE state = "half-open" /\ state' = "open"
      BY <3>1, <3>3 DEF Earned
    <3>4. CASE state' = state
      BY <3>4 DEF Earned
    <3> QED
      BY <2>4, <3>2, <3>3, <3>4 DEF RecordFailure, TransitionTo
  <2>5. ASSUME NEW c \in Callers, RecordSuccess(c) PROVE Earned
    <3>1. result'[c] = "ok" /\ pc[c] = "calling"
      BY <2>5 DEF RecordSuccess, Return
    <3>2. CASE state = "half-open" /\ successes + 1 >= SuccessThreshold /\ state' = "closed"
      <4>1. successes = SuccessThreshold - 1
        BY <3>2 DEF CountersExact
      <4> QED
        BY <3>1, <3>2, <4>1 DEF Earned, CountersExact
    <3>3. CASE state' = state
      BY <3>3 DEF Earned
    <3> QED
      BY <2>5, <3>2, <3>3 DEF RecordSuccess, TransitionTo
  <2> QED
    BY <2>1, <2>2, <2>3, <2>4, <2>5 DEF Next
<1> QED
  BY <1>1, CountersInvariant, PTL DEF Spec, TransitionsEarned

-----------------------------------------------------------------------------
(* The client implements the breaker's specification.                          *)

LEMMA BreakerStep ==
    ASSUME [ClientNext]_clientVars
    PROVE  [Next]_vars
<1> USE DEF vars
<1>1. CASE ClientTick
  BY <1>1 DEF ClientTick, Next
<1>2. ASSUME NEW c \in Callers, Start(c) \/ Reach(c) \/ Resume(c) \/ Cancel(c)
      PROVE  UNCHANGED vars
  BY <1>2 DEF Start, Reach, Resume, Cancel, vars
<1>3. ASSUME NEW c \in Callers,
             RejectAttempt(c) \/ Launch(c) \/ Unreachable(c) \/ BodyMissing(c) \/ Respond(c)
                 \/ RespondFails(c) \/ CancelAttempt(c)
      PROVE  Next
  BY <1>3 DEF RejectAttempt, Launch, Unreachable, BodyMissing, Respond, RespondFails,
              CancelAttempt, Next
<1>4. CASE UNCHANGED clientVars
  BY <1>4 DEF clientVars, vars
<1> QED BY <1>1, <1>2, <1>3, <1>4 DEF ClientNext, CallStep

(* The client's goroutines are callers of the breaker and nothing else touches its       *)
(* state.  This much is how the client is written (Do and Execute); it carries the         *)
(* breaker's theorems over to the client.                                         *)
LEMMA ImplementsBreaker == ClientSpec => Spec
<1>1. ClientInit => Init
  BY DEF ClientInit
<1>2. [ClientNext]_clientVars => [Next]_vars
  BY BreakerStep
<1> QED BY <1>1, <1>2, PTL DEF ClientSpec, Spec

(* So what the breaker guarantees to callers that come and go as they like, it           *)
(* guarantees to the retry loops of the client: it opens and closes on the results of     *)
(* their attempts, and misses none.                                              *)
THEOREM ClientCountsAttempts == ClientSpec => [](CountersExact /\ NoOverdueTransition)
BY ImplementsBreaker, CountersInvariant, NothingOverdue, PTL

-----------------------------------------------------------------------------
(* An attempt is served at most once, and the loop makes at most MaxRetries + 1 of them.    *)
Sent(c) ==
    /\ phase[c] \in {"try", "flight", "backoff"} => arrivals[c] <= attempt[c]
    /\ phase[c] = "served" => arrivals[c] >= 1
    /\ arrivals[c] <= attempt[c] + 1

(* The answer belongs to the call that is over.                                    *)
Answered(c) ==
    /\ phase[c] # "idle" => answer[c] = "none"
    /\ answer[c] = "response" => arrivals[c] >= 1
    /\ answer[c] = "error" => attempt[c] = MaxRetries

CallOK(c) ==
    /\ phase[c] \in Phases
    /\ pc[c] = "calling" <=> phase[c] \in {"flight", "served"}
    /\ attempt[c] \in 0 .. MaxRetries
    /\ unread[c] \in BOOLEAN
    /\ arrivals[c] \in Nat
    /\ answer[c] \in {"none", "response", "error", "cancelled"}
    /\ Sent(c)
    /\ Answered(c)

(* Every caller has one of each.                                               *)
Loops ==
    /\ phase = [c \in Callers |-> phase[c]] /\ attempt = [c \in Callers |-> attempt[c]]
    /\ unread = [c \in Callers |-> unread[c]] /\ arrivals = [c \in Callers |-> arrivals[c]]
    /\ answer = [c \in Callers |-> answer[c]]

CallInv == Loops /\ \A c \in Callers : CallOK(c)

(* What a step of one call does not touch.                                       *)
CallElsewhere(c) ==
    /\ \A d \in Callers \ {c} :
          UNCHANGED <<pc[d], phase[d], attempt[d], unread[d], arrivals[d], answer[d]>>
    /\ Loops'

LEMMA CallKept ==
    ASSUME CallInv, NEW c \in Callers, CallElsewhere(c), CallOK(c)'
    PROVE  CallInv'
<1>1. ASSUME NEW d \in Callers \ {c}
      PROVE  CallOK(d)'
  <2>1. UNCHANGED <<pc[d], phase[d], attempt[d], unread[d], arrivals[d], answer[d]>>
    BY DEF CallElsewhere
  <2>2. CallOK(d)
    BY DEF CallInv
  <2> QED BY <2>1, <2>2 DEF CallOK, Sent, Answered
<1> QED BY <1>1 DEF CallInv, CallElsewhere

LEMMA CallStays ==
    ASSUME TypeOK, CallInv, [ClientNext]_clientVars
    PROVE  CallInv'
<1> USE MaxRetriesAssumption DEF CallInv, TypeOK, Loops
<1>1. ASSUME NEW c \in Callers, Start(c)
      PROVE  CallInv'
  <2>1. CallElsewhere(c)
    BY <1>1 DEF Start, CallElsewhere, vars
  <2>2. CallOK(c)'
    BY <1>1 DEF Start, CallOK, Sent, Answered, Phases, vars
  <2> QED BY <2>1, <2>2, CallKept
<1>2. ASSUME NEW c \in Callers, Launch(c) \/ Reach(c) \/ Resume(c)
      PROVE  CallInv'
  <2>1. CallElsewhere(c)
    BY <1>2 DEF Launch, Admit, AdmitProbe, Reach, Resume, CallElsewhere, vars
  <2>2. CallOK(c)
    OBVIOUS
  <2>3. CASE Launch(c) \/ Resume(c)
    <3>1. /\ phase[c] \in {"try", "backoff"} /\ phase'[c] \in {"try", "flight"}
          /\ pc'[c] = "calling" <=> phase'[c] = "flight"
          /\ UNCHANGED <<attempt, unread, arrivals, answer>>
      BY <2>2, <2>3 DEF Launch, Admit, AdmitProbe, Resume, CallOK, vars
    <3>2. CallOK(c)'
      BY <2>2, <3>1 DEF CallOK, Sent, Answered, Phases
    <3> QED BY <2>1, <3>2, CallKept
  <2>4. CASE Reach(c)
    <3>1. /\ phase[c] = "flight" /\ phase'[c] = "served" /\ pc'[c] = pc[c]
          /\ unread'[c] \in BOOLEAN /\ arrivals'[c] = arrivals[c] + 1
          /\ UNCHANGED <<attempt, answer>>
      BY <2>4 DEF Reach, vars
    <3>2. CallOK(c)'
      BY <2>2, <3>1 DEF CallOK, Sent, Answered, Phases
    <3> QED BY <2>1, <3>2, CallKept
  <2> QED BY <1>2, <2>3, <2>4
<1>3. ASSUME NEW c \in Callers, RejectAttempt(c) \/ Unreachable(c) \/ BodyMissing(c) \/ RespondFails(c)
      PROVE  CallInv'
  <2>1. /\ AttemptFails(c) /\ pc'[c] = "idle"
        /\ \A d \in Callers \ {c} : pc'[d] = pc[d]
        /\ UNCHANGED <<unread, arrivals>>
        /\ phase[c] # "idle"
    BY <1>3 DEF RejectAttempt, Reject, Unreachable, BodyMissing, RespondFails, RecordFailure, Return
  <2>2. CallElsewhere(c)
    BY <2>1 DEF AttemptFails, Finish, CallElsewhere
  <2>3. CallOK(c)'
    <3>1. CallOK(c)
      OBVIOUS
    <3>2. arrivals[c] <= attempt[c] + 1 /\ answer[c] = "none"
      BY <2>1, <3>1 DEF CallOK, Sent, Answered, Phases
    <3>3. CASE attempt[c] >= MaxRetries /\ Finish(c, "error")
      <4>1. /\ phase'[c] = "idle" /\ answer'[c] = "error" /\ attempt'[c] = attempt[c]
            /\ attempt[c] = MaxRetries
        BY <3>1, <3>3 DEF Finish, CallOK
      <4> QED BY <2>1, <3>1, <3>2, <4>1 DEF CallOK, Sent, Answered, Phases
    <3>4. CASE attempt[c] < MaxRetries /\ attempt' = [attempt EXCEPT ![c] = @ + 1]
               /\ phase' = [phase EXCEPT ![c] = "backoff"] /\ UNCHANGED answer
      <4>1. /\ phase'[c] = "backoff" /\ attempt'[c] = attempt[c] + 1 /\ answer'[c] = "none"
        BY <3>1, <3>2, <3>4
      <4>2. attempt'[c] \in 0 .. MaxRetries /\ arrivals'[c] <= attempt'[c]
        BY <2>1, <3>1, <3>2, <3>4, <4>1 DEF CallOK
      <4>3. Sent(c)' /\ Answered(c)'
        BY <2>1, <3>1, <3>2, <4>1, <4>2 DEF CallOK, Sent, Answered
      <4>4. /\ unread'[c] \in BOOLEAN /\ arrivals'[c] \in Nat
            /\ pc'[c] = "calling" <=> phase'[c] \in {"flight", "served"}
        BY <2>1, <3>1, <4>1 DEF CallOK
      <4> QED BY <4>1, <4>2, <4>3, <4>4 DEF CallOK, Phases
    <3> QED BY <2>1, <3>3, <3>4 DEF AttemptFails
  <2> QED BY <2>2, <2>3, CallKept
<1>4. ASSUME NEW c \in Callers, Respond(c) \/ CancelAttempt(c)
      PROVE  CallInv'
  <2>1. CallElsewhere(c)
    BY <1>4 DEF Respond, CancelAttempt, RecordSuccess, RecordFailure, Return, Finish, CallElsewhere
  <2>2. /\ phase'[c] = "idle" /\ pc'[c] = "idle"
        /\ attempt'[c] = attempt[c] /\ unread'[c] = unread[c] /\ arrivals'[c] = arrivals[c]
        /\ \/ answer'[c] = "cancelled"
           \/ answer'[c] = "response" /\ phase[c] = "served"
    BY <1>4 DEF Respond, CancelAttempt, RecordSuccess, RecordFailure, Return, Finish
  <2>3. CallOK(c)'
    BY <2>2 DEF CallOK, Sent, Answered, Phases
  <2> QED BY <2>1, <2>3, CallKept
<1>5. ASSUME NEW c \in Callers, Cancel(c)
      PROVE  CallInv'
  <2>1. CallElsewhere(c)
    BY <1>5 DEF Cancel, Finish, CallElsewhere, vars
  <2>2. CallOK(c)'
    BY <1>5 DEF Cancel, Finish, CallOK, Sent, Answered, Phases, vars
  <2> QED BY <2>1, <2>2, CallKept
<1>6. CASE ClientTick \/ UNCHANGED clientVars
  <2>1. UNCHANGED <<pc, phase, attempt, unread, arrivals, answer>>
    BY <1>6 DEF ClientTick, Tick, clientVars, callVars, vars
  <2>2. \A c \in Callers : CallOK(c)'
    BY <2>1 DEF CallOK, Sent, Answered
  <2> QED BY <2>1, <2>2
<1> QED BY <1>1, <1>2, <1>3, <1>4, <1>5, <1>6 DEF ClientNext, CallStep

LEMMA CallInitially == ClientInit => CallInv
BY MaxRetriesAssumption DEF ClientInit, Init, CallInv, Loops, CallOK, Sent, Answered, Phases

(* Both hold in every state.                                                    *)
LEMMA CallAlways == ClientSpec => [](TypeOK /\ CallInv)
<1>1. ClientSpec => []TypeOK
  BY ImplementsBreaker, TypeCorrect, PTL
<1> QED BY <1>1, CallInitially, CallStays, PTL DEF ClientSpec

(* The loop of each goroutine keeps its types: a call is inside the breaker exactly while  *)
(* its attempt is out, there are at most MaxRetries retries, and no call reaches the        *)
(* server more than once per attempt.                                            *)
THEOREM ClientTypeCorrect == ClientSpec => []ClientTypeOK
<1>1. TypeOK /\ CallInv => ClientTypeOK
  BY MaxRetriesAssumption DEF CallInv, Loops, CallOK, Sent, ClientTypeOK
<1> QED BY <1>1, CallAlways, PTL

(* For any number of goroutines and retries, and whatever the breaker and the           *)
(* connections do: a response has come from the server in this very call, an error is     *)
(* reported only after the last retry, and a request (a change of the stock, say) has       *)
(* reached the server at most once per attempt.                                    *)
THEOREM AnswersAreTruthful == ClientSpec => []AnswersTruthful
<1>1. CallInv => AnswersTruthful
  BY DEF CallInv, CallOK, Sent, Answered, AnswersTruthful
<1> QED BY <1>1, CallAlways, PTL
=============================================================================
