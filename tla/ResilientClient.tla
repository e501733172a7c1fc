--------------------------- MODULE ResilientClient ----------------------------
(***************************************************************************)
(* The HTTP client of the order service (internal/resilience/client.go and      *)
(* retry.go): retry(circuit_breaker(http_call)), as ResilientClient.Do composes  *)
(* the three.  Goroutines share one client, and so the one breaker whose state       *)
(* and operations this module takes from CircuitBreaker; each has its own request    *)
(* and its own retry loop.                                                      *)
(*                                                                          *)
(* An attempt passes the breaker, and is then a clone of the one request of its     *)
(* call.  Request.Clone copies the Body field, not what it reads from, so once an    *)
(* attempt has been written, every later one of the same call finds the body at its   *)
(* end.  What becomes of such an attempt depends on the connection it gets.  On one   *)
(* from the pool the transport sees that nothing was written, rewinds the body with    *)
(* the GetBody that updateStock sets and Clone keeps, and sends the request in full;   *)
(* on a new one it gives up, and the attempt fails before anything of it is sent.      *)
(* The model lets either happen.  (A GET that the transport sends again by itself       *)
(* changes nothing at the server and is not told from one that it sends once.)       *)
(***************************************************************************)
EXTENDS CircuitBreaker

CONSTANTS
    Writers,            \* of the Callers, those whose request has a body (PATCH); the others GET
    MaxRetries          \* RetryConfig.MaxRetries

ASSUME WritersAssumption == Writers \subseteq Callers
ASSUME MaxRetriesAssumption == MaxRetries \in Nat

VARIABLES
    phase,      \* where the call of each goroutine is
    attempt,    \* the loop variable of ExecuteHTTP
    unread,     \* the body of the request has not been read yet
    arrivals,   \* history: how often this call has reached the server
    answer      \* what the last Do returned

callVars == <<phase, attempt, unread, arrivals, answer>>
clientVars == <<vars, callVars>>

(* "try": at the head of the loop;  "flight": inside fn of the breaker, nothing    *)
(* sent yet;  "served": the server has the request;  "backoff": before a retry.    *)
Phases == {"idle", "try", "flight", "served", "backoff"}

ClientTypeOK ==
    /\ TypeOK
    /\ phase \in [Callers -> Phases]
    /\ \A c \in Callers : pc[c] = "calling" <=> phase[c] \in {"flight", "served"}
    /\ attempt \in [Callers -> 0 .. MaxRetries]
    /\ unread \in [Callers -> BOOLEAN]
    /\ arrivals \in [Callers -> 0 .. (MaxRetries + 1)]
    /\ answer \in [Callers -> {"none", "response", "error", "cancelled"}]

ClientInit ==
    /\ Init
    /\ phase = [c \in Callers |-> "idle"]
    /\ attempt = [c \in Callers |-> 0]
    /\ unread = [c \in Callers |-> TRUE]
    /\ arrivals = [c \in Callers |-> 0]
    /\ answer = [c \in Callers |-> "none"]

-----------------------------------------------------------------------------
(* getProduct and updateStock: a new request, and Do.                            *)
Start(c) ==
    /\ phase[c] = "idle"
    /\ phase' = [phase EXCEPT ![c] = "try"]
    /\ attempt' = [attempt EXCEPT ![c] = 0]
    /\ unread' = [unread EXCEPT ![c] = TRUE]
    /\ arrivals' = [arrivals EXCEPT ![c] = 0]
    /\ answer' = [answer EXCEPT ![c] = "none"]
    /\ UNCHANGED vars

(* ExecuteHTTP returns.                                                        *)
Finish(c, a) ==
    /\ phase' = [phase EXCEPT ![c] = "idle"]
    /\ answer' = [answer EXCEPT ![c] = a]
    /\ UNCHANGED attempt

(* Mutant: a retry does not count as an attempt.                                 *)
AttemptFailsUncounted(c) ==
    /\ phase' = [phase EXCEPT ![c] = "backoff"]
    /\ UNCHANGED <<attempt, answer>>

(* An attempt failed in a way that is retried: any error, ErrCircuitOpen and a     *)
(* body that cannot be read again included, or a status of 500 and above.          *)
AttemptFails(c) ==
    \/ /\ attempt[c] >= MaxRetries
       /\ Finish(c, "error")
    \/ /\ attempt[c] < MaxRetries
       /\ attempt' = [attempt EXCEPT ![c] = @ + 1]
       /\ phase' = [phase EXCEPT ![c] = "backoff"]
       /\ UNCHANGED answer

(* The breaker is open: ErrCircuitOpen, without a call.                          *)
RejectAttempt(c) ==
    /\ phase[c] = "try"
    /\ Reject(c)
    /\ AttemptFails(c)
    /\ UNCHANGED <<unread, arrivals>>

(* The breaker lets the attempt through.                                         *)
Launch(c) ==
    /\ phase[c] = "try"
    /\ Admit(c) \/ AdmitProbe(c)
    /\ phase' = [phase EXCEPT ![c] = "flight"]
    /\ UNCHANGED <<attempt, unread, arrivals, answer>>

(* The request is written and reaches the server, from its body or, on a connection  *)
(* of the pool, from a new copy of it.                                            *)
Reach(c) ==
    /\ phase[c] = "flight"
    /\ phase' = [phase EXCEPT ![c] = "served"]
    /\ unread' = [unread EXCEPT ![c] = c \notin Writers]
    /\ arrivals' = [arrivals EXCEPT ![c] = @ + 1]
    /\ UNCHANGED <<vars, attempt, answer>>

(* No connection: the body is not touched.                                       *)
Unreachable(c) ==
    /\ phase[c] = "flight"
    /\ RecordFailure(c)
    /\ AttemptFails(c)
    /\ UNCHANGED <<unread, arrivals>>

HasBody(c) == c \in Writers => unread[c]

(* On a new connection the transport finds the body at its end, short of the         *)
(* announced length.                                                            *)
BodyMissing(c) ==
    /\ phase[c] = "flight"
    /\ ~ HasBody(c)
    /\ RecordFailure(c)
    /\ AttemptFails(c)
    /\ UNCHANGED <<unread, arrivals>>

(* A status below 500: Do returns the response.                                   *)
Respond(c) ==
    /\ phase[c] = "served"
    /\ RecordSuccess(c)
    /\ Finish(c, "response")
    /\ UNCHANGED <<unread, arrivals>>

(* A status of 500 and above, the 5 s timeout or a broken connection.             *)
RespondFails(c) ==
    /\ phase[c] = "served"
    /\ RecordFailure(c)
    /\ AttemptFails(c)
    /\ UNCHANGED <<unread, arrivals>>

(* The wait before the next attempt is over.                                      *)
Resume(c) ==
    /\ phase[c] = "backoff"
    /\ phase' = [phase EXCEPT ![c] = "try"]
    /\ UNCHANGED <<vars, attempt, unread, arrivals, answer>>

(* The context ends at the head of the loop or during the wait.                    *)
Cancel(c) ==
    /\ phase[c] \in {"try", "backoff"}
    /\ Finish(c, "cancelled")
    /\ UNCHANGED <<vars, unread, arrivals>>

(* The context ends during the attempt: the attempt fails, which the breaker        *)
(* counts like any failure, and the loop ends with it.                            *)
CancelAttempt(c) ==
    /\ phase[c] \in {"flight", "served"}
    /\ RecordFailure(c)
    /\ Finish(c, "cancelled")
    /\ UNCHANGED <<unread, arrivals>>

ClientTick == Tick /\ UNCHANGED callVars

CallStep(c) ==
    \/ RejectAttempt(c)
    \/ Launch(c)
    \/ Reach(c)
    \/ Unreachable(c)
    \/ BodyMissing(c)
    \/ Respond(c)
    \/ RespondFails(c)
    \/ Resume(c)

ClientNext ==
    \/ ClientTick
    \/ \E c \in Callers : Start(c) \/ CallStep(c) \/ Cancel(c) \/ CancelAttempt(c)

ClientSpec == ClientInit /\ [][ClientNext]_clientVars

(* A goroutine in the loop goes on: the breaker answers at once, an attempt ends     *)
(* after at most 5 s and a wait after its delay.  Time passes.                      *)
ClientFairness ==
    /\ \A c \in Callers : WF_clientVars(CallStep(c))
    /\ WF_clientVars(ClientTick)

ClientFairSpec == ClientSpec /\ ClientFairness

-----------------------------------------------------------------------------
(* What Do tells its caller: a response has come from the server in this call, an      *)
(* error only after MaxRetries retries, and the server has had the request at most       *)
(* once per attempt, so a change of the stock that is retried is made at most           *)
(* MaxRetries + 1 times.                                                        *)
AnswersTruthful ==
    \A c \in Callers :
        /\ answer[c] = "response" => arrivals[c] >= 1
        /\ answer[c] = "error" => attempt[c] = MaxRetries
        /\ arrivals[c] <= attempt[c] + 1

(* Every call ends: the retries do not keep a saga (and its slot of the bulkhead)      *)
(* in a loop, with the breaker open or not.                                       *)
CallEnds == \A c \in Callers : phase[c] # "idle" ~> phase[c] = "idle"

(* The server fails an attempt, or the caller of Do hangs up.                       *)
Outage(c) ==
    \/ Unreachable(c) /\ HasBody(c)
    \/ RespondFails(c)
    \/ Cancel(c)
    \/ CancelAttempt(c)

(* The breaker heals: once the server answers again, and as long as there are calls,    *)
(* the breaker ends up closed for good.  Neither the calls it rejects nor the retries    *)
(* that fail for want of a body (which it counts as failures of the server) keep it       *)
(* open.                                                                       *)
BreakerCloses ==
    /\ <>[][\A c \in Callers : ~ Outage(c)]_clientVars
    /\ []<>(\E c \in Callers : phase[c] # "idle")
    => <>[](state = "closed")

(* What updateStock says of its retries: the request body can be read again.          *)
RetryHasBody == \A c \in Callers : phase[c] = "flight" => HasBody(c)
=============================================================================
