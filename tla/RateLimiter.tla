----------------------------- MODULE RateLimiter ------------------------------
(***************************************************************************)
(* rateLimitMiddleware of the API gateway (api-gateway/main.go): how many        *)
(* requests of one client are let through, counted in Redis, where all replicas   *)
(* of the gateway keep one sorted set per client.                              *)
(*                                                                          *)
(* A request takes the time in whole seconds, prunes the entries of earlier       *)
(* seconds, counts the rest, and adds itself in a later command when there are     *)
(* fewer than Burst.  Each command is atomic in Redis, nothing else is: requests   *)
(* interleave between any two of them, and any of them may be late.             *)
(*                                                                          *)
(* ZADD and the EXPIRE that follows it are one step, although either may fail       *)
(* alone.  The parameter rps is read by nobody.  The clocks of the replicas agree.   *)
(***************************************************************************)
EXTENDS Integers, FiniteSets, Functions

CONSTANTS
    Clients,        \* client addresses
    Handlers,       \* requests under way at the same time, over all replicas
    Burst,          \* burst
    TicksInSecond,  \* how finely the model tells times apart
    MaxSecond,      \* bound: the last second of the clock
    MaxFailures     \* bound: Redis errors

ASSUME HandlersAssumption == IsFiniteSet(Handlers) /\ Handlers # {}
ASSUME ClientsAssumption == Clients # {}
ASSUME BurstAssumption == Burst \in Nat
ASSUME SecondsAssumption == TicksInSecond \in Nat \ {0} /\ MaxSecond \in Nat
ASSUME MaxFailuresAssumption == MaxFailures \in Nat

VARIABLES
    second, tick,   \* the time: time.Now().Unix(), and the part it leaves out
    window,         \* the sorted set of each client, as pairs <<score, member>>
    expires,        \* the second at which Redis drops it, 0 if never
    pc,             \* where each request is
    client,         \* clientIP
    now,            \* the time it took
    passed,         \* history: requests let through, by the time they took
    through,        \* history: requests let through, by the time that was decided
    failures        \* history: Redis errors

clockVars == <<second, tick>>
redisVars == <<window, expires>>
requestVars == <<pc, client, now>>
countVars == <<passed, through, failures>>
limiterVars == <<clockVars, redisVars, requestVars, countVars>>

Seconds == 0 .. MaxSecond
Ticks == 0 .. (TicksInSecond - 1)

LimiterTypeOK ==
    /\ second \in Seconds
    /\ tick \in Ticks
    /\ window \in [Clients -> SUBSET (Seconds \X Nat)]
    /\ expires \in [Clients -> Nat]
    /\ pc \in [Handlers -> {"idle", "prune", "count", "add"}]
    /\ client \in [Handlers -> Clients]
    /\ now \in [Handlers -> Seconds]
    /\ passed \in [Clients -> [Seconds -> Nat]]
    /\ through \in [Clients -> [Seconds \X Ticks -> Nat]]
    /\ failures \in 0 .. MaxFailures

AnyClient == CHOOSE c \in Clients : TRUE

LimiterInit ==
    /\ second = 0
    /\ tick = 0
    /\ window = [c \in Clients |-> {}]
    /\ expires = [c \in Clients |-> 0]
    /\ pc = [h \in Handlers |-> "idle"]
    /\ client = [h \in Handlers |-> AnyClient]
    /\ now = [h \in Handlers |-> 0]
    /\ passed = [c \in Clients |-> [s \in Seconds |-> 0]]
    /\ through = [c \in Clients |-> [t \in Seconds \X Ticks |-> 0]]
    /\ failures = 0

-----------------------------------------------------------------------------
(* The middleware is done with the request.                                     *)
Return(h) ==
    /\ pc' = [pc EXCEPT ![h] = "idle"]
    /\ client' = [client EXCEPT ![h] = AnyClient]
    /\ now' = [now EXCEPT ![h] = 0]

(* next.ServeHTTP: from here only the death of the process can stop the request,     *)
(* which counts as let through all the same.                                     *)
LetThrough(h) ==
    /\ passed' = [passed EXCEPT ![client[h]][now[h]] = @ + 1]
    /\ through' = [through EXCEPT ![client[h]][<<second, tick>>] = @ + 1]
    /\ Return(h)

(* Mutant: the time is rounded to the next second.                                 *)
ArriveRoundsUp(h, c) ==
    /\ pc[h] = "idle"
    /\ pc' = [pc EXCEPT ![h] = "prune"]
    /\ client' = [client EXCEPT ![h] = c]
    /\ now' = [now EXCEPT ![h] = second + 1]
    /\ UNCHANGED <<clockVars, redisVars, countVars>>

(* A request of client c arrives; the pipeline is sent.                           *)
Arrive(h, c) ==
    /\ pc[h] = "idle"
    /\ pc' = [pc EXCEPT ![h] = "prune"]
    /\ client' = [client EXCEPT ![h] = c]
    /\ now' = [now EXCEPT ![h] = second]
    /\ UNCHANGED <<clockVars, redisVars, countVars>>

(* ZREMRANGEBYSCORE key 0 score; Redis drops a key with no entries left.             *)
RemoveUpTo(c, score) ==
    LET rest == {e \in window[c] : e[1] > score}
    IN  /\ window' = [window EXCEPT ![c] = rest]
        /\ expires' = [expires EXCEPT ![c] = IF rest = {} THEN 0 ELSE @]

(* Mutant: the entries of the previous second are kept.                           *)
PruneTooLittle(h) ==
    /\ pc[h] = "prune"
    /\ RemoveUpTo(client[h], now[h] - 2)
    /\ pc' = [pc EXCEPT ![h] = "count"]
    /\ UNCHANGED <<clockVars, client, now, countVars>>

Prune(h) ==
    /\ pc[h] = "prune"
    /\ RemoveUpTo(client[h], now[h] - 1)
    /\ pc' = [pc EXCEPT ![h] = "count"]
    /\ UNCHANGED <<clockVars, client, now, countVars>>

(* Mutant: the request that fills the window is not the last one.                 *)
FullLate(c) == Cardinality(window[c]) > Burst

(* ZCARD key, compared with burst.                                             *)
Full(c) == Cardinality(window[c]) >= Burst

Accept(h) ==
    /\ pc[h] = "count"
    /\ ~ Full(client[h])
    /\ pc' = [pc EXCEPT ![h] = "add"]
    /\ UNCHANGED <<clockVars, redisVars, client, now, countVars>>

(* 429 Too Many Requests.                                                     *)
RefuseRequest(h) ==
    /\ pc[h] = "count"
    /\ Full(client[h])
    /\ Return(h)
    /\ UNCHANGED <<clockVars, redisVars, countVars>>

(* ZADD key now now-uuid.  The member is new; it is told from the others by how many     *)
(* requests of that second were let through before it.                             *)
Enter(h) ==
    window' = [window EXCEPT ![client[h]] = @ \cup {<<now[h], passed[client[h]][now[h]]>>}]

(* EXPIRE key 2, which does nothing to a key that is not there.                      *)
Renew(h) ==
    /\ window'[client[h]] # {}
    /\ expires' = [expires EXCEPT ![client[h]] = second + 2]

Add(h) ==
    /\ pc[h] = "add"
    /\ Enter(h)
    /\ Renew(h)
    /\ LetThrough(h)
    /\ UNCHANGED <<clockVars, failures>>

(* An error of Redis, or a command past the 100 ms of its context.  One of the          *)
(* pipeline is logged and the request let through; one of ZADD or EXPIRE is not even      *)
(* looked at, and may come after the command took effect.                          *)
RedisFails(h) ==
    /\ pc[h] # "idle"
    /\ failures < MaxFailures
    /\ failures' = failures + 1
    /\ UNCHANGED window \/ (pc[h] = "add" /\ Enter(h))
    /\ UNCHANGED expires \/ (pc[h] = "add" /\ Renew(h))
    /\ LetThrough(h)
    /\ UNCHANGED clockVars

(* The key is older than its EXPIRE.                                            *)
Evict(c) ==
    /\ expires[c] \in 1 .. second
    /\ window' = [window EXCEPT ![c] = {}]
    /\ expires' = [expires EXCEPT ![c] = 0]
    /\ UNCHANGED <<clockVars, requestVars, countVars>>

(* The process that serves some of the requests dies.                            *)
GatewayDies(dead) ==
    /\ \A h \in dead : pc[h] # "idle"
    /\ pc' = [h \in Handlers |-> IF h \in dead THEN "idle" ELSE pc[h]]
    /\ client' = [h \in Handlers |-> IF h \in dead THEN AnyClient ELSE client[h]]
    /\ now' = [h \in Handlers |-> IF h \in dead THEN 0 ELSE now[h]]
    /\ UNCHANGED <<clockVars, redisVars, countVars>>

Elapse ==
    /\ \/ /\ tick + 1 \in Ticks
          /\ tick' = tick + 1
          /\ UNCHANGED second
       \/ /\ tick + 1 = TicksInSecond
          /\ second < MaxSecond
          /\ tick' = 0
          /\ second' = second + 1
    /\ UNCHANGED <<redisVars, requestVars, countVars>>

LimiterNext ==
    \/ Elapse
    \/ \E c \in Clients : Evict(c)
    \/ \E dead \in (SUBSET Handlers) \ {{}} : GatewayDies(dead)
    \/ \E h \in Handlers :
          \/ \E c \in Clients : Arrive(h, c)
          \/ Prune(h)
          \/ Accept(h)
          \/ RefuseRequest(h)
          \/ Add(h)
          \/ RedisFails(h)

LimiterSpec == LimiterInit /\ [][LimiterNext]_limiterVars

-----------------------------------------------------------------------------
(* Of the requests of one client that took the time s, at most Burst and one for each    *)
(* Redis error are let through, but for those that overlap: up to n - 1 may stand        *)
(* between their count and their entry when the last one counts, and up to n may be       *)
(* late and find the window pruned or gone.                                       *)
WindowBound == Burst + 2 * Cardinality(Handlers) - 1

WindowBounded ==
    \A c \in Clients, s \in Seconds : passed[c][s] <= WindowBound + failures

(* No client is refused for what it did in an earlier second: when a request is answered     *)
(* 429, Burst requests were let through since the second in which it came.               *)
Since(c, s) ==
    SumFunctionOnSet(through[c], {t \in Seconds \X Ticks : t[1] >= s})

RefusedJustly == [][\A h \in Handlers : RefuseRequest(h) => Since(client[h], now[h]) >= Burst]_limiterVars

(* What the middleware says of itself: at most burst requests "within a 1-second window".    *)
SlidingWindow ==
    \A c \in Clients, s \in Seconds \ {0}, k \in Ticks :
        SumFunctionOnSet(through[c],
                         {t \in {s - 1, s} \X Ticks : IF t[1] = s THEN t[2] < k ELSE t[2] >= k})
            <= Burst
=============================================================================
