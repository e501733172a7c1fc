------------------------------- MODULE Accounts -------------------------------
(***************************************************************************)
(* Accounts and tokens: registration, login and profile in the user service       *)
(* (user-service/main.go), and the api gateway in front of it                    *)
(* (api-gateway/main.go, authMiddleware and proxyHandler).                       *)
(*                                                                          *)
(* A request goes through a replica of the gateway, which checks its token, or    *)
(* does not for registration and login, and waits for the service, 5 s at most.   *)
(* The service's handlers do not look at the request's context: a job whose       *)
(* caller has given up goes on, and one whose process dies may leave a statement    *)
(* that Postgres still executes.  The replicas share nothing but the users table    *)
(* and the secret the tokens are signed with.  A request whose body is not JSON       *)
(* (400), or whose id is not a UUID, changes nothing and is not a step.              *)
(*                                                                          *)
(* The clock runs in ticks, TicksPerSecond of them to a second, because a token     *)
(* is issued at any time and expires at a whole second.  All hosts have the same    *)
(* clock.  The id of a row, a random UUID, is the request that inserted it.         *)
(***************************************************************************)
EXTENDS Integers, FiniteSets

CONSTANTS
    Requests,       \* the requests that clients may make, each of them once
    None,           \* no request: no token, no row
    Emails,         \* the addresses
    Passwords,      \* the passwords
    TooLong,        \* those over 72 bytes, of which bcrypt makes no hash
    First72,        \* what bcrypt looks at of each when it compares
    TicksPerSecond, \* the resolution of the clock
    Lifetime,       \* of a token, in seconds: 24 h
    MaxClock,       \* bound: the time of the last tick
    Faults          \* the failures that may happen

(*   "db"     a statement fails, or an INSERT takes effect without its answer      *)
(*   "crash"  a process of the user service dies                                *)
AllFaults == {"db", "crash"}

ASSUME NoneAssumption == None \notin Requests
ASSUME TooLongAssumption == TooLong \subseteq Passwords
ASSUME First72Assumption ==
    /\ First72 \in [Passwords -> Passwords]
    /\ \A p \in Passwords \ TooLong : First72[p] = p
ASSUME ClockAssumption ==
    /\ TicksPerSecond \in Nat \ {0}
    /\ Lifetime \in Nat
    /\ MaxClock \in Nat
ASSUME FaultsAssumption == Faults \subseteq AllFaults

VARIABLES
    clock,      \* time.Now, in ticks
    users,      \* the rows of the users table
    ask,        \* what each request asks
    gate,       \* where the gateway is with it
    code,       \* the status code it answers the client with, 0 before
    token,      \* the token it answers with
    job,        \* where the user service is with it
    reply,      \* what the service answers the gateway with
    failed,     \* history: a statement of the request failed
    known,      \* history: the client of this login had seen its registration succeed
    age         \* history: how old its token was when the gateway let it pass

historyVars == <<failed, known, age>>
vars == <<clock, users, ask, gate, code, token, job, reply, historyVars>>

Users == [id : Requests, email : Emails, password : Passwords]

(* The claims of a token, and when exactly it was issued.  A profile request names   *)
(* the request whose answer brought its token, from None it comes without a token    *)
(* that the service has signed, and the id that it asks for, None for one that no     *)
(* row will have.                                                              *)
Tokens == [sub : Requests, email : Emails, exp : Nat, at : 0 .. MaxClock]
NoToken == [sub |-> None]

Asks == [kind : {"register", "login"}, email : Emails, password : Passwords]
        \cup [kind : {"profile"}, via : Requests \cup {None}, id : Requests \cup {None}]
NoAsk == [kind |-> "none"]

Codes == {0, 200, 201, 401, 404, 409, 500, 502}
NoReply == [code |-> 0, token |-> NoToken]

TypeOK ==
    /\ clock \in 0 .. MaxClock
    /\ users \in SUBSET Users
    /\ ask \in [Requests -> Asks \cup {NoAsk}]
    /\ gate \in [Requests -> {"new", "waiting", "answered"}]
    /\ code \in [Requests -> Codes]
    /\ token \in [Requests -> Tokens \cup {NoToken}]
    /\ job \in [Requests -> {"none", "insert", "select", "issue", "read", "orphan", "ended"}]
    /\ reply \in [Requests -> [code : Codes, token : Tokens \cup {NoToken}]]
    /\ failed \in SUBSET Requests
    /\ known \in SUBSET Requests
    /\ age \in [Requests -> 0 .. MaxClock]

Init ==
    /\ clock = 0
    /\ users = {}
    /\ ask = [r \in Requests |-> NoAsk]
    /\ gate = [r \in Requests |-> "new"]
    /\ code = [r \in Requests |-> 0]
    /\ token = [r \in Requests |-> NoToken]
    /\ job = [r \in Requests |-> "none"]
    /\ reply = [r \in Requests |-> NoReply]
    /\ failed = {}
    /\ known = {}
    /\ age = [r \in Requests |-> 0]

-----------------------------------------------------------------------------
(* The gateway.                                                              *)

(* The gateway's answer to the client.                                         *)
Answers(r, c, t) ==
    /\ gate' = [gate EXCEPT ![r] = "answered"]
    /\ code' = [code EXCEPT ![r] = c]
    /\ token' = [token EXCEPT ![r] = t]

(* A client has been told that it owns the account with these credentials.         *)
Registered(email, password) ==
    \E q \in Requests : /\ code[q] = 201
                        /\ ask[q] = [kind |-> "register", email |-> email, password |-> password]

(* POST /auth/register and POST /auth/login are proxied without a token.  Hashing    *)
(* the password comes before the INSERT ...                                      *)
Register(r, email, password) ==
    /\ gate[r] = "new"
    /\ password \notin TooLong
    /\ ask' = [ask EXCEPT ![r] = [kind |-> "register", email |-> email, password |-> password]]
    /\ gate' = [gate EXCEPT ![r] = "waiting"]
    /\ job' = [job EXCEPT ![r] = "insert"]
    /\ UNCHANGED <<clock, users, code, token, reply, historyVars>>

(* ... and fails for one that is too long: 500.                                  *)
HashFails(r, email, password) ==
    /\ gate[r] = "new"
    /\ password \in TooLong
    /\ ask' = [ask EXCEPT ![r] = [kind |-> "register", email |-> email, password |-> password]]
    /\ gate' = [gate EXCEPT ![r] = "waiting"]
    /\ job' = [job EXCEPT ![r] = "ended"]
    /\ reply' = [reply EXCEPT ![r] = [code |-> 500, token |-> NoToken]]
    /\ UNCHANGED <<clock, users, code, token, historyVars>>

Login(r, email, password) ==
    /\ gate[r] = "new"
    /\ ask' = [ask EXCEPT ![r] = [kind |-> "login", email |-> email, password |-> password]]
    /\ gate' = [gate EXCEPT ![r] = "waiting"]
    /\ job' = [job EXCEPT ![r] = "select"]
    /\ known' = IF Registered(email, password) THEN known \cup {r} ELSE known
    /\ UNCHANGED <<clock, users, code, token, reply, failed, age>>

(* Mutant: a token is still valid in the tick it expires at.                     *)
ValidInclusive(t) == t # NoToken /\ clock <= t.exp

(* jwt.Parse: signed with the secret, and not expired.                            *)
Valid(t) == t # NoToken /\ clock < t.exp

TokenOf(q) == IF q = None THEN NoToken ELSE token[q]

(* authMiddleware lets the request pass, with the identity of its token, and the    *)
(* proxy sends it on: GET /users/{id}, for whatever id.                             *)
Admit(r, q, id) ==
    /\ gate[r] = "new"
    /\ Valid(TokenOf(q))
    /\ ask' = [ask EXCEPT ![r] = [kind |-> "profile", via |-> q, id |-> id]]
    /\ gate' = [gate EXCEPT ![r] = "waiting"]
    /\ job' = [job EXCEPT ![r] = "read"]
    /\ age' = [age EXCEPT ![r] = clock - token[q].at]
    /\ UNCHANGED <<clock, users, code, token, reply, failed, known>>

(* A missing, malformed or expired token: 401, whatever id is asked for.             *)
Refuse(r, q) ==
    /\ gate[r] = "new"
    /\ q = None \/ TokenOf(q) # NoToken
    /\ ~ Valid(TokenOf(q))
    /\ ask' = [ask EXCEPT ![r] = [kind |-> "profile", via |-> q, id |-> None]]
    /\ Answers(r, 401, NoToken)
    /\ age' = [age EXCEPT ![r] = IF q = None THEN 0 ELSE clock - token[q].at]
    /\ UNCHANGED <<clock, users, job, reply, failed, known>>

(* The service's answer arrives in time.                                         *)
Forward(r) ==
    /\ gate[r] = "waiting"
    /\ reply[r] # NoReply
    /\ Answers(r, reply[r].code, reply[r].token)
    /\ reply' = [reply EXCEPT ![r] = NoReply]
    /\ UNCHANGED <<clock, users, ask, job, historyVars>>

(* ErrorHandler: a broken connection, or no answer within 5 s: 502.  The service's    *)
(* handler is not stopped; what it answers is lost.                              *)
GiveUp(r) ==
    /\ gate[r] = "waiting"
    /\ Answers(r, 502, NoToken)
    /\ reply' = [reply EXCEPT ![r] = NoReply]
    /\ UNCHANGED <<clock, users, ask, job, historyVars>>

(* A request, whatever it asks, that does not get to the service at all: 502.        *)
Unreachable(r) ==
    /\ gate[r] = "new"
    /\ Answers(r, 502, NoToken)
    /\ UNCHANGED <<clock, users, ask, job, reply, historyVars>>

-----------------------------------------------------------------------------
(* The user service.                                                         *)

(* The handler is done with answer c, for the gateway if it still waits for it.       *)
Replies(r, c, t) ==
    /\ job' = [job EXCEPT ![r] = "ended"]
    /\ reply' = [reply EXCEPT ![r] = IF gate[r] = "waiting" THEN [code |-> c, token |-> t]
                                     ELSE NoReply]

(* The row that a registration inserts, with the hash of its password.                *)
Row(r) == [id |-> r, email |-> ask[r].email, password |-> First72[ask[r].password]]

(* Mutant: the column is not UNIQUE.                                            *)
TakenNever(email) == FALSE

(* The UNIQUE constraint on email.                                              *)
Taken(email) == \E u \in users : u.email = email

(* registerHandler's INSERT ... RETURNING id succeeds.                            *)
Insert(r) ==
    /\ job[r] = "insert"
    /\ ~ Taken(ask[r].email)
    /\ users' = users \cup {Row(r)}
    /\ job' = [job EXCEPT ![r] = "issue"]
    /\ UNCHANGED <<clock, ask, gate, code, token, reply, historyVars>>

(* The address is taken: 409.                                                  *)
InsertConflicts(r) ==
    /\ job[r] = "insert"
    /\ Taken(ask[r].email)
    /\ Replies(r, 409, NoToken)
    /\ UNCHANGED <<clock, users, ask, gate, code, token, historyVars>>

(* Any other error of the INSERT is answered in the same way, the lost answer of     *)
(* one that took effect included.                                              *)
InsertFails(r) ==
    /\ job[r] = "insert"
    /\ "db" \in Faults
    /\ failed' = failed \cup {r}
    /\ \/ UNCHANGED users
       \/ ~ Taken(ask[r].email) /\ users' = users \cup {Row(r)}
    /\ Replies(r, 409, NoToken)
    /\ UNCHANGED <<clock, ask, gate, code, token, known, age>>

(* Mutant: the password is not compared.                                        *)
SelectWithoutCompare(r) ==
    /\ job[r] = "select"
    /\ \E u \in users : u.email = ask[r].email
    /\ job' = [job EXCEPT ![r] = "issue"]
    /\ UNCHANGED <<clock, users, ask, gate, code, token, reply, historyVars>>

(* CompareHashAndPassword, with the hash of row u.  Unlike GenerateFromPassword it      *)
(* takes a password of any length.                                              *)
Matches(u, r) == u.email = ask[r].email /\ u.password = First72[ask[r].password]

(* loginHandler: SELECT by email, then the password against the hash it read.        *)
Select(r) ==
    /\ job[r] = "select"
    /\ \E u \in users : Matches(u, r)
    /\ job' = [job EXCEPT ![r] = "issue"]
    /\ UNCHANGED <<clock, users, ask, gate, code, token, reply, historyVars>>

(* No such address, another password, or an error of the SELECT: 401.               *)
SelectFails(r) ==
    /\ job[r] = "select"
    /\ \/ /\ ~ \E u \in users : Matches(u, r)
          /\ UNCHANGED failed
       \/ "db" \in Faults /\ failed' = failed \cup {r}
    /\ Replies(r, 401, NoToken)
    /\ UNCHANGED <<clock, users, ask, gate, code, token, known, age>>

(* generateToken, then 201 or 200 with it.  time.Now().Add(24h).Unix() drops what     *)
(* is less than a second.                                                      *)
Expiry == (clock \div TicksPerSecond + Lifetime) * TicksPerSecond

Issue(r) ==
    /\ job[r] = "issue"
    /\ \E u \in users :
          /\ IF ask[r].kind = "register" THEN u.id = r ELSE u.email = ask[r].email
          /\ Replies(r, IF ask[r].kind = "register" THEN 201 ELSE 200,
                     [sub |-> u.id, email |-> u.email, exp |-> Expiry, at |-> clock])
    /\ UNCHANGED <<clock, users, ask, gate, code, token, historyVars>>

(* getUserHandler for the id that is asked for, whoever asks: 200, or 404 for no row    *)
(* and for every error.                                                         *)
Read(r) ==
    /\ job[r] = "read"
    /\ \/ /\ Replies(r, IF \E u \in users : u.id = ask[r].id THEN 200 ELSE 404,
                     NoToken)
          /\ UNCHANGED failed
       \/ /\ "db" \in Faults
          /\ failed' = failed \cup {r}
          /\ Replies(r, 404, NoToken)
    /\ UNCHANGED <<clock, users, ask, gate, code, token, known, age>>

-----------------------------------------------------------------------------
(* The environment.                                                          *)

(* A process of the user service dies: its jobs never answer.  An INSERT it had sent  *)
(* may still be executed.                                                      *)
Crash(dead) ==
    /\ "crash" \in Faults
    /\ \A r \in dead : job[r] \in {"insert", "select", "issue", "read"}
    /\ \E sent \in SUBSET dead :
          /\ \A r \in sent : job[r] = "insert"
          /\ job' = [r \in Requests |->
                       IF r \in sent THEN "orphan" ELSE IF r \in dead THEN "ended" ELSE job[r]]
    /\ UNCHANGED <<clock, users, ask, gate, code, token, reply, historyVars>>

InsertOrphan(r) ==
    /\ job[r] = "orphan"
    /\ job' = [job EXCEPT ![r] = "ended"]
    /\ users' = IF Taken(ask[r].email) THEN users ELSE users \cup {Row(r)}
    /\ UNCHANGED <<clock, ask, gate, code, token, reply, historyVars>>

Tick ==
    /\ clock < MaxClock
    /\ clock' = clock + 1
    /\ UNCHANGED <<users, ask, gate, code, token, job, reply, historyVars>>

(* All requests are answered, and nothing is left to do for the service.            *)
Rest ==
    /\ \A r \in Requests : gate[r] = "answered" /\ job[r] \in {"none", "ended"}
    /\ UNCHANGED vars

GatewayStep(r) ==
    \/ \E email \in Emails, password \in Passwords :
          \/ Register(r, email, password)
          \/ HashFails(r, email, password)
          \/ Login(r, email, password)
    \/ \E q \in Requests \cup {None} :
          \/ \E id \in Requests \cup {None} : Admit(r, q, id)
          \/ Refuse(r, q)
    \/ Forward(r)
    \/ GiveUp(r)
    \/ Unreachable(r)

ServiceStep(r) ==
    \/ Insert(r)
    \/ InsertConflicts(r)
    \/ InsertFails(r)
    \/ Select(r)
    \/ SelectFails(r)
    \/ Issue(r)
    \/ Read(r)
    \/ InsertOrphan(r)

Next ==
    \/ \E r \in Requests : GatewayStep(r) \/ ServiceStep(r)
    \/ \E dead \in (SUBSET Requests) \ {{}} : Crash(dead)
    \/ Tick
    \/ Rest

Spec == Init /\ [][Next]_vars

-----------------------------------------------------------------------------
(* An address belongs to the request that was told so: whoever got 201 owns the row   *)
(* of its address, no other request got 201 for it, and 409 says that somebody else    *)
(* does, unless a statement of the request failed.                               *)
RegistrationTruthful ==
    \A r \in Requests :
        /\ code[r] = 201 =>
              /\ Row(r) \in users
              /\ \A u \in users : u.email = ask[r].email => u.id = r
        /\ code[r] = 409 /\ r \notin failed =>
              \E u \in users : u.email = ask[r].email /\ u.id # r

(* A client that was told its account exists gets in with the same credentials, by     *)
(* whatever replicas, unless its SELECT fails; and nobody gets in without the password   *)
(* of an account, or what bcrypt looks at of it.                                    *)
LoginTruthful ==
    \A r \in Requests :
        /\ r \in known /\ code[r] = 401 => r \in failed
        /\ ask[r].kind = "login" /\ code[r] = 200 =>
              \E u \in users : Matches(u, r) /\ token[r].sub = u.id

(* Every request that the gateway let pass comes from an account that is there, and     *)
(* its token was not older than 24 h then; one with a token it refused was, up to the     *)
(* second that the expiry is rounded down by.  200 means that the account asked for is     *)
(* there, and a client finds its own, unless the SELECT fails.                         *)
AdmittedInTime ==
    \A r \in Requests : ask[r].kind = "profile" =>
        LET t == TokenOf(ask[r].via) IN
        /\ job[r] # "none" =>
              /\ \E u \in users : u.id = t.sub /\ u.email = t.email
              /\ age[r] < Lifetime * TicksPerSecond
        /\ code[r] = 401 /\ t # NoToken =>
              age[r] > (Lifetime - 1) * TicksPerSecond
        /\ code[r] = 200 => \E u \in users : u.id = ask[r].id
        /\ code[r] = 404 /\ ask[r].id = t.sub => r \in failed

(* "Returns HTTP 409 Conflict if the email already exists."                          *)
ConflictMeansTaken ==
    \A r \in Requests : code[r] = 409 => \E u \in users : u.email = ask[r].email
=============================================================================
