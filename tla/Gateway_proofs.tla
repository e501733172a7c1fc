---------------------------- MODULE Gateway_proofs ----------------------------
(***************************************************************************)
(* What the api gateway guarantees: RateLimiter for any number of clients, of     *)
(* overlapping requests and of Redis errors, and for every burst; Accounts, where  *)
(* it stands in front of the user service, for any number of requests, addresses   *)
(* and passwords, any resolution of the clock and lifetime of tokens, and under     *)
(* every failure.                                                            *)
(***************************************************************************)
EXTENDS Accounts, RateLimiter, FiniteSetTheorems, SumTheorems, TLAPS

-----------------------------------------------------------------------------
(* Accounts.                                                                 *)
(*                                                                          *)
(* A row belongs to the registration that inserted it, rows are never deleted,    *)
(* and what a request asks is decided once.  So what RequestOK says of a request  *)
(* stays true through the steps of others (UntouchedOK), and each action has to     *)
(* answer for its own request only.                                            *)

(* Every row is the one its registration asked for, which has inserted it, and no     *)
(* two have the same address.                                                  *)
UsersOK ==
    /\ \A u, v \in users : u.email = v.email => u = v
    /\ \A u \in users : /\ ask[u.id].kind = "register"
                        /\ u = Row(u.id)
                        /\ job[u.id] \notin {"insert", "orphan"}

(* Before it is made a request has asked nothing, and until it is answered its client    *)
(* has nothing.                                                                *)
NewOK(r) ==
    /\ gate[r] = "new" => ask[r] = NoAsk /\ job[r] = "none" /\ reply[r] = NoReply
    /\ gate[r] # "answered" => code[r] = 0 /\ token[r] = NoToken

JobOK(r) ==
    /\ job[r] \in {"insert", "orphan"} => ask[r].kind = "register"
    /\ job[r] = "select" => ask[r].kind = "login"
    /\ job[r] = "issue" =>
          \/ ask[r].kind = "register" /\ Row(r) \in users
          \/ ask[r].kind = "login" /\ \E u \in users : Matches(u, r)
    /\ job[r] = "read" => ask[r].kind = "profile"
    /\ reply[r].code = 401 => ask[r].kind = "login"

KnownOK(r) == r \in known => ask[r].kind = "login" /\ \E u \in users : Matches(u, r)

(* A token names an account, and expires Lifetime after the second it was issued in.  *)
TokenOK(t) ==
    t # NoToken =>
        /\ \E u \in users : u.id = t.sub /\ u.email = t.email
        /\ t.at <= clock
        /\ t.exp = (t.at \div TicksPerSecond + Lifetime) * TicksPerSecond

(* Answer c with token t tells r the truth.                                     *)
AnswerOK(r, c, t) ==
    /\ c = 201 => ask[r].kind = "register" /\ Row(r) \in users
    /\ c = 409 /\ r \notin failed =>
          ask[r].kind = "register" /\ \E u \in users : u.email = ask[r].email /\ u.id # r
    /\ c = 200 /\ ask[r].kind = "login" => \E u \in users : Matches(u, r) /\ t.sub = u.id
    /\ c = 401 /\ r \in known => r \in failed
    /\ c = 200 /\ ask[r].kind = "profile" => \E u \in users : u.id = ask[r].id
    /\ c = 404 /\ ask[r].kind = "profile" /\ ask[r].id = TokenOf(ask[r].via).sub => r \in failed
    /\ TokenOK(t)

ProfileOK(r) ==
    ask[r].kind = "profile" =>
        /\ ask[r].via # None => token[ask[r].via] # NoToken
        /\ job[r] # "none" => ask[r].via # None /\ age[r] < Lifetime * TicksPerSecond
        /\ code[r] = 401 /\ ask[r].via # None => age[r] > (Lifetime - 1) * TicksPerSecond

RequestOK(r) ==
    /\ NewOK(r) /\ JobOK(r) /\ KnownOK(r) /\ ProfileOK(r)
    /\ AnswerOK(r, code[r], token[r])
    /\ AnswerOK(r, reply[r].code, reply[r].token)

AccountsInv == TypeOK /\ UsersOK /\ \A r \in Requests : RequestOK(r)

-----------------------------------------------------------------------------
(* Types.                                                                    *)

LEMMA AskFacts ==
    ASSUME TypeOK, NEW r \in Requests
    PROVE  /\ ask[r].kind \in {"register", "login"} => ask[r].email \in Emails /\ ask[r].password \in Passwords
           /\ ask[r].kind = "profile" => ask[r].via \in Requests \cup {None} /\ ask[r].id \in Requests \cup {None}
           /\ ask[r] = NoAsk => ask[r].kind = "none"
BY DEF TypeOK, Asks, NoAsk

LEMMA ExpiryIsNat ==
    ASSUME NEW at \in Nat
    PROVE  (at \div TicksPerSecond + Lifetime) * TicksPerSecond \in Nat
<1>1. at \div TicksPerSecond \in Nat
  BY ClockAssumption
<1>2. \A a, b \in Nat : a * b \in Nat
  OBVIOUS
<1> DEFINE seconds == at \div TicksPerSecond + Lifetime
<1>3. seconds \in Nat /\ TicksPerSecond \in Nat
  BY <1>1, ClockAssumption
<1> QED BY <1>2, <1>3

(* A token is issued in some second; its expiry is counted from the start of that.     *)
LEMMA ExpiryBounds ==
    ASSUME NEW at \in Nat,
           NEW exp, exp = (at \div TicksPerSecond + Lifetime) * TicksPerSecond
    PROVE  /\ exp <= at + Lifetime * TicksPerSecond
           /\ at + Lifetime * TicksPerSecond < exp + TicksPerSecond
           /\ (Lifetime - 1) * TicksPerSecond = Lifetime * TicksPerSecond - TicksPerSecond
<1> DEFINE s == at \div TicksPerSecond
<1>1. s \in Nat /\ s * TicksPerSecond <= at /\ at < s * TicksPerSecond + TicksPerSecond
  BY ClockAssumption
<1>2. \A a, b, c \in Int : (a + b) * c = a * c + b * c /\ (b - 1) * c = b * c - c /\ a * c \in Int
  OBVIOUS
<1> HIDE DEF s
<1>3. exp = s * TicksPerSecond + Lifetime * TicksPerSecond
  BY <1>1, <1>2, ClockAssumption DEF s
<1>4. (Lifetime - 1) * TicksPerSecond = Lifetime * TicksPerSecond - TicksPerSecond
  BY <1>2, ClockAssumption
<1>5. s * TicksPerSecond \in Int /\ Lifetime * TicksPerSecond \in Int
  BY <1>1, <1>2, ClockAssumption
<1> QED BY <1>1, <1>3, <1>4, <1>5, ClockAssumption

(* The parts of TypeOK that a request's two ends update together.                 *)
LEMMA AnswersType ==
    ASSUME TypeOK, NEW r \in Requests, NEW c \in Codes, NEW t \in Tokens \cup {NoToken},
           Answers(r, c, t)
    PROVE  /\ gate' \in [Requests -> {"new", "waiting", "answered"}]
           /\ code' \in [Requests -> Codes]
           /\ token' \in [Requests -> Tokens \cup {NoToken}]
BY DEF TypeOK, Answers

LEMMA RepliesType ==
    ASSUME TypeOK, NEW r \in Requests, NEW c \in Codes, NEW t \in Tokens \cup {NoToken},
           Replies(r, c, t)
    PROVE  /\ job' \in [Requests -> {"none", "insert", "select", "issue", "read", "orphan", "ended"}]
           /\ reply' \in [Requests -> [code : Codes, token : Tokens \cup {NoToken}]]
<1> USE DEF TypeOK, Replies
<1>1. [code |-> c, token |-> t] \in [code : Codes, token : Tokens \cup {NoToken}]
  OBVIOUS
<1>2. NoReply \in [code : Codes, token : Tokens \cup {NoToken}]
  BY DEF NoReply, Codes
<1> QED BY <1>1, <1>2

LEMMA IssuedType ==
    ASSUME TypeOK, NEW r \in Requests, NEW u \in users
    PROVE  [sub |-> u.id, email |-> u.email, exp |-> Expiry, at |-> clock] \in Tokens
<1>1. clock \in Nat
  BY ClockAssumption DEF TypeOK
<1>2. Expiry \in Nat
  BY <1>1, ExpiryIsNat DEF Expiry
<1> QED BY <1>2 DEF TypeOK, Users, Tokens

LEMMA RowType ==
    ASSUME TypeOK, NEW r \in Requests, ask[r].kind = "register"
    PROVE  users \cup {Row(r)} \in SUBSET Users
BY AskFacts, First72Assumption DEF TypeOK, Row, Users

LEMMA AgeType ==
    ASSUME AccountsInv, NEW q \in Requests, token[q] # NoToken
    PROVE  clock - token[q].at \in 0 .. MaxClock
<1>1. token[q].at <= clock
  BY DEF AccountsInv, RequestOK, AnswerOK, TokenOK
<1>2. token[q].at \in 0 .. MaxClock /\ clock \in 0 .. MaxClock
  BY DEF AccountsInv, TypeOK, Tokens
<1> QED BY <1>1, <1>2, ClockAssumption

LEMMA GatewayType ==
    ASSUME AccountsInv, NEW r \in Requests, GatewayStep(r)
    PROVE  TypeOK'
<1> USE DEF historyVars
<1> TypeOK
  BY DEF AccountsInv
<1>1. ASSUME NEW email \in Emails, NEW password \in Passwords, Register(r, email, password)
      PROVE  TypeOK'
  <2>1. [kind |-> "register", email |-> email, password |-> password] \in Asks
    BY DEF Asks
  <2>2. ask' \in [Requests -> Asks \cup {NoAsk}]
    BY <1>1, <2>1 DEF Register, TypeOK
  <2> QED BY <1>1, <2>2 DEF Register, TypeOK
<1>2. ASSUME NEW email \in Emails, NEW password \in Passwords, HashFails(r, email, password)
      PROVE  TypeOK'
  <2>1. [kind |-> "register", email |-> email, password |-> password] \in Asks
    BY DEF Asks
  <2>2. ask' \in [Requests -> Asks \cup {NoAsk}]
    BY <1>2, <2>1 DEF HashFails, TypeOK
  <2>3. [code |-> 500, token |-> NoToken] \in [code : Codes, token : Tokens \cup {NoToken}]
    BY DEF Codes
  <2>4. reply' \in [Requests -> [code : Codes, token : Tokens \cup {NoToken}]]
    BY <1>2, <2>3 DEF HashFails, TypeOK
  <2> QED BY <1>2, <2>2, <2>4 DEF HashFails, TypeOK
<1>3. ASSUME NEW email \in Emails, NEW password \in Passwords, Login(r, email, password)
      PROVE  TypeOK'
  <2>1. [kind |-> "login", email |-> email, password |-> password] \in Asks
    BY DEF Asks
  <2>2. ask' \in [Requests -> Asks \cup {NoAsk}]
    BY <1>3, <2>1 DEF Login, TypeOK
  <2>3. known' \in SUBSET Requests
    BY <1>3 DEF Login, TypeOK
  <2> QED BY <1>3, <2>2, <2>3 DEF Login, TypeOK
<1>4. ASSUME NEW q \in Requests \cup {None}, NEW id \in Requests \cup {None},
             Admit(r, q, id) \/ Refuse(r, q)
      PROVE  TypeOK'
  <2>1. /\ [kind |-> "profile", via |-> q, id |-> id] \in Asks
        /\ [kind |-> "profile", via |-> q, id |-> None] \in Asks
    BY DEF Asks
  <2>2. ask' \in [Requests -> Asks \cup {NoAsk}]
    BY <1>4, <2>1 DEF Admit, Refuse, TypeOK
  <2>3. age' \in [Requests -> 0 .. MaxClock]
    <3>1. CASE q = None
      BY <1>4, <3>1, ClockAssumption DEF Admit, Refuse, TypeOK, TokenOf, Valid
    <3>2. CASE q # None
      <4>1. token[q] # NoToken
        BY <1>4, <3>2 DEF Admit, Refuse, Valid, TokenOf
      <4>2. clock - token[q].at \in 0 .. MaxClock
        BY <3>2, <4>1, AgeType
      <4>3. age' = [age EXCEPT ![r] = clock - token[q].at]
        BY <1>4, <3>2 DEF Admit, Refuse
      <4> QED BY <4>2, <4>3 DEF TypeOK
    <3> QED BY <3>1, <3>2
  <2>4. CASE Admit(r, q, id)
    BY <2>2, <2>3, <2>4 DEF Admit, TypeOK
  <2>5. CASE Refuse(r, q)
    <3>1. Answers(r, 401, NoToken) /\ 401 \in Codes
      BY <2>5 DEF Refuse, Codes
    <3> QED BY <2>2, <2>3, <2>5, <3>1, AnswersType DEF Refuse, TypeOK
  <2> QED BY <1>4, <2>4, <2>5
<1>5. ASSUME Forward(r)
      PROVE  TypeOK'
  <2>1. reply[r].code \in Codes /\ reply[r].token \in Tokens \cup {NoToken}
    BY DEF TypeOK
  <2>2. NoReply \in [code : Codes, token : Tokens \cup {NoToken}]
    BY DEF NoReply, Codes
  <2>3. reply' \in [Requests -> [code : Codes, token : Tokens \cup {NoToken}]]
    BY <1>5, <2>2 DEF Forward, TypeOK
  <2> QED BY <1>5, <2>1, <2>3, AnswersType DEF Forward, TypeOK
<1>6. ASSUME GiveUp(r) \/ Unreachable(r)
      PROVE  TypeOK'
  <2>1. 502 \in Codes /\ NoReply \in [code : Codes, token : Tokens \cup {NoToken}]
    BY DEF NoReply, Codes
  <2>2. reply' \in [Requests -> [code : Codes, token : Tokens \cup {NoToken}]]
    BY <1>6, <2>1 DEF GiveUp, Unreachable, TypeOK
  <2>3. Answers(r, 502, NoToken)
    BY <1>6 DEF GiveUp, Unreachable
  <2> QED BY <1>6, <2>1, <2>2, <2>3, AnswersType DEF GiveUp, Unreachable, TypeOK
<1> QED BY <1>1, <1>2, <1>3, <1>4, <1>5, <1>6 DEF GatewayStep

LEMMA ServiceType ==
    ASSUME AccountsInv, NEW r \in Requests, ServiceStep(r)
    PROVE  TypeOK'
<1> USE DEF historyVars
<1> TypeOK
  BY DEF AccountsInv
<1>1. {200, 201, 401, 404, 409} \subseteq Codes
  BY DEF Codes
<1>2. ask[r].kind = "register" => users \cup {Row(r)} \in SUBSET Users
  BY RowType
<1>3. job[r] \in {"insert", "orphan"} => ask[r].kind = "register"
  BY DEF AccountsInv, RequestOK, JobOK
<1>4. CASE Insert(r) \/ InsertOrphan(r)
  BY <1>2, <1>3, <1>4 DEF Insert, InsertOrphan, TypeOK
<1>5. CASE InsertConflicts(r)
  BY <1>1, <1>5, RepliesType DEF InsertConflicts, TypeOK
<1>6. CASE InsertFails(r)
  <2>1. users' \in SUBSET Users /\ failed' \in SUBSET Requests
    BY <1>2, <1>3, <1>6 DEF InsertFails, TypeOK
  <2> QED BY <1>1, <1>6, <2>1, RepliesType DEF InsertFails, TypeOK
<1>7. CASE Select(r)
  BY <1>7 DEF Select, TypeOK
<1>8. CASE SelectFails(r)
  <2>1. failed' \in SUBSET Requests
    BY <1>8 DEF SelectFails, TypeOK
  <2> QED BY <1>1, <1>8, <2>1, RepliesType DEF SelectFails, TypeOK
<1>9. CASE Issue(r)
  <2>1. PICK u \in users :
           Replies(r, IF ask[r].kind = "register" THEN 201 ELSE 200,
                   [sub |-> u.id, email |-> u.email, exp |-> Expiry, at |-> clock])
    BY <1>9 DEF Issue
  <2> DEFINE t == [sub |-> u.id, email |-> u.email, exp |-> Expiry, at |-> clock]
             c == IF ask[r].kind = "register" THEN 201 ELSE 200
  <2>2. t \in Tokens
    BY IssuedType
  <2>3. c \in Codes
    BY <1>1
  <2> HIDE DEF t, c
  <2>4. Replies(r, c, t)
    BY <2>1 DEF t, c
  <2> QED BY <1>9, <2>2, <2>3, <2>4, RepliesType DEF Issue, TypeOK
<1>10. CASE Read(r)
  <2>1. PICK c \in {200, 404} : Replies(r, c, NoToken)
    BY <1>10 DEF Read
  <2>2. failed' \in SUBSET Requests
    BY <1>10 DEF Read, TypeOK
  <2> QED BY <1>1, <1>10, <2>1, <2>2, RepliesType DEF Read, TypeOK
<1> QED BY <1>4, <1>5, <1>6, <1>7, <1>8, <1>9, <1>10 DEF ServiceStep

LEMMA EnvironmentType ==
    ASSUME TypeOK, Tick \/ Rest \/ \E dead \in (SUBSET Requests) \ {{}} : Crash(dead)
    PROVE  TypeOK'
<1> USE DEF historyVars
<1>1. CASE Tick
  BY <1>1, ClockAssumption DEF Tick, TypeOK
<1>2. CASE Rest
  BY <1>2 DEF Rest, vars, TypeOK
<1>3. ASSUME NEW dead \in (SUBSET Requests) \ {{}}, Crash(dead)
      PROVE  TypeOK'
  BY <1>3 DEF Crash, TypeOK
<1> QED BY <1>1, <1>2, <1>3

-----------------------------------------------------------------------------
(* What one step leaves as it was.                                             *)

(* Rows are never deleted, the clock does not go back, and a token that the client     *)
(* has stays the client's.                                                     *)
Grows ==
    /\ users \subseteq users'
    /\ clock <= clock'
    /\ \A q \in Requests : token[q] # NoToken => token'[q] = token[q]

(* Nothing else that RequestOK says of request t has changed.                       *)
Untouched(t) ==
    /\ ask'[t] = ask[t] /\ gate'[t] = gate[t] /\ code'[t] = code[t] /\ token'[t] = token[t]
    /\ job'[t] = job[t] /\ reply'[t] = reply[t] /\ age'[t] = age[t]
    /\ (t \in failed' <=> t \in failed) /\ (t \in known' <=> t \in known)

LEMMA TokenStays ==
    ASSUME TypeOK, TypeOK', Grows, NEW t \in Tokens \cup {NoToken}, TokenOK(t)
    PROVE  TokenOK(t)'
<1>1. CASE t = NoToken
  BY <1>1 DEF TokenOK
<1>2. CASE t # NoToken
  <2>1. t.at \in Int /\ clock \in Int /\ clock' \in Int
    BY <1>2 DEF TypeOK, Tokens
  <2> QED BY <1>2, <2>1 DEF TokenOK, Grows
<1> QED BY <1>1, <1>2

(* The token that a profile request comes with was there when it came.                *)
LEMMA ViaStays ==
    ASSUME TypeOK, NEW t \in Requests, ProfileOK(t), ask[t].kind = "profile", Grows
    PROVE  ask'[t] = ask[t] => TokenOf(ask[t].via)' = TokenOf(ask[t].via)
BY AskFacts DEF ProfileOK, Grows, TokenOf

LEMMA UntouchedOK ==
    ASSUME AccountsInv, TypeOK', Grows, NEW t \in Requests, Untouched(t)
    PROVE  RequestOK(t)'
<1> TypeOK /\ RequestOK(t)
  BY DEF AccountsInv
<1>1. TokenOK(token[t])' /\ TokenOK(reply[t].token)'
  <2>1. TokenOK(token[t]) /\ TokenOK(reply[t].token)
    BY DEF RequestOK, AnswerOK
  <2>2. token[t] \in Tokens \cup {NoToken} /\ reply[t].token \in Tokens \cup {NoToken}
    BY DEF TypeOK
  <2>3. ASSUME NEW x \in Tokens \cup {NoToken}, TokenOK(x)
        PROVE  TokenOK(x)'
    BY <2>3, TokenStays
  <2> QED BY <2>1, <2>2, <2>3 DEF Untouched, TokenOK
<1>2. NewOK(t)' /\ JobOK(t)' /\ KnownOK(t)'
  BY DEF RequestOK, NewOK, JobOK, KnownOK, Matches, Row, Grows, Untouched
<1>3. ProfileOK(t)'
  <2>1. ask[t].kind = "profile" => ask[t].via \in Requests \cup {None}
    BY AskFacts
  <2> QED BY <2>1 DEF RequestOK, ProfileOK, Grows, Untouched
<1>4. ask'[t] = ask[t]
  BY DEF Untouched
<1>5. ask[t].kind = "profile" => TokenOf(ask[t].via)' = TokenOf(ask[t].via)
  BY <1>4, ViaStays DEF RequestOK
<1>6. AnswerOK(t, code[t], token[t])'
  BY <1>1, <1>5 DEF RequestOK, AnswerOK, Matches, Row, Grows, Untouched
<1>7. AnswerOK(t, reply[t].code, reply[t].token)'
  BY <1>1, <1>5 DEF RequestOK, AnswerOK, Matches, Row, Grows, Untouched
<1> QED BY <1>2, <1>3, <1>6, <1>7 DEF RequestOK

LEMMA UsersKept ==
    ASSUME AccountsInv, users' = users,
           \A t \in Requests : ask[t].kind = "register" =>
              /\ ask'[t] = ask[t]
              /\ job'[t] \in {"insert", "orphan"} => job[t] \in {"insert", "orphan"}
    PROVE  UsersOK'
<1>1. \A u \in users : u.id \in Requests
  BY DEF AccountsInv, TypeOK, Users
<1> QED BY <1>1 DEF AccountsInv, UsersOK, Row

(* The row of a registration, inserted under the UNIQUE constraint.                   *)
LEMMA UserAdded ==
    ASSUME AccountsInv, NEW r \in Requests, job[r] \in {"insert", "orphan"},
           ~ Taken(ask[r].email), users' = users \cup {Row(r)}, ask' = ask,
           NEW x \in {"issue", "ended"}, job' = [job EXCEPT ![r] = x]
    PROVE  UsersOK'
<1>1. \A u \in users : u.id \in Requests
  BY DEF AccountsInv, TypeOK, Users
<1>2. ask[r].kind = "register"
  BY DEF AccountsInv, RequestOK, JobOK
<1>3. Row(r).id = r /\ Row(r).email = ask[r].email
  BY DEF Row
<1>4. job' \in [Requests -> {"none", "insert", "select", "issue", "read", "orphan", "ended"}]
      /\ \A t \in Requests : job'[t] = IF t = r THEN x ELSE job[t]
  BY DEF AccountsInv, TypeOK
<1>5. \A u, v \in users' : u.email = v.email => u = v
  BY <1>3 DEF AccountsInv, UsersOK, Taken
<1>6. ASSUME NEW u \in users'
      PROVE  /\ ask'[u.id].kind = "register"
             /\ u = [id |-> u.id, email |-> ask'[u.id].email,
                    password |-> First72[ask'[u.id].password]]
             /\ job'[u.id] \notin {"insert", "orphan"}
  <2>1. CASE u \in users
    BY <1>1, <1>4, <2>1 DEF AccountsInv, UsersOK, Row
  <2>2. CASE u = Row(r)
    BY <1>2, <1>4, <2>2 DEF Row
  <2> QED BY <2>1, <2>2
<1> QED BY <1>5, <1>6 DEF UsersOK, Row

(* A step that is the business of r alone.                                        *)
OnlyTouches(r) == Grows /\ \A t \in Requests \ {r} : Untouched(t)

LEMMA OneRequestStep ==
    ASSUME AccountsInv, TypeOK', NEW r \in Requests, OnlyTouches(r), RequestOK(r)', UsersOK'
    PROVE  AccountsInv'
<1>1. ASSUME NEW t \in Requests
      PROVE  RequestOK(t)'
  <2>1. CASE t = r
    BY <2>1
  <2>2. CASE t # r
    BY <2>2, UntouchedOK DEF OnlyTouches
  <2> QED BY <2>1, <2>2
<1> QED BY <1>1 DEF AccountsInv

-----------------------------------------------------------------------------
(* The steps of the gateway.                                                   *)

(* A client that was told so owns a row with these credentials.                     *)
LEMMA RegisteredHasRow ==
    ASSUME AccountsInv, NEW email, NEW password, Registered(email, password)
    PROVE  \E u \in users : u.email = email /\ u.password = First72[password]
<1>1. PICK q \in Requests :
         code[q] = 201 /\ ask[q] = [kind |-> "register", email |-> email, password |-> password]
  BY DEF Registered
<1>2. Row(q) \in users
  BY <1>1 DEF AccountsInv, RequestOK, AnswerOK
<1>3. Row(q).email = email /\ Row(q).password = First72[password]
  BY <1>1 DEF Row
<1> QED BY <1>2, <1>3

(* Nothing is known of a request that is yet to be made.                            *)
LEMMA NewFacts ==
    ASSUME AccountsInv, NEW r \in Requests, gate[r] = "new"
    PROVE  /\ ask[r] = NoAsk /\ job[r] = "none" /\ r \notin known /\ code[r] = 0
           /\ token[r] = NoToken /\ reply[r] = NoReply
           /\ reply[r].code = 0 /\ reply[r].token = NoToken
           /\ ask[r].kind = "none"
<1>1. NewOK(r) /\ KnownOK(r) /\ TypeOK
  BY DEF AccountsInv, RequestOK
<1>2. ask[r].kind = "none"
  BY <1>1, AskFacts DEF NewOK
<1> QED BY <1>1, <1>2 DEF NewOK, KnownOK, NoReply

(* What is left to show of a step of r.                                           *)
StepOK(r) == OnlyTouches(r) /\ UsersOK' /\ RequestOK(r)'

LEMMA RegisterOK ==
    ASSUME AccountsInv, NEW r \in Requests, NEW email, NEW password,
           Register(r, email, password) \/ HashFails(r, email, password)
    PROVE  StepOK(r)
<1> USE DEF Register, HashFails, historyVars
<1> TypeOK
  BY DEF AccountsInv
<1>1. gate[r] = "new"
  OBVIOUS
<1>2. OnlyTouches(r)
  BY DEF TypeOK, OnlyTouches, Grows, Untouched
<1>3. UsersOK'
  BY <1>1, NewFacts, UsersKept DEF TypeOK
<1>4. /\ gate'[r] = "waiting" /\ ask'[r].kind = "register"
      /\ job'[r] \in {"insert", "ended"}
      /\ code'[r] = 0 /\ token'[r] = NoToken
      /\ reply'[r].code \in {0, 500} /\ reply'[r].token = NoToken
      /\ r \notin known'
  BY <1>1, NewFacts DEF TypeOK
<1>5. RequestOK(r)'
  BY <1>4 DEF RequestOK, NewOK, JobOK, KnownOK, ProfileOK, AnswerOK, TokenOK
<1> QED BY <1>2, <1>3, <1>5 DEF StepOK

LEMMA LoginOK ==
    ASSUME AccountsInv, NEW r \in Requests, NEW email, NEW password, Login(r, email, password)
    PROVE  StepOK(r)
<1> USE DEF Login
<1> TypeOK
  BY DEF AccountsInv
<1>1. gate[r] = "new"
  OBVIOUS
<1>2. OnlyTouches(r)
  BY DEF TypeOK, OnlyTouches, Grows, Untouched
<1>3. UsersOK'
  BY <1>1, NewFacts, UsersKept DEF TypeOK
<1>4. /\ gate'[r] = "waiting" /\ job'[r] = "select"
      /\ ask'[r].kind = "login" /\ ask'[r].email = email /\ ask'[r].password = password
      /\ code'[r] = 0 /\ token'[r] = NoToken
      /\ reply'[r].code = 0 /\ reply'[r].token = NoToken
  BY <1>1, NewFacts DEF TypeOK
<1>5. KnownOK(r)'
  <2>1. r \in known' => Registered(email, password)
    BY <1>1, NewFacts
  <2>2. users' = users
    OBVIOUS
  <2> QED BY <1>4, <2>1, <2>2, RegisteredHasRow DEF KnownOK, Matches
<1>6. RequestOK(r)'
  BY <1>4, <1>5 DEF RequestOK, NewOK, JobOK, ProfileOK, AnswerOK, TokenOK
<1> QED BY <1>2, <1>3, <1>6 DEF StepOK

(* The arithmetic of a check of token t.                                           *)
LEMMA CheckIsTimely ==
    ASSUME TypeOK, NEW t \in Tokens, TokenOK(t)
    PROVE  /\ Valid(t) => clock - t.at < Lifetime * TicksPerSecond
           /\ ~ Valid(t) => clock - t.at > (Lifetime - 1) * TicksPerSecond
<1>1. t # NoToken
  BY NoneAssumption DEF Tokens, NoToken
<1>2. t.at \in Nat /\ t.exp \in Nat /\ clock \in Nat
  BY ClockAssumption DEF TypeOK, Tokens
<1>3. t.exp = (t.at \div TicksPerSecond + Lifetime) * TicksPerSecond
  BY <1>1 DEF TokenOK
<1> DEFINE L == Lifetime * TicksPerSecond
           K == (Lifetime - 1) * TicksPerSecond
<1>4. t.exp <= t.at + L /\ t.at + L < t.exp + TicksPerSecond /\ K = L - TicksPerSecond
  BY <1>2, <1>3, ExpiryBounds
<1>5. L \in Int /\ TicksPerSecond \in Int
  <2>1. \A a, b \in Nat : a * b \in Int
    OBVIOUS
  <2> QED BY <2>1, ClockAssumption
<1> HIDE DEF L, K
<1>6. /\ clock < t.exp => clock - t.at < L
      /\ ~ (clock < t.exp) => clock - t.at > K
  BY <1>2, <1>4, <1>5
<1> QED BY <1>1, <1>6 DEF L, K, Valid

LEMMA CheckOK ==
    ASSUME AccountsInv, NEW r \in Requests, NEW q \in Requests \cup {None},
           NEW id \in Requests \cup {None}, Admit(r, q, id) \/ Refuse(r, q)
    PROVE  StepOK(r)
<1> USE DEF Admit, Refuse, Answers
<1> TypeOK
  BY DEF AccountsInv
<1>1. gate[r] = "new"
  OBVIOUS
<1>2. OnlyTouches(r)
  BY <1>1, NewFacts DEF TypeOK, OnlyTouches, Grows, Untouched
<1>3. UsersOK'
  BY <1>1, NewFacts, UsersKept DEF TypeOK
<1>4. /\ ask'[r].kind = "profile" /\ ask'[r].via = q
      /\ token'[r] = NoToken
      /\ reply'[r].code = 0 /\ reply'[r].token = NoToken
      /\ r \notin known' /\ gate'[r] # "new"
  BY <1>1, NewFacts DEF TypeOK
<1>5. ProfileOK(r)'
  <2>1. CASE q = None
    <3>1. ~ Valid(TokenOf(q))
      BY <2>1 DEF Valid, TokenOf
    <3>2. job'[r] = "none"
      BY <1>1, <3>1, NewFacts
    <3> QED BY <1>4, <2>1, <3>2 DEF ProfileOK
  <2>2. CASE q # None
    <3>1. q \in Requests /\ TokenOf(q) = token[q]
      BY <2>2 DEF TokenOf
    <3>2. token[q] # NoToken
      BY <3>1, <2>2 DEF Valid
    <3>3. token[q] \in Tokens /\ TokenOK(token[q])
      BY <3>1, <3>2 DEF TypeOK, AccountsInv, RequestOK, AnswerOK
    <3>4. token'[q] = token[q]
      BY <1>2, <3>1, <3>2 DEF OnlyTouches, Grows
    <3>5. age'[r] = clock - token[q].at
      BY <2>2 DEF TypeOK
    <3>6. CASE Admit(r, q, id)
      <4>1. age'[r] < Lifetime * TicksPerSecond
        BY <3>1, <3>3, <3>5, <3>6, CheckIsTimely
      <4>2. code'[r] = 0
        BY <1>1, <3>6, NewFacts
      <4> QED BY <1>4, <2>2, <3>2, <3>4, <4>1, <4>2 DEF ProfileOK
    <3>7. CASE Refuse(r, q)
      <4>1. age'[r] > (Lifetime - 1) * TicksPerSecond
        BY <3>1, <3>3, <3>5, <3>7, CheckIsTimely
      <4>2. job'[r] = "none"
        BY <1>1, <3>7, NewFacts
      <4> QED BY <1>4, <2>2, <3>2, <3>4, <4>1, <4>2 DEF ProfileOK
    <3> QED BY <3>6, <3>7
  <2> QED BY <2>1, <2>2
<1>6. \/ code'[r] = 0 /\ job'[r] = "read"
      \/ code'[r] = 401 /\ job'[r] = "none" /\ gate'[r] = "answered"
  BY <1>1, NewFacts DEF TypeOK
<1>7. RequestOK(r)'
  BY <1>4, <1>5, <1>6 DEF RequestOK, NewOK, JobOK, KnownOK, AnswerOK, TokenOK
<1> QED BY <1>2, <1>3, <1>7 DEF StepOK

(* Forward, GiveUp and Unreachable: the client hears the service's answer, or 502.      *)
LEMMA AnsweredOK ==
    ASSUME AccountsInv, NEW r \in Requests, Forward(r) \/ GiveUp(r) \/ Unreachable(r)
    PROVE  StepOK(r)
<1> USE DEF Forward, GiveUp, Unreachable, Answers, historyVars
<1> TypeOK /\ RequestOK(r)
  BY DEF AccountsInv
<1>1. gate[r] # "answered" /\ gate'[r] = "answered"
  BY DEF TypeOK
<1>2. token[r] = NoToken
  BY <1>1 DEF RequestOK, NewOK
<1>3. OnlyTouches(r)
  BY <1>2 DEF TypeOK, OnlyTouches, Grows, Untouched
<1>4. UsersOK'
  BY UsersKept
<1>5. \/ code'[r] = reply[r].code /\ token'[r] = reply[r].token
      \/ code'[r] = 502 /\ token'[r] = NoToken
  BY DEF TypeOK
<1>6. \/ reply'[r].code = 0 /\ reply'[r].token = NoToken
      \/ reply'[r] = reply[r]
  BY DEF TypeOK, NoReply
<1>7. UNCHANGED <<clock, users, ask, job, failed, known, age>>
  OBVIOUS
<1>8. AnswerOK(r, code'[r], token'[r])
  <2>1. AnswerOK(r, 502, NoToken)
    BY DEF AnswerOK, TokenOK
  <2> QED BY <1>5, <2>1 DEF RequestOK
<1>9. AnswerOK(r, reply'[r].code, reply'[r].token)
  <2>1. AnswerOK(r, 0, NoToken)
    BY DEF AnswerOK, TokenOK
  <2> QED BY <1>6, <2>1 DEF RequestOK
<1>10. AnswerOK(r, code[r], token[r])' /\ AnswerOK(r, reply[r].code, reply[r].token)'
  <2>1. ask[r].kind = "profile" => TokenOf(ask[r].via)' = TokenOf(ask[r].via)
    BY <1>3, <1>7, ViaStays DEF RequestOK, OnlyTouches
  <2> QED BY <1>7, <1>8, <1>9, <2>1 DEF AnswerOK, TokenOK, Matches, Row
<1>11. NewOK(r)' /\ JobOK(r)' /\ KnownOK(r)'
  BY <1>1, <1>6, <1>7 DEF RequestOK, NewOK, JobOK, KnownOK, Matches, Row
<1>12. ProfileOK(r)'
  <2> SUFFICES ASSUME ask[r].kind = "profile"
               PROVE  ProfileOK(r)'
    BY <1>7 DEF ProfileOK
  <2>1. ask[r].via \in Requests \cup {None}
    BY AskFacts
  <2>2. ask[r].via # None => token'[ask[r].via] # NoToken
    BY <1>3, <2>1 DEF RequestOK, ProfileOK, OnlyTouches, Grows
  <2>3. code'[r] # 401
    BY <1>5 DEF RequestOK, JobOK
  <2> QED BY <1>7, <2>2, <2>3 DEF RequestOK, ProfileOK
<1> QED BY <1>3, <1>4, <1>10, <1>11, <1>12 DEF StepOK, RequestOK

-----------------------------------------------------------------------------
(* The steps of the user service.                                               *)

(* What the service does to r leaves its client as it was.                          *)
LEMMA ServiceTouches ==
    ASSUME AccountsInv, NEW r \in Requests, ServiceStep(r)
    PROVE  /\ OnlyTouches(r)
           /\ UNCHANGED <<ask, gate, code, token, known, age>>
           /\ failed \subseteq failed'
<1> USE DEF ServiceStep, Insert, InsertConflicts, InsertFails, Select, SelectFails, Issue, Read,
            InsertOrphan, Replies, historyVars
<1> TypeOK
  BY DEF AccountsInv
<1>1. UNCHANGED <<clock, ask, gate, code, token, known, age>> /\ failed \subseteq failed'
  OBVIOUS
<1>2. users \subseteq users'
  OBVIOUS
<1>3. Grows
  BY <1>1, <1>2 DEF Grows, TypeOK
<1>4. ASSUME NEW t \in Requests \ {r}
      PROVE  /\ job'[t] = job[t] /\ reply'[t] = reply[t]
             /\ (t \in failed' <=> t \in failed)
  BY DEF TypeOK
<1> QED BY <1>1, <1>3, <1>4 DEF OnlyTouches, Untouched

(* So it is enough to show of the request itself what has changed.                     *)
LEMMA ServiceFrame ==
    ASSUME AccountsInv, TypeOK', NEW r \in Requests, ServiceStep(r), UsersOK', JobOK(r)',
           AnswerOK(r, reply[r].code, reply[r].token)'
    PROVE  StepOK(r)
<1> TypeOK /\ RequestOK(r)
  BY DEF AccountsInv
<1>1. /\ OnlyTouches(r) /\ Grows
      /\ UNCHANGED <<ask, gate, code, token, known, age>>
      /\ failed \subseteq failed'
  BY ServiceTouches DEF OnlyTouches
<1>2. job[r] # "none" /\ job'[r] # "none"
  BY DEF ServiceStep, Insert, InsertConflicts, InsertFails, Select, SelectFails, Issue, Read,
         InsertOrphan, Replies, TypeOK
<1>3. NewOK(r)' /\ KnownOK(r)'
  BY <1>1, <1>2 DEF RequestOK, NewOK, KnownOK, Matches, Grows
<1>4. ProfileOK(r)'
  BY <1>1, <1>2 DEF RequestOK, ProfileOK
<1>5. AnswerOK(r, code[r], token[r])'
  <2>1. token[r] \in Tokens \cup {NoToken} /\ TokenOK(token[r])
    BY DEF TypeOK, RequestOK, AnswerOK
  <2>2. TokenOK(token[r])'
    <3>1. ASSUME NEW x \in Tokens \cup {NoToken}, TokenOK(x)
          PROVE  TokenOK(x)'
      BY <1>1, <3>1, TokenStays
    <3> QED BY <1>1, <2>1, <3>1 DEF TokenOK
  <2> QED BY <1>1, <2>2 DEF RequestOK, AnswerOK, Matches, Row, Grows, TokenOf
<1> QED BY <1>1, <1>3, <1>4, <1>5 DEF StepOK, RequestOK

(* The handler ends with answer c and token t, which the gateway may have stopped       *)
(* waiting for.                                                                *)
LEMMA RepliesOK ==
    ASSUME AccountsInv, NEW r \in Requests, NEW c, NEW t, Replies(r, c, t),
           c = 401 => ask[r].kind = "login",
           ask' = ask, AnswerOK(r, c, t)', AnswerOK(r, 0, NoToken)'
    PROVE  JobOK(r)' /\ AnswerOK(r, reply[r].code, reply[r].token)'
<1>1. job'[r] = "ended"
  BY DEF AccountsInv, TypeOK, Replies
<1>2. reply'[r] = [code |-> c, token |-> t] \/ reply'[r] = [code |-> 0, token |-> NoToken]
  BY DEF AccountsInv, TypeOK, Replies, NoReply
<1>3. JobOK(r)'
  BY <1>1, <1>2 DEF JobOK
<1>4. \/ reply'[r].code = c /\ reply'[r].token = t
      \/ reply'[r].code = 0 /\ reply'[r].token = NoToken
  BY <1>2
<1>5. AnswerOK(r, reply[r].code, reply[r].token)'
  BY <1>4 DEF AnswerOK
<1> QED BY <1>3, <1>5

(* What the service has answered stays true.                                       *)
LEMMA ReplyKept ==
    ASSUME AccountsInv, TypeOK', NEW r \in Requests, ServiceStep(r), reply' = reply
    PROVE  AnswerOK(r, reply[r].code, reply[r].token)'
<1> TypeOK /\ RequestOK(r)
  BY DEF AccountsInv
<1>1. /\ Grows
      /\ UNCHANGED <<ask, gate, code, token, known, age>>
      /\ failed \subseteq failed'
  BY ServiceTouches DEF OnlyTouches
<1>2. reply[r].token \in Tokens \cup {NoToken} /\ TokenOK(reply[r].token)
  BY DEF TypeOK, RequestOK, AnswerOK
<1>3. TokenOK(reply[r].token)'
  <2>1. ASSUME NEW x \in Tokens \cup {NoToken}, TokenOK(x)
        PROVE  TokenOK(x)'
    BY <1>1, <2>1, TokenStays
  <2> QED BY <1>2, <2>1 DEF TokenOK
<1> QED BY <1>1, <1>3 DEF RequestOK, AnswerOK, Matches, Row, Grows, TokenOf

LEMMA InsertOK ==
    ASSUME AccountsInv, TypeOK', NEW r \in Requests, Insert(r)
    PROVE  StepOK(r)
<1> TypeOK /\ RequestOK(r)
  BY DEF AccountsInv
<1>1. ask[r].kind = "register"
  BY DEF RequestOK, JobOK, Insert
<1>2. UsersOK'
  BY UserAdded DEF Insert
<1>3. JobOK(r)'
  BY <1>1 DEF RequestOK, JobOK, Insert, TypeOK, Row
<1>4. AnswerOK(r, reply[r].code, reply[r].token)'
  BY ReplyKept DEF ServiceStep, Insert
<1> QED BY <1>2, <1>3, <1>4, ServiceFrame DEF ServiceStep

LEMMA NothingSaidOK ==
    ASSUME NEW r \in Requests
    PROVE  AnswerOK(r, 0, NoToken)'
BY DEF AnswerOK, TokenOK

(* 409: somebody else has the address, or the statement failed.                      *)
LEMMA InsertConflictsOK ==
    ASSUME AccountsInv, TypeOK', NEW r \in Requests, InsertConflicts(r)
    PROVE  StepOK(r)
<1> TypeOK /\ RequestOK(r)
  BY DEF AccountsInv
<1>1. ask[r].kind = "register"
  BY DEF RequestOK, JobOK, InsertConflicts
<1>2. UsersOK'
  <2>1. \A t \in Requests : job'[t] \in {"insert", "orphan"} => job[t] \in {"insert", "orphan"}
    BY DEF InsertConflicts, Replies, TypeOK
  <2> QED BY <2>1, UsersKept DEF InsertConflicts
<1>3. \E u \in users : u.email = ask[r].email /\ u.id # r
  BY DEF AccountsInv, UsersOK, InsertConflicts, Taken
<1>4. AnswerOK(r, 409, NoToken)'
  BY <1>1, <1>3 DEF AnswerOK, TokenOK, InsertConflicts
<1>5. JobOK(r)' /\ AnswerOK(r, reply[r].code, reply[r].token)'
  BY <1>4, RepliesOK, NothingSaidOK DEF InsertConflicts
<1> QED BY <1>2, <1>5, ServiceFrame DEF ServiceStep

LEMMA InsertFailsOK ==
    ASSUME AccountsInv, TypeOK', NEW r \in Requests, InsertFails(r)
    PROVE  StepOK(r)
<1> TypeOK /\ RequestOK(r)
  BY DEF AccountsInv
<1>1. UsersOK'
  <2>1. job' = [job EXCEPT ![r] = "ended"]
    BY DEF InsertFails, Replies
  <2>2. \A t \in Requests : job'[t] \in {"insert", "orphan"} => job[t] \in {"insert", "orphan"}
    BY <2>1 DEF TypeOK
  <2>3. CASE users' = users
    BY <2>2, <2>3, UsersKept DEF InsertFails
  <2>4. CASE ~ Taken(ask[r].email) /\ users' = users \cup {Row(r)}
    BY <2>1, <2>4, UserAdded DEF InsertFails
  <2> QED BY <2>3, <2>4 DEF InsertFails
<1>2. AnswerOK(r, 409, NoToken)'
  BY DEF AnswerOK, TokenOK, InsertFails
<1>3. JobOK(r)' /\ AnswerOK(r, reply[r].code, reply[r].token)'
  BY <1>2, RepliesOK, NothingSaidOK DEF InsertFails
<1> QED BY <1>1, <1>3, ServiceFrame DEF ServiceStep

LEMMA InsertOrphanOK ==
    ASSUME AccountsInv, TypeOK', NEW r \in Requests, InsertOrphan(r)
    PROVE  StepOK(r)
<1> TypeOK
  BY DEF AccountsInv
<1>1. UsersOK'
  <2>1. \A t \in Requests : job'[t] \in {"insert", "orphan"} => job[t] \in {"insert", "orphan"}
    BY DEF InsertOrphan, TypeOK
  <2>2. CASE Taken(ask[r].email)
    BY <2>1, <2>2, UsersKept DEF InsertOrphan
  <2>3. CASE ~ Taken(ask[r].email)
    BY <2>3, UserAdded DEF InsertOrphan
  <2> QED BY <2>2, <2>3
<1>2. AnswerOK(r, reply[r].code, reply[r].token)'
  BY ReplyKept DEF ServiceStep, InsertOrphan
<1>3. JobOK(r)'
  BY DEF AccountsInv, RequestOK, JobOK, InsertOrphan, TypeOK
<1> QED BY <1>1, <1>2, <1>3, ServiceFrame DEF ServiceStep

LEMMA SelectOK ==
    ASSUME AccountsInv, TypeOK', NEW r \in Requests, Select(r)
    PROVE  StepOK(r)
<1> TypeOK /\ RequestOK(r)
  BY DEF AccountsInv
<1>1. UsersOK'
  <2>1. \A t \in Requests : job'[t] \in {"insert", "orphan"} => job[t] \in {"insert", "orphan"}
    BY DEF Select, TypeOK
  <2> QED BY <2>1, UsersKept DEF Select
<1>2. AnswerOK(r, reply[r].code, reply[r].token)'
  BY ReplyKept DEF ServiceStep, Select
<1>3. JobOK(r)'
  BY DEF RequestOK, JobOK, Select, Matches, TypeOK
<1> QED BY <1>1, <1>2, <1>3, ServiceFrame DEF ServiceStep

(* 401: a client whose registration had succeeded has a row to match.                   *)
LEMMA SelectFailsOK ==
    ASSUME AccountsInv, TypeOK', NEW r \in Requests, SelectFails(r)
    PROVE  StepOK(r)
<1> TypeOK /\ RequestOK(r)
  BY DEF AccountsInv
<1>1. ask[r].kind = "login"
  BY DEF RequestOK, JobOK, SelectFails
<1>2. UsersOK'
  <2>1. \A t \in Requests : job'[t] \in {"insert", "orphan"} => job[t] \in {"insert", "orphan"}
    BY DEF SelectFails, Replies, TypeOK
  <2> QED BY <2>1, UsersKept DEF SelectFails
<1>3. r \in known => r \in failed'
  BY DEF RequestOK, KnownOK, Matches, SelectFails
<1>4. AnswerOK(r, 401, NoToken)'
  BY <1>3 DEF AnswerOK, TokenOK, SelectFails
<1>5. JobOK(r)' /\ AnswerOK(r, reply[r].code, reply[r].token)'
  BY <1>1, <1>4, RepliesOK, NothingSaidOK DEF SelectFails
<1> QED BY <1>2, <1>5, ServiceFrame DEF ServiceStep

(* The token names the row that was inserted or matched: no other has the address.       *)
LEMMA IssueOK ==
    ASSUME AccountsInv, TypeOK', NEW r \in Requests, Issue(r)
    PROVE  StepOK(r)
<1> TypeOK /\ RequestOK(r)
  BY DEF AccountsInv
<1> DEFINE c == IF ask[r].kind = "register" THEN 201 ELSE 200
<1>1. PICK u \in users :
        /\ IF ask[r].kind = "register" THEN u.id = r ELSE u.email = ask[r].email
        /\ Replies(r, c, [sub |-> u.id, email |-> u.email, exp |-> Expiry, at |-> clock])
  BY DEF Issue
<1> DEFINE t == [sub |-> u.id, email |-> u.email, exp |-> Expiry, at |-> clock]
<1>2. UsersOK'
  <2>1. \A s \in Requests : job'[s] \in {"insert", "orphan"} => job[s] \in {"insert", "orphan"}
    BY <1>1 DEF Replies, TypeOK
  <2> QED BY <2>1, UsersKept DEF Issue
<1>3. \/ ask[r].kind = "register" /\ Row(r) \in users
      \/ ask[r].kind = "login" /\ \E v \in users : Matches(v, r)
  BY DEF RequestOK, JobOK, Issue
<1>4. ask[r].kind = "login" => Matches(u, r)
  BY <1>1, <1>3 DEF AccountsInv, UsersOK, Matches
<1>5. TokenOK(t)
  <2>1. clock \in Int
    BY DEF TypeOK
  <2> QED BY <2>1 DEF TokenOK, Expiry
<1>6. UNCHANGED <<clock, users, ask>>
  BY DEF Issue
<1>7. AnswerOK(r, c, t)
  BY <1>3, <1>4, <1>5 DEF AnswerOK
<1>8. ASSUME NEW x, NEW y, AnswerOK(r, x, y), x \in {200, 201}
      PROVE  AnswerOK(r, x, y)'
  BY <1>6, <1>8 DEF AnswerOK, TokenOK, Matches, Row
<1>9. c \in {200, 201}
  OBVIOUS
<1>10. Replies(r, c, t)
  BY <1>1
<1>11. ask' = ask
  BY <1>6
<1> HIDE DEF c, t
<1>12. \E x, y : x \in {200, 201} /\ AnswerOK(r, x, y) /\ Replies(r, x, y)
  BY <1>7, <1>9, <1>10
<1>13. PICK x, y : x \in {200, 201} /\ AnswerOK(r, x, y) /\ Replies(r, x, y)
  BY <1>12
<1>14. AnswerOK(r, x, y)'
  BY <1>8, <1>13
<1>15. JobOK(r)' /\ AnswerOK(r, reply[r].code, reply[r].token)'
  BY <1>11, <1>13, <1>14, RepliesOK, NothingSaidOK
<1> QED BY <1>2, <1>15, ServiceFrame DEF ServiceStep

(* The row that a token names is there: 404 for its id means an error.                 *)
LEMMA ReadOK ==
    ASSUME AccountsInv, TypeOK', NEW r \in Requests, Read(r)
    PROVE  StepOK(r)
<1> TypeOK /\ RequestOK(r)
  BY DEF AccountsInv
<1>1. ask[r].kind = "profile"
  BY DEF RequestOK, JobOK, Read
<1>2. UsersOK'
  <2>1. \A t \in Requests : job'[t] \in {"insert", "orphan"} => job[t] \in {"insert", "orphan"}
    BY DEF Read, Replies, TypeOK
  <2> QED BY <2>1, UsersKept DEF Read
<1>3. \E u \in users : u.id = TokenOf(ask[r].via).sub
  <2>1. ask[r].via # None /\ token[ask[r].via] # NoToken
    BY <1>1 DEF RequestOK, ProfileOK, Read
  <2>2. ask[r].via \in Requests
    BY <1>1, <2>1, AskFacts
  <2>3. TokenOK(token[ask[r].via])
    BY <2>2 DEF AccountsInv, RequestOK, AnswerOK
  <2> QED BY <2>1, <2>3 DEF TokenOK, TokenOf
<1>4. PICK c \in {200, 404} :
        /\ Replies(r, c, NoToken)
        /\ c = 200 => \E u \in users : u.id = ask[r].id
        /\ c = 404 => r \in failed' \/ ask[r].id # TokenOf(ask[r].via).sub
  BY <1>3 DEF Read
<1>5. AnswerOK(r, c, NoToken)'
  <2>1. UNCHANGED <<users, ask, token>>
    BY DEF Read
  <2> QED BY <1>1, <1>4, <2>1 DEF AnswerOK, TokenOK, TokenOf
<1>6. JobOK(r)' /\ AnswerOK(r, reply[r].code, reply[r].token)'
  BY <1>4, <1>5, RepliesOK, NothingSaidOK DEF Read
<1> QED BY <1>2, <1>6, ServiceFrame DEF ServiceStep

LEMMA RequestStepOK ==
    ASSUME AccountsInv, NEW r \in Requests, GatewayStep(r) \/ ServiceStep(r)
    PROVE  AccountsInv'
<1>1. TypeOK'
  BY GatewayType, ServiceType
<1>2. StepOK(r)
  <2>1. CASE GatewayStep(r)
    BY <2>1, RegisterOK, LoginOK, CheckOK, AnsweredOK DEF GatewayStep
  <2>2. CASE ServiceStep(r)
    BY <1>1, <2>2, InsertOK, InsertConflictsOK, InsertFailsOK, SelectOK, SelectFailsOK, IssueOK,
       ReadOK, InsertOrphanOK DEF ServiceStep
  <2> QED BY <2>1, <2>2
<1> QED BY <1>1, <1>2, OneRequestStep DEF StepOK

-----------------------------------------------------------------------------
(* The steps of the environment, and the invariant.                                *)

LEMMA TickOK ==
    ASSUME AccountsInv, TypeOK', Tick
    PROVE  AccountsInv'
<1> TypeOK
  BY DEF AccountsInv
<1>1. Grows
  BY ClockAssumption DEF Tick, Grows, TypeOK
<1>2. \A t \in Requests : Untouched(t)
  BY DEF Tick, Untouched, historyVars
<1>3. \A t \in Requests : RequestOK(t)'
  BY <1>1, <1>2, UntouchedOK
<1>4. UsersOK'
  BY UsersKept DEF Tick
<1> QED BY <1>3, <1>4 DEF AccountsInv

(* A job that dies ends, or leaves its INSERT behind; either way it answers nothing.      *)
LEMMA CrashOK ==
    ASSUME AccountsInv, TypeOK', NEW dead \in SUBSET Requests, Crash(dead)
    PROVE  AccountsInv'
<1> TypeOK
  BY DEF AccountsInv
<1>1. UNCHANGED <<clock, users, ask, gate, code, token, reply, failed, known, age>>
  BY DEF Crash, historyVars
<1>2. ASSUME NEW t \in Requests
      PROVE  /\ job'[t] = job[t] \/ job'[t] = "ended" \/ (job'[t] = "orphan" /\ job[t] = "insert")
             /\ job[t] = "none" <=> job'[t] = "none"
  BY DEF Crash
<1>3. UsersOK'
  BY <1>1, <1>2, UsersKept
<1>4. ASSUME NEW t \in Requests
      PROVE  RequestOK(t)'
  <2> RequestOK(t)
    BY DEF AccountsInv
  <2>1. NewOK(t)' /\ JobOK(t)' /\ KnownOK(t)' /\ ProfileOK(t)'
    BY <1>1, <1>2 DEF RequestOK, NewOK, JobOK, KnownOK, ProfileOK, Matches, Row
  <2>2. AnswerOK(t, code[t], token[t])' /\ AnswerOK(t, reply[t].code, reply[t].token)'
    BY <1>1 DEF RequestOK, AnswerOK, TokenOK, Matches, Row, TokenOf
  <2> QED BY <2>1, <2>2 DEF RequestOK
<1> QED BY <1>3, <1>4 DEF AccountsInv

LEMMA UnchangedOK ==
    ASSUME AccountsInv, UNCHANGED vars
    PROVE  AccountsInv'
BY DEF AccountsInv, TypeOK, UsersOK, RequestOK, NewOK, JobOK, KnownOK, ProfileOK, AnswerOK,
       TokenOK, Matches, Row, TokenOf, vars, historyVars

LEMMA AccountsInit == Init => AccountsInv
<1> SUFFICES ASSUME Init
             PROVE  AccountsInv
  OBVIOUS
<1>1. TypeOK
  BY ClockAssumption DEF Init, TypeOK, NoAsk, NoReply, Codes
<1>2. UsersOK
  BY DEF Init, UsersOK
<1>3. ASSUME NEW r \in Requests
      PROVE  RequestOK(r)
  BY DEF Init, RequestOK, NewOK, JobOK, KnownOK, ProfileOK, AnswerOK, TokenOK, NoAsk, NoReply
<1> QED BY <1>1, <1>2, <1>3 DEF AccountsInv

LEMMA AccountsStep == AccountsInv /\ [Next]_vars => AccountsInv'
<1> SUFFICES ASSUME AccountsInv, [Next]_vars
             PROVE  AccountsInv'
  OBVIOUS
<1> TypeOK
  BY DEF AccountsInv
<1>1. ASSUME NEW r \in Requests, GatewayStep(r) \/ ServiceStep(r)
      PROVE  AccountsInv'
  BY <1>1, RequestStepOK
<1>2. ASSUME NEW dead \in (SUBSET Requests) \ {{}}, Crash(dead)
      PROVE  AccountsInv'
  BY <1>2, CrashOK, EnvironmentType
<1>3. CASE Tick
  BY <1>3, TickOK, EnvironmentType
<1>4. CASE Rest \/ UNCHANGED vars
  BY <1>4, UnchangedOK DEF Rest
<1> QED BY <1>1, <1>2, <1>3, <1>4 DEF Next

(* Invariance of all that is said above of the rows and of every request, and with it    *)
(* type correctness.                                                           *)
THEOREM Invariance == Spec => []AccountsInv
BY AccountsInit, AccountsStep, PTL DEF Spec

THEOREM TypeCorrect == Spec => []TypeOK
<1>1. AccountsInv => TypeOK
  BY DEF AccountsInv
<1> QED BY <1>1, Invariance, PTL

-----------------------------------------------------------------------------
(* What the clients may rely on.                                                *)

(* A 201 answer means that the row of the address is the client's own, and 409 that it    *)
(* is somebody else's, whatever races for it, fails or dies.                       *)
THEOREM RegistrationsAreTruthful == Spec => []RegistrationTruthful
<1>1. AccountsInv => RegistrationTruthful
  <2> SUFFICES ASSUME AccountsInv, NEW r \in Requests
               PROVE  /\ code[r] = 201 =>
                           /\ Row(r) \in users
                           /\ \A u \in users : u.email = ask[r].email => u.id = r
                      /\ code[r] = 409 /\ r \notin failed =>
                           \E u \in users : u.email = ask[r].email /\ u.id # r
    BY DEF RegistrationTruthful
  <2>1. Row(r).id = r /\ Row(r).email = ask[r].email
    BY DEF Row
  <2>2. code[r] = 201 => Row(r) \in users
    BY DEF AccountsInv, RequestOK, AnswerOK
  <2>3. ASSUME Row(r) \in users, NEW u \in users, u.email = ask[r].email
        PROVE  u.id = r
    BY <2>1, <2>3 DEF AccountsInv, UsersOK
  <2>4. code[r] = 409 /\ r \notin failed => \E u \in users : u.email = ask[r].email /\ u.id # r
    BY DEF AccountsInv, RequestOK, AnswerOK
  <2> QED BY <2>2, <2>3, <2>4
<1> QED BY <1>1, Invariance, PTL

(* A client that was told its account exists is refused only by a failed SELECT, and       *)
(* nobody is let in without an account's password.                                 *)
THEOREM LoginsAreTruthful == Spec => []LoginTruthful
<1>1. AccountsInv => LoginTruthful
  BY DEF AccountsInv, RequestOK, AnswerOK, Matches, LoginTruthful
<1> QED BY <1>1, Invariance, PTL

(* Every request the gateway lets pass comes from an account that is there, with a token  *)
(* younger than its lifetime; a token that it refuses is older than that but for a          *)
(* second.                                                                    *)
THEOREM AdmissionsAreTimely == Spec => []AdmittedInTime
<1>1. AccountsInv => AdmittedInTime
  <2> SUFFICES ASSUME AccountsInv, NEW r \in Requests, ask[r].kind = "profile",
                      NEW t, t = TokenOf(ask[r].via)
               PROVE  /\ job[r] # "none" =>
                           /\ \E u \in users : u.id = t.sub /\ u.email = t.email
                           /\ age[r] < Lifetime * TicksPerSecond
                      /\ code[r] = 401 /\ t # NoToken =>
                           age[r] > (Lifetime - 1) * TicksPerSecond
                      /\ code[r] = 200 => \E u \in users : u.id = ask[r].id
                      /\ code[r] = 404 /\ ask[r].id = t.sub => r \in failed
    BY DEF AdmittedInTime
  <2> TypeOK /\ RequestOK(r)
    BY DEF AccountsInv
  <2>1. ask[r].via \in Requests \cup {None}
    BY AskFacts
  <2>2. ask[r].via # None => t = token[ask[r].via] /\ t # NoToken /\ TokenOK(t)
    BY <2>1 DEF TokenOf, AccountsInv, RequestOK, ProfileOK, AnswerOK
  <2>3. ask[r].via = None => t = NoToken
    BY DEF TokenOf
  <2> QED BY <2>2, <2>3 DEF RequestOK, ProfileOK, AnswerOK, TokenOK
<1> QED BY <1>1, Invariance, PTL

-----------------------------------------------------------------------------
(* RateLimiter.                                                              *)

USE HandlersAssumption, ClientsAssumption, BurstAssumption, SecondsAssumption, MaxFailuresAssumption

(* The client of an idle handler is a client.                                  *)
LEMMA AnyClientIsClient == AnyClient \in Clients
BY DEF AnyClient

(* One count more for one client.                                             *)
LEMMA CountType ==
    ASSUME NEW S, NEW f \in [Clients -> [S -> Nat]], NEW c \in Clients, NEW s \in S
    PROVE  [f EXCEPT ![c][s] = @ + 1] \in [Clients -> [S -> Nat]]
<1> DEFINE row == [f[c] EXCEPT ![s] = @ + 1]
<1>1. f[c] \in [S -> Nat]
  OBVIOUS
<1>2. row \in [S -> Nat]
  BY <1>1
<1>3. [f EXCEPT ![c][s] = @ + 1] = [f EXCEPT ![c] = row]
  OBVIOUS
<1> HIDE DEF row
<1> QED BY <1>2, <1>3

LEMMA LetThroughType ==
    ASSUME LimiterTypeOK, NEW h \in Handlers, LetThrough(h)
    PROVE  /\ passed' \in [Clients -> [Seconds -> Nat]]
           /\ through' \in [Clients -> [Seconds \X Ticks -> Nat]]
           /\ pc' \in [Handlers -> {"idle", "prune", "count", "add"}]
           /\ client' \in [Handlers -> Clients]
           /\ now' \in [Handlers -> Seconds]
<1>1. client[h] \in Clients /\ now[h] \in Seconds /\ <<second, tick>> \in Seconds \X Ticks
  BY DEF LimiterTypeOK
<1>2. passed' \in [Clients -> [Seconds -> Nat]]
  <2>1. passed \in [Clients -> [Seconds -> Nat]]
    BY DEF LimiterTypeOK
  <2> QED BY <1>1, <2>1, CountType DEF LetThrough
<1>3. through' \in [Clients -> [Seconds \X Ticks -> Nat]]
  <2>1. through \in [Clients -> [Seconds \X Ticks -> Nat]]
    BY DEF LimiterTypeOK
  <2> QED BY <1>1, <2>1, CountType DEF LetThrough
<1>4. 0 \in Seconds
  BY DEF Seconds
<1> QED BY <1>2, <1>3, <1>4, AnyClientIsClient DEF LetThrough, Return, LimiterTypeOK

LEMMA EnterType ==
    ASSUME LimiterTypeOK, NEW h \in Handlers, Enter(h)
    PROVE  window' \in [Clients -> SUBSET (Seconds \X Nat)]
<1>1. client[h] \in Clients /\ now[h] \in Seconds
  BY DEF LimiterTypeOK
<1>2. passed[client[h]] \in [Seconds -> Nat]
  BY <1>1 DEF LimiterTypeOK
<1>3. <<now[h], passed[client[h]][now[h]]>> \in Seconds \X Nat
  BY <1>1, <1>2
<1> DEFINE e == <<now[h], passed[client[h]][now[h]]>>
<1>4. window' = [window EXCEPT ![client[h]] = window[client[h]] \cup {e}]
  BY DEF Enter
<1> HIDE DEF e
<1> QED BY <1>1, <1>3, <1>4 DEF LimiterTypeOK, e

LEMMA RenewType ==
    ASSUME LimiterTypeOK, NEW h \in Handlers, Renew(h)
    PROVE  expires' \in [Clients -> Nat]
BY DEF LimiterTypeOK, Renew, Seconds

(* Every variable keeps its type.                                             *)
THEOREM LimiterTypeCorrect == LimiterSpec => []LimiterTypeOK
<1>1. LimiterInit => LimiterTypeOK
  <2> SUFFICES ASSUME LimiterInit PROVE LimiterTypeOK
    OBVIOUS
  <2>1. 0 \in Seconds /\ 0 \in Ticks
    BY DEF Seconds, Ticks
  <2>2. /\ passed \in [Clients -> [Seconds -> Nat]]
        /\ through \in [Clients -> [Seconds \X Ticks -> Nat]]
    BY DEF LimiterInit
  <2> QED BY <2>1, <2>2, AnyClientIsClient DEF LimiterInit, LimiterTypeOK
<1>2. LimiterTypeOK /\ [LimiterNext]_limiterVars => LimiterTypeOK'
  <2> SUFFICES ASSUME LimiterTypeOK, [LimiterNext]_limiterVars PROVE LimiterTypeOK'
    OBVIOUS
  <2>1. CASE Elapse
    <3>1. second' \in Seconds /\ tick' \in Ticks
      <4>1. /\ TicksInSecond \in Nat /\ TicksInSecond > 0 /\ MaxSecond \in Nat
            /\ second \in 0 .. MaxSecond /\ tick \in 0 .. (TicksInSecond - 1)
        BY DEF LimiterTypeOK, Seconds, Ticks
      <4> QED BY <2>1, <4>1 DEF Elapse, Seconds, Ticks
    <3> QED BY <2>1, <3>1 DEF Elapse, LimiterTypeOK, redisVars, requestVars, countVars
  <2>2. ASSUME NEW c \in Clients, Evict(c) PROVE LimiterTypeOK'
    BY <2>2 DEF Evict, LimiterTypeOK, clockVars, requestVars, countVars
  <2>3. ASSUME NEW dead \in SUBSET Handlers, GatewayDies(dead) PROVE LimiterTypeOK'
    <3>1. 0 \in Seconds
      BY DEF Seconds
    <3> QED BY <2>3, <3>1, AnyClientIsClient DEF GatewayDies, LimiterTypeOK, clockVars, redisVars, countVars
  <2>4. ASSUME NEW h \in Handlers, NEW c \in Clients, Arrive(h, c) PROVE LimiterTypeOK'
    BY <2>4 DEF Arrive, LimiterTypeOK, clockVars, redisVars, countVars
  <2>5. ASSUME NEW h \in Handlers, Prune(h) PROVE LimiterTypeOK'
    <3>1. client[h] \in Clients
      BY DEF LimiterTypeOK
    <3> DEFINE rest == {e \in window[client[h]] : e[1] > now[h] - 1}
    <3>2. rest \in SUBSET (Seconds \X Nat)
      BY <3>1 DEF LimiterTypeOK
    <3>3. /\ window' = [window EXCEPT ![client[h]] = rest]
          /\ expires' = [expires EXCEPT ![client[h]] = IF rest = {} THEN 0 ELSE expires[client[h]]]
      BY <2>5 DEF Prune, RemoveUpTo
    <3> HIDE DEF rest
    <3>4. window' \in [Clients -> SUBSET (Seconds \X Nat)]
      BY <3>1, <3>2, <3>3 DEF LimiterTypeOK
    <3>5. expires' \in [Clients -> Nat]
      BY <3>1, <3>3 DEF LimiterTypeOK
    <3> QED BY <2>5, <3>4, <3>5 DEF Prune, LimiterTypeOK, clockVars, countVars
  <2>6. ASSUME NEW h \in Handlers, Accept(h) PROVE LimiterTypeOK'
    BY <2>6 DEF Accept, LimiterTypeOK, clockVars, redisVars, countVars
  <2>7. ASSUME NEW h \in Handlers, RefuseRequest(h) PROVE LimiterTypeOK'
    <3>1. 0 \in Seconds
      BY DEF Seconds
    <3> QED BY <2>7, <3>1, AnyClientIsClient
            DEF RefuseRequest, Return, LimiterTypeOK, clockVars, redisVars, countVars
  <2>8. ASSUME NEW h \in Handlers, Add(h) PROVE LimiterTypeOK'
    BY <2>8, LetThroughType, EnterType, RenewType DEF Add, LimiterTypeOK, clockVars
  <2>9. ASSUME NEW h \in Handlers, RedisFails(h) PROVE LimiterTypeOK'
    <3>1. window' \in [Clients -> SUBSET (Seconds \X Nat)]
      BY <2>9, EnterType DEF RedisFails, LimiterTypeOK
    <3>2. expires' \in [Clients -> Nat]
      BY <2>9, RenewType DEF RedisFails, LimiterTypeOK
    <3>3. failures' \in 0 .. MaxFailures
      BY <2>9 DEF RedisFails, LimiterTypeOK
    <3> QED BY <2>9, <3>1, <3>2, <3>3, LetThroughType DEF RedisFails, LimiterTypeOK, clockVars
  <2>10. CASE UNCHANGED limiterVars
    BY <2>10 DEF limiterVars, clockVars, redisVars, requestVars, countVars, LimiterTypeOK
  <2> QED
    BY <2>1, <2>2, <2>3, <2>4, <2>5, <2>6, <2>7, <2>8, <2>9, <2>10 DEF LimiterNext
<1> QED
  BY <1>1, <1>2, PTL DEF LimiterSpec

-----------------------------------------------------------------------------
(* Of the requests of client c that took the time t: their entries, those about to   *)
(* add theirs, and all that are under way.                                       *)
Entries(c, t) == {e \in window[c] : e[1] = t}
Adding(c, t) == {h \in Handlers : pc[h] = "add" /\ client[h] = c /\ now[h] = t}
Under(c, t) == {h \in Handlers : pc[h] # "idle" /\ client[h] = c /\ now[h] = t}

Expired(c) == expires[c] \in 1 .. second

Slots == Cardinality(Handlers)

(* The members of a window are told apart.                                       *)
MembersOK(c) ==
    /\ IsFiniteSet(window[c])
    /\ \A e \in window[c] : e[2] < passed[c][e[1]]

(* No request has a time that is still to come.                                   *)
AheadOK(c, t) == t > second => passed[c][t] = 0 /\ Under(c, t) = {}

(* While t is the current second, what was let through is in the window, but for      *)
(* failures; so what is about to be added found room in it.                         *)
CurrentOK(c, t) ==
    t = second =>
        /\ passed[c][t] <= Cardinality(Entries(c, t)) + failures
        /\ Expired(c) => passed[c][t] <= failures
        /\ passed[c][t] + Cardinality(Adding(c, t)) <= Burst + Slots - 1 + failures

(* When it is over, all that is still under way may find room.                      *)
BehindOK(c, t) ==
    t < second =>
        passed[c][t] + Cardinality(Under(c, t)) <= Burst + 2 * Slots - 1 + failures

CountOK(c, t) == AheadOK(c, t) /\ CurrentOK(c, t) /\ BehindOK(c, t)

CountInv == \A c \in Clients : MembersOK(c) /\ \A t \in Seconds : CountOK(c, t)

LEMMA SubsetCount ==
    ASSUME NEW S \in SUBSET Handlers, NEW T \in SUBSET S
    PROVE  /\ IsFiniteSet(S) /\ IsFiniteSet(T)
           /\ Cardinality(T) \in Nat /\ Cardinality(S) \in Nat /\ Slots \in Nat \ {0}
           /\ Cardinality(T) <= Cardinality(S) /\ Cardinality(S) <= Slots
<1>1. IsFiniteSet(S) /\ Cardinality(S) <= Slots
  BY FS_Subset DEF Slots
<1>2. IsFiniteSet(T) /\ Cardinality(T) <= Cardinality(S)
  BY <1>1, FS_Subset
<1>3. Slots \in Nat /\ Slots # 0
  BY FS_CardinalityType, FS_EmptySet DEF Slots
<1> QED BY <1>1, <1>2, <1>3, FS_CardinalityType

LEMMA SubsetsOfHandlers ==
    ASSUME NEW c \in Clients, NEW t \in Seconds
    PROVE  /\ Adding(c, t) \in SUBSET Under(c, t) /\ Under(c, t) \in SUBSET Handlers
           /\ Adding(c, t)' \in SUBSET Under(c, t)' /\ Under(c, t)' \in SUBSET Handlers
BY DEF Adding, Under

LEMMA EntriesCount ==
    ASSUME NEW W, IsFiniteSet(W), NEW t
    PROVE  /\ IsFiniteSet({e \in W : e[1] = t})
           /\ Cardinality({e \in W : e[1] = t}) \in Nat
           /\ Cardinality(W) \in Nat
           /\ Cardinality({e \in W : e[1] = t}) <= Cardinality(W)
<1> DEFINE E == {e \in W : e[1] = t}
<1>1. E \subseteq W
  OBVIOUS
<1> HIDE DEF E
<1>2. IsFiniteSet(E) /\ Cardinality(E) <= Cardinality(W)
  BY <1>1, FS_Subset
<1>3. Cardinality(E) \in Nat /\ Cardinality(W) \in Nat
  BY <1>2, FS_CardinalityType
<1> QED BY <1>2, <1>3 DEF E

LEMMA Slack ==
    ASSUME NEW p \in Int, NEW u \in Int, NEW v \in Int, NEW b \in Int,
           NEW f \in Int, NEW g \in Int, p + u <= b + f, v <= u, f <= g
    PROVE  p + v <= b + g
OBVIOUS

(* A step that lets no request of (c, t) through, or nearer to it.                   *)
LEMMA QuietStep ==
    ASSUME LimiterTypeOK, LimiterTypeOK', NEW c \in Clients, NEW t \in Seconds, CountOK(c, t),
           IsFiniteSet(window[c]), IsFiniteSet(window'[c]),
           second' = second, passed'[c][t] = passed[c][t], failures' >= failures,
           Adding(c, t)' \subseteq Adding(c, t), Under(c, t)' \subseteq Under(c, t),
           t = second => Entries(c, t) \subseteq Entries(c, t)',
           Expired(c)' => Expired(c)
    PROVE  CountOK(c, t)'
<1> DEFINE a == Cardinality(Adding(c, t))    a2 == Cardinality(Adding(c, t)')
           u == Cardinality(Under(c, t))     u2 == Cardinality(Under(c, t)')
           n == Cardinality(Entries(c, t))   n2 == Cardinality(Entries(c, t)')
           p == passed[c][t]
<1>1. a \in Nat /\ a2 \in Nat /\ a2 <= a
  BY SubsetsOfHandlers, SubsetCount
<1>2. u \in Nat /\ u2 \in Nat /\ u2 <= u /\ Slots \in Nat
  BY SubsetsOfHandlers, SubsetCount
<1>3. n \in Nat /\ n2 \in Nat /\ (t = second => n <= n2)
  <2>1. n \in Nat /\ n2 \in Nat /\ IsFiniteSet(Entries(c, t)')
    BY EntriesCount DEF Entries
  <2>2. t = second => n <= n2
    BY <2>1, FS_Subset
  <2> QED BY <2>1, <2>2
<1>4. p \in Nat /\ failures \in Nat /\ failures' \in Nat /\ second \in Int /\ t \in Int
  BY DEF LimiterTypeOK, Seconds
<1>5. AheadOK(c, t)'
  BY DEF CountOK, AheadOK
<1>6. CurrentOK(c, t)'
  <2>1. t = second => /\ p <= n + failures
                      /\ Expired(c) => p <= failures
                      /\ p + a <= Burst + Slots - 1 + failures
    BY DEF CountOK, CurrentOK
  <2> HIDE DEF a, a2, u, u2, n, n2, p
  <2>2. t = second => /\ p <= n2 + failures'
                      /\ Expired(c)' => p <= failures'
                      /\ p + a2 <= Burst + Slots - 1 + failures'
    <3> SUFFICES ASSUME t = second
                 PROVE  /\ p <= n2 + failures'
                        /\ Expired(c)' => p <= failures'
                        /\ p + a2 <= Burst + Slots - 1 + failures'
      OBVIOUS
    <3> DEFINE f == failures   f2 == failures'   bound == Burst + Slots - 1
    <3>1. f \in Nat /\ f2 \in Nat /\ f <= f2 /\ bound \in Int
      BY <1>2, <1>4
    <3>2. /\ p <= n + f
          /\ Expired(c) => p <= f
          /\ p + a <= bound + f
      BY <2>1
    <3> HIDE DEF f, f2, bound
    <3>3. p <= n2 + f2
      BY <1>3, <1>4, <3>1, <3>2
    <3>4. Expired(c)' => p <= f2
      BY <1>4, <3>1, <3>2
    <3>5. p + a2 <= bound + f2
      BY <1>1, <1>4, <3>1, <3>2
    <3> QED BY <3>3, <3>4, <3>5 DEF f2, bound
  <2> QED BY <2>2 DEF CurrentOK, Slots, p, n2, a2
<1>7. BehindOK(c, t)'
  <2> DEFINE bound == Burst + 2 * Slots - 1
  <2>1. bound \in Int
    BY <1>2
  <2>2. t < second => p + u <= bound + failures
    BY DEF CountOK, BehindOK
  <2> HIDE DEF a, a2, u, u2, n, n2, p, bound
  <2>3. ASSUME t < second PROVE p + u2 <= bound + failures'
    <3>1. p + u <= bound + failures
      BY <2>2, <2>3
    <3>2. p \in Int /\ u \in Int /\ u2 \in Int /\ u2 <= u
      BY <1>2, <1>4
    <3>3. failures \in Int /\ failures' \in Int /\ failures <= failures'
      BY <1>4
    <3> QED BY <2>1, <3>1, <3>2, <3>3, Slack
  <2> QED BY <2>3 DEF BehindOK, Slots, p, u2, bound
<1> QED BY <1>5, <1>6, <1>7 DEF CountOK

(* A step that lets a request through: it has its entry, or something failed.          *)
LEMMA PassStep ==
    ASSUME LimiterTypeOK, LimiterTypeOK', NEW c \in Clients, NEW t \in Seconds, CountOK(c, t),
           IsFiniteSet(window[c]), IsFiniteSet(window'[c]),
           NEW h \in Under(c, t),
           second' = second, passed'[c][t] = passed[c][t] + 1,
           Adding(c, t)' = Adding(c, t) \ {h}, Under(c, t)' = Under(c, t) \ {h},
           \/ /\ failures' = failures /\ h \in Adding(c, t) /\ ~ Expired(c)'
              /\ \E e : e \notin Entries(c, t) /\ Entries(c, t)' = Entries(c, t) \cup {e}
           \/ /\ failures' = failures + 1 /\ (Expired(c)' => Expired(c))
              /\ Entries(c, t) \subseteq Entries(c, t)'
    PROVE  CountOK(c, t)'
<1> DEFINE A == Adding(c, t)     U == Under(c, t)
           A2 == Adding(c, t)'   U2 == Under(c, t)'
           E == Entries(c, t)    E2 == Entries(c, t)'
           p == passed[c][t]
<1>1. p \in Nat /\ failures \in Nat /\ failures' \in Nat /\ second \in Int /\ t \in Int
  BY DEF LimiterTypeOK, Seconds
<1>2. ~ (t > second)
  BY DEF CountOK, AheadOK
<1>3. t = second => /\ p <= Cardinality(E) + failures
                    /\ Expired(c) => p <= failures
                    /\ p + Cardinality(A) <= Burst + Slots - 1 + failures
  BY DEF CountOK, CurrentOK
<1>4. t < second => p + Cardinality(U) <= Burst + 2 * Slots - 1 + failures
  BY DEF CountOK, BehindOK
<1>5. A \in SUBSET U /\ U \in SUBSET Handlers /\ A2 = A \ {h} /\ U2 = U \ {h} /\ h \in U
  BY SubsetsOfHandlers
<1>6. /\ IsFiniteSet(E) /\ IsFiniteSet(E2)
      /\ Cardinality(E) \in Nat /\ Cardinality(E2) \in Nat
  BY EntriesCount DEF Entries
<1>7. \/ /\ failures' = failures /\ h \in A /\ ~ Expired(c)'
         /\ \E e : e \notin E /\ E2 = E \cup {e}
      \/ failures' = failures + 1 /\ (Expired(c)' => Expired(c)) /\ E \subseteq E2
  OBVIOUS
<1> HIDE DEF A, U, A2, U2, E, E2, p
<1>8. /\ Cardinality(U) \in Nat /\ Cardinality(A) \in Nat /\ Cardinality(A2) \in Nat
      /\ Slots \in Nat /\ Cardinality(A2) <= Cardinality(A)
      /\ IsFiniteSet(A) /\ IsFiniteSet(U)
  <2>1. A \in SUBSET Handlers /\ A2 \in SUBSET A
    BY <1>5
  <2> QED BY <1>5, <2>1, SubsetCount
<1>9. Cardinality(U2) = Cardinality(U) - 1
  BY <1>5, <1>8, FS_RemoveElement
<1>10. h \in A => Cardinality(A2) = Cardinality(A) - 1
  BY <1>5, <1>8, FS_RemoveElement
<1>11. t = second => /\ p + 1 <= Cardinality(E2) + failures'
                     /\ Expired(c)' => p + 1 <= failures'
                     /\ p + 1 + Cardinality(A2) <= Burst + Slots - 1 + failures'
  <2>1. CASE /\ failures' = failures /\ h \in A /\ ~ Expired(c)'
             /\ \E e : e \notin E /\ E2 = E \cup {e}
    <3>1. Cardinality(E2) = Cardinality(E) + 1
      BY <1>6, <2>1, FS_AddElement
    <3> QED BY <1>1, <1>3, <1>6, <1>8, <1>10, <2>1, <3>1
  <2>2. CASE failures' = failures + 1 /\ (Expired(c)' => Expired(c)) /\ E \subseteq E2
    <3>1. Cardinality(E) <= Cardinality(E2)
      BY <1>6, <2>2, FS_Subset
    <3> QED BY <1>1, <1>3, <1>6, <1>8, <2>2, <3>1
  <2> QED BY <1>7, <2>1, <2>2
<1>12. t < second => p + 1 + Cardinality(U2) <= Burst + 2 * Slots - 1 + failures'
  BY <1>1, <1>4, <1>7, <1>8, <1>9
<1>13. AheadOK(c, t)'
  BY <1>2 DEF AheadOK
<1>14. CurrentOK(c, t)'
  BY <1>11 DEF CurrentOK, Slots, p, E2, A2
<1>15. BehindOK(c, t)'
  BY <1>12 DEF BehindOK, Slots, p, U2
<1> QED BY <1>13, <1>14, <1>15 DEF CountOK

(* What a request that is let through does to the counts.                             *)
LEMMA LetThroughCounts ==
    ASSUME LimiterTypeOK, NEW h \in Handlers, pc[h] # "idle", LetThrough(h),
           NEW c \in Clients, NEW t \in Seconds
    PROVE  /\ client[h] = c /\ now[h] = t =>
                 /\ h \in Under(c, t) /\ passed'[c][t] = passed[c][t] + 1
                 /\ Adding(c, t)' = Adding(c, t) \ {h} /\ Under(c, t)' = Under(c, t) \ {h}
           /\ ~ (client[h] = c /\ now[h] = t) =>
                 /\ passed'[c][t] = passed[c][t]
                 /\ Adding(c, t)' \subseteq Adding(c, t) /\ Under(c, t)' \subseteq Under(c, t)
<1>1. client[h] \in Clients /\ now[h] \in Seconds /\ passed[c] \in [Seconds -> Nat]
  BY DEF LimiterTypeOK
<1>2. pc'[h] = "idle" /\ \A g \in Handlers \ {h} :
         pc'[g] = pc[g] /\ client'[g] = client[g] /\ now'[g] = now[g]
  BY DEF LetThrough, Return, LimiterTypeOK
<1>3. passed'[c][t] = IF client[h] = c /\ now[h] = t THEN passed[c][t] + 1 ELSE passed[c][t]
  BY <1>1 DEF LetThrough, LimiterTypeOK
<1> QED BY <1>2, <1>3 DEF Adding, Under

(* ... and to the members, when it may have entered the window.                         *)
LEMMA LetThroughMembers ==
    ASSUME LimiterTypeOK, NEW h \in Handlers, LetThrough(h), UNCHANGED window \/ Enter(h),
           NEW c \in Clients, MembersOK(c)
    PROVE  MembersOK(c)'
<1> DEFINE d == client[h]  t == now[h]  e == <<t, passed[d][t]>>
<1>1. d \in Clients /\ t \in Seconds /\ passed[d][t] \in Nat
  BY DEF LimiterTypeOK
<1>2. IsFiniteSet(window[c])
  BY DEF MembersOK
<1>3. window'[c] \in {window[c], window[c] \cup {e}} /\ (c # d => window'[c] = window[c])
  BY <1>1 DEF Enter, LimiterTypeOK
<1>4. IsFiniteSet(window'[c])
  <2>1. IsFiniteSet(window[c] \cup {e})
    <3> HIDE DEF e
    <3> QED BY <1>2, FS_AddElement
  <2> QED BY <1>2, <1>3, <2>1
<1>5. ASSUME NEW s \in Seconds
      PROVE  /\ passed'[c][s] >= passed[c][s]
             /\ c = d /\ s = t => passed'[c][s] = passed[d][t] + 1
             /\ passed[c][s] \in Nat /\ passed'[c][s] \in Nat
  BY <1>1 DEF LetThrough, LimiterTypeOK
<1>6. \A x \in window[c] : x[1] \in Seconds /\ x[2] \in Nat
  BY DEF LimiterTypeOK
<1>7. ASSUME NEW x \in window'[c]
      PROVE  x[2] < passed'[c][x[1]]
  <2>1. CASE x \in window[c]
    <3>1. x[2] < passed[c][x[1]] /\ x[1] \in Seconds /\ x[2] \in Nat
      BY <1>6, <2>1 DEF MembersOK
    <3>2. passed[c][x[1]] \in Nat /\ passed'[c][x[1]] \in Nat /\ passed'[c][x[1]] >= passed[c][x[1]]
      BY <1>5, <3>1
    <3> QED BY <3>1, <3>2
  <2>2. CASE x \notin window[c]
    <3>1. c = d /\ x[1] = t /\ x[2] = passed[d][t]
      BY <1>3, <1>7, <2>2
    <3> QED BY <1>1, <1>5, <3>1
  <2> QED BY <2>1, <2>2
<1> QED BY <1>4, <1>7 DEF MembersOK

(* One step keeps the counts.                                                      *)
LEMMA CountStep == LimiterTypeOK /\ LimiterTypeOK' /\ CountInv /\ [LimiterNext]_limiterVars => CountInv'
<1> SUFFICES ASSUME LimiterTypeOK, LimiterTypeOK', CountInv, [LimiterNext]_limiterVars,
                    NEW c \in Clients
             PROVE  MembersOK(c)' /\ \A t \in Seconds : CountOK(c, t)'
  BY DEF CountInv
<1>0. MembersOK(c) /\ IsFiniteSet(window[c]) /\ \A t \in Seconds : CountOK(c, t)
  BY DEF CountInv, MembersOK
<1>1. CASE Elapse
  <2>1. MembersOK(c)'
    BY <1>0, <1>1 DEF Elapse, redisVars, countVars, MembersOK
  <2>2. ASSUME NEW t \in Seconds PROVE CountOK(c, t)'
    <3>0. CountOK(c, t)
      BY <1>0
    <3>1. /\ UNCHANGED <<window, expires, pc, client, now, passed, failures>>
          /\ second' \in {second, second + 1}
      BY <1>1 DEF Elapse, redisVars, requestVars, countVars
    <3>2. /\ Adding(c, t)' = Adding(c, t) /\ Under(c, t)' = Under(c, t)
          /\ Entries(c, t)' = Entries(c, t)
      BY <3>1 DEF Adding, Under, Entries
    <3>3. CASE second' = second
      BY <1>0, <3>0, <3>1, <3>2, <3>3 DEF CountOK, AheadOK, CurrentOK, BehindOK, Expired
    <3>4. CASE second' = second + 1
      <4> DEFINE a == Cardinality(Adding(c, t))   u == Cardinality(Under(c, t))
                 n == Cardinality(Entries(c, t))  p == passed[c][t]
      <4>1. a \in Nat /\ u \in Nat /\ a <= u /\ u <= Slots /\ Slots \in Nat \ {0}
        BY SubsetsOfHandlers, SubsetCount
      <4>2. n \in Nat
        BY <1>0, EntriesCount DEF Entries
      <4>3. p \in Nat /\ failures \in Nat /\ second \in Int /\ t \in Int
        BY DEF LimiterTypeOK, Seconds
      <4>4. CASE t > second
        <5>1. p = 0 /\ Under(c, t) = {} /\ Adding(c, t) = {}
          BY <3>0, <4>4, SubsetsOfHandlers DEF CountOK, AheadOK
        <5>2. a = 0
          BY <5>1, FS_EmptySet
        <5>3. AheadOK(c, t)'
          BY <3>1, <3>2, <5>1 DEF AheadOK
        <5>4. ~ (t < second')
          BY <3>4, <4>3, <4>4
        <5>5. p <= n + failures /\ p <= failures /\ p + a <= Burst + Slots - 1 + failures
          <6> HIDE DEF a, n, p, u
          <6> QED BY <4>1, <4>2, <4>3, <5>1, <5>2 DEF p
        <5>6. CurrentOK(c, t)'
          BY <3>1, <3>2, <5>5 DEF CurrentOK, Slots
        <5> QED BY <5>3, <5>4, <5>6 DEF CountOK, BehindOK
      <4>5. CASE t = second
        <5>1. p + a <= Burst + Slots - 1 + failures
          BY <3>0, <4>5 DEF CountOK, CurrentOK
        <5>2. p + u <= Burst + 2 * Slots - 1 + failures
          <6> HIDE DEF a, n, p, u
          <6> QED BY <4>1, <4>3, <5>1
        <5>3. t < second' /\ ~ (t > second') /\ t # second'
          BY <3>4, <4>3, <4>5
        <5> QED BY <3>1, <3>2, <5>2, <5>3 DEF CountOK, AheadOK, CurrentOK, BehindOK, Slots
      <4>6. CASE t < second
        <5>1. p + u <= Burst + 2 * Slots - 1 + failures
          BY <3>0, <4>6 DEF CountOK, BehindOK
        <5>2. t < second' /\ ~ (t > second') /\ t # second'
          BY <3>4, <4>3, <4>6
        <5> QED BY <3>1, <3>2, <5>1, <5>2 DEF CountOK, AheadOK, CurrentOK, BehindOK, Slots
      <4> QED BY <4>3, <4>4, <4>5, <4>6
    <3> QED BY <3>1, <3>3, <3>4
  <2> QED BY <2>1, <2>2
<1>2. ASSUME NEW d \in Clients, Evict(d)
      PROVE  MembersOK(c)' /\ \A t \in Seconds : CountOK(c, t)'
  <2>0. UNCHANGED <<second, pc, client, now, passed, failures>>
    BY <1>2 DEF Evict, clockVars, requestVars, countVars
  <2>1. CASE c # d
    <3>1. window'[c] = window[c] /\ expires'[c] = expires[c]
      BY <1>2, <2>1 DEF Evict, LimiterTypeOK
    <3> QED BY <1>0, <2>0, <3>1
            DEF MembersOK, CountOK, AheadOK, CurrentOK, BehindOK, Expired, Adding, Under, Entries
  <2>2. CASE c = d
    <3>1. window'[c] = {} /\ expires'[c] = 0 /\ Expired(c) /\ ~ Expired(c)'
      BY <1>2, <2>2 DEF Evict, LimiterTypeOK, Expired
    <3>2. MembersOK(c)'
      BY <3>1, FS_EmptySet DEF MembersOK
    <3>3. ASSUME NEW t \in Seconds PROVE CountOK(c, t)'
      <4>1. CountOK(c, t) /\ Adding(c, t)' = Adding(c, t) /\ Under(c, t)' = Under(c, t)
        BY <1>0, <2>0 DEF Adding, Under
      <4>2. Cardinality(Entries(c, t)') = 0
        <5>1. Entries(c, t)' = {}
          BY <3>1 DEF Entries
        <5> QED BY <5>1, FS_EmptySet
      <4>3. passed[c][t] \in Nat /\ failures \in Nat
        BY DEF LimiterTypeOK
      <4> QED BY <2>0, <3>1, <4>1, <4>2, <4>3 DEF CountOK, AheadOK, CurrentOK, BehindOK
    <3> QED BY <3>2, <3>3
  <2> QED BY <2>1, <2>2
<1>3. ASSUME NEW dead \in SUBSET Handlers, GatewayDies(dead)
      PROVE  MembersOK(c)' /\ \A t \in Seconds : CountOK(c, t)'
  <2>1. UNCHANGED <<second, window, expires, passed, failures>>
    BY <1>3 DEF GatewayDies, clockVars, redisVars, countVars
  <2>2. MembersOK(c)' /\ IsFiniteSet(window'[c])
    BY <1>0, <2>1 DEF MembersOK
  <2>3. ASSUME NEW t \in Seconds PROVE CountOK(c, t)'
    <3>1. Adding(c, t)' \subseteq Adding(c, t) /\ Under(c, t)' \subseteq Under(c, t)
      BY <1>3 DEF GatewayDies, Adding, Under
    <3>2. Entries(c, t)' = Entries(c, t) /\ (Expired(c)' => Expired(c)) /\ failures' >= failures
      BY <2>1 DEF Entries, Expired, LimiterTypeOK
    <3> QED BY <1>0, <2>1, <2>2, <3>1, <3>2, QuietStep
  <2> QED BY <2>2, <2>3
<1>4. ASSUME NEW h \in Handlers, NEW d \in Clients, Arrive(h, d)
      PROVE  MembersOK(c)' /\ \A t \in Seconds : CountOK(c, t)'
  <2>1. UNCHANGED <<second, window, expires, passed, failures>>
    BY <1>4 DEF Arrive, clockVars, redisVars, countVars
  <2>2. MembersOK(c)' /\ IsFiniteSet(window'[c])
    BY <1>0, <2>1 DEF MembersOK
  <2>3. ASSUME NEW t \in Seconds PROVE CountOK(c, t)'
    <3>1. Adding(c, t)' \subseteq Adding(c, t) /\ (t # second => Under(c, t)' \subseteq Under(c, t))
      BY <1>4 DEF Arrive, Adding, Under, LimiterTypeOK
    <3>2. Entries(c, t)' = Entries(c, t) /\ (Expired(c)' => Expired(c)) /\ failures' >= failures
      BY <2>1 DEF Entries, Expired, LimiterTypeOK
    <3>3. CASE t # second
      BY <1>0, <2>1, <2>2, <3>1, <3>2, <3>3, QuietStep
    <3>4. CASE t = second
      <4> DEFINE a == Cardinality(Adding(c, t))   a2 == Cardinality(Adding(c, t)')
                 p == passed[c][t]
      <4>1. /\ p <= Cardinality(Entries(c, t)) + failures
            /\ Expired(c) => p <= failures
            /\ p + a <= Burst + Slots - 1 + failures
        BY <1>0, <3>4 DEF CountOK, CurrentOK
      <4>2. a \in Nat /\ a2 \in Nat /\ a2 <= a /\ Slots \in Nat
        BY <3>1, SubsetsOfHandlers, SubsetCount
      <4>3. p \in Nat /\ failures \in Nat /\ second \in Int
        BY DEF LimiterTypeOK, Seconds
      <4>4. p + a2 <= Burst + Slots - 1 + failures
        <5> HIDE DEF a, a2, p
        <5> QED BY <4>1, <4>2, <4>3
      <4>5. CurrentOK(c, t)'
        BY <2>1, <3>2, <4>1, <4>4 DEF CurrentOK, Slots
      <4>6. ~ (t > second') /\ ~ (t < second')
        BY <2>1, <3>4, <4>3
      <4> QED BY <4>5, <4>6 DEF CountOK, AheadOK, BehindOK
    <3> QED BY <3>3, <3>4
  <2> QED BY <2>2, <2>3
<1>5. ASSUME NEW h \in Handlers, Prune(h)
      PROVE  MembersOK(c)' /\ \A t \in Seconds : CountOK(c, t)'
  <2>1. UNCHANGED <<second, client, now, passed, failures>>
        /\ pc[h] = "prune" /\ pc' = [pc EXCEPT ![h] = "count"]
    BY <1>5 DEF Prune, clockVars, countVars
  <2>2. /\ client[h] # c => window'[c] = window[c] /\ expires'[c] = expires[c]
        /\ client[h] = c => window'[c] = {e \in window[c] : e[1] > now[h] - 1}
        /\ expires'[c] \in {0, expires[c]}
    BY <1>5 DEF Prune, RemoveUpTo, LimiterTypeOK
  <2>3. window'[c] \subseteq window[c]
    BY <2>2
  <2>4. IsFiniteSet(window'[c])
    BY <1>0, <2>3, FS_Subset
  <2>5. MembersOK(c)'
    BY <1>0, <2>1, <2>3, <2>4 DEF MembersOK
  <2>6. client[h] = c => now[h] <= second
    <3>1. now[h] \in Seconds /\ now[h] \in Int /\ second \in Int
      BY DEF LimiterTypeOK, Seconds
    <3>2. client[h] = c => h \in Under(c, now[h])
      BY <2>1 DEF Under
    <3> QED BY <1>0, <3>1, <3>2 DEF CountOK, AheadOK
  <2>7. ASSUME NEW t \in Seconds PROVE CountOK(c, t)'
    <3>1. Adding(c, t)' \subseteq Adding(c, t) /\ Under(c, t)' \subseteq Under(c, t)
      BY <2>1 DEF Adding, Under, LimiterTypeOK
    <3>2. t = second => Entries(c, t) \subseteq Entries(c, t)'
      <4>1. now[h] \in Int /\ second \in Int
        BY DEF LimiterTypeOK, Seconds
      <4>2. client[h] = c => now[h] <= second /\ second > now[h] - 1
        BY <2>6, <4>1
      <4> QED BY <2>2, <4>2 DEF Entries
    <3>3. (Expired(c)' => Expired(c)) /\ failures' >= failures
      BY <2>1, <2>2 DEF Expired, LimiterTypeOK
    <3> QED BY <1>0, <2>1, <2>4, <3>1, <3>2, <3>3, QuietStep
  <2> QED BY <2>5, <2>7
<1>6. ASSUME NEW h \in Handlers, Accept(h)
      PROVE  MembersOK(c)' /\ \A t \in Seconds : CountOK(c, t)'
  <2>1. UNCHANGED <<second, window, expires, client, now, passed, failures>>
        /\ pc[h] = "count" /\ pc' = [pc EXCEPT ![h] = "add"]
    BY <1>6 DEF Accept, clockVars, redisVars, countVars
  <2>2. MembersOK(c)' /\ IsFiniteSet(window'[c])
    BY <1>0, <2>1 DEF MembersOK
  <2>3. ASSUME NEW t \in Seconds PROVE CountOK(c, t)'
    <3>0. CountOK(c, t)
      BY <1>0
    <3>1. Under(c, t)' = Under(c, t) /\ Entries(c, t)' = Entries(c, t) /\ (Expired(c)' <=> Expired(c))
      BY <2>1 DEF Under, Entries, Expired, LimiterTypeOK
    <3>2. AheadOK(c, t)' /\ BehindOK(c, t)'
      BY <2>1, <3>0, <3>1 DEF CountOK, AheadOK, BehindOK
    <3>3. CASE client[h] = c /\ now[h] = t
      <4> DEFINE n == Cardinality(Entries(c, t))  w == Cardinality(window[c])
                 a2 == Cardinality(Adding(c, t)') p == passed[c][t]
      <4>1. w \in Nat /\ n \in Nat /\ n <= w
        BY <1>0, EntriesCount DEF Entries
      <4>2. ~ (w >= Burst)
        BY <1>6, <3>3 DEF Accept, Full
      <4>3. t = second => p <= n + failures /\ (Expired(c) => p <= failures)
        BY <3>0 DEF CountOK, CurrentOK
      <4>4. a2 \in Nat /\ a2 <= Slots /\ Slots \in Nat
        <5>1. Adding(c, t)' \in SUBSET Handlers
          BY DEF Adding
        <5> QED BY <5>1, SubsetCount
      <4>5. p \in Nat /\ failures \in Nat
        BY DEF LimiterTypeOK
      <4>6. t = second => p + a2 <= Burst + Slots - 1 + failures
        <5> HIDE DEF n, w, a2, p
        <5> QED BY <4>1, <4>2, <4>3, <4>4, <4>5
      <4> QED BY <2>1, <3>1, <3>2, <4>3, <4>6 DEF CountOK, CurrentOK, Slots
    <3>4. CASE ~ (client[h] = c /\ now[h] = t)
      <4>1. Adding(c, t)' \subseteq Adding(c, t) /\ failures' >= failures
        BY <2>1, <3>4 DEF Adding, LimiterTypeOK
      <4> QED BY <1>0, <2>1, <2>2, <3>0, <3>1, <4>1, QuietStep
    <3> QED BY <3>3, <3>4
  <2> QED BY <2>2, <2>3
<1>7. ASSUME NEW h \in Handlers, RefuseRequest(h)
      PROVE  MembersOK(c)' /\ \A t \in Seconds : CountOK(c, t)'
  <2>1. UNCHANGED <<second, window, expires, passed, failures>>
    BY <1>7 DEF RefuseRequest, clockVars, redisVars, countVars
  <2>2. MembersOK(c)' /\ IsFiniteSet(window'[c])
    BY <1>0, <2>1 DEF MembersOK
  <2>3. ASSUME NEW t \in Seconds PROVE CountOK(c, t)'
    <3>1. Adding(c, t)' \subseteq Adding(c, t) /\ Under(c, t)' \subseteq Under(c, t)
      BY <1>7 DEF RefuseRequest, Return, Adding, Under, LimiterTypeOK
    <3>2. Entries(c, t)' = Entries(c, t) /\ (Expired(c)' => Expired(c)) /\ failures' >= failures
      BY <2>1 DEF Entries, Expired, LimiterTypeOK
    <3> QED BY <1>0, <2>1, <2>2, <3>1, <3>2, QuietStep
  <2> QED BY <2>2, <2>3
<1>8. ASSUME NEW h \in Handlers, Add(h)
      PROVE  MembersOK(c)' /\ \A t \in Seconds : CountOK(c, t)'
  <2>1. pc[h] = "add" /\ LetThrough(h) /\ Enter(h) /\ Renew(h) /\ second' = second /\ failures' = failures
    BY <1>8 DEF Add, clockVars
  <2>2. MembersOK(c)' /\ IsFiniteSet(window'[c])
    <3>1. MembersOK(c)'
      BY <1>0, <2>1, LetThroughMembers
    <3> QED BY <3>1 DEF MembersOK
  <2>3. ASSUME NEW t \in Seconds PROVE CountOK(c, t)'
    <3>0. CountOK(c, t)
      BY <1>0
    <3>1. client[h] # c => window'[c] = window[c] /\ expires'[c] = expires[c]
      BY <2>1 DEF Enter, Renew, LimiterTypeOK
    <3>2. client[h] = c => ~ Expired(c)'
      BY <2>1 DEF Renew, Expired, LimiterTypeOK, Seconds
    <3>3. client[h] = c => window'[c] = window[c] \cup {<<now[h], passed[c][now[h]]>>}
      BY <2>1 DEF Enter, LimiterTypeOK
    <3>4. CASE client[h] = c /\ now[h] = t
      <4> DEFINE e == <<t, passed[c][t]>>
      <4>1. e \notin window[c]
        <5>1. passed[c][t] \in Nat
          BY DEF LimiterTypeOK
        <5> QED BY <1>0, <5>1 DEF MembersOK
      <4>2. e \notin Entries(c, t) /\ Entries(c, t)' = Entries(c, t) \cup {e}
        BY <3>3, <3>4, <4>1 DEF Entries
      <4>3. h \in Adding(c, t)
        BY <2>1, <3>4 DEF Adding
      <4>4. \E x : x \notin Entries(c, t) /\ Entries(c, t)' = Entries(c, t) \cup {x}
        BY <4>2
      <4>5. /\ h \in Under(c, t) /\ passed'[c][t] = passed[c][t] + 1
            /\ Adding(c, t)' = Adding(c, t) \ {h} /\ Under(c, t)' = Under(c, t) \ {h}
        BY <2>1, <3>4, LetThroughCounts
      <4> QED BY <1>0, <2>1, <2>2, <3>0, <3>2, <3>4, <4>3, <4>4, <4>5, PassStep
    <3>5. CASE ~ (client[h] = c /\ now[h] = t)
      <4>1. Entries(c, t)' = Entries(c, t)
        BY <3>1, <3>3, <3>5 DEF Entries
      <4>2. Expired(c)' => Expired(c)
        BY <2>1, <3>1, <3>2 DEF Expired
      <4>3. /\ passed'[c][t] = passed[c][t]
            /\ Adding(c, t)' \subseteq Adding(c, t) /\ Under(c, t)' \subseteq Under(c, t)
        BY <2>1, <3>5, LetThroughCounts
      <4>4. failures' >= failures
        BY <2>1 DEF LimiterTypeOK
      <4> QED BY <1>0, <2>1, <2>2, <3>0, <4>1, <4>2, <4>3, <4>4, QuietStep
    <3> QED BY <3>4, <3>5
  <2> QED BY <2>2, <2>3
<1>9. ASSUME NEW h \in Handlers, RedisFails(h)
      PROVE  MembersOK(c)' /\ \A t \in Seconds : CountOK(c, t)'
  <2>1. /\ pc[h] # "idle" /\ LetThrough(h) /\ second' = second /\ failures' = failures + 1
        /\ UNCHANGED window \/ Enter(h)
        /\ UNCHANGED expires \/ Renew(h)
    BY <1>9 DEF RedisFails, clockVars
  <2>2. MembersOK(c)' /\ IsFiniteSet(window'[c])
    <3>1. MembersOK(c)'
      BY <1>0, <2>1, LetThroughMembers
    <3> QED BY <3>1 DEF MembersOK
  <2>3. ASSUME NEW t \in Seconds PROVE CountOK(c, t)'
    <3>0. CountOK(c, t) /\ failures' >= failures
      BY <1>0, <2>1 DEF LimiterTypeOK
    <3>1. Entries(c, t) \subseteq Entries(c, t)'
      <4>1. window[c] \subseteq window'[c]
        <5>1. CASE Enter(h)
          <6> DEFINE e == <<now[h], passed[client[h]][now[h]]>>
          <6>1. window' = [window EXCEPT ![client[h]] = window[client[h]] \cup {e}]
            BY <5>1 DEF Enter
          <6> HIDE DEF e
          <6> QED BY <6>1 DEF LimiterTypeOK
        <5> QED BY <2>1, <5>1
      <4> QED BY <4>1 DEF Entries
    <3>2. Expired(c)' => Expired(c)
      <4>1. expires'[c] \in {expires[c], second + 2} /\ second \in Nat
        <5>1. second \in Nat
          BY DEF LimiterTypeOK, Seconds
        <5>2. CASE Renew(h)
          <6>1. expires' = [expires EXCEPT ![client[h]] = second + 2]
            BY <5>2 DEF Renew
          <6> QED BY <5>1, <6>1 DEF LimiterTypeOK
        <5> QED BY <2>1, <5>1, <5>2
      <4> QED BY <2>1, <4>1 DEF Expired
    <3>3. CASE client[h] = c /\ now[h] = t
      BY <1>0, <2>1, <2>2, <3>0, <3>1, <3>2, <3>3, LetThroughCounts, PassStep
    <3>4. CASE ~ (client[h] = c /\ now[h] = t)
      BY <1>0, <2>1, <2>2, <3>0, <3>1, <3>2, <3>4, LetThroughCounts, QuietStep
    <3> QED BY <3>3, <3>4
  <2> QED BY <2>2, <2>3
<1>10. CASE UNCHANGED limiterVars
  BY <1>0, <1>10 DEF limiterVars, clockVars, redisVars, requestVars, countVars, MembersOK, CountOK,
                     AheadOK, CurrentOK, BehindOK, Expired, Adding, Under, Entries
<1> QED
  BY <1>1, <1>2, <1>3, <1>4, <1>5, <1>6, <1>7, <1>8, <1>9, <1>10 DEF LimiterNext

LEMMA CountInit == LimiterInit => CountInv
<1> SUFFICES ASSUME LimiterInit, NEW c \in Clients, NEW t \in Seconds
             PROVE  MembersOK(c) /\ CountOK(c, t)
  <2>1. 0 \in Seconds
    BY DEF Seconds
  <2> QED BY <2>1 DEF CountInv
<1>1. MembersOK(c)
  BY FS_EmptySet DEF LimiterInit, MembersOK
<1>2. Adding(c, t) = {} /\ Under(c, t) = {} /\ Entries(c, t) = {}
  BY DEF LimiterInit, Adding, Under, Entries
<1>3. passed[c][t] = 0 /\ failures = 0 /\ ~ (t < second)
  BY DEF LimiterInit, Seconds
<1>4. Slots \in Nat \ {0}
  BY SubsetCount DEF Slots
<1>5. /\ Cardinality(Adding(c, t)) = 0 /\ Cardinality(Entries(c, t)) = 0
  BY <1>2, FS_EmptySet
<1>6. 0 + 0 <= Burst + Slots - 1 + 0 /\ 0 <= 0 + 0
  BY <1>4
<1> QED BY <1>1, <1>2, <1>3, <1>5, <1>6 DEF CountOK, AheadOK, CurrentOK, BehindOK

(* However many requests of a client overlap at the gateway, and whichever of them       *)
(* are late, what is let through of one second stays within its bound.                *)
THEOREM WindowIsBounded == LimiterSpec => []WindowBounded
<1>1. LimiterTypeOK /\ CountInv => WindowBounded
  <2> SUFFICES ASSUME LimiterTypeOK, CountInv, NEW c \in Clients, NEW s \in Seconds
               PROVE  passed[c][s] <= Burst + 2 * Slots - 1 + failures
    BY DEF WindowBounded, WindowBound, Slots
  <2> DEFINE a == Cardinality(Adding(c, s))   u == Cardinality(Under(c, s))
             p == passed[c][s]
  <2>1. CountOK(c, s)
    BY DEF CountInv
  <2>2. a \in Nat /\ u \in Nat /\ Slots \in Nat \ {0}
    BY SubsetsOfHandlers, SubsetCount
  <2>3. p \in Nat /\ failures \in Nat /\ second \in Int /\ s \in Int
    BY DEF LimiterTypeOK, Seconds
  <2>4. /\ s > second => p = 0
        /\ s = second => p + a <= Burst + Slots - 1 + failures
        /\ s < second => p + u <= Burst + 2 * Slots - 1 + failures
    BY <2>1 DEF CountOK, AheadOK, CurrentOK, BehindOK
  <2> HIDE DEF a, u, p
  <2>5. p <= Burst + 2 * Slots - 1 + failures
    BY <2>2, <2>3, <2>4
  <2> QED BY <2>5 DEF p
<1>2. LimiterSpec => []CountInv
  BY LimiterTypeCorrect, CountInit, CountStep, PTL DEF LimiterSpec
<1> QED BY <1>1, <1>2, LimiterTypeCorrect, PTL

-----------------------------------------------------------------------------
(* Nobody is refused for an earlier second: every entry of the window stands for a     *)
(* request that was let through since the second it is scored with, because a request  *)
(* never took a time that is still to come (AheadOK).                             *)
Late(c, s) == {e \in window[c] : e[1] >= s}
Total(f, s) == SumFunctionOnSet(f, {t \in Seconds \X Ticks : t[1] >= s})

RefusalOK(c) ==
    /\ \A s \in Seconds : Cardinality(Late(c, s)) <= Total(through[c], s)
    /\ \A h \in Handlers : pc[h] = "count" /\ client[h] = c =>
          Cardinality(window[c]) <= Total(through[c], now[h])

RefusalInv == \A c \in Clients : RefusalOK(c)

LEMMA TimesFinite ==
    ASSUME NEW s \in Seconds
    PROVE  IsFiniteSet({t \in Seconds \X Ticks : t[1] >= s})
<1>1. IsFiniteSet(Seconds) /\ IsFiniteSet(Ticks)
  BY FS_Interval DEF Seconds, Ticks
<1>2. IsFiniteSet(Seconds \X Ticks)
  BY <1>1, FS_Product
<1> QED BY <1>2, FS_Subset

LEMMA TotalType ==
    ASSUME LimiterTypeOK, NEW c \in Clients, NEW s \in Seconds
    PROVE  Total(through[c], s) \in Int
<1> DEFINE T == {t \in Seconds \X Ticks : t[1] >= s}
<1>1. IsFiniteSet(T)
  BY TimesFinite
<1>2. \A t \in T : through[c][t] \in Int
  BY DEF LimiterTypeOK
<1> HIDE DEF T
<1>3. SumFunctionOnSet(through[c], T) \in Int
  BY <1>1, <1>2, SumIsInt
<1> QED BY <1>3 DEF Total, T

(* A request let through now counts from every second up to this one.                  *)
LEMMA TotalLetThrough ==
    ASSUME LimiterTypeOK, LimiterTypeOK', NEW h \in Handlers, LetThrough(h),
           NEW c \in Clients, NEW s \in Seconds
    PROVE  /\ client[h] = c /\ s <= second => Total(through'[c], s) = Total(through[c], s) + 1
           /\ ~ (client[h] = c /\ s <= second) => Total(through'[c], s) = Total(through[c], s)
<1> DEFINE T == {t \in Seconds \X Ticks : t[1] >= s}
           y == <<second, tick>>
           f == through[c]
           g == through'[c]
<1>1. IsFiniteSet(T)
  BY TimesFinite
<1>2. /\ y \in Seconds \X Ticks /\ y[1] = second /\ client[h] \in Clients
      /\ second \in Int /\ s \in Int
  <2>1. second \in Seconds /\ tick \in Ticks /\ client[h] \in Clients
    BY DEF LimiterTypeOK
  <2>2. second \in Int /\ s \in Int
    BY <2>1 DEF Seconds
  <2> QED BY <2>1, <2>2
<1>3. /\ \A t \in Seconds \X Ticks : f[t] \in Int /\ g[t] \in Int
      /\ \A t \in (Seconds \X Ticks) \ {y} : g[t] = f[t]
      /\ client[h] = c => g[y] = f[y] + 1
      /\ client[h] # c => g = f
  <2>1. through' = [through EXCEPT ![client[h]][y] = @ + 1]
    BY DEF LetThrough
  <2>2. through \in [Clients -> [Seconds \X Ticks -> Nat]]
    BY DEF LimiterTypeOK
  <2>3. through' \in [Clients -> [Seconds \X Ticks -> Nat]]
    BY DEF LimiterTypeOK
  <2> HIDE DEF y
  <2>4. f \in [Seconds \X Ticks -> Nat] /\ g \in [Seconds \X Ticks -> Nat]
    BY <2>2, <2>3
  <2>5. g = IF client[h] = c THEN [f EXCEPT ![y] = @ + 1] ELSE f
    BY <1>2, <2>1, <2>2
  <2> HIDE DEF f, g
  <2> QED BY <1>2, <2>4, <2>5
<1>4. y \in T <=> s <= second
  BY <1>2
<1>5. Total(through[c], s) = SumFunctionOnSet(f, T) /\ Total(through'[c], s) = SumFunctionOnSet(g, T)
  BY DEF Total
<1>6. SumFunctionOnSet(f, T) \in Int
  <2>1. \A t \in T : f[t] \in Int
    BY <1>3
  <2> HIDE DEF T, f
  <2> QED BY <1>1, <2>1, SumIsInt
<1>7. T \subseteq Seconds \X Ticks
  OBVIOUS
<1> HIDE DEF T, y, f, g
<1>8. CASE client[h] = c /\ s <= second
  <2>1. y \in T /\ f[y] \in Int /\ g[y] = f[y] + 1
    BY <1>3, <1>4, <1>7, <1>8
  <2>2. \A t \in T \ {y} : g[t] = f[t]
    BY <1>3, <1>7
  <2>3. \A t \in T : f[t] \in Int /\ g[t] \in Int
    BY <1>3, <1>7
  <2>4. SumFunctionOnSet(g, T) = SumFunctionOnSet(f, T) + g[y] - f[y]
    BY <1>1, <2>1, <2>2, <2>3, SumChange
  <2>5. SumFunctionOnSet(g, T) = SumFunctionOnSet(f, T) + 1
    BY <1>6, <2>1, <2>4
  <2> QED BY <1>5, <1>8, <2>5
<1>9. CASE ~ (client[h] = c /\ s <= second)
  <2>1. \A t \in T : f[t] \in Int /\ f[t] = g[t]
    BY <1>3, <1>4, <1>7, <1>9
  <2>2. SumFunctionOnSet(f, T) = SumFunctionOnSet(g, T)
    BY <1>1, <2>1, SumSame
  <2> QED BY <1>5, <1>9, <2>2
<1> QED BY <1>8, <1>9

(* A step that adds no entry and lets no request through.                             *)
LEMMA NoneEnters ==
    ASSUME LimiterTypeOK, LimiterTypeOK', CountInv, NEW c \in Clients, RefusalOK(c),
           through' = through, window'[c] \subseteq window[c],
           \A h \in Handlers : pc'[h] = "count" /\ client'[h] = c =>
               \/ pc[h] = "count" /\ client[h] = c /\ now'[h] = now[h]
               \/ window'[c] \subseteq Late(c, now'[h])
    PROVE  RefusalOK(c)'
<1>1. IsFiniteSet(window[c]) /\ IsFiniteSet(window'[c])
  BY FS_Subset DEF CountInv, MembersOK
<1>2. \A s \in Seconds : Total(through[c], s) \in Int
  BY TotalType
<1>3. ASSUME NEW s \in Seconds
      PROVE  Cardinality(Late(c, s)') <= Total(through'[c], s)
  <2>1. Late(c, s)' \subseteq Late(c, s) /\ IsFiniteSet(Late(c, s))
    BY <1>1, FS_Subset DEF Late
  <2>2. /\ Cardinality(Late(c, s)') <= Cardinality(Late(c, s))
        /\ Cardinality(Late(c, s)') \in Nat /\ Cardinality(Late(c, s)) \in Nat
    BY <2>1, FS_Subset, FS_CardinalityType
  <2>3. Cardinality(Late(c, s)) <= Total(through[c], s)
    BY DEF RefusalOK
  <2> QED BY <1>2, <2>2, <2>3
<1>4. ASSUME NEW h \in Handlers, pc'[h] = "count", client'[h] = c
      PROVE  Cardinality(window'[c]) <= Total(through'[c], now'[h])
  <2>1. now'[h] \in Seconds
    BY DEF LimiterTypeOK
  <2>2. Cardinality(window'[c]) \in Nat /\ Total(through[c], now'[h]) \in Int
    BY <1>1, <1>2, <2>1, FS_CardinalityType
  <2>3. CASE pc[h] = "count" /\ client[h] = c /\ now'[h] = now[h]
    <3>1. Cardinality(window[c]) <= Total(through[c], now'[h]) /\ Cardinality(window[c]) \in Nat
          /\ Cardinality(window'[c]) <= Cardinality(window[c])
      BY <1>1, <2>3, FS_Subset, FS_CardinalityType DEF RefusalOK
    <3> QED BY <2>2, <3>1
  <2>4. CASE window'[c] \subseteq Late(c, now'[h])
    <3>1. IsFiniteSet(Late(c, now'[h]))
      BY <1>1, FS_Subset DEF Late
    <3>2. /\ Cardinality(window'[c]) <= Cardinality(Late(c, now'[h]))
          /\ Cardinality(Late(c, now'[h])) \in Nat
      BY <2>4, <3>1, FS_Subset, FS_CardinalityType
    <3>3. Cardinality(Late(c, now'[h])) <= Total(through[c], now'[h])
      BY <2>1 DEF RefusalOK
    <3> QED BY <2>2, <3>2, <3>3
  <2> QED BY <1>4, <2>3, <2>4
<1> QED BY <1>3, <1>4 DEF RefusalOK

(* A request is let through, and may have entered the window.                          *)
LEMMA OneEnters ==
    ASSUME LimiterTypeOK, LimiterTypeOK', CountInv, NEW h \in Handlers, pc[h] # "idle",
           LetThrough(h), UNCHANGED window \/ Enter(h), second' = second,
           NEW c \in Clients, RefusalOK(c)
    PROVE  RefusalOK(c)'
<1> DEFINE e == <<now[h], passed[client[h]][now[h]]>>
<1>1. /\ client[h] \in Clients /\ now[h] \in Seconds
      /\ now[h] \in Int /\ second \in Int /\ e[1] = now[h]
  BY DEF LimiterTypeOK, Seconds
<1>2. now[h] <= second
  <2>1. h \in Under(client[h], now[h])
    BY DEF Under
  <2> QED BY <1>1, <2>1 DEF CountInv, CountOK, AheadOK
<1>3. window'[c] \in {window[c], window[c] \cup {e}} /\ (client[h] # c => window'[c] = window[c])
  <2>1. CASE Enter(h)
    <3>1. window' = [window EXCEPT ![client[h]] = window[client[h]] \cup {e}]
      BY <2>1 DEF Enter
    <3> HIDE DEF e
    <3> QED BY <1>1, <3>1 DEF LimiterTypeOK
  <2> QED BY <2>1
<1> HIDE DEF e
<1>4. IsFiniteSet(window[c]) /\ IsFiniteSet(window'[c])
  <2>1. IsFiniteSet(window[c])
    BY DEF CountInv, MembersOK
  <2>2. IsFiniteSet(window[c] \cup {e})
    BY <2>1, FS_AddElement
  <2> QED BY <1>3, <2>1, <2>2
<1>5. \A S, T : IsFiniteSet(S) /\ T \in {S, S \cup {e}} =>
         /\ Cardinality(S) \in Nat /\ Cardinality(T) \in Nat
         /\ Cardinality(T) <= Cardinality(S) + 1
  <2> SUFFICES ASSUME NEW S, NEW T, IsFiniteSet(S), T \in {S, S \cup {e}}
               PROVE  /\ Cardinality(S) \in Nat /\ Cardinality(T) \in Nat
                      /\ Cardinality(T) <= Cardinality(S) + 1
    OBVIOUS
  <2>1. Cardinality(S) \in Nat
    BY FS_CardinalityType
  <2>2. Cardinality(S \cup {e}) = IF e \in S THEN Cardinality(S) ELSE Cardinality(S) + 1
    BY FS_AddElement
  <2> DEFINE m == Cardinality(S)   n == Cardinality(T)
  <2>3. n = m \/ n = m + 1
    BY <2>2
  <2>4. m \in Nat
    BY <2>1
  <2> HIDE DEF m, n
  <2>5. n \in Nat /\ n <= m + 1
    BY <2>3, <2>4
  <2> QED BY <2>4, <2>5 DEF m, n
<1>6. ASSUME NEW s \in Seconds
      PROVE  Cardinality(Late(c, s)') <= Total(through'[c], s)
  <2>1. IsFiniteSet(Late(c, s)) /\ s \in Int
    BY <1>4, FS_Subset DEF Late, Seconds
  <2>2. Cardinality(Late(c, s)) <= Total(through[c], s) /\ Total(through[c], s) \in Int
    BY TotalType DEF RefusalOK
  <2>3. /\ client[h] = c /\ s <= second => Total(through'[c], s) = Total(through[c], s) + 1
        /\ ~ (client[h] = c /\ s <= second) => Total(through'[c], s) = Total(through[c], s)
    BY TotalLetThrough
  <2>4. CASE client[h] = c /\ s <= now[h]
    <3>1. Late(c, s)' \in {Late(c, s), Late(c, s) \cup {e}}
      BY <1>1, <1>3, <2>4 DEF Late
    <3>2. s <= second
      BY <1>1, <1>2, <2>1, <2>4
    <3>3. /\ Cardinality(Late(c, s)) \in Nat /\ Cardinality(Late(c, s)') \in Nat
          /\ Cardinality(Late(c, s)') <= Cardinality(Late(c, s)) + 1
      BY <1>5, <2>1, <3>1
    <3> QED BY <2>2, <2>3, <2>4, <3>2, <3>3
  <2>5. CASE ~ (client[h] = c /\ s <= now[h])
    <3>1. Late(c, s)' = Late(c, s)
      BY <1>1, <1>3, <2>5 DEF Late
    <3>2. Total(through'[c], s) \in Int /\ Total(through'[c], s) >= Total(through[c], s)
      BY <2>2, <2>3
    <3>3. Cardinality(Late(c, s)) \in Nat
      BY <2>1, FS_CardinalityType
    <3> QED BY <2>2, <3>1, <3>2, <3>3
  <2> QED BY <2>4, <2>5
<1>7. ASSUME NEW g \in Handlers, pc'[g] = "count", client'[g] = c
      PROVE  Cardinality(window'[c]) <= Total(through'[c], now'[g])
  <2>1. pc[g] = "count" /\ client[g] = c /\ now'[g] = now[g] /\ now[g] \in Seconds
    BY <1>7 DEF LetThrough, Return, LimiterTypeOK
  <2>2. now[g] <= second /\ now[g] \in Int
    <3>1. g \in Under(c, now[g])
      BY <2>1 DEF Under
    <3> QED BY <1>1, <2>1, <3>1 DEF CountInv, CountOK, AheadOK, Seconds
  <2>3. Cardinality(window[c]) <= Total(through[c], now[g]) /\ Total(through[c], now[g]) \in Int
    BY <2>1, TotalType DEF RefusalOK
  <2>4. \A s \in Seconds :
           /\ client[h] = c /\ s <= second => Total(through'[c], s) = Total(through[c], s) + 1
           /\ ~ (client[h] = c /\ s <= second) => Total(through'[c], s) = Total(through[c], s)
    BY TotalLetThrough
  <2> DEFINE x == Total(through'[c], now'[g])
  <2>6. /\ client[h] = c => x = Total(through[c], now[g]) + 1
        /\ client[h] # c => x = Total(through[c], now[g])
    BY <2>1, <2>2, <2>4
  <2>5. /\ Cardinality(window[c]) \in Nat /\ Cardinality(window'[c]) \in Nat
        /\ Cardinality(window'[c]) <= Cardinality(window[c]) + 1
        /\ client[h] # c => Cardinality(window'[c]) = Cardinality(window[c])
    BY <1>3, <1>4, <1>5
  <2>7. Cardinality(window'[c]) <= x
    <3> HIDE DEF x
    <3> QED BY <2>3, <2>5, <2>6
  <2> QED BY <2>7
<1> QED BY <1>6, <1>7 DEF RefusalOK

LEMMA RefusalStep ==
    LimiterTypeOK /\ LimiterTypeOK' /\ CountInv /\ RefusalInv /\ [LimiterNext]_limiterVars
        => RefusalInv'
<1> SUFFICES ASSUME LimiterTypeOK, LimiterTypeOK', CountInv, RefusalInv,
                    [LimiterNext]_limiterVars, NEW c \in Clients
             PROVE  RefusalOK(c)'
  BY DEF RefusalInv
<1>0. RefusalOK(c)
  BY DEF RefusalInv
<1>1. ASSUME UNCHANGED <<window, pc, client, now, through>> PROVE RefusalOK(c)'
  BY <1>0, <1>1, NoneEnters
<1>2. ASSUME NEW d \in Clients, Evict(d) PROVE RefusalOK(c)'
  <2>1. UNCHANGED <<pc, client, now, through>> /\ window'[c] \subseteq window[c]
    BY <1>2 DEF Evict, requestVars, countVars, LimiterTypeOK
  <2> QED BY <1>0, <2>1, NoneEnters
<1>3. ASSUME NEW dead \in SUBSET Handlers, GatewayDies(dead) PROVE RefusalOK(c)'
  <2>1. /\ UNCHANGED <<window, through>>
        /\ \A h \in Handlers : pc'[h] = "count" =>
              pc[h] = "count" /\ client'[h] = client[h] /\ now'[h] = now[h]
    BY <1>3 DEF GatewayDies, redisVars, countVars
  <2> QED BY <1>0, <2>1, NoneEnters
<1>4. ASSUME NEW h \in Handlers, NEW d \in Clients, Arrive(h, d) PROVE RefusalOK(c)'
  <2>1. /\ UNCHANGED <<window, through>>
        /\ \A g \in Handlers : pc'[g] = "count" =>
              pc[g] = "count" /\ client'[g] = client[g] /\ now'[g] = now[g]
    BY <1>4 DEF Arrive, redisVars, countVars, LimiterTypeOK
  <2> QED BY <1>0, <2>1, NoneEnters
<1>5. ASSUME NEW h \in Handlers, Prune(h) PROVE RefusalOK(c)'
  <2>1. UNCHANGED <<client, now, through>> /\ pc' = [pc EXCEPT ![h] = "count"]
    BY <1>5 DEF Prune, countVars
  <2>2. /\ client[h] # c => window'[c] = window[c]
        /\ client[h] = c => window'[c] = {e \in window[c] : e[1] > now[h] - 1}
    BY <1>5 DEF Prune, RemoveUpTo, LimiterTypeOK
  <2>3. client[h] = c => window'[c] \subseteq Late(c, now[h])
    <3>1. now[h] \in Int /\ \A e \in window[c] : e[1] \in Int
      BY DEF LimiterTypeOK, Seconds
    <3> QED BY <2>2, <3>1 DEF Late
  <2>4. window'[c] \subseteq window[c]
    BY <2>2
  <2>5. ASSUME NEW g \in Handlers, pc'[g] = "count", client'[g] = c
        PROVE  \/ pc[g] = "count" /\ client[g] = c /\ now'[g] = now[g]
               \/ window'[c] \subseteq Late(c, now'[g])
    BY <2>1, <2>3, <2>5 DEF LimiterTypeOK
  <2> QED BY <1>0, <2>1, <2>4, <2>5, NoneEnters
<1>6. ASSUME NEW h \in Handlers, Accept(h) PROVE RefusalOK(c)'
  <2>1. /\ UNCHANGED <<window, client, now, through>>
        /\ \A g \in Handlers : pc'[g] = "count" => pc[g] = "count"
    BY <1>6 DEF Accept, redisVars, countVars, LimiterTypeOK
  <2> QED BY <1>0, <2>1, NoneEnters
<1>7. ASSUME NEW h \in Handlers, RefuseRequest(h) PROVE RefusalOK(c)'
  <2>1. /\ UNCHANGED <<window, through>>
        /\ \A g \in Handlers : pc'[g] = "count" =>
              pc[g] = "count" /\ client'[g] = client[g] /\ now'[g] = now[g]
    BY <1>7 DEF RefuseRequest, Return, redisVars, countVars, LimiterTypeOK
  <2> QED BY <1>0, <2>1, NoneEnters
<1>8. ASSUME NEW h \in Handlers, Add(h) PROVE RefusalOK(c)'
  <2>1. pc[h] # "idle" /\ LetThrough(h) /\ Enter(h) /\ second' = second
    BY <1>8 DEF Add, clockVars
  <2> QED BY <1>0, <2>1, OneEnters
<1>9. ASSUME NEW h \in Handlers, RedisFails(h) PROVE RefusalOK(c)'
  <2>1. pc[h] # "idle" /\ LetThrough(h) /\ (UNCHANGED window \/ Enter(h)) /\ second' = second
    BY <1>9 DEF RedisFails, clockVars
  <2> QED BY <1>0, <2>1, OneEnters
<1>10. CASE Elapse
  BY <1>1, <1>10 DEF Elapse, redisVars, requestVars, countVars
<1>11. CASE UNCHANGED limiterVars
  BY <1>1, <1>11 DEF limiterVars, clockVars, redisVars, requestVars, countVars
<1> QED
  BY <1>2, <1>3, <1>4, <1>5, <1>6, <1>7, <1>8, <1>9, <1>10, <1>11 DEF LimiterNext

LEMMA RefusalInit == LimiterInit => RefusalInv
<1> SUFFICES ASSUME LimiterInit, NEW c \in Clients
             PROVE  RefusalOK(c)
  BY DEF RefusalInv
<1>1. ASSUME NEW s \in Seconds
      PROVE  Cardinality(Late(c, s)) = 0 /\ Total(through[c], s) = 0
  <2> DEFINE T == {t \in Seconds \X Ticks : t[1] >= s}
             f == through[c]
  <2>1. Cardinality(Late(c, s)) = 0
    <3>1. Late(c, s) = {}
      BY DEF LimiterInit, Late
    <3> QED BY <3>1, FS_EmptySet
  <2>2. IsFiniteSet(T)
    BY TimesFinite
  <2>3. \A t \in T : f[t] = 0
    BY DEF LimiterInit
  <2>4. Total(through[c], s) = SumFunctionOnSet(f, T)
    BY DEF Total
  <2> HIDE DEF T, f
  <2>5. SumFunctionOnSet(f, T) = SumFunctionOnSet(f, {})
    BY <2>2, <2>3, SumOfSupport
  <2>6. SumFunctionOnSet(f, {}) = 0
    BY SumOfNone
  <2> QED BY <2>1, <2>4, <2>5, <2>6
<1>2. \A h \in Handlers : pc[h] # "count"
  BY DEF LimiterInit
<1> QED BY <1>1, <1>2 DEF RefusalOK

(* Whoever is refused shares the window with Burst requests that were let through since   *)
(* the second it came in, however late any of them was.                             *)
THEOREM RefusalsAreJust == LimiterSpec => RefusedJustly
<1> DEFINE A == \A h \in Handlers : RefuseRequest(h) => Since(client[h], now[h]) >= Burst
<1>1. LimiterTypeOK /\ CountInv /\ RefusalInv /\ [LimiterNext]_limiterVars => [A]_limiterVars
  <2> SUFFICES ASSUME LimiterTypeOK, CountInv, RefusalInv, NEW h \in Handlers, RefuseRequest(h)
               PROVE  Since(client[h], now[h]) >= Burst
    OBVIOUS
  <2>1. /\ pc[h] = "count" /\ Cardinality(window[client[h]]) >= Burst
        /\ client[h] \in Clients /\ now[h] \in Seconds
    BY DEF RefuseRequest, Full, LimiterTypeOK
  <2> DEFINE x == Total(through[client[h]], now[h])
             n == Cardinality(window[client[h]])
  <2>2. n <= x
    BY <2>1 DEF RefusalInv, RefusalOK
  <2>3. n \in Nat /\ x \in Int /\ Since(client[h], now[h]) = x
    BY <2>1, TotalType, FS_CardinalityType DEF CountInv, MembersOK, Since, Total
  <2> HIDE DEF n, x
  <2>4. n >= Burst
    BY <2>1 DEF n
  <2> QED BY <2>2, <2>3, <2>4
<1>2. LimiterSpec => []CountInv
  BY LimiterTypeCorrect, CountInit, CountStep, PTL DEF LimiterSpec
<1>3. LimiterSpec => []RefusalInv
  BY <1>2, LimiterTypeCorrect, RefusalInit, RefusalStep, PTL DEF LimiterSpec
<1>4. RefusedJustly <=> [][A]_limiterVars
  BY DEF RefusedJustly
<1> HIDE DEF A
<1> QED BY <1>1, <1>2, <1>3, <1>4, LimiterTypeCorrect, PTL DEF LimiterSpec
=============================================================================
