---------------------------- MODULE UsersProofs ----------------------------
(***************************************************************************)
(* The accounts for any number of clients, names, starts and creations.    *)
(*                                                                         *)
(* The argument: an identifier is given once (Sequence), and whoever holds *)
(* a copy of an account, in a token or in a login under way, holds what is *)
(* still true of it or has been deleted with it (Known).  A request that   *)
(* is about to remove an account has found that it is not built in, and    *)
(* that cannot change (Removable).  The built-in accounts themselves are   *)
(* changed by a start only, role by role (Prepared).                       *)
(***************************************************************************)
EXTENDS Users, FiniteSetTheorems, TLAPS

\* A request under way.
Requests ==
  {Idle}
    \cup [op : {"login"}, username : Names]
    \cup [op : {"create", "save"}, username : Names, role : Roles]
    \cup [op : {"delete", "remove"}, id : Nat]
    \cup [op : {"issue"}, user : User]

Typed ==
  /\ phase \in {"off", "admin", "user", "refused", "up"}
  /\ env \in [Roles -> Names]
  /\ payload \in [Clients -> User \cup {none}]
  /\ valid \in [Clients -> SUBSET {"access", "refresh"}]
  /\ \A c \in Clients : valid[c] = {} <=> payload[c] = none
  /\ startsLeft \in 0..MaxStarts /\ createsLeft \in 0..MaxCreates
  /\ request \in [Clients -> Requests]

Sequence ==
  /\ users \subseteq User /\ nextId \in Nat
  /\ \A u \in users : u.id < nextId
  /\ \A i \in deleted : i \in Nat /\ i < nextId /\ \A u \in users : u.id # i

Unique == \A u, v \in users : u.id = v.id \/ u.username = v.username => u = v

\* What is still true of the account that a copy was made of.
Says(copy, u) ==
  /\ u.id = copy.id /\ u.role = copy.role /\ u.builtIn = copy.builtIn
  /\ u.username = copy.username \/ u.builtIn
Known(copy) == copy.id \in deleted \/ \E u \in users : Says(copy, u)

Copies ==
  /\ \A c \in Clients : payload[c] # none => Known(payload[c])
  /\ \A c \in Clients : request[c].op = "issue" => Known(request[c].user)

Removable ==
  \A c \in Clients : request[c].op = "remove" =>
    /\ request[c].id < nextId
    /\ \A u \in users : u.id = request[c].id => ~u.builtIn

\* The roles whose account this start has seen to.
Done(r) == phase = "up" \/ (phase = "user" /\ r = "admin")
Prepared ==
  /\ \A r \in Roles : \A u, v \in BuiltIn(r) : u = v
  /\ \A r \in Roles : Done(r) => \E u \in BuiltIn(r) : u.username = env[r]

IInv == Typed /\ Sequence /\ Unique /\ Copies /\ Removable /\ Prepared
----------------------------------------------------------------------------
(* Operators *)

LEMMA RequestKinds ==
  ASSUME NEW r \in Requests
  PROVE  /\ r.op \in {"idle", "login", "create", "save", "delete", "remove", "issue"}
         /\ r.op = "login" => r.username \in Names
         /\ r.op = "create" => [r EXCEPT !.op = "save"] \in Requests
         /\ r.op = "create" => [r EXCEPT !.op = "save"].op = "save"
         /\ r.op \in {"create", "save"} => r.username \in Names /\ r.role \in Roles
         /\ r.op = "delete" => [r EXCEPT !.op = "remove"] \in Requests
         /\ r.op = "delete" => /\ [r EXCEPT !.op = "remove"].op = "remove"
                               /\ [r EXCEPT !.op = "remove"].id = r.id
         /\ r.op \in {"delete", "remove"} => r.id \in Nat
         /\ r.op = "issue" => r.user \in User
BY DEF Requests, Idle

LEMMA IdleRequest == Idle \in Requests /\ Idle.op = "idle"
BY DEF Requests, Idle

\* A set without two different elements has at most one.
LEMMA AtMostOne ==
  ASSUME NEW S, \A u, v \in S : u = v
  PROVE  Cardinality(S) <= 1
<1>1. CASE S = {}
  BY <1>1, FS_EmptySet
<1>2. CASE S # {}
  <2>1. PICK u \in S : TRUE
    BY <1>2
  <2>2. S = {u}
    BY <2>1
  <2>3. Cardinality(S) = 1
    BY <2>2, FS_Singleton
  <2> QED BY <2>3
<1> QED BY <1>1, <1>2

\* What a step that changes only requests and tokens must show.
Table == <<users, nextId, deleted>>
Start == <<phase, env>>

LEMMA SameTable ==
  ASSUME IInv, UNCHANGED Table, UNCHANGED Start, Typed',
         \A c \in Clients : payload'[c] # none => Known(payload'[c]),
         \A c \in Clients : request'[c].op = "issue" => Known(request'[c].user),
         \A c \in Clients : request'[c].op = "remove" =>
           /\ request'[c].id < nextId
           /\ \A u \in users : u.id = request'[c].id => ~u.builtIn
  PROVE  IInv'
<1>1. Sequence' /\ Unique' /\ Prepared'
  BY DEF IInv, Sequence, Unique, Prepared, Done, BuiltIn, Table, Start
<1>2. Copies' /\ Removable'
  BY DEF Copies, Removable, Known, Table
<1> QED BY <1>1, <1>2 DEF IInv

----------------------------------------------------------------------------
LEMMA InvInit == Init => IInv
<1> SUFFICES ASSUME Init PROVE IInv
  OBVIOUS
<1>1. env \in [Roles -> Names]
  BY UsersAssumptions DEF Init
<1>2. Typed
  BY <1>1, IdleRequest, UsersAssumptions DEF Init, Typed
<1>3. Sequence /\ Unique /\ Copies /\ Removable /\ Prepared
  BY IdleRequest DEF Init, Sequence, Unique, Copies, Removable, Prepared, Done, BuiltIn
<1> QED BY <1>2, <1>3 DEF IInv

----------------------------------------------------------------------------
(* The start *)

LEMMA EnsureStep == ASSUME IInv, ensureBuiltins PROVE IInv'
<1>1. /\ phase' = "admin" /\ env' \in [Roles -> Names]
      /\ startsLeft' \in 0..MaxStarts
      /\ UNCHANGED <<users, nextId, payload, valid, request, deleted, createsLeft>>
  BY UsersAssumptions DEF ensureBuiltins, IInv, Typed
<1>2. Typed'
  BY <1>1 DEF IInv, Typed
<1>3. Sequence' /\ Unique' /\ Copies' /\ Removable'
  BY <1>1 DEF IInv, Sequence, Unique, Copies, Known, Removable
<1>4. Prepared'
  BY <1>1 DEF IInv, Prepared, Done, BuiltIn
<1> QED BY <1>2, <1>3, <1>4 DEF IInv

LEMMA CrashStep == ASSUME IInv, Crash PROVE IInv'
<1>1. /\ phase' = "off" /\ request' = [c \in Clients |-> Idle]
      /\ UNCHANGED <<env, users, nextId, payload, valid, deleted, startsLeft, createsLeft>>
  BY DEF Crash
<1>2. Typed'
  BY <1>1, IdleRequest DEF IInv, Typed
<1>3. Sequence' /\ Unique' /\ Copies' /\ Removable'
  BY <1>1, IdleRequest DEF IInv, Sequence, Unique, Copies, Known, Removable
<1>4. Prepared'
  BY <1>1 DEF IInv, Prepared, Done, BuiltIn
<1> QED BY <1>2, <1>3, <1>4 DEF IInv

\* The role's account is the one that a start creates, or the one that was there
\* under its new name: all copies of it remain true.
LEMMA UpsertStep == ASSUME IInv, NEW r \in Roles, upsertBuiltInUser(r) PROVE IInv'
<1> USE DEF Roles
<1>1. /\ phase = r /\ phase' \in {"user", "up", "refused"}
      /\ UNCHANGED <<env, payload, valid, request, deleted, startsLeft, createsLeft>>
  BY DEF upsertBuiltInUser
<1>2. Typed'
  BY <1>1 DEF IInv, Typed
<1>3. env[r] \in Names
  BY DEF IInv, Typed
<1>4. CASE Named(env[r]) \subseteq BuiltIn(r) /\ BuiltIn(r) = {}
  <2> DEFINE u0 == [id |-> nextId, username |-> env[r], role |-> r, builtIn |-> TRUE]
  <2>1. /\ users' = users \cup {u0} /\ nextId' = nextId + 1
        /\ phase' = IF r = "admin" THEN "user" ELSE "up"
    BY <1>4 DEF upsertBuiltInUser
  <2>2. u0 \in User /\ nextId \in Nat
    BY <1>3 DEF User, IInv, Sequence
  <2>3. \A u \in users : u.id # u0.id /\ u.username # u0.username
    BY <1>4, <2>2 DEF IInv, Sequence, Named, User
  <2> HIDE DEF u0
  <2>4. /\ u0.id = nextId /\ u0.username = env[r] /\ u0.role = r /\ u0.builtIn
    BY DEF u0
  <2>5. Sequence'
    BY <1>1, <2>1, <2>2, <2>4 DEF IInv, Sequence, User
  <2>6. Unique'
    BY <2>1, <2>3 DEF IInv, Unique
  <2>7. Copies'
    BY <1>1, <2>1 DEF IInv, Copies, Known
  <2>8. Removable'
    <3> SUFFICES ASSUME NEW c \in Clients, request[c].op = "remove"
                 PROVE  /\ request[c].id < nextId'
                        /\ \A u \in users' : u.id = request[c].id => ~u.builtIn
      BY <1>1 DEF Removable
    <3>1. request[c].id \in Nat /\ request[c].id < nextId
      BY RequestKinds DEF IInv, Typed, Removable
    <3>2. request[c].id < nextId' /\ request[c].id # u0.id
      BY <3>1, <2>1, <2>2, <2>4
    <3> QED BY <3>2, <2>1 DEF IInv, Removable
  <2>9. Prepared'
    <3>1. BuiltIn(r)' = {u0} /\ \A q \in Roles \ {r} : BuiltIn(q)' = BuiltIn(q)
      BY <1>4, <2>1, <2>4 DEF BuiltIn
    <3>2. \A q \in Roles : \A u, v \in BuiltIn(q)' : u = v
      BY <3>1 DEF IInv, Prepared
    <3>3. \A q \in Roles \ {r} : Done(q)' => Done(q)
      BY <1>1, <2>1 DEF Done
    <3> QED BY <1>1, <2>4, <3>1, <3>2, <3>3 DEF IInv, Prepared
  <2> QED BY <1>2, <2>5, <2>6, <2>7, <2>8, <2>9 DEF IInv
<1>5. ASSUME NEW old \in BuiltIn(r), Named(env[r]) \subseteq BuiltIn(r),
             users' = (users \ {old}) \cup {[old EXCEPT !.username = env[r]]},
             nextId' = nextId, phase' = IF r = "admin" THEN "user" ELSE "up"
      PROVE  IInv'
  <2> DEFINE u0 == [old EXCEPT !.username = env[r]]
  <2>1. old \in users /\ old \in User /\ old.role = r /\ old.builtIn
    BY DEF BuiltIn, IInv, Sequence
  <2>2. u0 \in User /\ u0.id = old.id /\ u0.username = env[r] /\ u0.role = r /\ u0.builtIn
    BY <1>3, <2>1 DEF User
  <2> HIDE DEF u0
  <2>3. users' = (users \ {old}) \cup {u0}
    BY <1>5 DEF u0
  <2>4. Sequence'
    BY <1>1, <1>5, <2>1, <2>2, <2>3 DEF IInv, Sequence, User
  <2>5. \A u \in users \ {old} : u.id # u0.id /\ u.username # u0.username
    <3>1. \A u \in users : u.username = env[r] => u = old
      BY <1>5 DEF Named, BuiltIn, IInv, Prepared
    <3> QED BY <2>1, <2>2, <3>1 DEF IInv, Unique
  <2>6. Unique'
    BY <2>3, <2>5 DEF IInv, Unique
  <2>7. \A copy : Known(copy) => Known(copy)'
    <3> SUFFICES ASSUME NEW copy, Known(copy) PROVE Known(copy)'
      OBVIOUS
    <3>1. CASE copy.id \in deleted
      BY <1>1, <3>1 DEF Known
    <3>2. CASE \E u \in users \ {old} : Says(copy, u)
      BY <3>2, <2>3 DEF Known
    <3>3. CASE Says(copy, old)
      <4>1. Says(copy, u0)
        BY <3>3, <2>1, <2>2 DEF Says
      <4> QED BY <4>1, <2>3 DEF Known
    <3> QED BY <3>1, <3>2, <3>3 DEF Known
  <2>8. Copies'
    BY <1>1, <2>7 DEF IInv, Copies
  <2>9. Removable'
    BY <1>1, <1>5, <2>1, <2>2, <2>3 DEF IInv, Removable
  <2>10. Prepared'
    <3>1. BuiltIn(r)' = {u0}
      BY <2>1, <2>2, <2>3 DEF BuiltIn, IInv, Prepared
    <3>2. \A q \in Roles \ {r} : BuiltIn(q)' = BuiltIn(q)
      BY <2>1, <2>2, <2>3 DEF BuiltIn
    <3>3. \A q \in Roles \ {r} : Done(q)' => Done(q)
      BY <1>1, <1>5 DEF Done
    <3>4. \A q \in Roles : \A u, v \in BuiltIn(q)' : u = v
      BY <3>1, <3>2 DEF IInv, Prepared
    <3> QED BY <1>1, <2>2, <3>1, <3>2, <3>3, <3>4 DEF IInv, Prepared
  <2> QED BY <1>2, <2>4, <2>6, <2>8, <2>9, <2>10 DEF IInv
<1>6. CASE phase' = "refused" /\ UNCHANGED <<users, nextId>>
  <2>1. Sequence' /\ Unique' /\ Copies' /\ Removable'
    BY <1>1, <1>6 DEF IInv, Sequence, Unique, Copies, Known, Removable
  <2>2. Prepared'
    BY <1>1, <1>6 DEF IInv, Prepared, Done, BuiltIn
  <2> QED BY <1>2, <2>1, <2>2 DEF IInv
<1> QED BY <1>4, <1>5, <1>6 DEF upsertBuiltInUser

----------------------------------------------------------------------------
(* Requests *)

\* A request that is asked, answered or goes on, tokens staying as they are.
LEMMA OnlyRequest ==
  ASSUME IInv, NEW c \in Clients, NEW r \in Requests,
         request' = [request EXCEPT ![c] = r],
         UNCHANGED Table, UNCHANGED Start, UNCHANGED <<payload, valid, startsLeft>>,
         createsLeft' \in 0..MaxCreates,
         r.op = "issue" => Known(r.user),
         r.op = "remove" => /\ r.id < nextId
                            /\ \A u \in users : u.id = r.id => ~u.builtIn
  PROVE  IInv'
<1>1. \A d \in Clients : request'[d] = IF d = c THEN r ELSE request[d]
  BY DEF IInv, Typed
<1>2. Typed'
  BY DEF IInv, Typed, Start
<1>3. \A d \in Clients : payload'[d] # none => Known(payload'[d])
  BY DEF IInv, Copies
<1>4. \A d \in Clients : request'[d].op = "issue" => Known(request'[d].user)
  BY <1>1 DEF IInv, Copies
<1>5. \A d \in Clients : request'[d].op = "remove" =>
        /\ request'[d].id < nextId
        /\ \A u \in users : u.id = request'[d].id => ~u.builtIn
  BY <1>1 DEF IInv, Removable
<1> QED BY <1>2, <1>3, <1>4, <1>5, SameTable

LEMMA AskStep ==
  ASSUME IInv, NEW c \in Clients, login(c) \/ create(c) \/ deleteSelf(c)
  PROVE  IInv'
<1>1. \A r \in Requests : Ask(c, r) => request' = [request EXCEPT ![c] = r]
  BY DEF Ask
<1>2. CASE login(c)
  <2>1. PICK n \in Names : Ask(c, [op |-> "login", username |-> n])
    BY <1>2 DEF login
  <2>2. [op |-> "login", username |-> n] \in Requests
    BY DEF Requests
  <2>3. createsLeft' \in 0..MaxCreates
    BY <1>2 DEF login, IInv, Typed
  <2> QED BY <1>1, <1>2, <2>1, <2>2, <2>3, OnlyRequest DEF login, Table, Start
<1>3. CASE create(c)
  <2>1. PICK dto \in CreateUserDto :
          Ask(c, [op |-> "create", username |-> dto.username, role |-> dto.role])
    BY <1>3 DEF create
  <2>2. [op |-> "create", username |-> dto.username, role |-> dto.role] \in Requests
    BY DEF Requests, CreateUserDto
  <2>3. createsLeft' \in 0..MaxCreates
    BY <1>3, UsersAssumptions DEF create, IInv, Typed
  <2> QED BY <1>1, <1>3, <2>1, <2>2, <2>3, OnlyRequest DEF create, Table, Start
<1>4. CASE deleteSelf(c)
  <2>1. payload[c] \in User
    BY <1>4 DEF deleteSelf, validate, IInv, Typed
  <2>2. [op |-> "delete", id |-> payload[c].id] \in Requests
    BY <2>1 DEF Requests, User
  <2>3. createsLeft' \in 0..MaxCreates
    BY <1>4 DEF deleteSelf, IInv, Typed
  <2> QED BY <1>1, <1>4, <2>2, <2>3, OnlyRequest DEF deleteSelf, Table, Start
<1> QED BY <1>2, <1>3, <1>4

\* An answer ends the request and changes no more of it.
LEMMA AnswerStep ==
  ASSUME IInv, NEW c \in Clients, Answer(c), UNCHANGED Table, UNCHANGED Start,
         UNCHANGED <<payload, valid, startsLeft, createsLeft>>
  PROVE  IInv'
<1>1. createsLeft' \in 0..MaxCreates
  BY DEF IInv, Typed
<1> QED BY <1>1, IdleRequest, OnlyRequest DEF Answer

LEMMA ValidateStep == ASSUME IInv, NEW c \in Clients, validateUser(c) PROVE IInv'
<1>1. CASE Answer(c)
  BY <1>1, AnswerStep DEF validateUser, Table, Start
<1>2. ASSUME NEW u \in users, request' = [request EXCEPT ![c] = [op |-> "issue", user |-> u]]
      PROVE  IInv'
  <2> DEFINE r == [op |-> "issue", user |-> u]
  <2>1. r \in Requests /\ r.op = "issue" /\ r.user = u
    BY DEF Requests, IInv, Sequence
  <2>2. Known(u)
    BY DEF Known, Says
  <2>3. createsLeft' \in 0..MaxCreates
    BY DEF validateUser, IInv, Typed
  <2> HIDE DEF r
  <2>4. request' = [request EXCEPT ![c] = r]
    BY <1>2 DEF r
  <2> QED BY <2>1, <2>2, <2>3, <2>4, OnlyRequest DEF validateUser, Table, Start
<1> QED BY <1>1, <1>2 DEF validateUser, Named

LEMMA IssueStep == ASSUME IInv, NEW c \in Clients, issueTokens(c) PROVE IInv'
<1>1. request[c].user \in User /\ Known(request[c].user) /\ request[c].user # none
  <2>1. request[c] \in Requests /\ request[c].op = "issue"
    BY DEF issueTokens, IInv, Typed
  <2>2. request[c].user \in User
    BY <2>1, RequestKinds
  <2>3. Known(request[c].user)
    BY <2>1 DEF IInv, Copies
  <2> QED BY <2>2, <2>3, UsersAssumptions
<1>2. \A d \in Clients : /\ payload'[d] = IF d = c THEN request[c].user ELSE payload[d]
                         /\ valid'[d] = IF d = c THEN {"access", "refresh"} ELSE valid[d]
                         /\ request'[d] = IF d = c THEN Idle ELSE request[d]
  BY DEF issueTokens, Answer, IInv, Typed
<1>3. Typed'
  BY <1>1, <1>2, IdleRequest DEF issueTokens, Answer, IInv, Typed
<1>4. \A d \in Clients : payload'[d] # none => Known(payload'[d])
  BY <1>1, <1>2 DEF IInv, Copies
<1>5. \A d \in Clients : request'[d].op = "issue" => Known(request'[d].user)
  BY <1>2, IdleRequest DEF IInv, Copies
<1>6. \A d \in Clients : request'[d].op = "remove" =>
        /\ request'[d].id < nextId
        /\ \A u \in users : u.id = request'[d].id => ~u.builtIn
  BY <1>2, IdleRequest DEF IInv, Removable
<1> QED BY <1>3, <1>4, <1>5, <1>6, SameTable DEF issueTokens, Table, Start

LEMMA TokenStep == ASSUME IInv, NEW c \in Clients, refresh(c) \/ Expire(c) PROVE IInv'
<1>1. \A d \in Clients : payload'[d] \in {payload[d], none}
  BY DEF refresh, Expire, IInv, Typed
<1>2. Typed'
  <2>1. CASE refresh(c)
    BY <2>1 DEF refresh, IInv, Typed
  <2>2. CASE Expire(c)
    BY <2>2 DEF Expire, IInv, Typed
  <2> QED BY <2>1, <2>2
<1>3. UNCHANGED request /\ UNCHANGED Table /\ UNCHANGED Start
  BY DEF refresh, Expire, Table, Start
<1> QED BY <1>1, <1>2, <1>3, SameTable DEF IInv, Copies, Removable

LEMMA FindStep ==
  ASSUME IInv, NEW c \in Clients, FindNoUser(c) \/ FindSelf(c)
  PROVE  IInv'
<1>1. CASE Answer(c)
  BY <1>1, AnswerStep DEF FindNoUser, FindSelf, Table, Start
<1>2. request[c] \in Requests /\ createsLeft' \in 0..MaxCreates
  BY DEF FindNoUser, FindSelf, IInv, Typed
<1>3. CASE FindNoUser(c) /\ ~Answer(c)
  <2> DEFINE r == [request[c] EXCEPT !.op = "save"]
  <2>1. r \in Requests /\ r.op = "save"
    BY <1>2, <1>3, RequestKinds DEF FindNoUser
  <2>2. request' = [request EXCEPT ![c] = r]
    BY <1>3 DEF FindNoUser
  <2> HIDE DEF r
  <2> QED BY <1>2, <1>3, <2>1, <2>2, OnlyRequest DEF FindNoUser, Table, Start
<1>4. CASE FindSelf(c) /\ ~Answer(c)
  <2> DEFINE r == [request[c] EXCEPT !.op = "remove"]
  <2>1. r \in Requests /\ r.op = "remove" /\ r.id = request[c].id
    BY <1>2, <1>4, RequestKinds DEF FindSelf
  <2>2. request' = [request EXCEPT ![c] = r]
    BY <1>4 DEF FindSelf
  <2>3. PICK u \in users : u.id = request[c].id /\ ~u.builtIn
    BY <1>4 DEF FindSelf
  <2> HIDE DEF r
  <2>4. r.id < nextId /\ \A v \in users : v.id = r.id => ~v.builtIn
    BY <2>1, <2>3 DEF IInv, Sequence, Unique
  <2> QED BY <1>2, <1>4, <2>1, <2>2, <2>4, OnlyRequest DEF FindSelf, Table, Start
<1> QED BY <1>1, <1>3, <1>4

\* The insert: the name is free, and the identifier was never given.
LEMMA SaveStep == ASSUME IInv, NEW c \in Clients, Save(c) PROVE IInv'
<1> DEFINE u0 == [id |-> nextId, username |-> request[c].username,
                  role |-> request[c].role, builtIn |-> FALSE]
<1>1. /\ request' = [request EXCEPT ![c] = Idle] /\ nextId' = nextId + 1
      /\ UNCHANGED <<phase, env, payload, valid, deleted, startsLeft, createsLeft>>
  BY DEF Save, Answer
<1>2. u0 \in User /\ nextId \in Nat
  BY RequestKinds DEF Save, User, IInv, Typed, Sequence
<1>3. u0.id = nextId /\ u0.username = request[c].username /\ ~u0.builtIn
  OBVIOUS
<1>4. users' = users \/ (users' = users \cup {u0} /\ Named(u0.username) = {})
  BY DEF Save
<1> HIDE DEF u0
<1>5. Typed'
  BY <1>1, IdleRequest DEF IInv, Typed
<1>6. Sequence'
  BY <1>1, <1>2, <1>3, <1>4 DEF IInv, Sequence, User
<1>7. Unique'
  <2>1. \A u \in users : u.id # u0.id
    BY <1>2, <1>3 DEF IInv, Sequence, User
  <2> QED BY <1>4, <2>1 DEF IInv, Unique, Named
<1>8. \A copy : Known(copy) => Known(copy)'
  BY <1>1, <1>4 DEF Known
<1>9. \A d \in Clients : request'[d] = IF d = c THEN Idle ELSE request[d]
  BY <1>1 DEF IInv, Typed
<1>10. Copies'
  BY <1>1, <1>8, <1>9, IdleRequest DEF IInv, Copies
<1>11. Removable'
  <2> SUFFICES ASSUME NEW d \in Clients, request[d].op = "remove"
               PROVE  /\ request[d].id < nextId'
                      /\ \A u \in users' : u.id = request[d].id => ~u.builtIn
    BY <1>9, IdleRequest DEF Removable
  <2>1. request[d].id \in Nat /\ request[d].id < nextId
    BY RequestKinds DEF IInv, Typed, Removable
  <2>2. request[d].id < nextId'
    BY <2>1, <1>1, <1>2
  <2> QED BY <2>2, <1>3, <1>4 DEF IInv, Removable
<1>12. Prepared'
  <2>1. \A q \in Roles : BuiltIn(q)' = BuiltIn(q)
    BY <1>3, <1>4 DEF BuiltIn
  <2> QED BY <1>1, <2>1 DEF IInv, Prepared, Done
<1> QED BY <1>5, <1>6, <1>7, <1>10, <1>11, <1>12 DEF IInv

\* What is removed is not built in, and its identifier is remembered.
LEMMA RemoveStep == ASSUME IInv, NEW c \in Clients, Remove(c) PROVE IInv'
<1> DEFINE i == request[c].id
<1>1. /\ request' = [request EXCEPT ![c] = Idle]
      /\ users' = {u \in users : u.id # i} /\ deleted' = deleted \cup {i}
      /\ UNCHANGED <<phase, env, nextId, payload, valid, startsLeft, createsLeft>>
  BY DEF Remove, Answer
<1>2. i \in Nat /\ i < nextId /\ \A u \in users : u.id = i => ~u.builtIn
  BY RequestKinds DEF Remove, IInv, Typed, Removable
<1> HIDE DEF i
<1>3. Typed'
  BY <1>1, IdleRequest DEF IInv, Typed
<1>4. Sequence'
  BY <1>1, <1>2 DEF IInv, Sequence
<1>5. Unique'
  BY <1>1 DEF IInv, Unique
<1>6. \A copy : Known(copy) => Known(copy)'
  BY <1>1 DEF Known, Says
<1>7. \A d \in Clients : request'[d] = IF d = c THEN Idle ELSE request[d]
  BY <1>1 DEF IInv, Typed
<1>8. Copies'
  BY <1>1, <1>6, <1>7, IdleRequest DEF IInv, Copies
<1>9. Removable'
  BY <1>1, <1>7, IdleRequest DEF IInv, Removable
<1>10. Prepared'
  <2>1. \A q \in Roles : BuiltIn(q)' = BuiltIn(q)
    BY <1>1, <1>2 DEF BuiltIn
  <2> QED BY <1>1, <2>1 DEF IInv, Prepared, Done
<1> QED BY <1>3, <1>4, <1>5, <1>8, <1>9, <1>10 DEF IInv

----------------------------------------------------------------------------
LEMMA InvStep == IInv /\ [Next]_vars => IInv'
<1> SUFFICES ASSUME IInv, [Next]_vars PROVE IInv'
  OBVIOUS
<1>1. CASE UNCHANGED vars
  BY <1>1 DEF vars, IInv, Typed, Sequence, Unique, Copies, Known, Removable, Prepared, Done,
              BuiltIn
<1>2. ASSUME NEW c \in Clients, Handle(c) PROVE IInv'
  BY <1>2, ValidateStep, IssueStep, FindStep, SaveStep, RemoveStep DEF Handle
<1> QED
  BY <1>1, <1>2, EnsureStep, CrashStep, UpsertStep, AskStep, TokenStep DEF Next

\* An identifier is given once and names one user; what a token says stays true
\* of the user it was signed for.
THEOREM Inductive == Spec => []IInv
BY InvInit, InvStep, PTL DEF Spec

\* Types; and no two accounts have one identifier or one name, whoever creates
\* or renames them.
THEOREM TypeCorrect == Spec => []TypeOK
<1>1. IInv => TypeOK
  BY DEF IInv, Typed, Sequence, Unique, TypeOK
<1> QED BY <1>1, Inductive, PTL

\* Each role has at most one built-in account, and while requests are served
\* exactly one, under the name that the start gave it.
THEOREM BuiltInsStay == Spec => []BuiltInsStand
<1>1. IInv => BuiltInsStand
  <2> SUFFICES ASSUME IInv, NEW r \in Roles
               PROVE  /\ Cardinality(BuiltIn(r)) <= 1
                      /\ phase = "up" => \E u \in BuiltIn(r) : u.username = env[r]
    BY DEF BuiltInsStand
  <2>1. Cardinality(BuiltIn(r)) <= 1
    BY AtMostOne DEF IInv, Prepared
  <2> QED BY <2>1 DEF IInv, Prepared, Done
<1> QED BY <1>1, Inductive, PTL

\* A token says what is true of one account until that account is deleted.
THEOREM TokensAreTrue == Spec => []TokensTellTruth
<1>1. IInv => TokensTellTruth
  <2> SUFFICES ASSUME IInv, NEW c \in Clients, payload[c] # none
               PROVE  /\ Owner(c) = {} <=> payload[c].id \in deleted
                      /\ \A u \in Owner(c) :
                           /\ u.role = payload[c].role /\ u.builtIn = payload[c].builtIn
                           /\ u.username = payload[c].username \/ u.builtIn
    BY DEF TokensTellTruth
  <2>1. Known(payload[c])
    BY DEF IInv, Copies
  <2>2. payload[c].id \in deleted => Owner(c) = {}
    BY DEF Owner, IInv, Sequence
  <2>3. CASE payload[c].id \in deleted
    BY <2>2, <2>3
  <2>4. ASSUME NEW u \in users, Says(payload[c], u)
        PROVE  Owner(c) = {u}
    BY <2>4 DEF Owner, Says, IInv, Unique
  <2> QED BY <2>1, <2>2, <2>3, <2>4 DEF Known, Says
<1> QED BY <1>1, Inductive, PTL
=============================================================================
