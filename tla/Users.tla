------------------------------- MODULE Users -------------------------------
(***************************************************************************)
(* The accounts of the panel: AuthService with the handlers of             *)
(* AuthController and UsersController.                                     *)
(*                                                                         *)
(* A start gives each role its built-in account, under the name that the   *)
(* environment has for it, before any request is served.  Requests then    *)
(* log in, create accounts and delete the account of the caller.  What a   *)
(* request may do is decided by its token, which the backend signs and     *)
(* never looks up: a token says what was true when its owner logged in.    *)
(*                                                                         *)
(* Passwords and display names are left out: a start may rewrite them, and *)
(* a request with a wrong password ends as one with an unknown name.       *)
(***************************************************************************)
EXTENDS Naturals, FiniteSets

CONSTANTS
  Clients,     \* holders of tokens
  Names,       \* user names
  none,        \* no account
  MaxStarts, MaxCreates   \* bounds

Roles == {"admin", "user"}
User == [id : Nat, username : Names, role : Roles, builtIn : BOOLEAN]
CreateUserDto == [username : Names, role : Roles]

ASSUME UsersAssumptions ==
  /\ none \notin User
  /\ Names # {}
  /\ MaxStarts \in Nat \ {0} /\ MaxCreates \in Nat

VARIABLES
  phase,      \* off, admin, user (whose account is being prepared), refused, up
  env,        \* env[r]: ADMIN_USERNAME and USER_USERNAME
  users,      \* the rows of the table
  nextId,     \* its sequence
  payload,    \* payload[c]: what the token of a client says, or none
  valid,      \* valid[c]: which of its two tokens have not expired
  request,    \* request[c]: the request under way
  deleted,    \* history: identifiers of accounts that were deleted
  startsLeft, createsLeft

vars == <<phase, env, users, nextId, payload, valid, request, deleted, startsLeft, createsLeft>>

Idle == [op |-> "idle"]
Named(n) == {u \in users : u.username = n}
BuiltIn(r) == {u \in users : u.role = r /\ u.builtIn}

Init ==
  /\ phase = "off"
  /\ env = [r \in Roles |-> CHOOSE n \in Names : TRUE]
  /\ users = {} /\ nextId = 1
  /\ payload = [c \in Clients |-> none]
  /\ valid = [c \in Clients |-> {}]
  /\ request = [c \in Clients |-> Idle]
  /\ deleted = {}
  /\ startsLeft = MaxStarts /\ createsLeft = MaxCreates
----------------------------------------------------------------------------
(* The start *)

\* Mutant: an account with the name is taken over.
upsertBuiltInUser_Adopts(r) ==
  LET mine == IF BuiltIn(r) # {} THEN BuiltIn(r) ELSE Named(env[r])
      old == CHOOSE u \in mine : TRUE
  IN  /\ phase = r
      /\ IF mine = {}
         THEN users' = users \cup {[id |-> nextId, username |-> env[r], role |-> r, builtIn |-> TRUE]}
         ELSE users' = (users \ {old}) \cup {[old EXCEPT !.username = env[r], !.role = r, !.builtIn = TRUE]}
      /\ nextId' = nextId + 1
      /\ phase' = IF r = "admin" THEN "user" ELSE "up"
      /\ UNCHANGED <<env, payload, valid, request, deleted, startsLeft, createsLeft>>

\* Mutant: the conflict is not told from the account itself.
upsertBuiltInUser_Conflicts(r) ==
  /\ phase = r
  /\ \/ /\ Named(env[r]) # {}
        /\ phase' = "refused"
        /\ UNCHANGED <<users, nextId>>
     \/ /\ Named(env[r]) = {}
        /\ users' = (users \ BuiltIn(r))
                       \cup {[id |-> nextId, username |-> env[r], role |-> r, builtIn |-> TRUE]}
        /\ nextId' = nextId + 1
        /\ phase' = IF r = "admin" THEN "user" ELSE "up"
  /\ UNCHANGED <<env, payload, valid, request, deleted, startsLeft, createsLeft>>

\* The built-in account of a role is created, renamed or left; a name that
\* another account has refuses the start.
upsertBuiltInUser(r) ==
  /\ phase = r
  /\ \/ /\ Named(env[r]) \subseteq BuiltIn(r)
        /\ \/ /\ BuiltIn(r) = {}
              /\ users' = users \cup {[id |-> nextId, username |-> env[r], role |-> r, builtIn |-> TRUE]}
              /\ nextId' = nextId + 1
           \/ \E existing \in BuiltIn(r) :
              /\ users' = (users \ {existing}) \cup {[existing EXCEPT !.username = env[r]]}
              /\ UNCHANGED nextId
        /\ phase' = IF r = "admin" THEN "user" ELSE "up"
     \/ /\ ~(Named(env[r]) \subseteq BuiltIn(r))
        /\ phase' = "refused"
        /\ UNCHANGED <<users, nextId>>
  /\ UNCHANGED <<env, payload, valid, request, deleted, startsLeft, createsLeft>>

\* A start, perhaps with another environment, begins with the admin.
ensureBuiltins ==
  /\ phase \in {"off", "refused"} /\ startsLeft > 0
  /\ startsLeft' = startsLeft - 1
  /\ env' \in [Roles -> Names]
  /\ phase' = "admin"
  /\ UNCHANGED <<users, nextId, payload, valid, request, deleted, createsLeft>>

\* The process ends: requests under way are lost, tokens stay valid.
Crash ==
  /\ phase \in {"admin", "user", "up"} /\ startsLeft > 0
  /\ phase' = "off"
  /\ request' = [c \in Clients |-> Idle]
  /\ UNCHANGED <<env, users, nextId, payload, valid, deleted, startsLeft, createsLeft>>
----------------------------------------------------------------------------
(* Requests *)

Ask(c, r) ==
  /\ phase = "up" /\ request[c] = Idle
  /\ request' = [request EXCEPT ![c] = r]

Answer(c) == request' = [request EXCEPT ![c] = Idle]

login(c) ==
  /\ \E n \in Names : Ask(c, [op |-> "login", username |-> n])
  /\ UNCHANGED <<phase, env, users, nextId, payload, valid, deleted, startsLeft, createsLeft>>

\* JwtStrategy takes a token that has not expired at its word, a refresh token
\* too, for both are signed with one secret; and so does the RolesGuard.
validate(c) == valid[c] # {}
canActivate(c, role) == payload[c].role = role

create(c) ==
  /\ validate(c) /\ canActivate(c, "admin")
  /\ createsLeft > 0 /\ createsLeft' = createsLeft - 1
  /\ \E dto \in CreateUserDto :
       Ask(c, [op |-> "create", username |-> dto.username, role |-> dto.role])
  /\ UNCHANGED <<phase, env, users, nextId, payload, valid, deleted, startsLeft>>

deleteSelf(c) ==
  /\ validate(c)
  /\ Ask(c, [op |-> "delete", id |-> payload[c].id])
  /\ UNCHANGED <<phase, env, users, nextId, payload, valid, deleted, startsLeft, createsLeft>>

\* validateUser finds the account of a login.
validateUser(c) ==
  /\ request[c].op = "login"
  /\ LET found == Named(request[c].username)
     IN  \/ found = {} /\ Answer(c)
         \/ \E u \in found : request' = [request EXCEPT ![c] = [op |-> "issue", user |-> u]]
  /\ UNCHANGED <<phase, env, users, nextId, payload, valid, deleted, startsLeft, createsLeft>>

issueTokens(c) ==
  /\ request[c].op = "issue"
  /\ payload' = [payload EXCEPT ![c] = request[c].user]
  /\ valid' = [valid EXCEPT ![c] = {"access", "refresh"}]
  /\ Answer(c)
  /\ UNCHANGED <<phase, env, users, nextId, deleted, startsLeft, createsLeft>>

\* refresh issues new tokens for what the old one says.
refresh(c) ==
  /\ phase = "up" /\ "refresh" \in valid[c] /\ request[c] = Idle
  /\ valid' = [valid EXCEPT ![c] = {"access", "refresh"}]
  /\ UNCHANGED <<phase, env, users, nextId, payload, request, deleted, startsLeft, createsLeft>>

\* createUser and deleteSelf read the row first.
FindNoUser(c) ==
  /\ request[c].op = "create"
  /\ \/ Named(request[c].username) # {} /\ Answer(c)
     \/ /\ Named(request[c].username) = {}
        /\ request' = [request EXCEPT ![c].op = "save"]
  /\ UNCHANGED <<phase, env, users, nextId, payload, valid, deleted, startsLeft, createsLeft>>

\* Mutant: a built-in account may go.
FindSelf_Any(c) ==
  /\ request[c].op = "delete"
  /\ LET found == {u \in users : u.id = request[c].id}
     IN  \/ found = {} /\ Answer(c)
         \/ found # {} /\ request' = [request EXCEPT ![c].op = "remove"]
  /\ UNCHANGED <<phase, env, users, nextId, payload, valid, deleted, startsLeft, createsLeft>>

FindSelf(c) ==
  /\ request[c].op = "delete"
  /\ LET found == {u \in users : u.id = request[c].id /\ ~u.builtIn}
     IN  \/ found = {} /\ Answer(c)
         \/ found # {} /\ request' = [request EXCEPT ![c].op = "remove"]
  /\ UNCHANGED <<phase, env, users, nextId, payload, valid, deleted, startsLeft, createsLeft>>

\* Mutant: the table has no unique index.
Save_NoIndex(c) ==
  /\ request[c].op = "save"
  /\ nextId' = nextId + 1
  /\ users' = users \cup {[id |-> nextId, username |-> request[c].username,
                           role |-> request[c].role, builtIn |-> FALSE]}
  /\ Answer(c)
  /\ UNCHANGED <<phase, env, payload, valid, deleted, startsLeft, createsLeft>>

\* The insert uses up an identifier, and fails when the name was taken since.
Save(c) ==
  /\ request[c].op = "save"
  /\ nextId' = nextId + 1
  /\ \/ Named(request[c].username) # {} /\ UNCHANGED users
     \/ /\ Named(request[c].username) = {}
        /\ users' = users \cup {[id |-> nextId, username |-> request[c].username,
                                 role |-> request[c].role, builtIn |-> FALSE]}
  /\ Answer(c)
  /\ UNCHANGED <<phase, env, payload, valid, deleted, startsLeft, createsLeft>>

\* remove deletes by identifier, and succeeds when the row is gone already.
Remove(c) ==
  /\ request[c].op = "remove"
  /\ users' = {u \in users : u.id # request[c].id}
  /\ deleted' = deleted \cup {request[c].id}
  /\ Answer(c)
  /\ UNCHANGED <<phase, env, nextId, payload, valid, startsLeft, createsLeft>>

\* A token expires: the access token first, as the defaults have it.
Expire(c) ==
  /\ payload[c] # none
  /\ \/ "access" \in valid[c] /\ valid' = [valid EXCEPT ![c] = {"refresh"}] /\ UNCHANGED payload
     \/ /\ valid[c] = {"refresh"}
        /\ valid' = [valid EXCEPT ![c] = {}]
        /\ payload' = [payload EXCEPT ![c] = none]
  /\ UNCHANGED <<phase, env, users, nextId, request, deleted, startsLeft, createsLeft>>

Handle(c) ==
  validateUser(c) \/ issueTokens(c) \/ FindNoUser(c) \/ FindSelf(c) \/ Save(c) \/ Remove(c)

Next ==
  \/ ensureBuiltins \/ Crash
  \/ \E r \in Roles : upsertBuiltInUser(r)
  \/ \E c \in Clients :
       login(c) \/ create(c) \/ deleteSelf(c) \/ refresh(c) \/ Handle(c) \/ Expire(c)

\* A start and a request go on; one that was refused need not be tried again.
Fairness ==
  /\ WF_vars(\E r \in Roles : upsertBuiltInUser(r))
  /\ WF_vars(phase = "off" /\ ensureBuiltins)
  /\ \A c \in Clients : WF_vars(Handle(c))

Spec == Init /\ [][Next]_vars
FairSpec == Spec /\ Fairness
----------------------------------------------------------------------------
\* The account that a token speaks of.
Owner(c) == {u \in users : u.id = payload[c].id}

\* Types; identifiers and names are unique, whoever creates accounts.
TypeOK ==
  /\ phase \in {"off", "admin", "user", "refused", "up"}
  /\ env \in [Roles -> Names]
  /\ users \subseteq User /\ \A u \in users : u.id < nextId
  /\ \A u, v \in users : u.id = v.id \/ u.username = v.username => u = v
  /\ payload \in [Clients -> User \cup {none}]
  /\ valid \in [Clients -> SUBSET {"access", "refresh"}]
  /\ \A c \in Clients : valid[c] = {} <=> payload[c] = none
  /\ startsLeft \in 0..MaxStarts /\ createsLeft \in 0..MaxCreates

\* No role ever has two built-in accounts, and while requests are served each
\* has one, under the name that the environment gives it.
BuiltInsStand ==
  \A r \in Roles :
    /\ Cardinality(BuiltIn(r)) <= 1
    /\ phase = "up" => \E u \in BuiltIn(r) : u.username = env[r]

\* A token speaks of one account and says its role, and its name unless a start
\* renamed it, until that account is deleted; no other account gets its place.
TokensTellTruth ==
  \A c \in Clients : payload[c] # none =>
    /\ Owner(c) = {} <=> payload[c].id \in deleted
    /\ \A u \in Owner(c) :
         /\ u.role = payload[c].role /\ u.builtIn = payload[c].builtIn
         /\ u.username = payload[c].username \/ u.builtIn

\* In the end requests are served, or the start was refused because a name of
\* the environment belongs to another account.
ComesUp ==
  \/ <>[](phase = "up")
  \/ <>[](phase = "refused" /\ \E r \in Roles : ~(Named(env[r]) \subseteq BuiltIn(r)))
=============================================================================
