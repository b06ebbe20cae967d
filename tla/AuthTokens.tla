----------------------------- MODULE AuthTokens -----------------------------
(***************************************************************************)
(* Accounts and refresh tokens: AuthenticationService.register_user,       *)
(* .authenticate + .create_token_pair (login), .refresh_tokens and .logout *)
(* (auth/service.py) over AuthenticationRepository (auth/repository.py),   *)
(* by concurrent requests.                                                 *)
(*                                                                         *)
(* Every repository call opens, commits and closes a transaction of its    *)
(* own, so it is one action, and the requests interleave between them.  A  *)
(* request may die between two calls (a database error, a shutdown).       *)
(* Signatures, hashes and access tokens, which are not stored, are left    *)
(* out; a refresh token is named by its jti.                               *)
(***************************************************************************)
CONSTANTS
  Users,      \* sign-up data: records with a name and an email
  Tokens,     \* jtis
  Requests,
  Ops,        \* the operations the requests perform
  None

ASSUME AuthAssumption ==
  /\ Ops \subseteq {"register", "login", "refresh", "logout"}
  /\ None \notin Tokens
  /\ None \notin Users

VARIABLES
  account,   \* users: "absent", "active" or "inactive" (is_active)
  owner,     \* refresh_tokens.user_id, None where there is no row
  revoked,   \* the rows with revoked = true
  expired,   \* the rows whose expires_at has passed
  parent,    \* history: the token this one was issued in exchange for
  held,      \* history: tokens that reached a client
  req,       \* the requests
  spent,     \* history: requests whose token was revoked when they came in
  shut       \* history: requests whose account was inactive when they came in

tables == <<account, owner, revoked, expired, parent, held>>
vars == <<account, owner, revoked, expired, parent, held, req, spent, shut>>
-----------------------------------------------------------------------------
Idle == [op |-> "none", pc |-> "idle", user |-> None, tok |-> None, new |-> None,
         answer |-> "none"]

Stored == {t \in Tokens : owner[t] # None}
Registered == {u \in Users : account[u] # "absent"}

Init ==
  /\ account \in [Users -> {"absent", "active"}]
  /\ \A u, v \in Registered : u.name = v.name \/ u.email = v.email => u = v
  /\ owner = [t \in Tokens |-> None]
  /\ revoked = {}
  /\ expired = {}
  /\ parent = [t \in Tokens |-> None]
  /\ held = {}
  /\ req = [r \in Requests |-> Idle]
  /\ spent = {}
  /\ shut = {}

Goto(r, pc) == req' = [req EXCEPT ![r].pc = pc]
End(r, answer) == req' = [req EXCEPT ![r].pc = "done", ![r].answer = answer]

\* A request comes in; a client presents only tokens it was given.
ArriveUser(r, u, op) ==
  /\ req[r].pc = "idle"
  /\ op \in Ops \cap {"register", "login"}
  /\ req' = [req EXCEPT ![r].op = op, ![r].user = u,
                        ![r].pc = IF op = "register" THEN "by_name" ELSE "find"]
  /\ shut' = IF account[u] = "inactive" THEN shut \cup {r} ELSE shut
  /\ UNCHANGED <<tables, spent>>

ArriveToken(r, t, op) ==
  /\ req[r].pc = "idle"
  /\ op \in Ops \cap {"refresh", "logout"}
  /\ t \in held
  /\ req' = [req EXCEPT ![r].op = op, ![r].tok = t, ![r].pc = "read"]
  /\ spent' = IF t \in revoked THEN spent \cup {r} ELSE spent
  /\ shut' = IF account[owner[t]] = "inactive" THEN shut \cup {r} ELSE shut
  /\ UNCHANGED tables

\* register_user's pre-check: get_by_username, then get_by_email.
LookUpName(r) ==
  /\ req[r].pc = "by_name"
  /\ IF \E v \in Registered : v.name = req[r].user.name
     THEN End(r, "duplicate") ELSE Goto(r, "by_email")
  /\ UNCHANGED <<tables, spent, shut>>

LookUpEmail(r) ==
  /\ req[r].pc = "by_email"
  /\ IF \E v \in Registered : v.email = req[r].user.email
     THEN End(r, "duplicate") ELSE Goto(r, "insert")
  /\ UNCHANGED <<tables, spent, shut>>

\* Mutant: no unique constraint on username.
ClashesByEmail(u) == {v \in Registered : v.email = u.email}

\* The table's unique constraints, on username and on email.
Clashes(u) == {v \in Registered : v.name = u.name \/ v.email = u.email}

\* create_user; the IntegrityError becomes the same DuplicateUserError.
InsertUser(r) ==
  /\ req[r].pc = "insert"
  /\ IF Clashes(req[r].user) # {}
     THEN End(r, "duplicate") /\ account' = account
     ELSE End(r, "created") /\ account' = [account EXCEPT ![req[r].user] = "active"]
  /\ UNCHANGED <<owner, revoked, expired, parent, held, spent, shut>>

\* authenticate; the password may be wrong.
Authenticate(r, password_ok) ==
  /\ req[r].pc = "find"
  /\ IF account[req[r].user] = "absent" \/ ~ password_ok THEN End(r, "denied")
     ELSE IF account[req[r].user] = "inactive" THEN End(r, "inactive")
     ELSE Goto(r, "store")
  /\ UNCHANGED <<tables, spent, shut>>

\* Mutant: the revoked flag is not looked at.
ReadTokenUnlessExpired(r) ==
  /\ req[r].pc = "read"
  /\ IF req[r].tok \in expired THEN End(r, "denied")
     ELSE req' = [req EXCEPT ![r].user = owner[req[r].tok],
                             ![r].pc = IF req[r].op = "refresh" THEN "user" ELSE "revoke"]
  /\ UNCHANGED <<tables, spent, shut>>

\* validate_refresh_token: the row is there, not revoked and not expired.
ReadToken(r) ==
  /\ req[r].pc = "read"
  /\ IF req[r].tok \in revoked \cup expired THEN End(r, "denied")
     ELSE req' = [req EXCEPT ![r].user = owner[req[r].tok],
                             ![r].pc = IF req[r].op = "refresh" THEN "user" ELSE "revoke"]
  /\ UNCHANGED <<tables, spent, shut>>

\* Mutants: is_active is not looked at; the old token is not revoked.
ReadUserAnyState(r) ==
  /\ req[r].pc = "user"
  /\ IF account[req[r].user] = "absent" THEN End(r, "inactive") ELSE Goto(r, "revoke")
  /\ UNCHANGED <<tables, spent, shut>>
ReadUserSkipsRevoke(r) ==
  /\ req[r].pc = "user"
  /\ IF account[req[r].user] # "active" THEN End(r, "inactive") ELSE Goto(r, "store")
  /\ UNCHANGED <<tables, spent, shut>>

\* refresh_tokens: get_by_id of the row's user.
ReadUser(r) ==
  /\ req[r].pc = "user"
  /\ IF account[req[r].user] # "active" THEN End(r, "inactive") ELSE Goto(r, "revoke")
  /\ UNCHANGED <<tables, spent, shut>>

\* revoke_refresh_token sets the flag whatever it was; logout is then over.
RevokeToken(r) ==
  /\ req[r].pc = "revoke"
  /\ revoked' = revoked \cup {req[r].tok}
  /\ IF req[r].op = "refresh" THEN Goto(r, "store") ELSE End(r, "logged_out")
  /\ UNCHANGED <<account, owner, expired, parent, held, spent, shut>>

\* create_token_pair: a new jti, stored before the pair is returned.
StoreToken(r, t) ==
  /\ req[r].pc = "store"
  /\ t \notin Stored
  /\ owner' = [owner EXCEPT ![t] = req[r].user]
  /\ parent' = [parent EXCEPT ![t] = req[r].tok]
  /\ req' = [req EXCEPT ![r].new = t, ![r].pc = "reply"]
  /\ UNCHANGED <<account, revoked, expired, held, spent, shut>>

\* The token pair reaches the client.
Reply(r) ==
  /\ req[r].pc = "reply"
  /\ held' = held \cup {req[r].new}
  /\ End(r, "tokens")
  /\ UNCHANGED <<account, owner, revoked, expired, parent, spent, shut>>

\* The request dies before its next call, or its answer is lost.
Die(r) ==
  /\ req[r].pc \notin {"idle", "done"}
  /\ End(r, "lost")
  /\ UNCHANGED <<tables, spent, shut>>

\* Outside the service: an operator clears is_active; a token's time is over.
Deactivate(u) ==
  /\ account[u] = "active"
  /\ account' = [account EXCEPT ![u] = "inactive"]
  /\ UNCHANGED <<owner, revoked, expired, parent, held, req, spent, shut>>

Expire(t) ==
  /\ t \in Stored \ expired
  /\ expired' = expired \cup {t}
  /\ UNCHANGED <<account, owner, revoked, parent, held, req, spent, shut>>

RequestStep(r) ==
  \/ LookUpName(r)
  \/ LookUpEmail(r)
  \/ InsertUser(r)
  \/ \E password_ok \in BOOLEAN : Authenticate(r, password_ok)
  \/ ReadToken(r)
  \/ ReadUser(r)
  \/ RevokeToken(r)
  \/ \E t \in Tokens : StoreToken(r, t)
  \/ Reply(r)

Next ==
  \/ \E r \in Requests, u \in Users, op \in Ops : ArriveUser(r, u, op)
  \/ \E r \in Requests, t \in Tokens, op \in Ops : ArriveToken(r, t, op)
  \/ \E r \in Requests : RequestStep(r) \/ Die(r)
  \/ \E u \in Users : Deactivate(u)
  \/ \E t \in Tokens : Expire(t)

Spec == Init /\ [][Next]_vars
-----------------------------------------------------------------------------
Points == {"idle", "by_name", "by_email", "insert", "find", "read", "user",
           "revoke", "store", "reply", "done"}
Answers == {"none", "created", "duplicate", "denied", "inactive", "logged_out",
            "tokens", "lost"}

\* Types of the three tables and of the requests.
TypeOK ==
  /\ account \in [Users -> {"absent", "active", "inactive"}]
  /\ owner \in [Tokens -> Users \cup {None}]
  /\ revoked \subseteq Tokens
  /\ expired \subseteq Tokens
  /\ parent \in [Tokens -> Tokens \cup {None}]
  /\ held \subseteq Tokens
  /\ req \in [Requests -> [op : Ops \cup {"none"}, pc : Points,
                           user : Users \cup {None}, tok : Tokens \cup {None},
                           new : Tokens \cup {None}, answer : Answers]]
  /\ spent \subseteq Requests
  /\ shut \subseteq Requests

\* Rotation is ordered for crashes: a token issued in exchange for another
\* one is stored only once that one is revoked, for the same user, and no
\* client holds a token the server has no row for.  A refresh that dies half
\* way may cost the user the session but never leaves the old token live.
RotationSafe ==
  /\ held \subseteq Stored
  /\ \A t \in Tokens :
       parent[t] # None =>
         /\ t \in Stored
         /\ parent[t] \in revoked
         /\ owner[t] = owner[parent[t]]

\* A refresh or logout that comes in after the token was spent is refused,
\* and obtains nothing.
SpentIsRefused ==
  \A r \in spent :
    req[r].new = None /\ req[r].answer \in {"none", "denied", "lost"}

\* A login or refresh that comes in once the account is deactivated obtains
\* nothing, also with a token that was issued before.
InactiveGetsNothing ==
  \A r \in shut : req[r].new = None /\ req[r].answer # "tokens"

\* Two sign-ups that share a name or an email never both succeed, however
\* they interleave.
SignUpUnique ==
  /\ \A u, v \in Registered : u.name = v.name \/ u.email = v.email => u = v
  /\ \A r, s \in Requests :
       req[r].answer = "created" /\ req[s].answer = "created" /\ req[r].user = req[s].user
         => r = s

\* "The old refresh token is revoked as part of this call -- it can never be
\* used again": no token is exchanged for two others.
RotatedOnce ==
  \A t, u \in Tokens : parent[t] # None /\ parent[t] = parent[u] => t = u
=============================================================================
