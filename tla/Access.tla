-------------------------------- MODULE Access --------------------------------
(***************************************************************************)
(* Signing in to the panel: the sessions table behind access tokens,        *)
(* refresh tokens and second-factor challenges, the account rows they are   *)
(* checked against, and the requests that read and write both.              *)
(*                                                                          *)
(* A request is a sequence of database statements; statements of different  *)
(* requests interleave.  A handler that changes an account reads the row,   *)
(* changes a column of its copy and saves the whole copy (userRepo.Update), *)
(* so two overlapping handlers of one account undo each other's columns;    *)
(* that is part of the model.                                               *)
(***************************************************************************)
EXTENDS Integers, FiniteSets, Sequences

CONSTANTS
    Users,          \* accounts
    Clients,        \* bound: the accounts whose sign-ins and changes are followed
    Admins,         \* the accounts created with the admin role
    Requests,       \* requests the panel serves at one time
    Operations,     \* what clients ask for, a subset of AllOperations
    NoUser,         \* the account of a request that has not begun
    MaxHash,        \* bound: password hashes ever computed
    MaxSessions     \* bound: sessions ever created

Challenged == {"login", "portalLogin"}
TokenUses == {"refresh", "logout", "verify2FA"}
OwnChanges == {"profile", "changePassword"}
TwoFactorChanges == {"enable2FA", "disable2FA"}
AdminChanges == {"resetPassword", "disable", "enable", "demote", "promote", "delete"}
AllOperations == Challenged \cup TokenUses \cup OwnChanges \cup TwoFactorChanges \cup AdminChanges

ASSUME AccessAssumption ==
    /\ Admins \subseteq Users /\ Admins /= {}
    /\ Clients \subseteq Users
    /\ IsFiniteSet(Users) /\ NoUser \notin Users
    /\ Operations \subseteq AllOperations
    /\ MaxHash \in Nat /\ MaxSessions \in Nat
    /\ MaxHash > 0

VARIABLES
    users,      \* users: password hash, enabled, role, two_factor_enabled
    secrets,    \* two_factor_secrets: the accounts that have a row
    issued,     \* the sessions ever created, by id
    table,      \* auth_sessions: the ids that have a row
    late,       \* those of them whose expires_at has passed
    hashes,     \* password hashes computed so far (each salted, so distinct)
    req,        \* per request: what it does, where it is and what it read
    replaced,   \* history: the hashes an account had and has lost
    restored    \* history: the accounts that got such a hash back

vars == <<users, secrets, issued, table, late, hashes, req, replaced, restored>>
history == <<replaced, restored>>
sessionVars == <<issued, table, late>>

UserRow == [exists: BOOLEAN, hash: 1..MaxHash, enabled: BOOLEAN,
            role: {"admin", "user"}, twoFactor: BOOLEAN]
(***************************************************************************)
(* A session: the account and kind, the fingerprint of the password hash it *)
(* was opened under, and, as history, the session it replaced (0 when the   *)
(* client signed in with a password) and the hash the client's password was *)
(* verified against.                                                        *)
(***************************************************************************)
Session == [user: Users, kind: {"login", "2fa"}, credential: 1..MaxHash,
            from: 0..MaxSessions, verified: 1..MaxHash]

Steps == {"idle", "checkUser", "getUser", "getSession", "checkUser2",
          "consume", "newSession", "create", "reload", "count", "save", "remove"}

NoRow == [exists |-> FALSE, hash |-> 1, enabled |-> FALSE, role |-> "user",
          twoFactor |-> FALSE]
Idle == [op |-> "none", at |-> "idle", user |-> NoUser, id |-> 0, copy |-> NoRow,
         verified |-> 1]

Ids == 1..Len(issued)

AccessTypeOK ==
    /\ users \in [Users -> UserRow]
    /\ secrets \subseteq Users
    /\ issued \in Seq(Session) /\ Len(issued) <= MaxSessions
    /\ table \subseteq Ids
    /\ late \subseteq table
    /\ hashes \in 1..MaxHash
    /\ req \in [Requests -> [op: AllOperations \cup {"none"}, at: Steps,
                              user: Users \cup {NoUser}, id: 0..MaxSessions,
                              copy: UserRow, verified: 1..MaxHash]]
    /\ replaced \in [Users -> SUBSET (1..MaxHash)]
    /\ restored \subseteq Users

\* The accounts as they were created; nobody has signed in
Init ==
    /\ users = [u \in Users |-> [exists |-> TRUE, hash |-> 1, enabled |-> TRUE,
                  role |-> IF u \in Admins THEN "admin" ELSE "user", twoFactor |-> FALSE]]
    /\ secrets = {}
    /\ issued = <<>> /\ table = {} /\ late = {}
    /\ hashes = 1
    /\ req = [r \in Requests |-> Idle]
    /\ replaced = [u \in Users |-> {}] /\ restored = {}

-----------------------------------------------------------------------------
(* auth.Service *)

\* validateSession, the session half and the account half
SessionCurrent(i, kind) == i \in table /\ i \notin late /\ issued[i].kind = kind

CredentialCurrent(i) ==
    LET row == users[issued[i].user] IN
    row.exists /\ row.enabled /\ issued[i].credential = row.hash

KindOf(op) == IF op = "verify2FA" THEN "2fa" ELSE "login"

\* A request that has not begun
Free(r) == req[r].at = "idle"

Become(r, fields) == req' = [req EXCEPT ![r] = fields]
Goto(r, step) == req' = [req EXCEPT ![r].at = step]
End(r) == req' = [req EXCEPT ![r] = Idle]

\* The request's next statement succeeds when ok holds; else it is answered
\* with an error
Continue(r, ok, step) == IF ok THEN Goto(r, step) ELSE End(r)

\* A client presents the token of session i: validateSession reads the session
Present(r, i, op) ==
    /\ Free(r) /\ op \in Operations \cap TokenUses
    /\ SessionCurrent(i, KindOf(op))
    /\ Become(r, [Idle EXCEPT !.op = op, !.at = "checkUser", !.id = i,
                              !.user = issued[i].user])
    /\ UNCHANGED <<users, secrets, sessionVars, hashes, history>>

\* ... and reads it again before it is consumed
GetSession(r) ==
    /\ req[r].at = "getSession"
    /\ Continue(r, SessionCurrent(req[r].id, KindOf(req[r].op)), "checkUser2")
    /\ UNCHANGED <<users, secrets, sessionVars, hashes, history>>

\* ... and then the account; RevokeToken goes on to consume the session
CheckUser(r) ==
    /\ req[r].at \in {"checkUser", "checkUser2"}
    /\ Continue(r, CredentialCurrent(req[r].id),
                IF req[r].at = "checkUser" /\ req[r].op /= "logout" THEN "getUser" ELSE "consume")
    /\ UNCHANGED <<users, secrets, sessionVars, hashes, history>>

(***************************************************************************)
(* RefreshToken and Verify2FA read the account before they consume the      *)
(* session: the hash read here is the one the new session must be opened    *)
(* under.  Verify2FA also looks up the secret and checks the code; a wrong  *)
(* code only ends the request.                                              *)
(***************************************************************************)
GetUser(r) ==
    LET row == users[req[r].user] IN
    /\ req[r].at = "getUser"
    /\ IF /\ row.exists /\ row.enabled
          /\ req[r].op = "verify2FA" => row.twoFactor /\ req[r].user \in secrets
       THEN Become(r, [req[r] EXCEPT !.at = "getSession", !.copy = row,
                                      !.verified = issued[req[r].id].verified])
       ELSE End(r)
    /\ UNCHANGED <<users, secrets, sessionVars, hashes, history>>

\* A mutated form of ConsumeSession: the delete's row count is not looked at
ConsumeUnchecked(r) ==
    /\ req[r].at = "consume"
    /\ Continue(r, req[r].op /= "logout", "newSession")
    /\ table' = table \ {req[r].id} /\ late' = late \ {req[r].id}
    /\ UNCHANGED <<users, secrets, issued, hashes, history>>

\* consumeSession: one DELETE, of which at most one request sees the row go
ConsumeSession(r) ==
    /\ req[r].at = "consume"
    /\ Continue(r, req[r].op /= "logout" /\ req[r].id \in table, "newSession")
    /\ table' = table \ {req[r].id} /\ late' = late \ {req[r].id}
    /\ UNCHANGED <<users, secrets, issued, hashes, history>>

\* A mutated form of NewSession: the hash that was verified is not compared
NewSessionAnyPassword(r) ==
    LET row == users[req[r].user] IN
    /\ req[r].at = "newSession"
    /\ IF row.exists /\ row.enabled
       THEN Become(r, [req[r] EXCEPT !.at = "create", !.copy.hash = row.hash])
       ELSE End(r)
    /\ UNCHANGED <<users, secrets, sessionVars, hashes, history>>

\* newSession re-reads the account: disabled, or another password by now?
NewSession(r) ==
    LET row == users[req[r].user] IN
    /\ req[r].at = "newSession"
    /\ Continue(r, row.exists /\ row.enabled /\ row.hash = req[r].copy.hash, "create")
    /\ UNCHANGED <<users, secrets, sessionVars, hashes, history>>

SessionKind(r) ==
    IF req[r].op \in Challenged /\ req[r].copy.twoFactor THEN "2fa" ELSE "login"

\* What follows the insert: the console saves the row it read at the start,
\* the portal reads it anew, a challenge and a refresh are answered at once
AfterCreate(r) ==
    CASE req[r].op = "refresh" \/ SessionKind(r) = "2fa" -> End(r)
      [] req[r].op = "login" /\ SessionKind(r) = "login" ->
            Become(r, [req[r] EXCEPT !.at = "save", !.verified = 1])
      [] OTHER ->
            Become(r, [Idle EXCEPT !.op = req[r].op, !.at = "reload", !.user = req[r].user])

\* SessionStore.Create prunes expired rows and inserts the new one
CreateSession(r) ==
    /\ req[r].at = "create"
    /\ Len(issued) < MaxSessions
    /\ issued' = Append(issued,
          [user |-> req[r].user, kind |-> SessionKind(r),
           credential |-> req[r].copy.hash, from |-> req[r].id,
           verified |-> req[r].verified])
    /\ table' = (table \ late) \cup {Len(issued) + 1} /\ late' = {}
    /\ AfterCreate(r)
    /\ UNCHANGED <<users, secrets, hashes, history>>

-----------------------------------------------------------------------------
(* The handlers that sign in *)

\* Login, of the console and of the portal, with the account's password
Login(r, u, op) ==
    /\ Free(r) /\ op \in Operations \cap Challenged
    /\ users[u].exists /\ users[u].enabled
    /\ Become(r, [Idle EXCEPT !.op = op, !.at = "newSession", !.user = u,
                              !.copy = users[u], !.verified = users[u].hash])
    /\ UNCHANGED <<users, secrets, sessionVars, hashes, history>>

\* PortalAuthHandler.updateLastLogin reads the row again before it saves it
Reload(r) ==
    /\ req[r].at = "reload"
    /\ IF users[req[r].user].exists
       THEN Become(r, [req[r] EXCEPT !.at = "save", !.copy = users[req[r].user]])
       ELSE End(r)
    /\ UNCHANGED <<users, secrets, sessionVars, hashes, history>>

\* History: account u had the hash old and now has the hash new
NoteHash(u, old, new) ==
    /\ replaced' = [replaced EXCEPT ![u] = IF new = old THEN @ ELSE @ \cup {old}]
    /\ restored' = IF new \in replaced[u] THEN restored \cup {u} ELSE restored

\* userRepo.Update: every column of the copy; Save inserts a row that is gone
SaveUser(r) ==
    /\ req[r].at = "save"
    /\ users' = [users EXCEPT ![req[r].user] = req[r].copy]
    /\ NoteHash(req[r].user, users[req[r].user].hash, req[r].copy.hash)
    /\ End(r)
    /\ UNCHANGED <<secrets, sessionVars, hashes>>

\* A session reaches the end of its life
Expire(i) ==
    /\ i \in table \ late
    /\ late' = late \cup {i}
    /\ UNCHANGED <<users, secrets, issued, table, hashes, req, history>>

-----------------------------------------------------------------------------
(* The handlers that change an account *)

\* Authenticate: u shows the access token of a current session
SignedIn(u) == \E i \in table : /\ issued[i].user = u
                                /\ SessionCurrent(i, "login") /\ CredentialCurrent(i)

\* A mutated form of Changed: an empty hash where the computed one belongs
ChangedUnhashed(op, row) ==
    IF op \in {"changePassword", "resetPassword"} THEN [row EXCEPT !.hash = 0] ELSE row

\* The copy a handler is going to save, and the hash it computed for it
Changed(op, row) ==
    CASE op \in {"changePassword", "resetPassword"} -> [row EXCEPT !.hash = hashes + 1]
      [] op = "disable" -> [row EXCEPT !.enabled = FALSE]
      [] op = "enable" -> [row EXCEPT !.enabled = TRUE]
      [] op = "demote" -> [row EXCEPT !.role = "user"]
      [] op = "promote" -> [row EXCEPT !.role = "admin"]
      [] OTHER -> row

Hashing(op) ==
    /\ op \in {"changePassword", "resetPassword"} => hashes < MaxHash
    /\ hashes' = hashes + (IF op \in {"changePassword", "resetPassword"} THEN 1 ELSE 0)

\* UpdateCurrentUser and ChangePassword, of the signed-in user
ChangeOwn(r, u, op) ==
    /\ Free(r) /\ op \in Operations \cap OwnChanges
    /\ SignedIn(u)
    /\ Hashing(op)
    /\ Become(r, [Idle EXCEPT !.op = op, !.at = "save", !.user = u,
                              !.copy = Changed(op, users[u])])
    /\ UNCHANGED <<users, secrets, sessionVars, history>>

\* Setup2FA: the secret's row is unique per user
Setup2FA(u) ==
    /\ "enable2FA" \in Operations /\ SignedIn(u)
    /\ u \notin secrets
    /\ secrets' = secrets \cup {u}
    /\ UNCHANGED <<users, sessionVars, hashes, req, history>>

\* Enable2FA: a code confirms the secret, and the account is marked
Enable2FA(u) ==
    /\ "enable2FA" \in Operations /\ SignedIn(u)
    /\ u \in secrets
    /\ users' = [users EXCEPT ![u].twoFactor = TRUE]
    /\ UNCHANGED <<secrets, sessionVars, hashes, req, history>>

\* Disable2FA deletes the secret
Disable2FA(u) ==
    /\ "disable2FA" \in Operations /\ SignedIn(u)
    /\ u \in secrets
    /\ secrets' = secrets \ {u}
    /\ UNCHANGED <<users, sessionVars, hashes, req, history>>

EnabledAdmins == {u \in Users : users[u].exists /\ users[u].enabled /\ users[u].role = "admin"}

\* ensureEnabledAdminRemains counts only when this change takes an admin away
TakesAdmin(op, row) ==
    row.role = "admin" /\ row.enabled /\ op \in {"disable", "demote", "delete"}

\* The handlers' own early returns, on the row they read
Sensible(op, actor, u, row) ==
    /\ op \in {"disable", "delete", "demote"} => actor /= u
    /\ op = "disable" => row.enabled
    /\ op = "enable" => ~row.enabled
    /\ op = "demote" => row.role = "admin"
    /\ op = "promote" => row.role = "user" /\ actor /= u

Finish(op) == IF op = "delete" THEN "remove" ELSE "save"

(***************************************************************************)
(* UpdateUser (role), DisableUser, EnableUser, DeleteUser and ResetPassword *)
(* by an enabled admin, who may manage every account.  (The session the     *)
(* admin shows is one of those above; it is not followed here.)             *)
(***************************************************************************)
AdminChange(r, actor, u, op) ==
    /\ Free(r) /\ op \in Operations \cap AdminChanges
    /\ actor \in EnabledAdmins
    /\ users[u].exists /\ Sensible(op, actor, u, users[u])
    /\ Hashing(op)
    /\ Become(r, [Idle EXCEPT !.op = op, !.user = u, !.copy = Changed(op, users[u]),
                     !.at = IF TakesAdmin(op, users[u]) THEN "count" ELSE Finish(op)])
    /\ UNCHANGED <<users, secrets, sessionVars, history>>

\* countEnabledAdmins, a statement of its own before the save
CountAdmins(r) ==
    /\ req[r].at = "count"
    /\ Continue(r, Cardinality(EnabledAdmins) > 1, Finish(req[r].op))
    /\ UNCHANGED <<users, secrets, sessionVars, hashes, history>>

\* userRepo.Delete
RemoveUser(r) ==
    /\ req[r].at = "remove"
    /\ users' = [users EXCEPT ![req[r].user].exists = FALSE]
    /\ End(r)
    /\ UNCHANGED <<secrets, sessionVars, hashes, history>>

-----------------------------------------------------------------------------
Next ==
    \/ \E r \in Requests :
          \/ \E u \in Clients, op \in Challenged : Login(r, u, op)
          \/ \E i \in Ids, op \in TokenUses : Present(r, i, op)
          \/ GetSession(r)
          \/ CheckUser(r)
          \/ GetUser(r)
          \/ ConsumeSession(r)
          \/ NewSession(r)
          \/ CreateSession(r)
          \/ Reload(r)
          \/ SaveUser(r)
          \/ \E u \in Clients, op \in OwnChanges : ChangeOwn(r, u, op)
          \/ \E actor \in Users, u \in Clients, op \in AdminChanges : AdminChange(r, actor, u, op)
          \/ CountAdmins(r)
          \/ RemoveUser(r)
    \/ \E i \in Ids : Expire(i)
    \/ \E u \in Clients : Setup2FA(u)
    \/ \E u \in Clients : Enable2FA(u)
    \/ \E u \in Clients : Disable2FA(u)

Spec == Init /\ [][Next]_vars

-----------------------------------------------------------------------------
(* What signing in promises *)

(***************************************************************************)
(* "Its delete is atomic across requests and processes, so a refresh cannot *)
(* be replayed" (ConsumeRefreshToken): a session, or a second-factor        *)
(* challenge, is replaced by at most one session, and is out of the table   *)
(* before its successor is in it - whatever requests present it at once.    *)
(***************************************************************************)
OneSuccessor ==
    /\ \A i, j \in Ids : issued[i].from = issued[j].from /\ issued[i].from /= 0 => i = j
    /\ \A i \in Ids : issued[i].from \notin table

(***************************************************************************)
(* "A password check that raced a password change cannot open a new         *)
(* session" (session_test.go), also through a refresh or a second-factor    *)
(* challenge: the fingerprint of every session, and so what keeps it        *)
(* current, is that of the very password the client was verified with - as  *)
(* long as no stale save has given the account a lost password back.        *)
(***************************************************************************)
SessionProvesPassword ==
    \A i \in Ids : \/ issued[i].credential = issued[i].verified
                   \/ issued[i].user \in restored

(***************************************************************************)
(* "Disable2FA disables 2FA for a user": an account of which the login      *)
(* demands a second factor has a secret that can answer it.                 *)
(***************************************************************************)
SecondFactorAnswerable == \A u \in Users : users[u].twoFactor => u \in secrets
=============================================================================
