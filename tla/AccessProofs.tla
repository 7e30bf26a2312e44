----------------------------- MODULE AccessProofs -----------------------------
(***************************************************************************)
(* Proofs about who may go on: of Access (the sessions of users), for any   *)
(* numbers of accounts, requests, passwords and sessions and whatever       *)
(* operations clients ask for; and, at the end, of NodeHealth (the token    *)
(* and the status of a node), for any numbers of proxies, thresholds and    *)
(* changes.  The two modules share no state.                                *)
(***************************************************************************)
EXTENDS Access, NodeHealth, SumLemmas, TLAPS

-----------------------------------------------------------------------------
(* The inductive invariant.  Its parts speak of the record q of a request.   *)

Request == [op: AllOperations \cup {"none"}, at: Steps, user: Users \cup {NoUser},
            id: 0..MaxSessions, copy: UserRow, verified: 1..MaxHash]

\* The steps of a request that has been shown a token and not yet consumed its
\* session, and those of one that is going to open a session
Holding == {"checkUser", "getUser", "getSession", "checkUser2", "consume"}
Opening == {"newSession", "create"}

\* A request that has begun knows its account; one that was shown a token knows
\* a session of that account
Knows(q) ==
    /\ q.at # "idle" => q.user \in Users
    /\ q.at \in Holding => q.id \in Ids /\ issued[q.id].user = q.user
    /\ q.at \in Opening => q.id \in Ids \cup {0}

\* The session a request has consumed is out of the table, has no successor yet
\* and is nobody else's
Consumed(q) == q.at \in Opening /\ q.id # 0
Spent(i) == i \notin table /\ \A j \in Ids : issued[j].from # i
OnlyOne == \A r, s \in Requests :
    Consumed(req[r]) /\ Consumed(req[s]) /\ req[r].id = req[s].id => r = s

\* A session replaces an older one
FromOlder == \A i \in Ids : issued[i].from \in 0..Len(issued)

\* An account has a hash it had lost before only when that was noted
LostHashNoted == \A u \in Users : users[u].hash \in replaced[u] => u \in restored

(***************************************************************************)
(* What a request knows of the password, step by step: the hash it read is  *)
(* the one its session was opened under, or that one was lost since; when   *)
(* it consumes the session the account has that hash, so that in the second *)
(* case it came back.                                                       *)
(***************************************************************************)
HashRead(q) ==
    /\ q.at = "getUser" =>
          \/ users[q.user].hash = issued[q.id].credential
          \/ issued[q.id].credential \in replaced[q.user]
    /\ q.at \in {"getSession", "checkUser2"} =>
          /\ \/ q.copy.hash = issued[q.id].credential
             \/ issued[q.id].credential \in replaced[q.user]
          /\ q.verified = issued[q.id].verified

HashProved(q) ==
    q.at \in Opening \/ (q.at = "consume" /\ q.op # "logout")
        => q.copy.hash = q.verified \/ q.user \in restored

Sound(q) ==
    /\ Knows(q)
    /\ Consumed(q) => Spent(q.id)
    /\ HashRead(q)
    /\ HashProved(q)

AccessInv ==
    /\ AccessTypeOK
    /\ OneSuccessor /\ FromOlder /\ OnlyOne
    /\ SessionProvesPassword /\ LostHashNoted
    /\ \A r \in Requests : Sound(req[r])

-----------------------------------------------------------------------------
(* Facts the steps share *)

\* A request that has not begun
LEMMA IdleSound == Idle \in Request /\ Sound(Idle) /\ ~Consumed(Idle)
<1>1. NoRow \in UserRow
  BY AccessAssumption DEF NoRow, UserRow
<1>2. Idle \in Request
  BY <1>1, AccessAssumption DEF Idle, Request, Steps
<1> QED
  BY <1>2 DEF Idle, Sound, Knows, Holding, Opening, Consumed, HashRead, HashProved

\* The records of the requests are well typed
LEMMA RequestType == ASSUME AccessInv PROVE req \in [Requests -> Request]
  BY DEF AccessInv, AccessTypeOK, Request

(***************************************************************************)
(* A step that touches only the record of its own request, and perhaps      *)
(* computes a hash, keeps the invariant if the new record satisfies it.     *)
(***************************************************************************)
LEMMA RequestMoves ==
    ASSUME AccessInv, NEW r \in Requests, NEW q \in Request,
           req' = [req EXCEPT ![r] = q], hashes' \in 1..MaxHash,
           UNCHANGED <<users, secrets, sessionVars, history>>,
           Sound(q),
           \A s \in Requests \ {r} : Consumed(q) /\ Consumed(req[s]) => req[s].id # q.id
    PROVE  AccessInv'
<1> USE DEF sessionVars, history
<1>1. req' \in [Requests -> Request]
  BY RequestType
<1>2. AccessTypeOK'
  BY <1>1 DEF AccessInv, AccessTypeOK, Request, Ids
<1>3. OneSuccessor' /\ FromOlder' /\ SessionProvesPassword' /\ LostHashNoted'
  BY DEF AccessInv, OneSuccessor, FromOlder, SessionProvesPassword, LostHashNoted, Ids
<1>4. \A s \in Requests : req'[s] = IF s = r THEN q ELSE req[s]
  BY RequestType
<1>5. OnlyOne'
  BY <1>4 DEF AccessInv, OnlyOne, Consumed
<1>6. \A p : Sound(p) => Sound(p)'
  BY DEF Sound, Knows, Consumed, Spent, HashRead, HashProved, Ids
<1>7. \A s \in Requests : Sound(req[s])'
  BY <1>4, <1>6 DEF AccessInv
<1> QED
  BY <1>2, <1>3, <1>5, <1>7 DEF AccessInv

\* A request that ends, or goes on to a step that needs no more than it has
LEMMA RequestEnds ==
    ASSUME AccessInv, NEW r \in Requests, End(r), hashes' \in 1..MaxHash,
           UNCHANGED <<users, secrets, sessionVars, history>>
    PROVE  AccessInv'
  BY IdleSound, RequestMoves DEF End

\* Continue either ends the request or moves it on, with a sound record
LEMMA RequestContinues ==
    ASSUME AccessInv, NEW r \in Requests, NEW ok, NEW step \in Steps \ Opening,
           Continue(r, ok, step),
           ok => Sound([req[r] EXCEPT !.at = step]),
           UNCHANGED <<users, secrets, sessionVars, hashes, history>>
    PROVE  AccessInv'
<1>1. hashes' \in 1..MaxHash
  BY DEF AccessInv, AccessTypeOK
<1>2. CASE ok
  <2> DEFINE q == [req[r] EXCEPT !.at = step]
  <2>1. req[r] \in Request
    BY RequestType
  <2>2. q \in Request /\ q.at = step
    BY <2>1 DEF Request
  <2>3. req' = [req EXCEPT ![r] = q]
    BY <1>2, RequestType DEF Continue, Goto
  <2>4. Sound(q) /\ ~Consumed(q)
    BY <1>2, <2>2 DEF Consumed
  <2> HIDE DEF q
  <2> QED
    BY <1>1, <2>2, <2>3, <2>4, RequestMoves
<1>3. CASE ~ok
  BY <1>1, <1>3, RequestEnds DEF Continue
<1> QED
  BY <1>2, <1>3

-----------------------------------------------------------------------------
(* One lemma per action *)

LEMMA LoginKeeps ==
    ASSUME AccessInv, NEW r \in Requests, NEW u \in Clients, NEW op \in Challenged, Login(r, u, op)
    PROVE  AccessInv'
<1> DEFINE q == [Idle EXCEPT !.op = op, !.at = "newSession", !.user = u,
                             !.copy = users[u], !.verified = users[u].hash]
<1>1. u \in Users /\ users[u] \in UserRow /\ users[u].hash \in 1..MaxHash
  BY AccessAssumption DEF AccessInv, AccessTypeOK, UserRow
<1>2. /\ q \in Request /\ q.at = "newSession" /\ q.user = u /\ q.id = 0
      /\ q.copy.hash = q.verified
  BY <1>1, IdleSound DEF Idle, Request, Steps, AllOperations
<1>3. Sound(q) /\ ~Consumed(q)
  BY <1>1, <1>2 DEF Sound, Knows, Consumed, HashRead, HashProved, Holding, Opening
<1>4. req' = [req EXCEPT ![r] = q]
  BY DEF Login, Become
<1> HIDE DEF q
<1> QED
  BY <1>2, <1>3, <1>4, RequestMoves DEF Login, AccessInv, AccessTypeOK

LEMMA PresentKeeps ==
    ASSUME AccessInv, NEW r \in Requests, NEW i \in Ids, NEW op \in TokenUses, Present(r, i, op)
    PROVE  AccessInv'
<1> DEFINE q == [Idle EXCEPT !.op = op, !.at = "checkUser", !.id = i, !.user = issued[i].user]
<1>1. i \in 0..MaxSessions /\ issued[i] \in Session
  BY AccessAssumption DEF AccessInv, AccessTypeOK, Ids
<1>2. q \in Request /\ q.at = "checkUser" /\ q.user = issued[i].user /\ q.id = i
  BY <1>1, IdleSound DEF Idle, Request, Steps, AllOperations, Session
<1>3. Sound(q) /\ ~Consumed(q)
  BY <1>1, <1>2 DEF Sound, Knows, Consumed, HashRead, HashProved, Holding, Opening, Session
<1>4. req' = [req EXCEPT ![r] = q]
  BY DEF Present, Become
<1> HIDE DEF q
<1> QED
  BY <1>2, <1>3, <1>4, RequestMoves DEF Present, AccessInv, AccessTypeOK

LEMMA GetSessionKeeps ==
    ASSUME AccessInv, NEW r \in Requests, GetSession(r)
    PROVE  AccessInv'
<1>1. req[r] \in Request /\ Sound(req[r]) /\ req[r].at = "getSession"
  BY RequestType DEF AccessInv, GetSession
<1>2. Sound([req[r] EXCEPT !.at = "checkUser2"])
  BY <1>1 DEF Sound, Knows, Consumed, HashRead, HashProved, Holding, Opening, Request
<1> QED
  BY <1>2, RequestContinues DEF GetSession, Steps, Opening

LEMMA CheckUserKeeps ==
    ASSUME AccessInv, NEW r \in Requests, CheckUser(r)
    PROVE  AccessInv'
<1> DEFINE step == IF req[r].at = "checkUser" /\ req[r].op # "logout" THEN "getUser" ELSE "consume"
           q == [req[r] EXCEPT !.at = step]
<1>1. req[r] \in Request /\ Sound(req[r]) /\ req[r].at \in {"checkUser", "checkUser2"}
  BY RequestType DEF AccessInv, CheckUser
<1>2. req[r].user \in Users /\ req[r].id \in Ids /\ issued[req[r].id].user = req[r].user
  BY <1>1 DEF Sound, Knows, Holding
<1>3. ASSUME CredentialCurrent(req[r].id) PROVE Sound(q)
  <2>1. users[req[r].user].hash = issued[req[r].id].credential
    BY <1>2, <1>3 DEF CredentialCurrent
  <2>2. q.at = step /\ q.user = req[r].user /\ q.id = req[r].id /\ q.copy = req[r].copy
        /\ q.verified = req[r].verified /\ q.op = req[r].op
    BY <1>1 DEF Request
  <2>3. Knows(q) /\ ~Consumed(q)
    BY <1>2, <2>2 DEF Knows, Consumed, Opening, Holding
  <2>4. HashRead(q)
    BY <2>1, <2>2 DEF HashRead
  <2>5. ASSUME q.at = "consume", q.op # "logout" PROVE q.copy.hash = q.verified \/ q.user \in restored
    <3>1. req[r].at = "checkUser2"
      BY <1>1, <2>2, <2>5
    <3>2. CASE issued[req[r].id].credential \in replaced[req[r].user]
      BY <1>2, <2>1, <2>2, <3>2 DEF AccessInv, LostHashNoted
    <3>3. CASE req[r].copy.hash = issued[req[r].id].credential
      BY <1>1, <1>2, <2>2, <3>1, <3>3 DEF AccessInv, SessionProvesPassword, Sound, HashRead
    <3> QED
      BY <1>1, <3>1, <3>2, <3>3 DEF Sound, HashRead
  <2> QED
    BY <2>2, <2>3, <2>4, <2>5 DEF Sound, HashProved, Opening
<1>4. step \in Steps \ Opening
  BY DEF Steps, Opening
<1>5. Continue(r, CredentialCurrent(req[r].id), step)
  BY DEF CheckUser
<1> HIDE DEF step
<1> QED
  BY <1>3, <1>4, <1>5, RequestContinues DEF CheckUser

LEMMA GetUserKeeps ==
    ASSUME AccessInv, NEW r \in Requests, GetUser(r)
    PROVE  AccessInv'
<1> DEFINE account == users[req[r].user]
           q == [req[r] EXCEPT !.at = "getSession", !.copy = account,
                               !.verified = issued[req[r].id].verified]
<1>1. req[r] \in Request /\ Sound(req[r]) /\ req[r].at = "getUser"
  BY RequestType DEF AccessInv, GetUser
<1>2. /\ req[r].user \in Users /\ req[r].id \in Ids /\ issued[req[r].id].user = req[r].user
      /\ account \in UserRow /\ issued[req[r].id] \in Session
  BY <1>1 DEF Sound, Knows, Holding, AccessInv, AccessTypeOK, Ids
<1>3. /\ q \in Request /\ q.at = "getSession" /\ q.user = req[r].user /\ q.id = req[r].id
      /\ q.copy = account /\ q.verified = issued[req[r].id].verified
  BY <1>1, <1>2 DEF Request, Session, Steps
<1>4. Sound(q) /\ ~Consumed(q)
  BY <1>1, <1>2, <1>3 DEF Sound, Knows, Consumed, HashRead, HashProved, Holding, Opening
<1>5. CASE req' = [req EXCEPT ![r] = q]
  <2> HIDE DEF q
  <2> QED
    BY <1>3, <1>4, <1>5, RequestMoves DEF GetUser, AccessInv, AccessTypeOK
<1>6. CASE End(r)
  BY <1>6, RequestEnds DEF GetUser, AccessInv, AccessTypeOK
<1> QED
  BY <1>5, <1>6 DEF GetUser, Become

LEMMA ConsumeSessionKeeps ==
    ASSUME AccessInv, NEW r \in Requests, ConsumeSession(r)
    PROVE  AccessInv'
<1> USE DEF history
<1>1. req[r] \in Request /\ Sound(req[r]) /\ req[r].at = "consume" /\ req[r].id \in Ids
  BY RequestType DEF AccessInv, ConsumeSession, Sound, Knows, Holding
<1>2. PICK q \in Request :
        /\ req' = [req EXCEPT ![r] = q]
        /\ \/ q = Idle
           \/ /\ req[r].op # "logout" /\ req[r].id \in table
              /\ q.at = "newSession" /\ q.op = req[r].op /\ q.user = req[r].user
              /\ q.id = req[r].id /\ q.copy = req[r].copy /\ q.verified = req[r].verified
  <2>1. CASE req[r].op # "logout" /\ req[r].id \in table
    <3> DEFINE p == [req[r] EXCEPT !.at = "newSession"]
    <3>1. req' = [req EXCEPT ![r] = p]
      BY <2>1, RequestType DEF ConsumeSession, Continue, Goto
    <3>2. /\ p \in Request /\ p.at = "newSession" /\ p.op = req[r].op /\ p.user = req[r].user
          /\ p.id = req[r].id /\ p.copy = req[r].copy /\ p.verified = req[r].verified
      BY <1>1 DEF Request, Steps
    <3> QED
      BY <2>1, <3>1, <3>2
  <2>2. CASE ~(req[r].op # "logout" /\ req[r].id \in table)
    BY <2>2, IdleSound DEF ConsumeSession, Continue, End
  <2> QED
    BY <2>1, <2>2
<1>3. \A s \in Requests : req'[s] = IF s = r THEN q ELSE req[s]
  BY <1>2, RequestType
<1>4. UNCHANGED <<users, secrets, issued, hashes, replaced, restored>>
      /\ table' = table \ {req[r].id} /\ late' = late \ {req[r].id}
  BY DEF ConsumeSession
<1>5. AccessTypeOK'
  <2>1. req' \in [Requests -> Request]
    BY <1>2, RequestType
  <2> QED
    BY <1>4, <2>1 DEF AccessInv, AccessTypeOK, Request, Ids
<1>6. OneSuccessor' /\ FromOlder' /\ SessionProvesPassword' /\ LostHashNoted'
  BY <1>4 DEF AccessInv, OneSuccessor, FromOlder, SessionProvesPassword, LostHashNoted, Ids
<1>7. OnlyOne'
  <2>1. \A s \in Requests : Consumed(req[s]) => req[s].id \notin table
    BY DEF AccessInv, Sound, Spent
  <2>2. ~Consumed(Idle)
    BY IdleSound
  <2> QED
    BY <1>2, <1>3, <2>1, <2>2 DEF AccessInv, OnlyOne, Consumed
<1>8. \A p : Sound(p) => Sound(p)'
  BY <1>4 DEF Sound, Knows, Consumed, Spent, HashRead, HashProved, Ids
<1>9. Sound(q)'
  <2>1. CASE q = Idle
    BY <1>8, <2>1, IdleSound
  <2>2. CASE q # Idle
    <3>1. Knows(q)' /\ HashRead(q)'
      BY <1>1, <1>2, <1>4, <2>2 DEF Sound, Knows, HashRead, Holding, Opening, Ids
    <3>2. HashProved(q)'
      BY <1>1, <1>2, <1>4, <2>2 DEF Sound, HashProved, Opening
    <3>3. Spent(q.id)'
      BY <1>2, <1>4, <2>2 DEF AccessInv, OneSuccessor, Spent, Ids
    <3> QED
      BY <3>1, <3>2, <3>3 DEF Sound
  <2> QED
    BY <2>1, <2>2
<1>10. \A s \in Requests : Sound(req[s])'
  BY <1>3, <1>8, <1>9 DEF AccessInv
<1> QED
  BY <1>5, <1>6, <1>7, <1>10 DEF AccessInv

LEMMA NewSessionKeeps ==
    ASSUME AccessInv, NEW r \in Requests, NewSession(r)
    PROVE  AccessInv'
<1> DEFINE q == [req[r] EXCEPT !.at = "create"]
<1>1. req[r] \in Request /\ Sound(req[r]) /\ req[r].at = "newSession"
  BY RequestType DEF AccessInv, NewSession
<1>2. /\ q \in Request /\ q.at = "create" /\ q.op = req[r].op /\ q.user = req[r].user
      /\ q.id = req[r].id /\ q.copy = req[r].copy /\ q.verified = req[r].verified
  BY <1>1 DEF Request, Steps
<1>3. Sound(q) /\ (Consumed(q) => Consumed(req[r]))
  BY <1>1, <1>2 DEF Sound, Knows, Consumed, HashRead, HashProved, Holding, Opening
<1>4. \A s \in Requests \ {r} : Consumed(q) /\ Consumed(req[s]) => req[s].id # q.id
  BY <1>2, <1>3 DEF AccessInv, OnlyOne
<1>5. CASE req' = [req EXCEPT ![r] = q]
  <2> HIDE DEF q
  <2> QED
    BY <1>2, <1>3, <1>4, <1>5, RequestMoves DEF NewSession, AccessInv, AccessTypeOK
<1>6. CASE End(r)
  BY <1>6, RequestEnds DEF NewSession, AccessInv, AccessTypeOK
<1> QED
  BY <1>5, <1>6, RequestType DEF NewSession, Continue, Goto

\* What a request is after the insert: it is over, or it has only a row to save
LEMMA AfterCreateIs ==
    ASSUME AccessInv, NEW r \in Requests, req[r].at = "create", AfterCreate(r)
    PROVE  \E q \in Request : /\ req' = [req EXCEPT ![r] = q]
                              /\ q.at \in {"idle", "save", "reload"}
                              /\ q.at # "idle" => q.user \in Users
<1>1. req[r] \in Request /\ req[r].user \in Users
  BY RequestType DEF AccessInv, Sound, Knows
<1>2. CASE req[r].op = "refresh" \/ SessionKind(r) = "2fa"
  <2>1. End(r)
    BY <1>2 DEF AfterCreate
  <2> QED
    BY <2>1, IdleSound DEF End, Idle
<1>3. CASE req[r].op = "login" /\ SessionKind(r) = "login"
  <2> DEFINE q == [req[r] EXCEPT !.at = "save", !.verified = 1]
  <2>1. req' = [req EXCEPT ![r] = q]
    BY <1>3 DEF AfterCreate, Become
  <2>2. 1 \in 1..MaxHash
    BY AccessAssumption
  <2>3. q \in Request /\ q.at = "save" /\ q.user = req[r].user
    BY <1>1, <2>2 DEF Request, Steps
  <2> QED
    BY <1>1, <2>1, <2>3
<1>4. CASE ~(req[r].op = "refresh" \/ SessionKind(r) = "2fa") /\ req[r].op # "login"
  <2> DEFINE q == [Idle EXCEPT !.op = req[r].op, !.at = "reload", !.user = req[r].user]
  <2>1. req' = [req EXCEPT ![r] = q]
    BY <1>4 DEF AfterCreate, Become
  <2>2. q \in Request /\ q.at = "reload" /\ q.user = req[r].user
    BY <1>1, IdleSound DEF Request, Steps, Idle
  <2> QED
    BY <1>1, <2>1, <2>2
<1> QED
  BY <1>2, <1>3, <1>4 DEF SessionKind

(***************************************************************************)
(* The insert.  The new session's id is larger than any id in use, so it is *)
(* nobody's predecessor, and the session it replaces was consumed by this   *)
(* request alone.                                                           *)
(***************************************************************************)
LEMMA CreateSessionKeeps ==
    ASSUME AccessInv, NEW r \in Requests, CreateSession(r)
    PROVE  AccessInv'
<1> USE DEF history
<1> DEFINE n == Len(issued) + 1
           new == [user |-> req[r].user, kind |-> SessionKind(r),
                   credential |-> req[r].copy.hash, from |-> req[r].id,
                   verified |-> req[r].verified]
<1>1. /\ req[r] \in Request /\ Sound(req[r]) /\ req[r].at = "create"
      /\ req[r].user \in Users /\ req[r].id \in Ids \cup {0}
  BY RequestType DEF AccessInv, CreateSession, Sound, Knows, Opening
<1>2. PICK q \in Request : /\ req' = [req EXCEPT ![r] = q]
                           /\ q.at \in {"idle", "save", "reload"}
                           /\ q.at # "idle" => q.user \in Users
  BY <1>1, AfterCreateIs DEF CreateSession
<1>3. \A s \in Requests : req'[s] = IF s = r THEN q ELSE req[s]
  BY <1>2, RequestType
<1>4. /\ UNCHANGED <<users, secrets, hashes, replaced, restored>>
      /\ issued' = Append(issued, new)
      /\ table' = (table \ late) \cup {n} /\ late' = {} /\ Len(issued) < MaxSessions
  BY DEF CreateSession
<1>5. new \in Session
  BY <1>1 DEF Session, Request, UserRow, SessionKind
<1>6. issued \in Seq(Session) /\ Len(issued) \in Nat /\ table \subseteq Ids
  BY DEF AccessInv, AccessTypeOK
<1>7. /\ new.from = req[r].id /\ new.user = req[r].user
      /\ new.credential = req[r].copy.hash /\ new.verified = req[r].verified
  OBVIOUS
<1> HIDE DEF new
<1>8. /\ issued' \in Seq(Session) /\ Len(issued') = n
      /\ \A i \in Ids : issued'[i] = issued[i]
      /\ issued'[n] = new
  BY <1>4, <1>5, <1>6 DEF Ids
<1>9. Ids' = Ids \cup {n} /\ n \notin Ids /\ n # 0
  BY <1>6, <1>8 DEF Ids
<1>10. AccessTypeOK'
  <2>1. req' \in [Requests -> Request]
    BY <1>2, RequestType
  <2> QED
    BY <1>4, <1>6, <1>8, <1>9, <2>1, AccessAssumption DEF AccessInv, AccessTypeOK, Request
<1>11. req[r].id # 0 => Spent(req[r].id)
  BY <1>1 DEF Sound, Consumed, Opening
<1>12. FromOlder' /\ \A i \in Ids : issued[i].from # n
  BY <1>1, <1>6, <1>7, <1>8, <1>9 DEF AccessInv, FromOlder, Ids
<1>13. OneSuccessor'
  <2>1. \A i, j \in Ids' : issued'[i].from = issued'[j].from /\ issued'[i].from # 0 => i = j
    BY <1>7, <1>8, <1>9, <1>11 DEF AccessInv, OneSuccessor, Spent
  <2>2. req[r].id \notin table
    BY <1>6, <1>9, <1>11 DEF Spent, Ids
  <2>3. \A i \in Ids' : issued'[i].from \notin table'
    BY <1>1, <1>4, <1>7, <1>8, <1>9, <1>12, <2>2 DEF AccessInv, OneSuccessor
  <2> QED
    BY <2>1, <2>3 DEF OneSuccessor
<1>14. SessionProvesPassword' /\ LostHashNoted'
  BY <1>1, <1>4, <1>7, <1>8, <1>9
     DEF AccessInv, SessionProvesPassword, LostHashNoted, Sound, HashProved, Opening
<1>15. ~Consumed(q) /\ Sound(q)'
  BY <1>2, <1>4 DEF Sound, Knows, Consumed, HashRead, HashProved, Holding, Opening
<1>16. OnlyOne'
  BY <1>3, <1>15 DEF AccessInv, OnlyOne, Consumed
<1>17. ASSUME NEW s \in Requests \ {r} PROVE Sound(req[s])'
  <2>1. Sound(req[s]) /\ req'[s] = req[s] /\ req[s] \in Request
    BY <1>3, RequestType DEF AccessInv
  <2>2. Knows(req[s])'
    BY <1>8, <1>9, <2>1 DEF Sound, Knows
  <2>3. ASSUME Consumed(req[s]) PROVE Spent(req[s].id)'
    <3>1. req[s].id \in Ids
      BY <2>1, <2>3 DEF Sound, Knows, Consumed
    <3>2. req[s].id # req[r].id \/ req[r].id = 0
      BY <1>1, <1>17, <2>3 DEF AccessInv, OnlyOne, Consumed, Opening
    <3>3. Spent(req[s].id)
      BY <2>1, <2>3 DEF Sound
    <3> QED
      BY <1>4, <1>7, <1>8, <1>9, <2>1, <2>3, <3>1, <3>2, <3>3 DEF Spent, Consumed
  <2>4. HashRead(req[s])' /\ HashProved(req[s])'
    BY <1>4, <1>8, <2>1 DEF Sound, Knows, HashRead, HashProved, Holding
  <2> QED
    BY <2>1, <2>2, <2>3, <2>4 DEF Sound, Consumed
<1>18. \A s \in Requests : Sound(req[s])'
  BY <1>3, <1>15, <1>17
<1> QED
  BY <1>10, <1>12, <1>13, <1>14, <1>16, <1>18 DEF AccessInv

LEMMA ReloadKeeps ==
    ASSUME AccessInv, NEW r \in Requests, Reload(r)
    PROVE  AccessInv'
<1> DEFINE q == [req[r] EXCEPT !.at = "save", !.copy = users[req[r].user]]
<1>1. req[r] \in Request /\ req[r].at = "reload" /\ req[r].user \in Users
  BY RequestType DEF AccessInv, Reload, Sound, Knows
<1>2. users[req[r].user] \in UserRow
  BY <1>1 DEF AccessInv, AccessTypeOK
<1>3. q \in Request /\ q.at = "save" /\ q.user = req[r].user
  BY <1>1, <1>2 DEF Request, Steps
<1>4. Sound(q) /\ ~Consumed(q)
  BY <1>1, <1>3 DEF Sound, Knows, Consumed, HashRead, HashProved, Holding, Opening
<1>5. CASE req' = [req EXCEPT ![r] = q]
  <2> HIDE DEF q
  <2> QED
    BY <1>3, <1>4, <1>5, RequestMoves DEF Reload, AccessInv, AccessTypeOK
<1>6. CASE End(r)
  BY <1>6, RequestEnds DEF Reload, AccessInv, AccessTypeOK
<1> QED
  BY <1>5, <1>6 DEF Reload, Become

(***************************************************************************)
(* A step that changes accounts keeps the invariant if it forgets nothing   *)
(* of the history and notes every hash that is lost; its request is over.   *)
(***************************************************************************)
LEMMA AccountsMove ==
    ASSUME AccessInv, users' \in [Users -> UserRow], secrets' \subseteq Users,
           replaced' \in [Users -> SUBSET (1..MaxHash)], restored' \subseteq Users,
           restored \subseteq restored',
           \A u \in Users : /\ replaced[u] \subseteq replaced'[u]
                            /\ \/ users'[u].hash = users[u].hash
                               \/ users[u].hash \in replaced'[u],
           LostHashNoted',
           UNCHANGED <<sessionVars, hashes>>,
           UNCHANGED req \/ \E r \in Requests : End(r)
    PROVE  AccessInv'
<1> USE DEF sessionVars
<1>1. \A s \in Requests : req'[s] = req[s] \/ req'[s] = Idle
  BY RequestType DEF End
<1>2. req' \in [Requests -> Request]
  BY RequestType, IdleSound DEF End
<1>3. AccessTypeOK'
  BY <1>2 DEF AccessInv, AccessTypeOK, Request, Ids
<1>4. OneSuccessor' /\ FromOlder' /\ SessionProvesPassword'
  BY DEF AccessInv, OneSuccessor, FromOlder, SessionProvesPassword, Ids
<1>5. OnlyOne'
  BY <1>1, IdleSound DEF AccessInv, OnlyOne, Consumed
<1>6. ASSUME NEW p, Sound(p) PROVE Sound(p)'
  <2>1. Knows(p)' /\ (Consumed(p) => Spent(p.id)')
    BY <1>6 DEF Sound, Knows, Spent, Ids
  <2>2. HashRead(p)' /\ HashProved(p)'
    BY <1>6 DEF Sound, Knows, HashRead, HashProved, Holding, Opening
  <2> QED
    BY <2>1, <2>2 DEF Sound, Consumed
<1>7. \A s \in Requests : Sound(req[s])'
  BY <1>1, <1>6, IdleSound DEF AccessInv
<1> QED
  BY <1>3, <1>4, <1>5, <1>7 DEF AccessInv

\* The save of a copy, stale or not, notes the hash it replaces
LEMMA SaveUserKeeps ==
    ASSUME AccessInv, NEW r \in Requests, SaveUser(r)
    PROVE  AccessInv'
<1> DEFINE u == req[r].user
           old == users[u].hash
           new == req[r].copy.hash
<1>1. req[r] \in Request /\ u \in Users /\ req[r].copy \in UserRow
  BY RequestType DEF AccessInv, SaveUser, Sound, Knows, Request
<1>2. users \in [Users -> UserRow] /\ replaced \in [Users -> SUBSET (1..MaxHash)]
      /\ restored \subseteq Users /\ secrets \subseteq Users /\ LostHashNoted
  BY DEF AccessInv, AccessTypeOK
<1>3. old \in 1..MaxHash /\ new \in 1..MaxHash
  BY <1>1, <1>2 DEF UserRow
<1>4. /\ users' = [users EXCEPT ![u] = req[r].copy]
      /\ replaced' = [replaced EXCEPT ![u] = IF new = old THEN @ ELSE @ \cup {old}]
      /\ restored' = IF new \in replaced[u] THEN restored \cup {u} ELSE restored
  BY DEF SaveUser, NoteHash
<1>5. /\ users' \in [Users -> UserRow] /\ replaced' \in [Users -> SUBSET (1..MaxHash)]
      /\ restored' \subseteq Users /\ restored \subseteq restored'
  BY <1>1, <1>2, <1>3, <1>4
<1>6. \A v \in Users : /\ replaced[v] \subseteq replaced'[v]
                       /\ \/ users'[v].hash = users[v].hash
                          \/ users[v].hash \in replaced'[v]
  BY <1>1, <1>2, <1>4
<1>7. LostHashNoted'
  BY <1>1, <1>2, <1>4 DEF LostHashNoted
<1> QED
  BY <1>2, <1>5, <1>6, <1>7, AccountsMove DEF SaveUser

\* A change of other columns of an account
LEMMA ColumnsKeep ==
    ASSUME AccessInv, users' \in [Users -> UserRow],
           \A u \in Users : users'[u].hash = users[u].hash,
           UNCHANGED <<secrets, sessionVars, hashes, history>>,
           UNCHANGED req \/ \E r \in Requests : End(r)
    PROVE  AccessInv'
<1>1. LostHashNoted'
  BY DEF AccessInv, LostHashNoted, history
<1>2. /\ replaced' \in [Users -> SUBSET (1..MaxHash)] /\ restored' \subseteq Users
      /\ restored \subseteq restored' /\ secrets' \subseteq Users
      /\ \A u \in Users : replaced[u] \subseteq replaced'[u]
  BY DEF AccessInv, AccessTypeOK, history
<1> QED
  BY <1>1, <1>2, AccountsMove

LEMMA RemoveUserKeeps ==
    ASSUME AccessInv, NEW r \in Requests, RemoveUser(r)
    PROVE  AccessInv'
<1>1. req[r].user \in Users
  BY RequestType DEF AccessInv, RemoveUser, Sound, Knows
<1>2. users \in [Users -> UserRow]
  BY DEF AccessInv, AccessTypeOK
<1>3. /\ users' \in [Users -> UserRow]
      /\ \A u \in Users : users'[u].hash = users[u].hash
  BY <1>1, <1>2 DEF RemoveUser, UserRow
<1> QED
  BY <1>3, ColumnsKeep DEF RemoveUser

LEMMA TwoFactorKeeps ==
    ASSUME AccessInv, NEW u \in Clients, Setup2FA(u) \/ Enable2FA(u) \/ Disable2FA(u)
    PROVE  AccessInv'
<1>1. u \in Users /\ users \in [Users -> UserRow] /\ secrets \subseteq Users
  BY AccessAssumption DEF AccessInv, AccessTypeOK
<1>2. CASE Enable2FA(u)
  <2>1. /\ users' \in [Users -> UserRow]
        /\ \A v \in Users : users'[v].hash = users[v].hash
    BY <1>1, <1>2 DEF Enable2FA, UserRow
  <2> QED
    BY <1>2, <2>1, ColumnsKeep DEF Enable2FA
<1>3. CASE Setup2FA(u) \/ Disable2FA(u)
  <2>1. secrets' \subseteq Users /\ UNCHANGED <<users, sessionVars, hashes, req, history>>
    BY <1>1, <1>3 DEF Setup2FA, Disable2FA
  <2>2. LostHashNoted'
    BY <2>1 DEF AccessInv, LostHashNoted, history
  <2>3. /\ replaced' \in [Users -> SUBSET (1..MaxHash)] /\ restored' \subseteq Users
        /\ restored \subseteq restored' /\ users' \in [Users -> UserRow]
        /\ \A v \in Users : replaced[v] \subseteq replaced'[v] /\ users'[v].hash = users[v].hash
    BY <1>1, <2>1 DEF AccessInv, AccessTypeOK, history
  <2> QED
    BY <2>1, <2>2, <2>3, AccountsMove
<1> QED
  BY <1>2, <1>3

\* The copy a handler makes, and the hash it computes, are within their types
LEMMA ChangedType ==
    ASSUME AccessInv, NEW account \in UserRow, NEW op, Hashing(op)
    PROVE  Changed(op, account) \in UserRow /\ hashes' \in 1..MaxHash
<1>1. hashes \in 1..MaxHash
  BY DEF AccessInv, AccessTypeOK
<1>2. CASE op \in {"changePassword", "resetPassword"}
  <2>1. hashes + 1 \in 1..MaxHash /\ hashes' = hashes + 1
    BY <1>1, <1>2, AccessAssumption DEF Hashing
  <2>2. Changed(op, account) = [account EXCEPT !.hash = hashes + 1]
    BY <1>2 DEF Changed
  <2> QED
    BY <2>1, <2>2 DEF UserRow
<1>3. CASE op \notin {"changePassword", "resetPassword"}
  <2>1. hashes' = hashes
    BY <1>1, <1>3 DEF Hashing
  <2>2. \/ Changed(op, account) = [account EXCEPT !.enabled = FALSE]
        \/ Changed(op, account) = [account EXCEPT !.enabled = TRUE]
        \/ Changed(op, account) = [account EXCEPT !.role = "user"]
        \/ Changed(op, account) = [account EXCEPT !.role = "admin"]
        \/ Changed(op, account) = account
    BY <1>3 DEF Changed
  <2> QED
    BY <1>1, <2>1, <2>2 DEF UserRow
<1> QED
  BY <1>2, <1>3

\* A request that has a change of an account in hand
LEMMA ChangeBegins ==
    ASSUME AccessInv, NEW r \in Requests, NEW u \in Users, NEW op \in AllOperations,
           NEW at \in {"save", "remove", "count"}, NEW account \in UserRow,
           req' = [req EXCEPT ![r] = [Idle EXCEPT !.op = op, !.at = at, !.user = u, !.copy = account]],
           hashes' \in 1..MaxHash, UNCHANGED <<users, secrets, sessionVars, history>>
    PROVE  AccessInv'
<1> DEFINE q == [Idle EXCEPT !.op = op, !.at = at, !.user = u, !.copy = account]
<1>1. q \in Request /\ q.at = at /\ q.user = u
  BY IdleSound DEF Idle, Request, Steps
<1>2. Sound(q) /\ ~Consumed(q)
  BY <1>1 DEF Sound, Knows, Consumed, HashRead, HashProved, Holding, Opening
<1>3. req' = [req EXCEPT ![r] = q]
  OBVIOUS
<1> HIDE DEF q
<1> QED
  BY <1>1, <1>2, <1>3, RequestMoves

LEMMA ChangeOwnKeeps ==
    ASSUME AccessInv, NEW r \in Requests, NEW u \in Clients, NEW op \in OwnChanges,
           ChangeOwn(r, u, op)
    PROVE  AccessInv'
<1>1. u \in Users /\ users[u] \in UserRow /\ op \in AllOperations
  BY AccessAssumption DEF AccessInv, AccessTypeOK, AllOperations
<1>2. Changed(op, users[u]) \in UserRow /\ hashes' \in 1..MaxHash
  BY <1>1, ChangedType DEF ChangeOwn
<1> QED
  BY <1>1, <1>2, ChangeBegins DEF ChangeOwn, Become

LEMMA AdminChangeKeeps ==
    ASSUME AccessInv, NEW r \in Requests, NEW actor \in Users, NEW u \in Clients,
           NEW op \in AdminChanges, AdminChange(r, actor, u, op)
    PROVE  AccessInv'
<1> DEFINE account == Changed(op, users[u])
           at == IF TakesAdmin(op, users[u]) THEN "count" ELSE Finish(op)
<1>1. u \in Users /\ users[u] \in UserRow /\ op \in AllOperations
  BY AccessAssumption DEF AccessInv, AccessTypeOK, AllOperations
<1>2. account \in UserRow /\ hashes' \in 1..MaxHash
  BY <1>1, ChangedType DEF AdminChange
<1>3. at \in {"save", "remove", "count"}
  BY DEF Finish
<1>4. req' = [req EXCEPT ![r] = [Idle EXCEPT !.op = op, !.at = at, !.user = u, !.copy = account]]
  BY IdleSound DEF AdminChange, Become, Idle
<1> HIDE DEF account, at
<1> QED
  BY <1>1, <1>2, <1>3, <1>4, ChangeBegins DEF AdminChange

LEMMA CountAdminsKeeps ==
    ASSUME AccessInv, NEW r \in Requests, CountAdmins(r)
    PROVE  AccessInv'
<1> DEFINE step == Finish(req[r].op)
<1>1. req[r] \in Request /\ Sound(req[r]) /\ req[r].at = "count" /\ req[r].user \in Users
  BY RequestType DEF AccessInv, CountAdmins, Sound, Knows
<1>2. step \in {"save", "remove"}
  BY DEF Finish
<1>3. Sound([req[r] EXCEPT !.at = step])
  <2> DEFINE q == [req[r] EXCEPT !.at = step]
  <2>1. q.at = step /\ q.user = req[r].user
    BY <1>1 DEF Request
  <2> HIDE DEF q, step
  <2> QED
    BY <1>1, <1>2, <2>1 DEF Sound, Knows, Consumed, HashRead, HashProved, Holding, Opening, q
<1>4. step \in Steps \ Opening
  BY <1>2 DEF Steps, Opening
<1>5. Continue(r, Cardinality(EnabledAdmins) > 1, step)
  BY DEF CountAdmins
<1> HIDE DEF step
<1> QED
  BY <1>3, <1>4, <1>5, RequestContinues DEF CountAdmins

LEMMA ExpireKeeps ==
    ASSUME AccessInv, NEW i \in Ids, Expire(i)
    PROVE  AccessInv'
<1> USE DEF Expire, history
<1>1. AccessTypeOK'
  BY DEF AccessInv, AccessTypeOK, Ids
<1>2. /\ OneSuccessor' /\ FromOlder' /\ OnlyOne'
      /\ SessionProvesPassword' /\ LostHashNoted'
  BY DEF AccessInv, OneSuccessor, FromOlder, OnlyOne, SessionProvesPassword, LostHashNoted,
         Ids, Consumed
<1>3. \A r \in Requests : Sound(req[r])'
  BY DEF AccessInv, Sound, Knows, Consumed, Spent, HashRead, HashProved, Ids
<1> QED
  BY <1>1, <1>2, <1>3 DEF AccessInv

-----------------------------------------------------------------------------
(* The theorems *)

LEMMA AccessInitially == Init => AccessInv
<1> SUFFICES ASSUME Init PROVE AccessInv
  OBVIOUS
<1>1. Ids = {} /\ issued \in Seq(Session) /\ Len(issued) = 0
  BY DEF Init, Ids
<1>2. users \in [Users -> UserRow]
  BY AccessAssumption DEF Init, UserRow
<1>3. req \in [Requests -> Request] /\ \A r \in Requests : req[r] = Idle
  BY IdleSound DEF Init
<1>4. AccessTypeOK
  BY <1>1, <1>2, <1>3, AccessAssumption DEF Init, AccessTypeOK, Request
<1>5. OneSuccessor /\ FromOlder /\ SessionProvesPassword /\ LostHashNoted
  BY <1>1 DEF Init, OneSuccessor, FromOlder, SessionProvesPassword, LostHashNoted
<1>6. OnlyOne /\ \A r \in Requests : Sound(req[r])
  BY <1>3, IdleSound DEF OnlyOne
<1> QED
  BY <1>4, <1>5, <1>6 DEF AccessInv

LEMMA AccessStep == AccessInv /\ [Next]_vars => AccessInv'
<1> SUFFICES ASSUME AccessInv, [Next]_vars PROVE AccessInv'
  OBVIOUS
<1>1. CASE Next
  BY <1>1, LoginKeeps, PresentKeeps, GetSessionKeeps, CheckUserKeeps, GetUserKeeps,
     ConsumeSessionKeeps, NewSessionKeeps, CreateSessionKeeps, ReloadKeeps, SaveUserKeeps,
     ChangeOwnKeeps, AdminChangeKeeps, CountAdminsKeeps, RemoveUserKeeps, ExpireKeeps,
     TwoFactorKeeps DEF Next
<1>2. CASE UNCHANGED vars
  <2>1. LostHashNoted'
    BY <1>2 DEF AccessInv, LostHashNoted, vars
  <2> QED
    BY <1>2, <2>1, AccountsMove DEF vars, sessionVars, AccessInv, AccessTypeOK
<1> QED
  BY <1>1, <1>2

(***************************************************************************)
(* The tables and the requests keep their types, whatever stale copies      *)
(* (userRepo.Update) are saved.                                             *)
(***************************************************************************)
THEOREM AccessTypeCorrect == Spec => []AccessTypeOK
<1>1. Spec => []AccessInv
  BY AccessInitially, AccessStep, PTL DEF Spec
<1>2. AccessInv => AccessTypeOK
  BY DEF AccessInv
<1> QED
  BY <1>1, <1>2, PTL

(***************************************************************************)
(* A refresh token or a second-factor challenge is exchanged at most once   *)
(* (consumeSession), however many requests present it at the same time.     *)
(***************************************************************************)
THEOREM TokenExchangedOnce == Spec => []OneSuccessor
<1>1. Spec => []AccessInv
  BY AccessInitially, AccessStep, PTL DEF Spec
<1>2. AccessInv => OneSuccessor
  BY DEF AccessInv
<1> QED
  BY <1>1, <1>2, PTL

(***************************************************************************)
(* A session is opened under the password that was checked (newSession,     *)
(* validateSession), through any chain of refreshes and challenges and any  *)
(* overlap with changes of password, unless a stale save brought a lost     *)
(* password back.                                                           *)
(***************************************************************************)
THEOREM NoSessionFromOldPassword == Spec => []SessionProvesPassword
<1>1. Spec => []AccessInv
  BY AccessInitially, AccessStep, PTL DEF Spec
<1>2. AccessInv => SessionProvesPassword
  BY DEF AccessInv
<1> QED
  BY <1>1, <1>2, PTL

-----------------------------------------------------------------------------
(***************************************************************************)
(* NodeHealth: the sample of proxies                                        *)
(***************************************************************************)

\* The proxies that are in the sample when the cursor has passed k of them
Taken(m, k) == {After(m.cursor, i) : i \in 0..(k - 1)} \cup FailedFirst(m)

\* The cursor stays in the list
LEMMA AfterType ==
    ASSUME NEW c \in Proxies, NEW k \in Nat
    PROVE  After(c, k) \in Proxies
<1>1. NumProxies \in Nat /\ NumProxies > 0 /\ c + k \in Nat
  BY NodeHealthAssumption DEF Proxies
<1>2. (c + k) % NumProxies \in 0..(NumProxies - 1)
  BY <1>1
<1> QED
  BY <1>2 DEF After, Proxies

LEMMA TakenType ==
    ASSUME NEW m \in Memory, NEW k \in Nat
    PROVE  Taken(m, k) \subseteq Proxies /\ Cardinality(Taken(m, k)) \in Nat
<1>1. m.cursor \in Proxies /\ FailedFirst(m) \subseteq Proxies
  BY DEF Memory, FailedFirst
<1>2. \A i \in 0..(k - 1) : After(m.cursor, i) \in Proxies
  BY <1>1, AfterType
<1>3. Taken(m, k) \in SUBSET Proxies
  BY <1>1, <1>2 DEF Taken
<1>4. IsFiniteSet(Proxies)
  <2>1. 0 \in Int /\ NumProxies - 1 \in Int
    BY NodeHealthAssumption
  <2> QED
    BY <2>1, FS_Interval DEF Proxies
<1> QED
  BY <1>3, <1>4, FS_Subset, FS_CardinalityType

\* The sample is full or has gone round at some point, and the cursor stops at the first
LEMMA VisitedType ==
    ASSUME NEW m \in Memory
    PROVE  /\ Visited(m) \in 0..NumProxies
           /\ \A k \in 0..(Visited(m) - 1) : Cardinality(Taken(m, k)) < SampleSize
           /\ Visited(m) = NumProxies \/ Cardinality(Taken(m, Visited(m))) >= SampleSize
<1> DEFINE Ends(n) == n = NumProxies \/ Cardinality(Taken(m, n)) >= SampleSize
           First(n) == /\ \A k \in 0..(n - 1) : Cardinality(Taken(m, k)) < SampleSize
                       /\ Ends(n)
           E == {n \in 0..NumProxies : Ends(n)}
<1>1. NumProxies \in Nat /\ SampleSize \in Nat
  BY NodeHealthAssumption
<1>2. E \in SUBSET Nat /\ NumProxies \in E
  BY <1>1
<1>3. PICK n \in E : \A k \in E : n <= k
  <2> HIDE DEF E
  <2> QED
    BY <1>2, LeastNumber
<1>4. First(n)
  <2> SUFFICES ASSUME NEW k \in 0..(n - 1) PROVE Cardinality(Taken(m, k)) < SampleSize
    BY <1>3
  <2>1. k \in Nat /\ k \in 0..NumProxies /\ ~(n <= k)
    BY <1>1, <1>3
  <2>2. k \notin E
    BY <1>3, <2>1
  <2>3. Cardinality(Taken(m, k)) \in Nat
    BY <2>1, TakenType
  <2> QED
    BY <1>1, <2>1, <2>2, <2>3
<1>5. Visited(m) = CHOOSE i \in 0..NumProxies : First(i)
  BY DEF Visited, Taken
<1>6. n \in 0..NumProxies
  BY <1>3
<1> HIDE DEF First
<1>7. Visited(m) \in 0..NumProxies /\ First(Visited(m))
  BY <1>4, <1>5, <1>6
<1> QED
  BY <1>7 DEF First

LEMMA SampleType ==
    ASSUME NEW m \in Memory
    PROVE  Sample(m).proxies \subseteq Proxies /\ Sample(m).cursor \in Proxies
<1>1. Visited(m) \in Nat /\ m.cursor \in Proxies
  BY VisitedType, NodeHealthAssumption DEF Memory
<1>2. After(m.cursor, Visited(m)) \in Proxies /\ Taken(m, Visited(m)) \subseteq Proxies
  BY <1>1, AfterType, TakenType
<1> QED
  BY <1>2 DEF Sample, Taken

\* Going round reaches every proxy
LEMMA RoundReaches ==
    ASSUME NEW c \in Proxies, NEW p \in Proxies
    PROVE  \E i \in 0..(NumProxies - 1) : After(c, i) = p
<1>1. NumProxies \in Nat /\ NumProxies > 0 /\ c \in 0..(NumProxies - 1) /\ p \in 0..(NumProxies - 1)
  BY NodeHealthAssumption DEF Proxies
<1>2. CASE p >= c
  <2>1. p - c \in 0..(NumProxies - 1) /\ c + (p - c) = p
    BY <1>1, <1>2
  <2>2. p % NumProxies = p
    BY <1>1
  <2> QED
    BY <2>1, <2>2 DEF After
<1>3. CASE p < c
  <2>1. p - c + NumProxies \in 0..(NumProxies - 1) /\ c + (p - c + NumProxies) = p + NumProxies
    BY <1>1, <1>3
  <2>2. (p + NumProxies) % NumProxies = p
    BY <1>1
  <2> QED
    BY <2>1, <2>2 DEF After
<1> QED
  BY <1>1, <1>2, <1>3

\* A set of proxies is finite, and one of its members is the last
LEMMA ProxiesFinite ==
    ASSUME NEW S \in SUBSET Proxies
    PROVE  IsFiniteSet(S) /\ Cardinality(S) \in Nat
<1>1. 0 \in Int /\ NumProxies - 1 \in Int
  BY NodeHealthAssumption
<1>2. IsFiniteSet(Proxies)
  BY <1>1, FS_Interval DEF Proxies
<1> QED
  BY <1>2, FS_Subset, FS_CardinalityType

LEMMA LastProxy ==
    ASSUME NEW S \in SUBSET Proxies, S # {}
    PROVE  \E p \in S : \A q \in S : q <= p
<1> DEFINE D == {NumProxies - p : p \in S}
<1>1. NumProxies \in Nat /\ \A p \in S : p \in Nat /\ p < NumProxies
  BY NodeHealthAssumption DEF Proxies
<1>2. D \in SUBSET Nat /\ D # {}
  BY <1>1
<1>3. PICK d \in D : \A e \in D : d <= e
  <2> HIDE DEF D
  <2> QED
    BY <1>2, LeastNumber
<1>4. PICK p \in S : d = NumProxies - p
  BY <1>3
<1>5. ASSUME NEW q \in S PROVE q <= p
  <2>1. NumProxies - q \in D
    OBVIOUS
  <2>2. d <= NumProxies - q
    BY <1>3, <2>1
  <2> QED
    BY <1>1, <1>4, <2>2
<1> QED
  BY <1>5

\* No more failures are taken first than fit
LEMMA FailedFit ==
    ASSUME NEW m \in Memory
    PROVE  Cardinality(FailedFirst(m)) <= SampleSize
<1> DEFINE S == FailedFirst(m)
<1>1. m.failed \in SUBSET Proxies /\ S \in SUBSET m.failed /\ S \in SUBSET Proxies /\ SampleSize \in Nat
  BY NodeHealthAssumption DEF Memory, FailedFirst
<1>2. CASE S = {}
  BY <1>1, <1>2, FS_EmptySet
<1>3. CASE S # {}
  <2>1. PICK p \in S : \A q \in S : q <= p
    <3> HIDE DEF S
    <3> QED
      BY <1>1, <1>3, LastProxy
  <2> DEFINE B == {q \in m.failed : q < p}
  <2>2. Cardinality(B) < SampleSize
    BY <2>1 DEF FailedFirst
  <2>3. S \ {p} \in SUBSET B
    <3>1. \A q \in S : q \in m.failed /\ q \in Int
      BY <1>1 DEF Proxies
    <3> HIDE DEF S
    <3> QED
      BY <2>1, <3>1
  <2>4. B \in SUBSET Proxies
    BY <1>1
  <2> HIDE DEF S, B
  <2>5. IsFiniteSet(B) /\ Cardinality(B) \in Nat /\ IsFiniteSet(S) /\ Cardinality(S) \in Nat
    BY <1>1, <2>4, ProxiesFinite
  <2>6. Cardinality(S \ {p}) <= Cardinality(B)
    BY <2>3, <2>5, FS_Subset
  <2>7. Cardinality(S \ {p}) = Cardinality(S) - 1
    BY <2>1, <2>5, FS_RemoveElement
  <2> QED
    BY <1>1, <2>2, <2>5, <2>6, <2>7 DEF S
<1> QED
  BY <1>2, <1>3

(***************************************************************************)
(* Whatever failed before and wherever the cursor stands, a check probes    *)
(* exactly as many proxies as it is to probe, or all of the node's when     *)
(* there are fewer (selectProxySample).                                     *)
(***************************************************************************)
THEOREM SampleIsFull ==
    ASSUME NEW m \in Memory
    PROVE  /\ Cardinality(Sample(m).proxies) <= SampleSize
           /\ Cardinality(Sample(m).proxies) = SampleSize \/ Sample(m).proxies = Proxies
<1> DEFINE v == Visited(m)
           S == Taken(m, v)
<1>1. /\ v \in 0..NumProxies /\ NumProxies \in Nat /\ SampleSize \in Nat /\ m.cursor \in Proxies
      /\ \A k \in 0..(v - 1) : Cardinality(Taken(m, k)) < SampleSize
      /\ v = NumProxies \/ Cardinality(S) >= SampleSize
  BY VisitedType, NodeHealthAssumption DEF Memory
<1>2. Sample(m).proxies = S
  BY DEF Sample, Taken
<1> HIDE DEF v
<1>3. v \in Nat /\ S \subseteq Proxies /\ Cardinality(S) \in Nat
  BY <1>1, TakenType
<1>4. Cardinality(S) <= SampleSize
  <2>1. CASE v = 0
    <3>1. S = FailedFirst(m)
      BY <2>1 DEF Taken
    <3> QED
      BY <3>1, FailedFit
  <2>2. CASE v # 0
    <3>1. v - 1 \in Nat /\ v - 1 \in 0..(v - 1)
      BY <1>3, <2>2
    <3> DEFINE T == Taken(m, v - 1)
               x == After(m.cursor, v - 1)
    <3>2. Cardinality(T) < SampleSize /\ T \in SUBSET Proxies
      BY <1>1, <3>1, TakenType
    <3>3. S = T \cup {x}
      <4>1. 0..(v - 1) = 0..((v - 1) - 1) \cup {v - 1}
        BY <1>3, <2>2
      <4> QED
        BY <4>1 DEF Taken
    <3> HIDE DEF T, x, S
    <3>4. IsFiniteSet(T) /\ Cardinality(T) \in Nat
      BY <3>2, ProxiesFinite
    <3>5. Cardinality(T \cup {x}) <= Cardinality(T) + 1
      <4>1. Cardinality(T \cup {x}) = IF x \in T THEN Cardinality(T) ELSE Cardinality(T) + 1
        BY <3>4, FS_AddElement
      <4> QED
        BY <3>4, <4>1
    <3> QED
      BY <1>1, <1>3, <3>2, <3>3, <3>4, <3>5
  <2> QED
    BY <2>1, <2>2
<1>5. CASE v = NumProxies
  <2>1. Proxies \subseteq S
    BY <1>1, <1>5, RoundReaches DEF Taken
  <2> QED
    BY <1>2, <1>3, <1>4, <2>1
<1>6. CASE v # NumProxies
  BY <1>1, <1>2, <1>3, <1>4, <1>6
<1> QED
  BY <1>2, <1>4, <1>5, <1>6

LEMMA ProbedType ==
    ASSUME NEW m \in Memory, NEW pending \in BOOLEAN
    PROVE  Probed(m, pending) \in Memory
<1> DEFINE c == Sample(m).cursor
           f == (m.failed \ Sample(m).proxies) \cup (Sample(m).proxies \cap world.dead)
           g == Grace(m, pending)
<1>1. c \in Proxies /\ f \in SUBSET Proxies
  BY SampleType DEF Memory
<1>2. g \in {"none", "running", "over"}
  BY DEF Grace, Memory
<1>3. Probed(m, pending) = [m EXCEPT !.cursor = c, !.failed = f, !.grace = g]
  BY DEF Probed
<1> HIDE DEF c, f, g
<1> QED
  BY <1>1, <1>2, <1>3 DEF Memory

LEMMA CountedType ==
    ASSUME NEW m \in Memory, NEW ok \in BOOLEAN
    PROVE  Counted(m, ok) \in Memory
<1>1. UnhealthyThreshold \in Nat \ {0} /\ HealthyThreshold \in Nat \ {0}
  BY NodeHealthAssumption
<1> DEFINE s == IF m.succs < HealthyThreshold THEN m.succs + 1 ELSE m.succs
           f == IF m.fails < UnhealthyThreshold THEN m.fails + 1 ELSE m.fails
<1>2. /\ s \in 0..HealthyThreshold /\ f \in 0..UnhealthyThreshold
      /\ 0 \in 0..HealthyThreshold /\ 0 \in 0..UnhealthyThreshold
  BY <1>1 DEF Memory
<1>3. Counted(m, ok) = IF ok THEN [m EXCEPT !.fails = 0, !.succs = s] ELSE [m EXCEPT !.succs = 0, !.fails = f]
  BY DEF Counted
<1> HIDE DEF s, f
<1> QED
  BY <1>2, <1>3 DEF Memory

-----------------------------------------------------------------------------
(***************************************************************************)
(* NodeHealth: the node's row, the checker and the agent                    *)
(***************************************************************************)

NodeRow == [status : Statuses, revoked : BOOLEAN, pending : BOOLEAN, beating : BOOLEAN]
AgentState == [current : BOOLEAN, state : {"unregistered", "registered", "stopped"}]

LEMMA HealthInit == NodeHealthInit => NodeHealthTypeOK
<1> SUFFICES ASSUME NodeHealthInit PROVE NodeHealthTypeOK
  OBVIOUS
<1>1. row \in NodeRow /\ agent \in AgentState
  BY DEF NodeHealthInit, NodeRow, AgentState, Statuses
<1>2. hc \in Memory /\ worlds \in 0..MaxWorlds
  BY NodeHealthAssumption DEF NodeHealthInit, NewMemory, Memory, Proxies
<1>3. check \in Check
  BY DEF NodeHealthInit, NoCheck, Check, Statuses
<1> QED
  BY <1>1, <1>2, <1>3 DEF NodeHealthInit, NodeHealthTypeOK, NodeRow, AgentState

\* A check after its probes, and the memory when there was nothing to probe
LEMMA CheckResultType == ASSUME check \in Check, NEW s PROVE CheckResult(s) \in Check
<1>1. Verdict(s, hc, check.row.pending, check.row.beating) \in BOOLEAN
  BY DEF Verdict
<1> QED
  BY <1>1 DEF CheckResult, Check

LEMMA UnlistedType ==
    ASSUME NEW m \in Memory, NEW pending \in BOOLEAN
    PROVE  Unlisted(m, pending) \in Memory
  BY DEF Unlisted, Grace, Memory

\* One field of the row is written
LEMMA RowWritten ==
    ASSUME NEW r \in NodeRow, NEW s \in Statuses, NEW b \in BOOLEAN
    PROVE  /\ [r EXCEPT !.status = s] \in NodeRow /\ [r EXCEPT !.beating = b] \in NodeRow
           /\ [r EXCEPT !.status = s, !.beating = b] \in NodeRow
           /\ [r EXCEPT !.revoked = b] \in NodeRow /\ [r EXCEPT !.pending = b] \in NodeRow
  BY DEF NodeRow

\* The history is a flag
LEMMA UnreadType == NodeHealthTypeOK /\ [NodeHealthNext]_nodeHealthVars => unread' \in BOOLEAN
<1> SUFFICES ASSUME NodeHealthTypeOK, [NodeHealthNext]_nodeHealthVars PROVE unread' \in BOOLEAN
  OBVIOUS
<1>0. unread \in BOOLEAN
  BY DEF NodeHealthTypeOK
<1>1. CASE Register \/ Heartbeat
  <2>1. unread' = unread \/ (\E found \in BOOLEAN : unread' = (agent.current /\ ~found))
    BY <1>1 DEF Register, Heartbeat, Stop
  <2> QED
    BY <1>0, <2>1
<1>2. CASE RedeployAgent
  <2>1. unread' = FALSE
    BY <1>2 DEF RedeployAgent
  <2> QED
    BY <2>1
<1>3. CASE \/ HeartbeatError \/ UpdateHeartbeatBatch \/ LastSeenAges
           \/ GenerateNodeToken \/ RotateToken \/ RevokeToken \/ SetOffline \/ MarkOverLimit \/ UpdateStatus
           \/ ListNode \/ PerformCheck \/ PerformCheckUnlisted \/ ManualCheck
           \/ HandleCheckResult \/ GraceOver \/ PanelRestarts \/ WorldChanges \/ UNCHANGED nodeHealthVars
  <2>1. unread' = unread
    BY <1>3 DEF HeartbeatError, UpdateHeartbeatBatch, LastSeenAges, GenerateNodeToken, RotateToken, RevokeToken,
                SetOffline, MarkOverLimit, UpdateStatus, ListNode, PerformCheck, PerformCheckUnlisted, ManualCheck,
                HandleCheckResult, GraceOver, PanelRestarts, WorldChanges, nodeHealthVars
  <2> QED
    BY <1>0, <2>1
<1> QED
  BY <1>1, <1>2, <1>3 DEF NodeHealthNext

LEMMA HealthStep == NodeHealthTypeOK /\ [NodeHealthNext]_nodeHealthVars => NodeHealthTypeOK'
<1> SUFFICES ASSUME NodeHealthTypeOK, [NodeHealthNext]_nodeHealthVars PROVE NodeHealthTypeOK'
  OBVIOUS
<1>0. /\ row \in NodeRow /\ world \in Worlds /\ Worlds \subseteq World /\ worlds \in 0..MaxWorlds
      /\ hc \in Memory /\ check \in Check /\ agent \in AgentState
      /\ beat \in {"online", "unhealthy", "none"} /\ tokenOp \in {"idle", "written"}
  BY NodeHealthAssumption DEF NodeHealthTypeOK, NodeRow, AgentState
<1>1. NewMemory \in Memory /\ NoCheck \in Check
  BY NodeHealthAssumption DEF NewMemory, Memory, Proxies, NoCheck, Check, Statuses
<1>2. SUFFICES /\ row' \in NodeRow /\ world' \in Worlds /\ worlds' \in 0..MaxWorlds
               /\ hc' \in Memory /\ check' \in Check /\ agent' \in AgentState
               /\ beat' \in {"online", "unhealthy", "none"} /\ tokenOp' \in {"idle", "written"}
  BY UnreadType DEF NodeHealthTypeOK, NodeRow, AgentState
<1>3. CASE Register
  <2>1. agent' \in AgentState
    BY <1>0, <1>3 DEF Register, Stop, Stopped, AgentState
  <2>2. PICK running \in BOOLEAN :
            row' = [row EXCEPT !.status = "online", !.beating = row.beating \/ running] \/ row' = row
    BY <1>3 DEF Register
  <2>3. row' \in NodeRow
    <3>1. PICK b \in BOOLEAN : row' = [row EXCEPT !.status = "online", !.beating = b] \/ row' = row
      BY <2>2
    <3>2. "online" \in Statuses
      BY DEF Statuses
    <3>3. [row EXCEPT !.status = "online", !.beating = b] \in NodeRow
      BY <1>0, <3>2, RowWritten
    <3> QED
      BY <1>0, <3>1, <3>3
  <2> QED
    BY <1>0, <1>3, <2>1, <2>3 DEF Register
<1>4. CASE Heartbeat
  <2>1. agent' \in AgentState
    BY <1>0, <1>4 DEF Heartbeat, Stop, Stopped, AgentState
  <2>2. beat' \in {"online", "unhealthy", "none"}
    BY <1>4 DEF Heartbeat, Promoted, Stop
  <2> QED
    BY <1>0, <1>4, <2>1, <2>2 DEF Heartbeat
<1>5. CASE HeartbeatError
  <2>1. agent' \in AgentState
    BY <1>0, <1>5 DEF HeartbeatError, AgentState
  <2> QED
    BY <1>0, <1>5, <2>1 DEF HeartbeatError
<1>6. CASE UpdateHeartbeatBatch \/ LastSeenAges
  <2>1. row' \in NodeRow
    <3>1. CASE UpdateHeartbeatBatch
      BY <1>0, <3>1, RowWritten DEF UpdateHeartbeatBatch, Statuses, World
    <3>2. CASE LastSeenAges
      BY <1>0, <3>2 DEF LastSeenAges, NodeRow
    <3> QED
      BY <1>6, <3>1, <3>2
  <2> QED
    BY <1>0, <1>6, <2>1 DEF UpdateHeartbeatBatch, LastSeenAges
<1>7. CASE GenerateNodeToken \/ RotateToken \/ RevokeToken
  <2>1. row' \in NodeRow /\ agent' \in AgentState
    BY <1>0, <1>7 DEF GenerateNodeToken, RotateToken, RevokeToken, NewToken, NodeRow, AgentState
  <2> QED
    BY <1>0, <1>7, <2>1 DEF GenerateNodeToken, RotateToken, RevokeToken
<1>8. CASE SetOffline
  <2>1. row' \in NodeRow
    BY <1>0, <1>8 DEF SetOffline, NodeRow, Statuses
  <2> QED
    BY <1>0, <1>8, <2>1 DEF SetOffline
<1>9. CASE RedeployAgent
  <2>1. agent' \in AgentState
    BY <1>9 DEF RedeployAgent, AgentState
  <2> QED
    BY <1>0, <1>9, <2>1 DEF RedeployAgent
<1>10. CASE ListNode
  <2>1. check' \in Check
    BY <1>0, <1>10 DEF ListNode, Check, NodeRow
  <2> QED
    BY <1>0, <1>10, <2>1 DEF ListNode
<1>11. CASE PerformCheck
  <2>1. check.row.pending \in BOOLEAN
    BY <1>0 DEF Check
  <2>2. hc' \in Memory
    BY <1>0, <1>11, <2>1, ProbedType DEF PerformCheck
  <2>3. check' \in Check
    BY <1>0, <1>11, CheckResultType DEF PerformCheck
  <2> QED
    BY <1>0, <1>11, <2>2, <2>3 DEF PerformCheck
<1>18. CASE PerformCheckUnlisted
  <2>1. check.row.pending \in BOOLEAN /\ worlds' \in 0..MaxWorlds
    BY <1>0, <1>18, NodeHealthAssumption DEF Check, PerformCheckUnlisted
  <2>2. hc' \in Memory
    BY <1>0, <1>18, <2>1, UnlistedType DEF PerformCheckUnlisted
  <2>3. check' \in Check
    BY <1>0, <1>18, CheckResultType DEF PerformCheckUnlisted
  <2> QED
    BY <1>0, <1>18, <2>1, <2>2, <2>3 DEF PerformCheckUnlisted
<1>19. CASE MarkOverLimit \/ UpdateStatus
  <2>1. PICK s \in Statuses : row' = [row EXCEPT !.status = s]
    BY <1>19 DEF MarkOverLimit, UpdateStatus, Statuses
  <2>2. row' \in NodeRow
    BY <1>0, <2>1, RowWritten
  <2>3. worlds' \in 0..MaxWorlds
    BY <1>0, <1>19, NodeHealthAssumption DEF MarkOverLimit, UpdateStatus
  <2> QED
    BY <1>0, <1>19, <2>2, <2>3 DEF MarkOverLimit, UpdateStatus
<1>12. CASE ManualCheck
  <2>1. hc' \in Memory
    BY <1>0, <1>12, ProbedType, UnlistedType DEF ManualCheck, NodeRow
  <2> QED
    BY <1>0, <1>12, <2>1 DEF ManualCheck
<1>13. CASE HandleCheckResult
  <2>1. hc' \in Memory
    BY <1>0, <1>13, CountedType DEF HandleCheckResult, Check
  <2> DEFINE s == Transition(Counted(hc, check.ok), check.ok, check.row.status)
  <2>2. s \in {"online", "unhealthy", "none"}
    BY DEF Transition
  <2>3. row' = IF s = "none" THEN row ELSE [row EXCEPT !.status = s]
    BY <1>13 DEF HandleCheckResult
  <2> HIDE DEF s
  <2>4. row' \in NodeRow
    BY <1>0, <2>2, <2>3 DEF NodeRow, Statuses
  <2> QED
    BY <1>0, <1>1, <1>13, <2>1, <2>4 DEF HandleCheckResult
<1>14. CASE GraceOver
  <2>1. hc' \in Memory
    BY <1>0, <1>14 DEF GraceOver, Memory
  <2> QED
    BY <1>0, <1>14, <2>1 DEF GraceOver
<1>15. CASE PanelRestarts
  <2>1. worlds' \in 0..MaxWorlds
    BY <1>0, <1>15, NodeHealthAssumption DEF PanelRestarts
  <2> QED
    BY <1>0, <1>1, <1>15, <2>1 DEF PanelRestarts
<1>16. CASE WorldChanges
  <2>1. worlds' \in 0..MaxWorlds
    BY <1>0, <1>16, NodeHealthAssumption DEF WorldChanges
  <2>2. row' \in NodeRow /\ world' \in Worlds
    BY <1>0, <1>16 DEF WorldChanges, NodeRow
  <2> QED
    BY <1>0, <1>16, <2>1, <2>2 DEF WorldChanges
<1>17. CASE UNCHANGED nodeHealthVars
  BY <1>0, <1>17 DEF nodeHealthVars
<1> QED
  BY <1>3, <1>4, <1>5, <1>6, <1>7, <1>8, <1>9, <1>10, <1>11, <1>12, <1>13, <1>14, <1>15, <1>16, <1>17,
     <1>18, <1>19 DEF NodeHealthNext

(***************************************************************************)
(* With any number of proxies and any sample size the cursor of the         *)
(* rotating sample stays inside the list and the failures it remembers are  *)
(* proxies of the node, and the counters never pass their thresholds        *)
(* (selectProxySample, handleCheckResult).                                  *)
(***************************************************************************)
THEOREM NodeHealthTypeCorrect == NodeHealthSpec => []NodeHealthTypeOK
  BY HealthInit, HealthStep, PTL DEF NodeHealthSpec

(***************************************************************************)
(* An agent stops for good only when its token is no longer the node's or   *)
(* the panel could not look that token up, whatever heartbeats, errors,     *)
(* token operations and restarts come between (ValidateToken,               *)
(* markPermanentAuthFailure).                                               *)
(***************************************************************************)
THEOREM AgentStopsOnlyWithoutToken == NodeHealthSpec => []StoppedOnlyWithoutToken
<1> DEFINE Inv == agent \in AgentState /\ StoppedOnlyWithoutToken
<1>1. NodeHealthInit => Inv
  BY DEF NodeHealthInit, AgentState, StoppedOnlyWithoutToken
<1>2. Inv /\ [NodeHealthNext]_nodeHealthVars => Inv'
  <2> SUFFICES ASSUME Inv, [NodeHealthNext]_nodeHealthVars PROVE Inv'
    OBVIOUS
  <2>1. CASE Register \/ Heartbeat
    <3>1. PICK found \in BOOLEAN :
              \/ agent' = agent /\ unread' = unread
              \/ agent' = [agent EXCEPT !.state = "registered"]
              \/ ~Valid(found) /\ Stop(found)
      BY <2>1 DEF Register, Heartbeat
    <3>2. CASE agent' = agent /\ unread' = unread
      BY <3>2 DEF StoppedOnlyWithoutToken
    <3>3. CASE agent' = [agent EXCEPT !.state = "registered"]
      BY <3>3 DEF AgentState, StoppedOnlyWithoutToken
    <3>4. CASE ~Valid(found) /\ Stop(found)
      <4>1. agent' \in AgentState /\ agent'.current = agent.current
        BY <3>4 DEF Stop, Stopped, AgentState
      <4>2. unread' = (agent.current /\ ~found) /\ ~(found /\ agent.current)
        BY <3>4 DEF Stop, Valid
      <4> QED
        BY <4>1, <4>2 DEF StoppedOnlyWithoutToken
    <3> QED
      BY <3>1, <3>2, <3>3, <3>4
  <2>2. CASE HeartbeatError \/ RedeployAgent
    <3>1. agent' \in AgentState /\ agent'.state = "unregistered"
      <4>1. CASE HeartbeatError
        BY <4>1 DEF HeartbeatError, AgentState
      <4>2. CASE RedeployAgent
        BY <4>2 DEF RedeployAgent, AgentState
      <4> QED
        BY <2>2, <4>1, <4>2
    <3> QED
      BY <3>1 DEF StoppedOnlyWithoutToken
  <2>3. CASE GenerateNodeToken \/ RotateToken \/ RevokeToken
    BY <2>3 DEF GenerateNodeToken, RotateToken, RevokeToken, NewToken, AgentState, StoppedOnlyWithoutToken
  <2>4. CASE \/ UpdateHeartbeatBatch \/ LastSeenAges \/ SetOffline \/ MarkOverLimit \/ UpdateStatus
             \/ ListNode \/ PerformCheck \/ PerformCheckUnlisted \/ ManualCheck
             \/ HandleCheckResult \/ GraceOver \/ PanelRestarts \/ WorldChanges \/ UNCHANGED nodeHealthVars
    <3>1. agent' = agent /\ unread' = unread
      BY <2>4 DEF UpdateHeartbeatBatch, LastSeenAges, SetOffline, MarkOverLimit, UpdateStatus, ListNode,
                  PerformCheck, PerformCheckUnlisted, ManualCheck, HandleCheckResult, GraceOver, PanelRestarts, WorldChanges, nodeHealthVars
    <3> QED
      BY <3>1 DEF StoppedOnlyWithoutToken
  <2> QED
    BY <2>1, <2>2, <2>3, <2>4 DEF NodeHealthNext
<1>3. Inv => StoppedOnlyWithoutToken
  OBVIOUS
<1> QED
  BY <1>1, <1>2, <1>3, PTL DEF NodeHealthSpec
=============================================================================
