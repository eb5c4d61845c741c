---------------------------- MODULE AccessProofs ----------------------------
(***************************************************************************)
(* Proofs about Access, for any requests, browsers, users and shares: what *)
(* the row locks of a transaction protect until it commits (Inv), and, on  *)
(* top of that (Inv2), types, the slots of the guard, the two quotas, the  *)
(* first administrator, and that a request in progress can always go on.   *)
(***************************************************************************)
EXTENDS Access, FiniteSetTheorems, TLAPS

\* Every leaf that names no prover goes to Zenon; the arithmetic goes to SMT.
USE ZenonT(90)

Operating == {"maintenance", "ack", "ack_write"}
Managing  == {"create", "list", "revoke", "insert", "purge"}
Sharing   == {"purge", "valid", "grant"}
Watched   == {"session", "user", "actor", "admin"} \cup Operating \cup Managing \cup Sharing

Fields == {"pc", "kind", "browser", "target", "patch", "token", "now", "user", "row", "held"}

\* What has been found and locked when a request is at its pc.
Prepared(r) ==
    /\ DOMAIN r = Fields
    /\ r.pc \in {"session", "user"} => r.kind \in DOMAIN Entry
    /\ r.pc = "actor" => r.kind \in {"maintenance", "ack"}
    /\ r.pc = "admin" => r.kind \in {"list", "create", "revoke"}
    /\ r.pc \in {"user", "actor", "admin"} \cup Operating \cup Managing => r.user \in Users
    /\ r.pc \in Operating => /\ OperationLocks(r.user) \subseteq r.held
                             /\ operationTenant(r.user, r.pc = "maintenance")
    /\ r.pc \in Managing => AdminLocks(r.user) \subseteq r.held /\ tenantForAdmin(r.user)
    /\ r.pc = "ack_write" => Exclusive(AlertLock) \in r.held /\ ackedBy = 0
    /\ r.pc \in Sharing => r.target \in Shares /\ Exclusive(ShareLock(r.target)) \in r.held
    /\ r.pc = "grant" => ~shares[r.target].revoked

\* No two requests hold locks that conflict.
Apart ==
    \A p, q \in Requests : p # q =>
      \A l \in req[p].held, m \in req[q].held :
        l.row = m.row => l.mode = "share" /\ m.mode = "share"

AuditRow == [action : {"maintenance", "ack", "create", "revoke"}, actor : Users,
             id : Shares \cup {0}]

Tables ==
    /\ users = [u \in Users |-> users[u]]
    /\ shares = [s \in Shares |-> shares[s]]
    /\ sessions = [t \in Tokens |-> sessions[t]]
    /\ \A t \in Tokens : sessions[t] = NoSession \/ sessions[t].user \in Users
    /\ \A x \in shareSessions : x.share \in Shares
    /\ ackedBy \in Users \cup {0}
    /\ audit \in Seq(AuditRow)

IsAck(i) == audit[i].action = "ack"

Acks ==
    IF ackedBy = 0 THEN \A i \in DOMAIN audit : ~IsAck(i)
    ELSE \E i \in DOMAIN audit : /\ IsAck(i) /\ audit[i].actor = ackedBy
                                 /\ \A j \in DOMAIN audit : IsAck(j) => j = i

Requested ==
    /\ req = [q \in Requests |-> req[q]]
    /\ Apart
    /\ \A q \in Requests : Prepared(req[q])

Inv == Tables /\ Acks /\ RevokedMeansNoSessions /\ Requested

\* What the requests' state rests on stays, and so do the tables.
Still == UNCHANGED <<tenantOn, users, shares, ackedBy>>
Quiet == Still /\ UNCHANGED <<sessions, shareSessions, audit>>

-----------------------------------------------------------------------------
(* Records                                                                 *)

LEMMA IdleRequest ==
    /\ DOMAIN Idle = Fields /\ Idle.pc = "idle" /\ Idle.held = {} /\ Prepared(Idle)
<1>1. DOMAIN Idle = Fields /\ Idle.pc = "idle" /\ Idle.held = {}
  BY DEF Idle, Fields
<1> QED
  BY <1>1 DEF Prepared, Operating, Managing, Sharing

\* Locks on different rows are different, and the two modes are.
LEMMA Locks ==
    /\ \A u, v : UserLock(u) = UserLock(v) => u = v
    /\ \A s, t : ShareLock(s) = ShareLock(t) => s = t
    /\ \A u : UserLock(u)[1] = "user" /\ UserLock(u) # TenantLock
    /\ \A row : /\ Shared(row).row = row /\ Shared(row).mode = "share"
                /\ Exclusive(row).row = row /\ Exclusive(row).mode = "update"
<1>1. /\ \A u, v : <<"user", u>> = <<"user", v>> => u = v
      /\ \A s, t : <<"share", s>> = <<"share", t>> => s = t
      /\ \A u : <<"user", u>>[1] = "user" /\ <<"user", u>> # <<"tenant", 0>>
  BY SMT
<1>2. \A row : /\ Shared(row).row = row /\ Shared(row).mode = "share"
               /\ Exclusive(row).row = row /\ Exclusive(row).mode = "update"
  BY DEF Shared, Exclusive
<1> QED
  BY <1>1, <1>2 DEF UserLock, ShareLock, TenantLock

-----------------------------------------------------------------------------
(* Requests                                                                *)

\* A step of q that takes only free locks, and disturbs no other request.
LEMMA Stepping ==
    ASSUME Requested, NEW q \in Requests, req' = [req EXCEPT ![q] = req'[q]],
           Prepared(req[q])',
           \A l \in req'[q].held : l \in req[q].held \/ Free(q, l),
           \A p \in Requests \ {q} : Prepared(req[p])'
    PROVE  Requested'
<1>1. DOMAIN req = Requests
  BY DEF Requested
<1>2. DOMAIN req' = Requests /\ \A p \in Requests \ {q} : req'[p] = req[p]
  BY <1>1
<1>3. (req = [p \in Requests |-> req[p]])'
  BY <1>1
<1>4. \A p \in Requests : Prepared(req[p])'
  OBVIOUS
<1>5. ASSUME NEW p \in Requests, p # q, NEW l \in req'[q].held, NEW m \in req'[p].held,
             l.row = m.row
      PROVE  l.mode = "share" /\ m.mode = "share"
  <2>1. m \in req[p].held
    BY <1>2, <1>5
  <2>2. CASE l \in req[q].held
    BY <2>1, <2>2, <1>5 DEF Requested, Apart
  <2>3. CASE Free(q, l)
    BY <2>1, <2>3, <1>5 DEF Free
  <2> QED
    BY <2>2, <2>3
<1>6. Apart'
  <2>1. SUFFICES ASSUME NEW p \in Requests, NEW s \in Requests, p # s,
                        NEW l \in req'[p].held, NEW m \in req'[s].held, l.row = m.row
                 PROVE  l.mode = "share" /\ m.mode = "share"
    BY DEF Apart
  <2>2. CASE p = q
    BY <2>1, <2>2, <1>5
  <2>3. CASE s = q
    <3>1. m.row = l.row /\ p # q
      BY <2>1, <2>3
    <3> QED
      BY <2>1, <2>3, <3>1, <1>5
  <2>4. CASE p # q /\ s # q
    <3>1. l \in req[p].held /\ m \in req[s].held
      BY <2>1, <2>4, <1>2
    <3> QED
      BY <2>1, <3>1 DEF Requested, Apart
  <2> QED
    BY <2>2, <2>3, <2>4
<1> QED
  BY <1>3, <1>4, <1>6 DEF Requested

\* Another request keeps what it found as long as its rows do not change.
LEMMA Others ==
    ASSUME Requested, NEW q \in Requests, req' = [req EXCEPT ![q] = req'[q]], Still
    PROVE  \A p \in Requests \ {q} : Prepared(req[p])'
<1>1. SUFFICES ASSUME NEW p \in Requests, p # q PROVE Prepared(req[p])'
  OBVIOUS
<1>2. DOMAIN req = Requests
  BY DEF Requested
<1>3. req'[p] = req[p] /\ Prepared(req[p])
  BY <1>1, <1>2 DEF Requested
<1>4. /\ \A u, x : operationTenant(u, x)' = operationTenant(u, x)
      /\ \A u : tenantForAdmin(u)' = tenantForAdmin(u)
  BY DEF Still, operationTenant, tenantForAdmin
<1> QED
  BY <1>3, <1>4 DEF Prepared, Still, operationTenant, tenantForAdmin

LEMMA Going ==
    ASSUME Requested, NEW q \in Requests, req' = [req EXCEPT ![q] = req'[q]], Still,
           Prepared(req[q])',
           \A l \in req'[q].held : l \in req[q].held \/ Free(q, l)
    PROVE  Requested'
  BY Others, Stepping

LEMMA Finishing ==
    ASSUME Requested, NEW q \in Requests, Finish(q),
           \A p \in Requests \ {q} : Prepared(req[p])'
    PROVE  Requested'
<1>1. DOMAIN req = Requests
  BY DEF Requested
<1>2. req'[q] = Idle /\ req' = [req EXCEPT ![q] = req'[q]]
  BY <1>1 DEF Finish
<1>3. DOMAIN req'[q] = Fields /\ req'[q].pc = "idle" /\ req'[q].held = {}
  BY <1>2, IdleRequest
<1>4. Prepared(req[q])'
  BY <1>3 DEF Prepared, Operating, Managing, Sharing
<1>5. \A l \in req'[q].held : l \in req[q].held \/ Free(q, l)
  BY <1>3
<1> QED
  BY <1>2, <1>4, <1>5, Stepping

LEMMA Finished ==
    ASSUME Requested, NEW q \in Requests, Finish(q), Still
    PROVE  Requested'
<1>1. DOMAIN req = Requests
  BY DEF Requested
<1>2. req' = [req EXCEPT ![q] = req'[q]]
  BY <1>1 DEF Finish
<1> QED
  BY <1>2, Others, Finishing

\* A request that goes where nothing is required of it.
LEMMA Leaving ==
    ASSUME Requested, NEW q \in Requests, req' = [req EXCEPT ![q] = req'[q]], Still,
           DOMAIN req'[q] = Fields, req'[q].pc \notin Watched,
           \A l \in req'[q].held : l \in req[q].held \/ Free(q, l)
    PROVE  Requested'
<1>1. req'[q].pc # "ack_write" /\ req'[q].pc # "grant"
  BY DEF Watched, Operating, Sharing
<1>2. Prepared(req[q])'
  BY <1>1 DEF Prepared, Watched
<1> QED
  BY <1>2, Going

\* The record of the request that takes a step, and the function it is in.
LEMMA Taken ==
    ASSUME Requested, NEW q \in Requests, NEW r, req' = [req EXCEPT ![q] = r]
    PROVE  /\ req'[q] = r /\ req' = [req EXCEPT ![q] = req'[q]]
           /\ Prepared(req[q]) /\ DOMAIN req[q] = Fields
  BY DEF Requested, Prepared

LEMMA QuietStep ==
    ASSUME Inv, Quiet, Requested'
    PROVE  Inv'
<1>1. Tables' /\ RevokedMeansNoSessions'
  BY DEF Inv, Quiet, Still, Tables, RevokedMeansNoSessions
<1>2. Acks'
  BY DEF Inv, Quiet, Still, Acks, IsAck
<1> QED
  BY <1>1, <1>2 DEF Inv

LEMMA QuietFinish ==
    ASSUME Inv, NEW q \in Requests, Quiet, Finish(q)
    PROVE  Inv'
<1>1. Requested /\ Still
  BY DEF Inv, Quiet
<1>2. Requested'
  BY <1>1, Finished
<1> QED
  BY <1>2, QuietStep

LEMMA QuietLeaving ==
    ASSUME Inv, NEW q \in Requests, Quiet, req' = [req EXCEPT ![q] = req'[q]],
           DOMAIN req'[q] = Fields, req'[q].pc \notin Watched,
           \A l \in req'[q].held : l \in req[q].held \/ Free(q, l)
    PROVE  Inv'
<1>1. Requested /\ Still
  BY DEF Inv, Quiet
<1>2. Requested'
  BY <1>1, Leaving
<1> QED
  BY <1>2, QuietStep

LEMMA Routes ==
    \A k \in DOMAIN Entry :
        \/ Entry[k] \in {"delete", "hosts", "users", "read"}
        \/ Entry[k] = "actor" /\ k \in {"maintenance", "ack"}
        \/ Entry[k] = "admin" /\ k \in {"list", "create", "revoke"}
  BY SMT DEF Entry

LEMMA Middleware ==
    ASSUME Inv, NEW q \in Requests, requireSession(q) \/ ResolveSessionUser(q)
    PROVE  Inv'
<1>1. Requested
  BY DEF Inv
<1>2. Quiet /\ Still
  BY DEF requireSession, ResolveSessionUser, Quiet, Still, accounts, logins, work, sharing, ambient
<1>3. CASE Finish(q)
  BY <1>1, <1>2, <1>3, Finished, QuietStep
<1>4. CASE requireSession(q) /\ ~Finish(q)
  <2> DEFINE t == req[q].token
  <2>1. /\ At(q, "session") /\ t \in Tokens /\ sessions[t] # NoSession
        /\ Go(q, [req[q] EXCEPT !.pc = "user", !.user = sessions[t].user])
    BY <1>4 DEF requireSession
  <2>2. sessions[t].user \in Users
    BY <2>1 DEF Inv, Tables
  <2>3. req' = [req EXCEPT ![q] = [req[q] EXCEPT !.pc = "user", !.user = sessions[t].user]]
    BY <2>1 DEF Go
  <2>4. /\ req'[q] = [req[q] EXCEPT !.pc = "user", !.user = sessions[t].user]
        /\ req' = [req EXCEPT ![q] = req'[q]]
        /\ Prepared(req[q]) /\ DOMAIN req[q] = Fields
    BY <2>3, <1>1, Taken
  <2>5. /\ DOMAIN req'[q] = Fields /\ req'[q].pc = "user" /\ req'[q].kind = req[q].kind
        /\ req'[q].user = sessions[t].user /\ req'[q].held = req[q].held
    BY <2>4 DEF Fields
  <2>6. req[q].kind \in DOMAIN Entry
    BY <2>4, <2>1 DEF Prepared, At
  <2>7. Prepared(req[q])'
    <3>1. req'[q].user \in Users /\ req'[q].kind \in DOMAIN Entry
      BY <2>2, <2>5, <2>6
    <3>2. req'[q].pc = "user"
      BY <2>5
    <3>3. req'[q].pc \notin Operating \cup Managing \cup Sharing
      BY <3>2 DEF Operating, Managing, Sharing
    <3> QED
      BY <3>1, <3>2, <3>3, <2>5 DEF Prepared
  <2> QED
    BY <1>1, <1>2, <2>4, <2>5, <2>7, Going, QuietStep
<1>5. CASE ResolveSessionUser(q) /\ ~Finish(q)
  <2> DEFINE k == req[q].kind
  <2>1. At(q, "user") /\ Go(q, [req[q] EXCEPT !.pc = Entry[k]])
    BY <1>5 DEF ResolveSessionUser
  <2>2. req' = [req EXCEPT ![q] = [req[q] EXCEPT !.pc = Entry[k]]]
    BY <2>1 DEF Go
  <2>3. /\ req'[q] = [req[q] EXCEPT !.pc = Entry[k]]
        /\ req' = [req EXCEPT ![q] = req'[q]]
        /\ Prepared(req[q]) /\ DOMAIN req[q] = Fields
    BY <2>2, <1>1, Taken
  <2>4. /\ DOMAIN req'[q] = Fields /\ req'[q].pc = Entry[k] /\ req'[q].kind = k
        /\ req'[q].user = req[q].user /\ req'[q].held = req[q].held
    BY <2>3 DEF Fields
  <2>5. k \in DOMAIN Entry /\ req[q].user \in Users
    BY <2>3, <2>1 DEF Prepared, At
  <2>6. \/ Entry[k] \in {"delete", "hosts", "users", "read"}
        \/ Entry[k] = "actor" /\ k \in {"maintenance", "ack"}
        \/ Entry[k] = "admin" /\ k \in {"list", "create", "revoke"}
    BY <2>5, Routes
  <2>7. CASE Entry[k] \in {"delete", "hosts", "users", "read"}
    <3>1. req'[q].pc \notin Watched
      BY <2>4, <2>7 DEF Watched, Operating, Managing, Sharing
    <3> QED
      BY <1>1, <1>2, <2>3, <2>4, <3>1, Leaving, QuietStep
  <2>8. CASE Entry[k] = "actor" /\ k \in {"maintenance", "ack"}
    <3>1. /\ req'[q].pc = "actor" /\ req'[q].kind \in {"maintenance", "ack"}
          /\ req'[q].user \in Users
      BY <2>4, <2>5, <2>8
    <3>2. req'[q].pc \notin Operating \cup Managing \cup Sharing
      BY <3>1 DEF Operating, Managing, Sharing
    <3>3. Prepared(req[q])'
      BY <3>1, <3>2, <2>4 DEF Prepared
    <3> QED
      BY <1>1, <1>2, <2>3, <2>4, <3>3, Going, QuietStep
  <2>9. CASE Entry[k] = "admin" /\ k \in {"list", "create", "revoke"}
    <3>1. /\ req'[q].pc = "admin" /\ req'[q].kind \in {"list", "create", "revoke"}
          /\ req'[q].user \in Users
      BY <2>4, <2>5, <2>9
    <3>2. req'[q].pc \notin Operating \cup Managing \cup Sharing
      BY <3>1 DEF Operating, Managing, Sharing
    <3>3. Prepared(req[q])'
      BY <3>1, <3>2, <2>4 DEF Prepared
    <3> QED
      BY <1>1, <1>2, <2>3, <2>4, <3>3, Going, QuietStep
  <2> QED
    BY <2>6, <2>7, <2>8, <2>9
<1> QED
  BY <1>3, <1>4, <1>5

\* Steps on accounts that read, and steps of any request that end it.
LEMMA Reading ==
    ASSUME Inv, NEW q \in Requests,
           \/ BootBegin(q) \/ BootCheck(q) \/ Login(q) \/ ListUsers(q) \/ UpdateUserRead(q)
           \/ AuthenticateShareSession(q) \/ DemoPrincipal(q) \/ ReadHosts(q)
           \/ ListShares(q) \/ Fail(q)
    PROVE  Inv'
<1>1. Requested
  BY DEF Inv
<1>2. Quiet
  BY DEF BootBegin, BootCheck, Login, ListUsers, UpdateUserRead, AuthenticateShareSession,
         DemoPrincipal, ReadHosts, ListShares, Fail, Quiet, Still, accounts, logins, work,
         sharing, ambient
<1>3. CASE Finish(q)
  BY <1>2, <1>3, QuietFinish
<1>4. CASE BootBegin(q)
  <2> DEFINE locks == {Exclusive(BootLock)}
                      \cup (IF req[q].kind = "startup" THEN {Exclusive(UsersTable)} ELSE {})
  <2>1. /\ \A l \in locks : Free(q, l)
        /\ req' = [req EXCEPT ![q] = [req[q] EXCEPT !.pc = "available", !.held = locks]]
    BY <1>4 DEF BootBegin, Go
  <2> HIDE DEF locks
  <2>2. /\ req'[q] = [req[q] EXCEPT !.pc = "available", !.held = locks]
        /\ req' = [req EXCEPT ![q] = req'[q]] /\ DOMAIN req[q] = Fields
    BY <2>1, <1>1, Taken
  <2>3. DOMAIN req'[q] = Fields /\ req'[q].pc = "available" /\ req'[q].held = locks
    BY <2>2 DEF Fields
  <2>4. req'[q].pc \notin Watched
    BY <2>3 DEF Watched, Operating, Managing, Sharing
  <2> QED
    BY <1>2, <2>1, <2>2, <2>3, <2>4, QuietLeaving
<1>5. CASE \/ BootCheck(q) \/ AuthenticateShareSession(q) \/ DemoPrincipal(q)
  <2>1. CASE Finish(q)
    BY <2>1, <1>3
  <2>2. ASSUME NEW x \in {"create_admin", "hosts"}, Go(q, [req[q] EXCEPT !.pc = x])
        PROVE  Inv'
    <3>1. req' = [req EXCEPT ![q] = [req[q] EXCEPT !.pc = x]]
      BY <2>2 DEF Go
    <3>2. /\ req'[q] = [req[q] EXCEPT !.pc = x]
          /\ req' = [req EXCEPT ![q] = req'[q]] /\ DOMAIN req[q] = Fields
      BY <3>1, <1>1, Taken
    <3>3. DOMAIN req'[q] = Fields /\ req'[q].pc = x /\ req'[q].held = req[q].held
      BY <3>2 DEF Fields
    <3>4. req'[q].pc \notin Watched
      BY <3>3 DEF Watched, Operating, Managing, Sharing
    <3> QED
      BY <1>2, <3>2, <3>3, <3>4, QuietLeaving
  <2> QED
    BY <1>5, <2>1, <2>2 DEF BootCheck, AuthenticateShareSession, DemoPrincipal
<1>6. CASE Login(q) /\ ~Finish(q)
  <2>1. req' = [req EXCEPT ![q] = [req[q] EXCEPT !.pc = "issue", !.user = req[q].target]]
    BY <1>6 DEF Login, Go
  <2>2. /\ req'[q] = [req[q] EXCEPT !.pc = "issue", !.user = req[q].target]
        /\ req' = [req EXCEPT ![q] = req'[q]] /\ DOMAIN req[q] = Fields
    BY <2>1, <1>1, Taken
  <2>3. DOMAIN req'[q] = Fields /\ req'[q].pc = "issue" /\ req'[q].held = req[q].held
    BY <2>2 DEF Fields
  <2>4. req'[q].pc \notin Watched
    BY <2>3 DEF Watched, Operating, Managing, Sharing
  <2> QED
    BY <1>2, <2>2, <2>3, <2>4, QuietLeaving
<1>7. CASE UpdateUserRead(q) /\ ~Finish(q)
  <2> DEFINE row == Patched(users[req[q].target], req[q].patch)
  <2>1. req' = [req EXCEPT ![q] = [req[q] EXCEPT !.pc = "save", !.row = row]]
    BY <1>7 DEF UpdateUserRead, Go
  <2> HIDE DEF row
  <2>2. /\ req'[q] = [req[q] EXCEPT !.pc = "save", !.row = row]
        /\ req' = [req EXCEPT ![q] = req'[q]] /\ DOMAIN req[q] = Fields
    BY <2>1, <1>1, Taken
  <2>3. DOMAIN req'[q] = Fields /\ req'[q].pc = "save" /\ req'[q].held = req[q].held
    BY <2>2 DEF Fields
  <2>4. req'[q].pc \notin Watched
    BY <2>3 DEF Watched, Operating, Managing, Sharing
  <2> QED
    BY <1>2, <2>2, <2>3, <2>4, QuietLeaving
<1>8. CASE ListUsers(q) \/ ReadHosts(q) \/ ListShares(q) \/ Fail(q)
  BY <1>8, <1>3 DEF ListUsers, ReadHosts, ListShares, Fail
<1> QED
  BY <1>3, <1>4, <1>5, <1>6, <1>7, <1>8

\* Steps that write sessions: only what they say of users matters.
LEMMA SessionStep ==
    ASSUME Inv, Still, UNCHANGED <<shareSessions, audit>>, Requested',
           sessions' = [t \in Tokens |-> sessions'[t]],
           \A t \in Tokens : sessions'[t] = NoSession \/ sessions'[t].user \in Users
    PROVE  Inv'
<1>1. Tables' /\ RevokedMeansNoSessions'
  BY DEF Inv, Still, Tables, RevokedMeansNoSessions
<1>2. Acks'
  BY DEF Inv, Still, Acks, IsAck
<1> QED
  BY <1>1, <1>2 DEF Inv

LEMMA Deleted ==
    ASSUME Inv, NEW t
    PROVE  /\ DeleteSession(t) = [x \in Tokens |-> DeleteSession(t)[x]]
           /\ \A x \in Tokens :
                DeleteSession(t)[x] = NoSession \/ DeleteSession(t)[x].user \in Users
<1>1. DOMAIN sessions = Tokens
  BY DEF Inv, Tables
<1>2. \A x \in Tokens : DeleteSession(t)[x] = IF x = t THEN NoSession ELSE sessions[x]
  BY <1>1 DEF DeleteSession
<1> QED
  BY <1>1, <1>2 DEF DeleteSession, Inv, Tables

LEMMA Logins ==
    ASSUME Inv, NEW q \in Requests,
           createLoginSession(q) \/ SetCookie(q) \/ RotateFails(q) \/ Logout(q)
    PROVE  Inv'
<1>1. Requested
  BY DEF Inv
<1>2. Still /\ UNCHANGED <<shareSessions, audit>>
  BY DEF createLoginSession, SetCookie, RotateFails, Logout, Still, accounts, logins, work,
         sharing, ambient
<1>3. DOMAIN sessions = Tokens /\ sessions = [t \in Tokens |-> sessions[t]]
  BY DEF Inv, Tables
<1>4. \A t \in Tokens : sessions[t] = NoSession \/ sessions[t].user \in Users
  BY DEF Inv, Tables
<1>5. CASE SetCookie(q) \/ RotateFails(q) \/ Logout(q)
  <2>1. Requested'
    <3>1. Finish(q)
      BY <1>5 DEF SetCookie, RotateFails, Logout
    <3> QED
      BY <3>1, <1>1, <1>2, Finished
  <2>2. sessions' \in {sessions, DeleteSession(req[q].token), DeleteSession(req[q].target)}
    BY <1>5 DEF SetCookie, RotateFails, Logout
  <2>3. CASE sessions' = sessions
    BY <1>2, <1>3, <1>4, <2>1, <2>3, SessionStep
  <2>4. CASE sessions' = DeleteSession(req[q].token)
    <3>1. /\ sessions' = [x \in Tokens |-> sessions'[x]]
          /\ \A x \in Tokens : sessions'[x] = NoSession \/ sessions'[x].user \in Users
      BY <2>4, Deleted
    <3> QED
      BY <1>2, <2>1, <3>1, SessionStep
  <2>5. CASE sessions' = DeleteSession(req[q].target)
    <3>1. /\ sessions' = [x \in Tokens |-> sessions'[x]]
          /\ \A x \in Tokens : sessions'[x] = NoSession \/ sessions'[x].user \in Users
      BY <2>5, Deleted
    <3> QED
      BY <1>2, <2>1, <3>1, SessionStep
  <2> QED
    BY <2>2, <2>3, <2>4, <2>5
<1>6. CASE createLoginSession(q)
  <2>1. CASE Finish(q) /\ sessions' = sessions
    <3>1. Quiet
      BY <2>1, <1>2 DEF Quiet
    <3> QED
      BY <2>1, <3>1, QuietFinish
  <2>2. CASE ~(Finish(q) /\ sessions' = sessions)
    <3> DEFINE n == lastToken + 1
               row == [user |-> req[q].user, expires |-> clock + SessionTTL]
    <3>1. /\ req[q].user \in Users
          /\ sessions' = [sessions EXCEPT ![n] = row]
          /\ req' = [req EXCEPT ![q] = [req[q] EXCEPT !.pc = "cookie", !.target = n]]
      BY <1>6, <2>2 DEF createLoginSession, CreateSession, Accounts, Go
    <3>2. row.user = req[q].user
      OBVIOUS
    <3> HIDE DEF n, row
    <3>3. /\ sessions' = [t \in Tokens |-> sessions'[t]]
          /\ \A t \in Tokens : sessions'[t] = IF t = n THEN row ELSE sessions[t]
      BY <3>1, <1>3
    <3>4. \A t \in Tokens : sessions'[t] = NoSession \/ sessions'[t].user \in Users
      BY <3>1, <3>2, <3>3, <1>4
    <3>5. /\ req'[q] = [req[q] EXCEPT !.pc = "cookie", !.target = n]
          /\ req' = [req EXCEPT ![q] = req'[q]] /\ DOMAIN req[q] = Fields
      BY <3>1, <1>1, Taken
    <3>6. DOMAIN req'[q] = Fields /\ req'[q].pc = "cookie" /\ req'[q].held = req[q].held
      BY <3>5 DEF Fields
    <3>7. req'[q].pc \notin Watched
      BY <3>6 DEF Watched, Operating, Managing, Sharing
    <3>8. Requested'
      BY <1>1, <1>2, <3>5, <3>6, <3>7, Leaving
    <3> QED
      BY <1>2, <3>3, <3>4, <3>8, SessionStep
  <2> QED
    BY <2>1, <2>2
<1> QED
  BY <1>5, <1>6

-----------------------------------------------------------------------------
(* Writers of the users table                                              *)

\* What is left to show of a step that writes the users.
LEMMA UserStep ==
    ASSUME Inv, UNCHANGED <<shares, ackedBy, shareSessions, audit>>, Requested',
           users' = [u \in Users |-> users'[u]],
           \/ UNCHANGED sessions
           \/ sessions' = [t \in Tokens |-> NoSession]
    PROVE  Inv'
<1>1. /\ sessions' = [t \in Tokens |-> sessions'[t]]
      /\ \A t \in Tokens : sessions'[t] = NoSession \/ sessions'[t].user \in Users
  BY DEF Inv, Tables
<1>2. Tables' /\ RevokedMeansNoSessions'
  BY <1>1 DEF Inv, Tables, RevokedMeansNoSessions
<1>3. Acks'
  BY DEF Inv, Acks, IsAck
<1> QED
  BY <1>2, <1>3 DEF Inv

\* A request that has locked its actor keeps it entitled, if the write leaves
\* every locked user as it was or makes it an active administrator.
LEMMA UserWrite ==
    ASSUME Requested, NEW q \in Requests, req' = [req EXCEPT ![q] = req'[q]],
           UNCHANGED <<tenantOn, shares, ackedBy>>,
           \A p \in Requests \ {q} : \A u \in Users :
              Shared(UserLock(u)) \in req[p].held =>
                \/ users'[u] = users[u]
                \/ users'[u].status = "active" /\ users'[u].role = "admin"
    PROVE  \A p \in Requests \ {q} : Prepared(req[p])'
<1>1. SUFFICES ASSUME NEW p \in Requests, p # q PROVE Prepared(req[p])'
  OBVIOUS
<1> DEFINE r == req[p]
<1>2. DOMAIN req = Requests
  BY DEF Requested
<1>3. req'[p] = r /\ Prepared(r)
  BY <1>1, <1>2 DEF Requested
<1>4. r.pc \in Operating => operationTenant(r.user, r.pc = "maintenance")'
  <2>1. SUFFICES ASSUME r.pc \in Operating
                 PROVE  operationTenant(r.user, r.pc = "maintenance")'
    OBVIOUS
  <2>2. /\ r.user \in Users /\ Shared(UserLock(r.user)) \in r.held
        /\ operationTenant(r.user, r.pc = "maintenance")
    BY <2>1, <1>3 DEF Prepared, OperationLocks
  <2>3. \/ users'[r.user] = users[r.user]
        \/ users'[r.user].status = "active" /\ users'[r.user].role = "admin"
    BY <2>2, <1>1
  <2> QED
    BY <2>2, <2>3, <1>3 DEF operationTenant
<1>5. r.pc \in Managing => tenantForAdmin(r.user)'
  <2>1. SUFFICES ASSUME r.pc \in Managing PROVE tenantForAdmin(r.user)'
    OBVIOUS
  <2>2. /\ r.user \in Users /\ Shared(UserLock(r.user)) \in r.held
        /\ tenantForAdmin(r.user)
    BY <2>1, <1>3 DEF Prepared, AdminLocks
  <2>3. \/ users'[r.user] = users[r.user]
        \/ users'[r.user].status = "active" /\ users'[r.user].role = "admin"
    BY <2>2, <1>1
  <2> QED
    BY <2>2, <2>3, <1>3 DEF tenantForAdmin
<1> QED
  BY <1>3, <1>4, <1>5 DEF Prepared, operationTenant, tenantForAdmin

LEMMA FirstAdmin ==
    ASSUME Inv, NEW q \in Requests, BootCreate(q)
    PROVE  Inv'
<1>1. Requested /\ DOMAIN users = Users
  BY DEF Inv, Tables
<1>2. UNCHANGED <<tenantOn, shares, ackedBy, sessions, shareSessions, audit>>
  BY DEF BootCreate, logins, work, sharing, ambient
<1>3. CASE Finish(q) /\ users' = users
  <2>1. Quiet
    BY <1>2, <1>3 DEF Quiet, Still
  <2> QED
    BY <1>3, <2>1, QuietFinish
<1>4. CASE ~(Finish(q) /\ users' = users)
  <2> DEFINE n == lastUser + 1
             row == [role |-> "admin", status |-> "active"]
  <2>1. /\ users' = [users EXCEPT ![n] = row]
        /\ IF req[q].kind = "setup"
           THEN Go(q, [req[q] EXCEPT !.pc = "issue", !.user = n, !.held = {}])
           ELSE Finish(q)
    BY <1>4 DEF BootCreate, createLocalAdmin, accounts
  <2>2. row.role = "admin" /\ row.status = "active"
    OBVIOUS
  <2> HIDE DEF n, row
  <2>3. /\ users' = [u \in Users |-> users'[u]]
        /\ \A u \in Users : users'[u] = row \/ users'[u] = users[u]
    BY <2>1, <1>1
  <2>4. \A u \in Users :
           \/ users'[u] = users[u]
           \/ users'[u].status = "active" /\ users'[u].role = "admin"
    BY <2>2, <2>3
  <2>5. req' = [req EXCEPT ![q] = req'[q]]
    <3>1. DOMAIN req = Requests
      BY <1>1 DEF Requested
    <3>2. CASE Finish(q)
      BY <3>1, <3>2 DEF Finish
    <3>3. CASE ~Finish(q)
      <4>1. req' = [req EXCEPT ![q] = [req[q] EXCEPT !.pc = "issue", !.user = n, !.held = {}]]
        BY <2>1, <3>3 DEF Go
      <4> QED
        BY <4>1, <1>1, Taken
    <3> QED
      BY <3>2, <3>3
  <2>6. \A p \in Requests \ {q} : Prepared(req[p])'
    BY <1>1, <1>2, <2>4, <2>5, UserWrite
  <2>7. CASE Finish(q)
    <3>1. Requested'
      BY <1>1, <2>6, <2>7, Finishing
    <3> QED
      BY <3>1, <1>2, <2>3, UserStep
  <2>8. CASE ~Finish(q)
    <3>1. req' = [req EXCEPT ![q] = [req[q] EXCEPT !.pc = "issue", !.user = n, !.held = {}]]
      BY <2>1, <2>8 DEF Go
    <3>2. /\ req'[q] = [req[q] EXCEPT !.pc = "issue", !.user = n, !.held = {}]
          /\ DOMAIN req[q] = Fields
      BY <3>1, <1>1, Taken
    <3>3. DOMAIN req'[q] = Fields /\ req'[q].pc = "issue" /\ req'[q].held = {}
      BY <3>2 DEF Fields
    <3>4. Prepared(req[q])'
      BY <3>3 DEF Prepared, Operating, Managing, Sharing
    <3>5. Requested'
      BY <1>1, <2>5, <2>6, <3>3, <3>4, Stepping
    <3> QED
      BY <3>5, <1>2, <2>3, UserStep
  <2> QED
    BY <2>7, <2>8
<1> QED
  BY <1>3, <1>4

\* A user's row is saved only when nobody else has locked it.
LEMMA Saving ==
    ASSUME Inv, NEW q \in Requests, UpdateUserSave(q)
    PROVE  Inv'
<1> DEFINE n == req[q].target
<1>1. Requested /\ DOMAIN users = Users
  BY DEF Inv, Tables
<1>2. /\ UNCHANGED <<tenantOn, shares, ackedBy, sessions, shareSessions, audit>>
      /\ users' = [users EXCEPT ![n] = req[q].row] /\ Finish(q)
      /\ Free(q, Exclusive(UserLock(n)))
  BY DEF UpdateUserSave, logins, work, sharing, ambient
<1>3. /\ users' = [u \in Users |-> users'[u]]
      /\ \A u \in Users : u # n => users'[u] = users[u]
  BY <1>1, <1>2
<1>4. ASSUME NEW p \in Requests \ {q}, Shared(UserLock(n)) \in req[p].held PROVE FALSE
  <2>1. /\ Shared(UserLock(n)).row = UserLock(n)
        /\ Exclusive(UserLock(n)).row = UserLock(n) /\ Exclusive(UserLock(n)).mode = "update"
    BY Locks
  <2>2. Exclusive(UserLock(n)).mode = "share"
    BY <1>2, <1>4, <2>1 DEF Free
  <2> QED
    BY <2>1, <2>2
<1>5. \A p \in Requests \ {q} : \A u \in Users :
         Shared(UserLock(u)) \in req[p].held => users'[u] = users[u]
  BY <1>3, <1>4
<1>6. req' = [req EXCEPT ![q] = req'[q]]
  <2>1. DOMAIN req = Requests
    BY <1>1 DEF Requested
  <2> QED
    BY <2>1, <1>2 DEF Finish
<1>7. \A p \in Requests \ {q} : Prepared(req[p])'
  BY <1>1, <1>2, <1>5, <1>6, UserWrite
<1>8. Requested'
  BY <1>1, <1>2, <1>7, Finishing
<1> QED
  BY <1>2, <1>3, <1>8, UserStep

-----------------------------------------------------------------------------
(* The operator and time                                                   *)

\* No request is between its locks and its write.
LEMMA Undisturbed ==
    ASSUME Requested, UNCHANGED <<req, shares, ackedBy>>,
           \A p \in Requests : req[p].pc \notin Operating \cup Managing
    PROVE  Requested'
<1>1. ASSUME NEW p \in Requests PROVE Prepared(req[p])'
  <2>1. Prepared(req[p]) /\ req[p].pc \notin Operating /\ req[p].pc \notin Managing
    BY <1>1 DEF Requested
  <2> QED
    BY <2>1 DEF Prepared
<1>2. Apart' /\ (req = [q \in Requests |-> req[q]])'
  BY DEF Requested, Apart
<1> QED
  BY <1>1, <1>2 DEF Requested

LEMMA Operator ==
    ASSUME Inv, DeleteUsers \/ SwitchTenant \/ Tick
    PROVE  Inv'
<1>1. Requested
  BY DEF Inv
<1>2. ASSUME NEW p \in Requests, req[p].pc \in Operating \cup Managing
      PROVE  \E u : Shared(UserLock(u)) \in req[p].held
                 /\ (Shared(TenantLock) \in req[p].held \/ Exclusive(TenantLock) \in req[p].held)
  <2>1. Prepared(req[p])
    BY <1>1, <1>2 DEF Requested
  <2>2. CASE req[p].pc \in Operating
    BY <2>1, <2>2 DEF Prepared, OperationLocks
  <2>3. CASE req[p].pc \in Managing
    BY <2>1, <2>3 DEF Prepared, AdminLocks
  <2> QED
    BY <1>2, <2>2, <2>3
<1>3. CASE DeleteUsers
  <2>1. \A p \in Requests : \A l \in req[p].held : l.row[1] # "user"
    BY <1>3 DEF DeleteUsers
  <2>2. \A u : Shared(UserLock(u)).row[1] = "user"
    BY Locks
  <2>3. \A p \in Requests : req[p].pc \notin Operating \cup Managing
    BY <1>2, <2>1, <2>2
  <2>4. /\ UNCHANGED <<req, shares, ackedBy, shareSessions, audit>>
        /\ users' = [u \in Users |-> NoUser] /\ sessions' = [t \in Tokens |-> NoSession]
    BY <1>3 DEF DeleteUsers, work, sharing
  <2>5. Requested'
    BY <1>1, <2>3, <2>4, Undisturbed
  <2>6. users' = [u \in Users |-> users'[u]]
    BY <2>4
  <2> QED
    BY <2>4, <2>5, <2>6, UserStep
<1>4. CASE SwitchTenant
  <2>1. \A p \in Requests : \A l \in req[p].held : l.row # TenantLock
    BY <1>4 DEF SwitchTenant
  <2>2. Shared(TenantLock).row = TenantLock /\ Exclusive(TenantLock).row = TenantLock
    BY Locks
  <2>3. \A p \in Requests : req[p].pc \notin Operating \cup Managing
    BY <1>2, <2>1, <2>2
  <2>4. UNCHANGED <<req, users, sessions, shares, ackedBy, shareSessions, audit>>
    BY <1>4 DEF SwitchTenant, accounts, logins, work, sharing
  <2>5. Requested'
    BY <1>1, <2>3, <2>4, Undisturbed
  <2>6. users' = [u \in Users |-> users'[u]]
    BY <2>4 DEF Inv, Tables
  <2> QED
    BY <2>4, <2>5, <2>6, UserStep
<1>5. CASE Tick
  <2>1. UNCHANGED <<req, tenantOn, users, sessions, shares, ackedBy, shareSessions, audit>>
    BY <1>5 DEF Tick, accounts, logins, work, sharing
  <2>2. Requested'
    <3>1. ASSUME NEW p \in Requests PROVE Prepared(req[p])'
      BY <1>1, <2>1 DEF Requested, Prepared, operationTenant, tenantForAdmin
    <3> QED
      BY <1>1, <2>1, <3>1 DEF Requested, Apart
  <2> QED
    BY <2>1, <2>2, QuietStep DEF Quiet, Still
<1> QED
  BY <1>3, <1>4, <1>5

-----------------------------------------------------------------------------
(* Requests that come in                                                   *)

LEMMA Doors ==
    \A k \in Kinds :
        /\ Door(k) \in {"boot", "login", "exchange", "view", "demo", "session"}
        /\ Door(k) = "session" => k \in DOMAIN Entry
  BY AccessAssumption, SMT DEF Door, Entry

LEMMA Arriving ==
    ASSUME Inv, NEW q \in Requests, Begin(q) \/ Reject(q)
    PROVE  Inv'
<1>1. Requested
  BY DEF Inv
<1>2. Quiet
  BY DEF Begin, Reject, Quiet, Still, accounts, logins, work, sharing, ambient
<1>3. CASE req' = req
  <2>1. req' = [req EXCEPT ![q] = req'[q]] /\ DOMAIN req = Requests
    BY <1>1, <1>3 DEF Requested
  <2>2. Prepared(req[q])'
    BY <1>1, <1>2, <1>3 DEF Requested, Prepared, Quiet, Still, operationTenant, tenantForAdmin
  <2>3. Requested'
    BY <1>1, <1>2, <1>3, <2>1, <2>2, Going DEF Quiet
  <2> QED
    BY <1>2, <2>3, QuietStep
<1>4. CASE Finish(q)
  BY <1>2, <1>4, QuietFinish
<1>5. CASE Begin(q) /\ req' # req
  <2>1. PICK k \in Kinds : \E b \in Browsers, i \in Inputs(k) :
           req' = [req EXCEPT ![q] = [Arrival(k, b, i[1], i[2]) EXCEPT !.pc = Door(k)]]
    BY <1>5 DEF Begin, limitAuthWork, Go
  <2>2. PICK b \in Browsers, i \in Inputs(k) :
           req' = [req EXCEPT ![q] = [Arrival(k, b, i[1], i[2]) EXCEPT !.pc = Door(k)]]
    BY <2>1
  <2> DEFINE a == Arrival(k, b, i[1], i[2])
  <2>3. DOMAIN a = Fields /\ a.kind = k /\ a.held = {}
    BY DEF Arrival, Idle, Fields
  <2> HIDE DEF a
  <2>4. req'[q] = [a EXCEPT !.pc = Door(k)] /\ req' = [req EXCEPT ![q] = req'[q]]
    BY <2>2, <1>1, Taken DEF a
  <2>5. /\ DOMAIN req'[q] = Fields /\ req'[q].pc = Door(k) /\ req'[q].kind = k
        /\ req'[q].held = {}
    BY <2>3, <2>4 DEF Fields
  <2>6. /\ Door(k) \in {"boot", "login", "exchange", "view", "demo", "session"}
        /\ Door(k) = "session" => k \in DOMAIN Entry
    BY Doors
  <2>7. Prepared(req[q])'
    <3>1. req'[q].pc \notin {"user", "actor", "admin", "ack_write", "grant"}
      BY <2>5, <2>6
    <3>2. req'[q].pc \notin Operating \cup Managing \cup Sharing
      BY <2>5, <2>6 DEF Operating, Managing, Sharing
    <3>3. req'[q].pc = "session" => req'[q].kind \in DOMAIN Entry
      BY <2>5, <2>6
    <3> QED
      BY <2>5, <3>1, <3>2, <3>3 DEF Prepared
  <2>8. Requested'
    BY <1>1, <1>2, <2>4, <2>5, <2>7, Going DEF Quiet
  <2> QED
    BY <1>2, <2>8, QuietStep
<1> QED
  BY <1>3, <1>4, <1>5 DEF Reject

-----------------------------------------------------------------------------
(* The audit log                                                           *)

LEMMA Logged ==
    ASSUME audit \in Seq(AuditRow), NEW e \in AuditRow, audit' = Append(audit, e)
    PROVE  /\ audit' \in Seq(AuditRow)
           /\ DOMAIN audit' = DOMAIN audit \cup {Len(audit) + 1}
           /\ Len(audit) + 1 \notin DOMAIN audit
           /\ audit'[Len(audit) + 1] = e
           /\ \A i \in DOMAIN audit : audit'[i] = audit[i]
  BY SMT

LEMMA OtherEntry ==
    ASSUME Acks, audit \in Seq(AuditRow), NEW e \in AuditRow, audit' = Append(audit, e),
           e.action # "ack", ackedBy' = ackedBy
    PROVE  Acks'
<1> DEFINE n == Len(audit) + 1
<1>1. /\ DOMAIN audit' = DOMAIN audit \cup {n} /\ audit'[n] = e
      /\ \A i \in DOMAIN audit : audit'[i] = audit[i]
  BY Logged
<1> HIDE DEF n
<1>2. \A i \in DOMAIN audit' : audit'[i].action = "ack" =>
         i \in DOMAIN audit /\ audit[i].action = "ack"
  BY <1>1
<1>3. CASE ackedBy = 0
  BY <1>2, <1>3 DEF Acks, IsAck
<1>4. CASE ackedBy # 0
  <2>1. PICK i \in DOMAIN audit : /\ IsAck(i) /\ audit[i].actor = ackedBy
                                  /\ \A j \in DOMAIN audit : IsAck(j) => j = i
    BY <1>4 DEF Acks
  <2>2. /\ i \in DOMAIN audit' /\ audit'[i].action = "ack" /\ audit'[i].actor = ackedBy
        /\ \A j \in DOMAIN audit' : audit'[j].action = "ack" => j = i
    BY <2>1, <1>1, <1>2 DEF IsAck
  <2> QED
    BY <2>2, <1>4 DEF Acks, IsAck
<1> QED
  BY <1>3, <1>4

LEMMA Entries ==
    ASSUME NEW u \in Users, NEW s \in Shares \cup {0},
           NEW a \in {"maintenance", "ack", "create", "revoke"}
    PROVE  /\ [action |-> a, actor |-> u, id |-> s] \in AuditRow
           /\ [action |-> a, actor |-> u, id |-> s].action = a
           /\ [action |-> a, actor |-> u, id |-> s].actor = u
  BY DEF AuditRow

-----------------------------------------------------------------------------
(* Operations                                                              *)

LEMMA Locking ==
    ASSUME Inv, NEW q \in Requests, LockActor(q) \/ LockAlert(q)
    PROVE  Inv'
<1> DEFINE u == req[q].user
<1>1. Requested
  BY DEF Inv
<1>2. Quiet
  BY DEF LockActor, LockAlert, Quiet, Still, accounts, logins, work, sharing, ambient
<1>3. CASE Finish(q)
  BY <1>2, <1>3, QuietFinish
<1>4. CASE LockActor(q) /\ ~Finish(q)
  <2>1. /\ At(q, "actor") /\ \A l \in OperationLocks(u) : Free(q, l)
        /\ operationTenant(u, req[q].kind = "maintenance")
        /\ req' = [req EXCEPT ![q] = [req[q] EXCEPT !.pc = req[q].kind, !.held = OperationLocks(u)]]
    BY <1>4 DEF LockActor, Go
  <2>2. /\ req'[q] = [req[q] EXCEPT !.pc = req[q].kind, !.held = OperationLocks(u)]
        /\ req' = [req EXCEPT ![q] = req'[q]]
        /\ Prepared(req[q]) /\ DOMAIN req[q] = Fields
    BY <2>1, <1>1, Taken
  <2>3. /\ DOMAIN req'[q] = Fields /\ req'[q].pc = req[q].kind /\ req'[q].user = u
        /\ req'[q].held = OperationLocks(u)
    BY <2>2 DEF Fields
  <2>4. req[q].kind \in {"maintenance", "ack"} /\ u \in Users
    BY <2>1, <2>2 DEF Prepared, At
  <2>5. /\ req'[q].pc \notin {"session", "user", "actor", "admin", "ack_write", "grant"}
        /\ req'[q].pc \notin Managing \cup Sharing
    BY <2>3, <2>4 DEF Managing, Sharing
  <2>6. tenantOn' = tenantOn /\ users' = users
    BY <1>2 DEF Quiet, Still
  <2>7. operationTenant(req[q].user, req[q].pc = "maintenance")'
    BY <2>1, <2>3, <2>6 DEF operationTenant
  <2>8. (OperationLocks(req[q].user) \subseteq req[q].held)'
    BY <2>3 DEF OperationLocks
  <2>9. Prepared(req[q])'
    BY <2>3, <2>4, <2>5, <2>7, <2>8 DEF Prepared
  <2>10. Requested'
    BY <1>1, <1>2, <2>1, <2>2, <2>3, <2>9, Going DEF Quiet
  <2> QED
    BY <1>2, <2>10, QuietStep
<1>5. CASE LockAlert(q) /\ ~Finish(q)
  <2> DEFINE new == req[q].held \cup {Exclusive(AlertLock)}
  <2>1. /\ At(q, "ack") /\ Free(q, Exclusive(AlertLock)) /\ ackedBy = 0
        /\ req' = [req EXCEPT ![q] = [req[q] EXCEPT !.pc = "ack_write", !.held = new]]
    BY <1>5 DEF LockAlert, Go
  <2>2. Exclusive(AlertLock) \in new /\ req[q].held \subseteq new
        /\ \A l \in new : l \in req[q].held \/ Free(q, l)
    BY <2>1
  <2> HIDE DEF new
  <2>3. /\ req'[q] = [req[q] EXCEPT !.pc = "ack_write", !.held = new]
        /\ req' = [req EXCEPT ![q] = req'[q]]
        /\ Prepared(req[q]) /\ DOMAIN req[q] = Fields
    BY <2>1, <1>1, Taken
  <2>4. /\ DOMAIN req'[q] = Fields /\ req'[q].pc = "ack_write" /\ req'[q].user = u
        /\ req'[q].held = new
    BY <2>3 DEF Fields
  <2>5. /\ u \in Users /\ OperationLocks(u) \subseteq req[q].held
        /\ operationTenant(u, FALSE)
    BY <2>1, <2>3 DEF Prepared, At, Operating, operationTenant
  <2>6. tenantOn' = tenantOn /\ users' = users /\ ackedBy' = ackedBy
    BY <1>2 DEF Quiet, Still
  <2>7. operationTenant(req[q].user, req[q].pc = "maintenance")'
    BY <2>4, <2>5, <2>6 DEF operationTenant
  <2>8. (OperationLocks(req[q].user) \subseteq req[q].held)'
    BY <2>2, <2>4, <2>5 DEF OperationLocks
  <2>9. req'[q].pc \notin Managing \cup Sharing
    BY <2>4 DEF Managing, Sharing
  <2>10. (Exclusive(AlertLock) \in req[q].held /\ ackedBy = 0)'
    BY <2>1, <2>2, <2>4, <2>6 DEF Exclusive, AlertLock
  <2>11. Prepared(req[q])'
    BY <2>4, <2>5, <2>7, <2>8, <2>9, <2>10 DEF Prepared
  <2>12. Requested'
    BY <1>1, <1>2, <2>2, <2>3, <2>4, <2>11, Going DEF Quiet
  <2> QED
    BY <1>2, <2>12, QuietStep
<1> QED
  BY <1>3, <1>4, <1>5

\* The actor named by an entry, found in the state before the step.
LEMMA Actors ==
    ASSUME Requested, NEW q \in Requests
    PROVE  /\ req[q].pc \in Operating => /\ req[q].user \in Users
                                         /\ operationTenant(req[q].user, req[q].pc = "maintenance")
           /\ req[q].pc \in Managing => req[q].user \in Users /\ tenantForAdmin(req[q].user)
  BY DEF Requested, Prepared

LEMMA Maintenance ==
    ASSUME Inv, NEW q \in Requests, CreateMaintenance(q)
    PROVE  Inv'
<1> DEFINE e == [action |-> "maintenance", actor |-> req[q].user, id |-> 0]
<1>1. Requested /\ audit \in Seq(AuditRow) /\ Acks
  BY DEF Inv, Tables
<1>2. /\ At(q, "maintenance") /\ audit' = Append(audit, e) /\ Finish(q) /\ Still
      /\ UNCHANGED <<sessions, shareSessions>>
  BY DEF CreateMaintenance, writeOperationAudit, Still, accounts, logins, sharing, ambient
<1>3. req[q].user \in Users
  BY <1>1, <1>2, Actors DEF At, Operating
<1>4. e \in AuditRow /\ e.action = "maintenance"
  BY <1>3, Entries
<1> HIDE DEF e
<1>5. audit' \in Seq(AuditRow)
  BY <1>1, <1>2, <1>4, Logged
<1>6. Acks'
  BY <1>1, <1>2, <1>4, OtherEntry DEF Still
<1>7. Requested'
  BY <1>1, <1>2, Finished
<1>8. Tables' /\ RevokedMeansNoSessions'
  BY <1>2, <1>5 DEF Inv, Still, Tables, RevokedMeansNoSessions
<1> QED
  BY <1>6, <1>7, <1>8 DEF Inv

\* Two requests do not hold the same row for update.
LEMMA OneHolder ==
    ASSUME Requested, NEW p \in Requests, NEW q \in Requests, p # q, NEW row,
           Exclusive(row) \in req[p].held, Exclusive(row) \in req[q].held
    PROVE  FALSE
<1>1. Exclusive(row).mode = "update"
  BY Locks
<1>2. Exclusive(row).mode = "share"
  BY DEF Requested, Apart
<1> QED
  BY <1>1, <1>2

LEMMA Acknowledging ==
    ASSUME Inv, NEW q \in Requests, AckAlert(q)
    PROVE  Inv'
<1> DEFINE e == [action |-> "ack", actor |-> req[q].user, id |-> 0]
           n == Len(audit) + 1
<1>1. Requested /\ audit \in Seq(AuditRow) /\ Acks /\ DOMAIN req = Requests
  BY DEF Inv, Tables, Requested
<1>2. /\ At(q, "ack_write") /\ audit' = Append(audit, e) /\ Finish(q)
      /\ ackedBy' = req[q].user
      /\ UNCHANGED <<tenantOn, users, shares, sessions, shareSessions>>
  BY DEF AckAlert, writeOperationAudit, accounts, logins, sharing, ambient
<1>3. /\ req[q].user \in Users /\ Exclusive(AlertLock) \in req[q].held /\ ackedBy = 0
  BY <1>1, <1>2 DEF Requested, Prepared, At, Operating
<1>4. e \in AuditRow /\ e.action = "ack" /\ e.actor = req[q].user
  BY <1>3, Entries
<1> HIDE DEF e
<1>5. /\ audit' \in Seq(AuditRow) /\ DOMAIN audit' = DOMAIN audit \cup {n} /\ audit'[n] = e
      /\ \A i \in DOMAIN audit : audit'[i] = audit[i]
  BY <1>1, <1>2, <1>4, Logged
<1> HIDE DEF n
<1>6. Acks'
  <2>1. \A i \in DOMAIN audit : audit'[i].action # "ack"
    BY <1>1, <1>3, <1>5 DEF Acks, IsAck
  <2>2. /\ n \in DOMAIN audit' /\ audit'[n].action = "ack" /\ audit'[n].actor = ackedBy'
        /\ \A j \in DOMAIN audit' : audit'[j].action = "ack" => j = n
    BY <2>1, <1>2, <1>4, <1>5
  <2>3. ackedBy' # 0
    BY <1>2, <1>3, AccessAssumption
  <2> QED
    BY <2>2, <2>3 DEF Acks, IsAck
<1>7. ASSUME NEW p \in Requests, p # q PROVE Prepared(req[p])'
  <2>1. req'[p] = req[p] /\ Prepared(req[p])
    BY <1>1, <1>2, <1>7 DEF Finish, Requested
  <2>2. req[p].pc # "ack_write"
    BY <2>1, <1>1, <1>3, <1>7, OneHolder DEF Prepared
  <2> QED
    BY <2>1, <2>2, <1>2 DEF Prepared, operationTenant, tenantForAdmin
<1>8. Requested'
  BY <1>1, <1>2, <1>7, Finishing
<1>9. Tables' /\ RevokedMeansNoSessions'
  BY <1>2, <1>3, <1>5 DEF Inv, Tables, RevokedMeansNoSessions
<1> QED
  BY <1>6, <1>8, <1>9 DEF Inv

-----------------------------------------------------------------------------
(* Shares                                                                  *)

LEMMA Administering ==
    ASSUME Inv, NEW q \in Requests, LockAdmin(q) \/ CountShares(q)
    PROVE  Inv'
<1> DEFINE u == req[q].user
<1>1. Requested
  BY DEF Inv
<1>2. Quiet /\ tenantOn' = tenantOn /\ users' = users
  BY DEF LockAdmin, CountShares, Quiet, Still, accounts, logins, work, sharing, ambient
<1>3. CASE Finish(q)
  BY <1>2, <1>3, QuietFinish
<1>4. CASE LockAdmin(q) /\ ~Finish(q)
  <2>1. /\ At(q, "admin") /\ tenantForAdmin(u)
        /\ \A l \in AdminLocks(u) : Free(q, l)
        /\ req' = [req EXCEPT ![q] = [req[q] EXCEPT !.pc = req[q].kind, !.held = AdminLocks(u)]]
    BY <1>4 DEF LockAdmin, Go
  <2>2. /\ req'[q] = [req[q] EXCEPT !.pc = req[q].kind, !.held = AdminLocks(u)]
        /\ req' = [req EXCEPT ![q] = req'[q]]
        /\ Prepared(req[q]) /\ DOMAIN req[q] = Fields
    BY <2>1, <1>1, Taken
  <2>3. /\ DOMAIN req'[q] = Fields /\ req'[q].pc = req[q].kind /\ req'[q].user = u
        /\ req'[q].held = AdminLocks(u)
    BY <2>2 DEF Fields
  <2>4. req[q].kind \in {"list", "create", "revoke"} /\ u \in Users
    BY <2>1, <2>2 DEF Prepared, At
  <2>5. /\ req'[q].pc \notin {"session", "user", "actor", "admin", "ack_write", "grant"}
        /\ req'[q].pc \notin Operating \cup Sharing
    BY <2>3, <2>4 DEF Operating, Sharing
  <2>6. tenantForAdmin(req[q].user)'
    BY <2>1, <2>3, <1>2 DEF tenantForAdmin
  <2>7. (AdminLocks(req[q].user) \subseteq req[q].held)'
    BY <2>3 DEF AdminLocks
  <2>8. Prepared(req[q])'
    BY <2>3, <2>4, <2>5, <2>6, <2>7 DEF Prepared
  <2>9. Requested'
    BY <1>1, <1>2, <2>1, <2>2, <2>3, <2>8, Going DEF Quiet
  <2> QED
    BY <1>2, <2>9, QuietStep
<1>5. CASE CountShares(q) /\ ~Finish(q)
  <2>1. /\ At(q, "create") /\ req' = [req EXCEPT ![q] = [req[q] EXCEPT !.pc = "insert"]]
    BY <1>5 DEF CountShares, Go
  <2>2. /\ req'[q] = [req[q] EXCEPT !.pc = "insert"]
        /\ req' = [req EXCEPT ![q] = req'[q]]
        /\ Prepared(req[q]) /\ DOMAIN req[q] = Fields
    BY <2>1, <1>1, Taken
  <2>3. /\ DOMAIN req'[q] = Fields /\ req'[q].pc = "insert" /\ req'[q].user = u
        /\ req'[q].held = req[q].held
    BY <2>2 DEF Fields
  <2>4. u \in Users /\ AdminLocks(u) \subseteq req[q].held /\ tenantForAdmin(u)
    BY <2>1, <2>2 DEF Prepared, At, Managing
  <2>5. req'[q].pc \notin Operating \cup Sharing
    BY <2>3 DEF Operating, Sharing
  <2>6. tenantForAdmin(req[q].user)'
    BY <2>3, <2>4, <1>2 DEF tenantForAdmin
  <2>7. (AdminLocks(req[q].user) \subseteq req[q].held)'
    BY <2>3, <2>4 DEF AdminLocks
  <2>8. Prepared(req[q])'
    BY <2>3, <2>4, <2>5, <2>6, <2>7 DEF Prepared
  <2>9. Requested'
    BY <1>1, <1>2, <2>2, <2>3, <2>8, Going DEF Quiet
  <2> QED
    BY <1>2, <2>9, QuietStep
<1> QED
  BY <1>3, <1>4, <1>5

\* A request that takes the share's row, or finds it valid under the lock.
LEMMA Exchanging ==
    ASSUME Inv, NEW q \in Requests, MarkRevoked(q) \/ LockShare(q) \/ CheckShare(q)
    PROVE  Inv'
<1> DEFINE s == req[q].target
           u == req[q].user
           lock == Exclusive(ShareLock(s))
<1>1. Requested
  BY DEF Inv
<1>2. Quiet /\ tenantOn' = tenantOn /\ users' = users /\ shares' = shares
  BY DEF MarkRevoked, LockShare, CheckShare, Quiet, Still, accounts, logins, work, sharing,
         ambient
<1>3. CASE Finish(q)
  BY <1>2, <1>3, QuietFinish
<1>4. CASE MarkRevoked(q) /\ ~Finish(q)
  <2> DEFINE new == req[q].held \cup {lock}
  <2>1. /\ At(q, "revoke") /\ s \in Shares /\ Free(q, lock)
        /\ req' = [req EXCEPT ![q] = [req[q] EXCEPT !.pc = "purge", !.held = new]]
    BY <1>4 DEF MarkRevoked, Issued, Go
  <2>2. /\ lock \in new /\ req[q].held \subseteq new
        /\ \A l \in new : l \in req[q].held \/ Free(q, l)
    BY <2>1
  <2> HIDE DEF new
  <2>3. /\ req'[q] = [req[q] EXCEPT !.pc = "purge", !.held = new]
        /\ req' = [req EXCEPT ![q] = req'[q]]
        /\ Prepared(req[q]) /\ DOMAIN req[q] = Fields
    BY <2>1, <1>1, Taken
  <2>4. /\ DOMAIN req'[q] = Fields /\ req'[q].pc = "purge" /\ req'[q].user = u
        /\ req'[q].held = new /\ req'[q].target = s
    BY <2>3 DEF Fields
  <2>5. u \in Users /\ AdminLocks(u) \subseteq req[q].held /\ tenantForAdmin(u)
    BY <2>1, <2>3 DEF Prepared, At, Managing
  <2>6. tenantForAdmin(req[q].user)'
    BY <2>4, <2>5, <1>2 DEF tenantForAdmin
  <2>7. (AdminLocks(req[q].user) \subseteq req[q].held)'
    BY <2>2, <2>4, <2>5 DEF AdminLocks
  <2>8. (req[q].target \in Shares /\ Exclusive(ShareLock(req[q].target)) \in req[q].held)'
    BY <2>1, <2>2, <2>4 DEF Exclusive, ShareLock
  <2>9. req'[q].pc \notin Operating
    BY <2>4 DEF Operating
  <2>10. Prepared(req[q])'
    BY <2>4, <2>5, <2>6, <2>7, <2>8, <2>9 DEF Prepared
  <2>11. Requested'
    BY <1>1, <1>2, <2>2, <2>3, <2>4, <2>10, Going DEF Quiet
  <2> QED
    BY <1>2, <2>11, QuietStep
<1>5. CASE LockShare(q) /\ ~Finish(q)
  <2>1. /\ At(q, "exchange") /\ s \in Shares /\ Free(q, lock)
        /\ req' = [req EXCEPT ![q] = [req[q] EXCEPT !.pc = "valid", !.held = {lock}]]
    BY <1>5 DEF LockShare, Issued, Go
  <2>2. /\ req'[q] = [req[q] EXCEPT !.pc = "valid", !.held = {lock}]
        /\ req' = [req EXCEPT ![q] = req'[q]] /\ DOMAIN req[q] = Fields
    BY <2>1, <1>1, Taken
  <2>3. /\ DOMAIN req'[q] = Fields /\ req'[q].pc = "valid"
        /\ req'[q].held = {lock} /\ req'[q].target = s
    BY <2>2 DEF Fields
  <2>4. (req[q].target \in Shares /\ Exclusive(ShareLock(req[q].target)) \in req[q].held)'
    BY <2>1, <2>3 DEF Exclusive, ShareLock
  <2>5. req'[q].pc \notin Operating \cup Managing
    BY <2>3 DEF Operating, Managing
  <2>6. Prepared(req[q])'
    BY <2>3, <2>4, <2>5 DEF Prepared
  <2>7. Requested'
    BY <1>1, <1>2, <2>1, <2>2, <2>3, <2>6, Going DEF Quiet
  <2> QED
    BY <1>2, <2>7, QuietStep
<1>6. CASE CheckShare(q) /\ ~Finish(q)
  <2>1. /\ At(q, "valid") /\ ~shares[s].revoked
        /\ req' = [req EXCEPT ![q] = [req[q] EXCEPT !.pc = "grant"]]
    BY <1>6 DEF CheckShare, validShare, Go
  <2>2. /\ req'[q] = [req[q] EXCEPT !.pc = "grant"]
        /\ req' = [req EXCEPT ![q] = req'[q]]
        /\ Prepared(req[q]) /\ DOMAIN req[q] = Fields
    BY <2>1, <1>1, Taken
  <2>3. /\ DOMAIN req'[q] = Fields /\ req'[q].pc = "grant"
        /\ req'[q].held = req[q].held /\ req'[q].target = s
    BY <2>2 DEF Fields
  <2>4. s \in Shares /\ Exclusive(ShareLock(s)) \in req[q].held
    BY <2>1, <2>2 DEF Prepared, At, Sharing
  <2>5. /\ (req[q].target \in Shares /\ Exclusive(ShareLock(req[q].target)) \in req[q].held)'
        /\ ~shares'[req'[q].target].revoked
    BY <2>1, <2>3, <2>4, <1>2 DEF Exclusive, ShareLock
  <2>6. req'[q].pc \notin Operating \cup Managing
    BY <2>3 DEF Operating, Managing
  <2>7. Prepared(req[q])'
    BY <2>3, <2>5, <2>6 DEF Prepared
  <2>8. Requested'
    BY <1>1, <1>2, <2>2, <2>3, <2>7, Going DEF Quiet
  <2> QED
    BY <1>2, <2>8, QuietStep
<1> QED
  BY <1>3, <1>4, <1>5, <1>6

\* A write of shares disturbs nobody but a request that is about to grant.
LEMMA ShareWrite ==
    ASSUME Requested, NEW q \in Requests, Finish(q), UNCHANGED <<tenantOn, users, ackedBy>>,
           \A p \in Requests \ {q} : req[p].pc = "grant" => ~shares'[req[p].target].revoked
    PROVE  Requested'
<1>1. DOMAIN req = Requests
  BY DEF Requested
<1>2. ASSUME NEW p \in Requests, p # q PROVE Prepared(req[p])'
  <2>1. req'[p] = req[p] /\ Prepared(req[p])
    BY <1>1, <1>2 DEF Finish, Requested
  <2>2. req[p].pc = "grant" => ~shares'[req[p].target].revoked
    BY <1>2
  <2> QED
    BY <2>1, <2>2 DEF Prepared, operationTenant, tenantForAdmin
<1> QED
  BY <1>2, Finishing

LEMMA Creating ==
    ASSUME Inv, NEW q \in Requests, CreateShare(q)
    PROVE  Inv'
<1>1. /\ Requested /\ audit \in Seq(AuditRow) /\ Acks /\ DOMAIN shares = Shares
      /\ RevokedMeansNoSessions /\ \A x \in shareSessions : x.share \in Shares
  BY DEF Inv, Tables
<1>2. /\ At(q, "insert") /\ Finish(q)
      /\ UNCHANGED <<tenantOn, users, ackedBy, sessions, shareSessions>>
  BY DEF CreateShare, accounts, logins, ambient
<1>3. PICK s \in Shares :
         /\ shares' = [shares EXCEPT ![s] = [creator |-> req[q].user, revoked |-> FALSE,
                                             expires |-> req[q].now + ShareTTL]]
         /\ audit' = Append(audit, [action |-> "create", actor |-> req[q].user, id |-> s])
  BY DEF CreateShare, auditShare
<1> DEFINE e == [action |-> "create", actor |-> req[q].user, id |-> s]
           row == [creator |-> req[q].user, revoked |-> FALSE, expires |-> req[q].now + ShareTTL]
<1>4. req[q].user \in Users
  BY <1>1, <1>2, Actors DEF At, Managing
<1>5. e \in AuditRow /\ e.action # "ack" /\ ~row.revoked
  BY <1>4, Entries
<1>6. audit' = Append(audit, e) /\ shares' = [shares EXCEPT ![s] = row]
  BY <1>3
<1> HIDE DEF e, row
<1>7. /\ shares' = [t \in Shares |-> shares'[t]]
      /\ \A t \in Shares : shares'[t] = row \/ shares'[t] = shares[t]
  BY <1>1, <1>6
<1>8. audit' \in Seq(AuditRow)
  BY <1>1, <1>5, <1>6, Logged
<1>9. Acks'
  BY <1>1, <1>2, <1>5, <1>6, OtherEntry
<1>10. RevokedMeansNoSessions'
  BY <1>1, <1>2, <1>5, <1>7 DEF RevokedMeansNoSessions
<1>11. Tables'
  BY <1>2, <1>7, <1>8 DEF Inv, Tables
<1>12. ASSUME NEW p \in Requests \ {q}, req[p].pc = "grant"
       PROVE  ~shares'[req[p].target].revoked
  <2>1. req[p].target \in Shares /\ ~shares[req[p].target].revoked
    BY <1>1, <1>12 DEF Requested, Prepared, Sharing
  <2> QED
    BY <2>1, <1>5, <1>7
<1>13. Requested'
  BY <1>1, <1>2, <1>12, ShareWrite
<1> QED
  BY <1>9, <1>10, <1>11, <1>13 DEF Inv

LEMMA Revoking ==
    ASSUME Inv, NEW q \in Requests, RevokeShare(q)
    PROVE  Inv'
<1> DEFINE s == req[q].target
           e == [action |-> "revoke", actor |-> req[q].user, id |-> s]
           row == [shares[s] EXCEPT !.revoked = TRUE]
<1>1. /\ Requested /\ audit \in Seq(AuditRow) /\ Acks /\ DOMAIN shares = Shares
      /\ RevokedMeansNoSessions /\ \A x \in shareSessions : x.share \in Shares
  BY DEF Inv, Tables
<1>2. /\ At(q, "purge") /\ Finish(q) /\ audit' = Append(audit, e)
      /\ UNCHANGED <<tenantOn, users, ackedBy, sessions>>
      /\ shareSessions' = {x \in shareSessions : x.share # s}
  BY DEF RevokeShare, auditShare, accounts, logins, ambient
<1>3. s \in Shares /\ Exclusive(ShareLock(s)) \in req[q].held /\ req[q].user \in Users
  BY <1>1, <1>2 DEF Requested, Prepared, At, Sharing, Managing
<1>4. shares' = [shares EXCEPT ![s] = row]
  BY DEF RevokeShare
<1>5. e \in AuditRow /\ e.action # "ack"
  BY <1>3, Entries
<1> HIDE DEF e, row
<1>6. /\ shares' = [t \in Shares |-> shares'[t]]
      /\ \A t \in Shares : t # s => shares'[t] = shares[t]
  BY <1>1, <1>4
<1>7. audit' \in Seq(AuditRow)
  BY <1>1, <1>2, <1>5, Logged
<1>8. Acks'
  BY <1>1, <1>2, <1>5, OtherEntry
<1>9. RevokedMeansNoSessions'
  BY <1>1, <1>2, <1>6 DEF RevokedMeansNoSessions
<1>10. Tables'
  BY <1>2, <1>6, <1>7 DEF Inv, Tables
<1>11. ASSUME NEW p \in Requests \ {q}, req[p].pc = "grant"
       PROVE  ~shares'[req[p].target].revoked
  <2>1. /\ req[p].target \in Shares /\ ~shares[req[p].target].revoked
        /\ Exclusive(ShareLock(req[p].target)) \in req[p].held
    BY <1>1, <1>11 DEF Requested, Prepared, Sharing
  <2>2. req[p].target # s
    <3>1. SUFFICES ASSUME req[p].target = s PROVE FALSE
      OBVIOUS
    <3>2. Exclusive(ShareLock(s)) \in req[p].held
      BY <2>1, <3>1
    <3> QED
      BY <3>2, <1>1, <1>3, <1>11, OneHolder
  <2> QED
    BY <2>1, <2>2, <1>6
<1>12. Requested'
  BY <1>1, <1>2, <1>11, ShareWrite
<1> QED
  BY <1>8, <1>9, <1>10, <1>12 DEF Inv

LEMMA Granting ==
    ASSUME Inv, NEW q \in Requests, ExchangeShare(q)
    PROVE  Inv'
<1> DEFINE s == req[q].target
           new == [token |-> lastToken + 1, share |-> s, expires |-> shares[s].expires]
<1>1. /\ Requested /\ RevokedMeansNoSessions /\ \A x \in shareSessions : x.share \in Shares
  BY DEF Inv, Tables
<1>2. At(q, "grant") /\ Finish(q) /\ Still /\ UNCHANGED <<audit, sessions>>
  BY DEF ExchangeShare, Still, accounts, work, ambient
<1>3. s \in Shares /\ ~shares[s].revoked
  BY <1>1, <1>2 DEF Requested, Prepared, At, Sharing
<1>4. new.share = s
  OBVIOUS
<1>5. shareSessions' \subseteq shareSessions \cup {new}
  BY DEF ExchangeShare
<1> HIDE DEF new
<1>6. \A x \in shareSessions' : x.share \in Shares /\ ~shares[x.share].revoked
  BY <1>1, <1>3, <1>4, <1>5 DEF RevokedMeansNoSessions
<1>7. Requested'
  BY <1>1, <1>2, Finished
<1>8. Tables' /\ RevokedMeansNoSessions'
  BY <1>2, <1>6 DEF Inv, Still, Tables, RevokedMeansNoSessions
<1>9. Acks'
  BY <1>2 DEF Inv, Still, Acks, IsAck
<1> QED
  BY <1>7, <1>8, <1>9 DEF Inv

-----------------------------------------------------------------------------
(* The invariant and what it gives                                         *)

LEMMA InitInv ==
    ASSUME Init PROVE Inv
<1>1. /\ req = [q \in Requests |-> Idle] /\ ackedBy = 0 /\ audit = << >>
      /\ Fresh \/ InUse
  BY DEF Init
<1>2. Requested
  <2>1. \A q \in Requests : req[q] = Idle
    BY <1>1
  <2>2. req = [q \in Requests |-> req[q]]
    BY <1>1
  <2>3. Apart
    BY <2>1, IdleRequest DEF Apart
  <2> QED
    BY <2>1, <2>2, <2>3, IdleRequest DEF Requested
<1>3. audit \in Seq(AuditRow) /\ Acks
  <2>1. audit \in Seq(AuditRow) /\ DOMAIN audit = {}
    BY <1>1, SMT
  <2> QED
    BY <2>1, <1>1 DEF Acks
<1>4. CASE Fresh
  <2>1. Tables
    BY <1>1, <1>3, <1>4 DEF Fresh, Tables
  <2>2. RevokedMeansNoSessions
    BY <1>4 DEF Fresh, RevokedMeansNoSessions
  <2> QED
    BY <1>2, <1>3, <2>1, <2>2 DEF Inv
<1>5. CASE InUse
  <2>1. PICK n \in 0..ShareQuota :
           /\ users = [u \in Users |-> users[u]]
           /\ sessions = [t \in Tokens |-> IF t <= 2 THEN [user |-> t, expires |-> SessionTTL]
                                                     ELSE NoSession]
           /\ shares = [t \in Shares |->
                           IF t <= n THEN [creator |-> 1, expires |-> ShareTTL, revoked |-> FALSE]
                                     ELSE NoShare]
           /\ shareSessions = IF n = 0 THEN {}
                               ELSE {[token |-> 3, share |-> 1, expires |-> ShareTTL]}
    BY <1>5 DEF InUse
  <2>2. \A t \in Tokens : sessions[t] = NoSession \/ sessions[t].user \in Users
    <3>1. ASSUME NEW t \in Tokens, t <= 2 PROVE t \in Users
      <4>1. t = 1 \/ t = 2
        BY <3>1, AccessAssumption, SMT
      <4> QED
        BY <4>1, AccessAssumption
    <3>2. \A t \in Tokens : t <= 2 => sessions[t] = [user |-> t, expires |-> SessionTTL]
      BY <2>1
    <3>3. \A t \in Tokens : ~(t <= 2) => sessions[t] = NoSession
      BY <2>1
    <3>4. ASSUME NEW t \in Tokens, t <= 2 PROVE sessions[t].user \in Users
      <4>1. sessions[t] = [user |-> t, expires |-> SessionTTL]
        BY <3>2, <3>4
      <4>2. sessions[t].user = t
        BY <4>1, SMT
      <4> QED
        BY <4>2, <3>1, <3>4
    <3> QED
      BY <3>3, <3>4
  <2>3. \A x \in shareSessions : x.share = 1 /\ n # 0
    <3>1. CASE n = 0
      BY <2>1, <3>1
    <3>2. CASE n # 0
      <4>1. shareSessions = {[token |-> 3, share |-> 1, expires |-> ShareTTL]}
        BY <2>1, <3>2
      <4> QED
        BY <4>1, <3>2, SMT
    <3> QED
      BY <3>1, <3>2
  <2>4. n # 0 => 1 \in Shares
    <3>1. n # 0 => 1 \in 1..ShareQuota
      BY AccessAssumption, SMT
    <3> QED
      BY <3>1, AccessAssumption
  <2>5. \A t \in Shares : ~shares[t].revoked
    <3>1. \A t \in Shares :
             \/ shares[t] = NoShare
             \/ shares[t] = [creator |-> 1, expires |-> ShareTTL, revoked |-> FALSE]
      BY <2>1
    <3>2. /\ ~NoShare.revoked
          /\ ~[creator |-> 1, expires |-> ShareTTL, revoked |-> FALSE].revoked
      BY DEF NoShare
    <3> QED
      BY <3>1, <3>2
  <2>6. /\ sessions = [t \in Tokens |-> sessions[t]] /\ shares = [t \in Shares |-> shares[t]]
    BY <2>1
  <2>7. Tables
    BY <1>1, <1>3, <2>1, <2>2, <2>3, <2>4, <2>6 DEF Tables
  <2>8. RevokedMeansNoSessions
    BY <2>3, <2>4, <2>5 DEF RevokedMeansNoSessions
  <2> QED
    BY <1>2, <1>3, <2>7, <2>8 DEF Inv
<1> QED
  BY <1>1, <1>4, <1>5

LEMMA StepInv ==
    ASSUME Inv, [Next]_vars PROVE Inv'
<1>1. ASSUME NEW q \in Requests, Proceed(q) PROVE Inv'
  BY <1>1, Middleware, Reading, Logins, FirstAdmin, Saving, Locking, Maintenance, Acknowledging,
     Administering, Exchanging, Creating, Revoking, Granting DEF Proceed
<1>2. ASSUME NEW q \in Requests, Begin(q) \/ Reject(q) \/ Fail(q) \/ RotateFails(q) PROVE Inv'
  BY <1>2, Arriving, Reading, Logins
<1>3. CASE DeleteUsers \/ SwitchTenant \/ Tick
  BY <1>3, Operator
<1>4. CASE UNCHANGED vars
  <2>1. UNCHANGED <<req, tenantOn, users, sessions, shares, ackedBy, shareSessions, audit>>
    BY <1>4 DEF vars
  <2>2. Requested'
    <3>1. ASSUME NEW p \in Requests PROVE Prepared(req[p])'
      BY <2>1 DEF Inv, Requested, Prepared, operationTenant, tenantForAdmin
    <3> QED
      BY <2>1, <3>1 DEF Inv, Requested, Apart
  <2> QED
    BY <2>1, <2>2, QuietStep DEF Quiet, Still
<1> QED
  BY <1>1, <1>2, <1>3, <1>4 DEF Next

LEMMA SpecInv == Spec => []Inv
<1>1. Init => Inv
  BY InitInv
<1>2. Inv /\ [Next]_vars => Inv'
  BY StepInv
<1> QED
  BY <1>1, <1>2, PTL DEF Spec

\* A revoked share has no session, whatever requests, switches and edits are
\* in between: ExchangeShare and RevokeShare hold the share's row meanwhile.
THEOREM NoSessionAfterRevocation == Spec => []RevokedMeansNoSessions
<1>1. Inv => RevokedMeansNoSessions
  BY DEF Inv
<1> QED
  BY <1>1, SpecInv, PTL

\* An alert is acknowledged once and its entry names who did it, for any
\* number of users: AckAlert decides under the alert's row lock.
THEOREM AcknowledgedOnce == Spec => []AckedOnce
<1>1. ASSUME Inv PROVE AckedOnce
  <2> DEFINE acks == {i \in DOMAIN audit : audit[i].action = "ack"}
  <2>1. CASE ackedBy = 0
    <3>1. acks = {}
      BY <1>1, <2>1 DEF Inv, Acks, IsAck
    <3>2. Cardinality(acks) = 0
      BY <3>1, FS_EmptySet
    <3> QED
      BY <2>1, <3>1, <3>2 DEF AckedOnce
  <2>2. CASE ackedBy # 0
    <3>1. PICK i \in DOMAIN audit : /\ IsAck(i) /\ audit[i].actor = ackedBy
                                    /\ \A j \in DOMAIN audit : IsAck(j) => j = i
      BY <1>1, <2>2 DEF Inv, Acks
    <3>2. acks = {i}
      BY <3>1 DEF IsAck
    <3>3. Cardinality(acks) = 1
      BY <3>2, FS_Singleton
    <3> QED
      BY <2>2, <3>1, <3>2, <3>3 DEF AckedOnce
  <2> QED
    BY <2>1, <2>2
<1> QED
  BY <1>1, SpecInv, PTL

Entitled ==
    \A i \in DOMAIN audit' \ DOMAIN audit :
        /\ tenantOn /\ users[audit'[i].actor].status = "active"
        /\ audit'[i].action # "ack" => users[audit'[i].actor].role = "admin"

\* Every step that adds an entry adds the one of its own request.
LEMMA OwnEntry ==
    ASSUME Inv, Next, audit' # audit
    PROVE  \E q \in Requests, a \in {"maintenance", "ack", "create", "revoke"},
              s \in Shares \cup {0} :
              /\ audit' = Append(audit, [action |-> a, actor |-> req[q].user, id |-> s])
              /\ \/ req[q].pc = "maintenance" /\ a = "maintenance"
                 \/ req[q].pc = "ack_write" /\ a = "ack"
                 \/ req[q].pc \in Managing /\ a \in {"create", "revoke"}
<1>1. PICK q \in Requests : CreateMaintenance(q) \/ AckAlert(q) \/ CreateShare(q) \/ RevokeShare(q)
  <2>1. ASSUME NEW q \in Requests, \/ Begin(q) \/ Reject(q) \/ Fail(q) \/ RotateFails(q)
        PROVE  FALSE
    BY <2>1 DEF Begin, Reject, Fail, RotateFails, work
  <2>2. ~(DeleteUsers \/ SwitchTenant \/ Tick)
    BY DEF DeleteUsers, SwitchTenant, Tick, work
  <2>3. PICK q \in Requests : Proceed(q)
    BY <2>1, <2>2 DEF Next
  <2>4. /\ ~(requireSession(q) \/ ResolveSessionUser(q) \/ BootBegin(q) \/ BootCheck(q))
        /\ ~(BootCreate(q) \/ Login(q) \/ createLoginSession(q) \/ SetCookie(q) \/ Logout(q))
        /\ ~(ListUsers(q) \/ UpdateUserRead(q) \/ UpdateUserSave(q) \/ LockActor(q))
    BY DEF requireSession, ResolveSessionUser, BootBegin, BootCheck, BootCreate, Login,
           createLoginSession, SetCookie, Logout, ListUsers, UpdateUserRead, UpdateUserSave,
           LockActor, work
  <2>5. /\ ~(LockAlert(q) \/ LockAdmin(q) \/ CountShares(q) \/ ListShares(q) \/ MarkRevoked(q))
        /\ ~(LockShare(q) \/ CheckShare(q) \/ ExchangeShare(q))
        /\ ~(AuthenticateShareSession(q) \/ DemoPrincipal(q) \/ ReadHosts(q))
    BY DEF LockAlert, LockAdmin, CountShares, ListShares, MarkRevoked, LockShare, CheckShare,
           ExchangeShare, AuthenticateShareSession, DemoPrincipal, ReadHosts, work
  <2> QED
    BY <2>3, <2>4, <2>5 DEF Proceed
<1>2. CASE CreateMaintenance(q)
  BY <1>2 DEF CreateMaintenance, writeOperationAudit, At
<1>3. CASE AckAlert(q)
  BY <1>3 DEF AckAlert, writeOperationAudit, At
<1>4. CASE CreateShare(q)
  BY <1>4 DEF CreateShare, auditShare, At, Managing
<1>5. CASE RevokeShare(q)
  <2>1. req[q].target \in Shares
    BY <1>5 DEF Inv, Requested, Prepared, RevokeShare, At, Sharing
  <2> QED
    BY <1>5, <2>1 DEF RevokeShare, auditShare, At, Managing
<1> QED
  BY <1>1, <1>2, <1>3, <1>4, <1>5

\* Whoever an entry names is entitled when it is written, whatever changes of
\* role, status or space are made at the same time: the locks of
\* operationTenant and tenantForAdmin are held until the entry is committed.
THEOREM EntitledWhenWritten == Spec => ActorsAreEntitled
<1>1. ASSUME Inv, [Next]_vars PROVE [Entitled]_vars
  <2>1. CASE UNCHANGED vars
    BY <2>1
  <2>2. CASE Next /\ audit' = audit
    BY <2>2 DEF Entitled
  <2>3. CASE Next /\ audit' # audit
    <3>1. PICK q \in Requests, a \in {"maintenance", "ack", "create", "revoke"},
               s \in Shares \cup {0} :
            /\ audit' = Append(audit, [action |-> a, actor |-> req[q].user, id |-> s])
            /\ \/ req[q].pc = "maintenance" /\ a = "maintenance"
               \/ req[q].pc = "ack_write" /\ a = "ack"
               \/ req[q].pc \in Managing /\ a \in {"create", "revoke"}
      BY <1>1, <2>3, OwnEntry
    <3> DEFINE e == [action |-> a, actor |-> req[q].user, id |-> s]
               n == Len(audit) + 1
    <3>2. /\ req[q].user \in Users /\ tenantOn /\ users[req[q].user].status = "active"
          /\ a # "ack" => users[req[q].user].role = "admin"
      <4>1. Requested
        BY <1>1 DEF Inv
      <4>2. CASE req[q].pc = "maintenance" \/ (req[q].pc = "ack_write" /\ a = "ack")
        <5>1. req[q].pc \in Operating
          BY <4>2 DEF Operating
        <5> QED
          BY <4>1, <4>2, <5>1, Actors DEF operationTenant
      <4>3. CASE req[q].pc \in Managing
        BY <4>1, <4>3, Actors DEF tenantForAdmin
      <4> QED
        BY <3>1, <4>2, <4>3
    <3>3. e \in AuditRow /\ e.action = a /\ e.actor = req[q].user
      BY <3>2, Entries
    <3>4. audit \in Seq(AuditRow) /\ audit' = Append(audit, e)
      BY <1>1, <3>1 DEF Inv, Tables
    <3> HIDE DEF e
    <3>5. DOMAIN audit' = DOMAIN audit \cup {n} /\ audit'[n] = e
      BY <3>3, <3>4, Logged
    <3> HIDE DEF n
    <3> QED
      BY <3>2, <3>3, <3>5 DEF Entitled
  <2> QED
    BY <1>1, <2>1, <2>2, <2>3
<1>2. Spec => [][Entitled]_vars
  BY <1>1, SpecInv, PTL DEF Spec
<1> QED
  BY <1>2 DEF ActorsAreEntitled, Entitled

-----------------------------------------------------------------------------
(* What requests hold and carry, and the tables                            *)

\* The locks a request may hold at its pc.
MayHold(r, l) ==
    \/ r.pc \in {"available", "create_admin"} /\ l \in {Exclusive(BootLock), Exclusive(UsersTable)}
    \/ r.pc \in Operating /\ l \in OperationLocks(r.user)
    \/ r.pc = "ack_write" /\ l = Exclusive(AlertLock)
    \/ r.pc \in Managing /\ l \in AdminLocks(r.user)
    \/ r.pc \in Sharing /\ l = Exclusive(ShareLock(r.target))

\* What a request carries at its pc, whatever the tables hold.
Form(r) ==
    /\ r.pc = "idle" => r.kind = "none"
    /\ r.now \in Nat
    /\ r.pc = "issue" => r.user \in Users
    /\ r.pc = "cookie" => r.target \in Tokens
    /\ r.pc = "save" => r.row \in UserRow
    /\ r.pc \in {"available", "create_admin"} => Exclusive(BootLock) \in r.held
    /\ \A l \in r.held : MayHold(r, l)

\* What it has found in the tables and still holds.
Found(r) ==
    /\ r.pc \in Sharing => r.target \in Issued
    /\ r.pc = "create_admin" => passwords = {}
    /\ r.pc = "insert" => Cardinality(Issued) < ShareQuota

Carried == \A q \in Requests : Form(req[q]) /\ Found(req[q])

Tracked == {p \in Browsers : attempts[p].count > 0}

\* The conjuncts of TypeOK: the tables, and the guard's memory.
Rows ==
    /\ tenantOn \in BOOLEAN /\ marker \in BOOLEAN
    /\ users \in [Users -> UserRow \cup {NoUser}] /\ passwords \subseteq Users
    /\ lastUser \in Users \cup {0} /\ lastToken \in Tokens \cup {0}
    /\ sessions \in [Tokens -> SessionRow \cup {NoSession}]
    /\ cookie \in [Browsers -> Tokens \cup {0}] /\ shareCookie \in [Browsers -> Tokens \cup {0}]
    /\ ackedBy \in Users \cup {0}
    /\ shares \in [Shares -> ShareRow \cup {NoShare}]
    /\ shareSessions \subseteq [token : Tokens, share : Shares, expires : Nat]

Memory ==
    /\ attempts \in [Browsers -> Attempt]
    /\ \A p \in Browsers : attempts[p].count <= MaxAttempts
    /\ IsFiniteSet(Tracked) /\ Cardinality(Tracked) <= MaxPeers

\* Whoever has a password has an account.
Named == passwords \subseteq Accounts

Authenticating == {q \in Requests : req[q].kind \in Guarded}

Slotted ==
    /\ IsFiniteSet(Authenticating) /\ slots = Cardinality(Authenticating)
    /\ slots <= Slots

SessionsOf(s) == {x \in shareSessions : x.share = s}

Quotas ==
    /\ IsFiniteSet(Issued) /\ Cardinality(Issued) <= ShareQuota
    /\ \A s \in Shares : IsFiniteSet(SessionsOf(s)) /\ Cardinality(SessionsOf(s)) <= SessionQuota

Inv2 ==
    /\ Inv /\ clock \in 0..MaxTime /\ Rows /\ Memory /\ Named /\ Slotted /\ Quotas
    /\ Carried

-----------------------------------------------------------------------------
(* Requests                                                                *)

LEMMA IdleForm ==
    Form(Idle) /\ Found(Idle) /\ Idle.kind \notin Guarded
<1>1. /\ Idle.pc = "idle" /\ Idle.held = {} /\ Idle.kind = "none" /\ Idle.now = 0
  BY DEF Idle
<1>2. 0 \in Nat
  BY SMT
<1> QED
  BY <1>1, <1>2 DEF Form, Found, Guarded, Sharing

\* What a request has found stays as long as its tables do.
LEMMA StillFound ==
    ASSUME UNCHANGED <<shares, passwords>>, NEW r, Found(r)
    PROVE  Found(r)'
<1>1. Issued' = Issued
  BY DEF Issued
<1> QED
  BY <1>1 DEF Found

LEMMA Replaced ==
    ASSUME Inv, NEW q \in Requests, NEW r, req' = [req EXCEPT ![q] = r]
    PROVE  req'[q] = r /\ \A p \in Requests \ {q} : req'[p] = req[p]
<1>1. DOMAIN req = Requests
  BY DEF Inv, Requested
<1> QED
  BY <1>1

\* A request that is guarded before and after a step, or neither, keeps the count.
LEMMA SameSlots ==
    ASSUME Inv, Slotted, NEW q \in Requests, NEW r, req' = [req EXCEPT ![q] = r],
           r.kind \in Guarded <=> req[q].kind \in Guarded, slots' = slots
    PROVE  Slotted'
<1>1. req'[q] = r /\ \A p \in Requests \ {q} : req'[p] = req[p]
  BY Replaced
<1>2. Authenticating' = Authenticating
  BY <1>1 DEF Authenticating
<1> QED
  BY <1>2 DEF Slotted

\* A guarded request that ends gives its slot back, and only such a one does.
LEMMA SlotBack ==
    ASSUME Inv, Slotted, NEW q \in Requests, Finish(q)
    PROVE  Slotted'
<1>1. req'[q] = Idle /\ \A p \in Requests \ {q} : req'[p] = req[p]
  BY Replaced DEF Finish
<1>2. Authenticating' = Authenticating \ {q}
  <2>1. req'[q].kind \notin Guarded
    BY <1>1, IdleForm
  <2>2. ASSUME NEW p \in Requests
        PROVE  p \in Authenticating' <=> p \in Authenticating \ {q}
    <3>1. CASE p = q
      BY <2>1, <3>1 DEF Authenticating
    <3>2. CASE p # q
      BY <1>1, <3>2 DEF Authenticating
    <3> QED
      BY <3>1, <3>2
  <2>3. Authenticating' \subseteq Requests /\ Authenticating \subseteq Requests
    BY DEF Authenticating
  <2> QED
    BY <2>2, <2>3
<1>3. /\ IsFiniteSet(Authenticating \ {q})
      /\ Cardinality(Authenticating \ {q}) =
           IF q \in Authenticating THEN Cardinality(Authenticating) - 1 ELSE Cardinality(Authenticating)
  BY FS_RemoveElement DEF Slotted
<1>4. q \in Authenticating <=> req[q].kind \in Guarded
  BY DEF Authenticating
<1>5. slots' = Cardinality(Authenticating')
  BY <1>2, <1>3, <1>4 DEF Slotted, Finish
<1>6. slots' <= Slots
  <2>1. slots \in Nat
    BY FS_CardinalityType DEF Slotted
  <2>2. slots' = slots \/ slots' = slots - 1
    BY DEF Finish
  <2>3. slots <= Slots /\ Slots \in Nat
    BY AccessAssumption DEF Slotted
  <2> QED
    BY <2>1, <2>2, <2>3, SMT
<1> QED
  BY <1>2, <1>3, <1>5, <1>6 DEF Slotted

\* One that is let in takes a slot that is there.
LEMMA SlotTaken ==
    ASSUME Inv, Slotted, NEW q \in Requests, NEW r, req' = [req EXCEPT ![q] = r],
           req[q].kind \notin Guarded, r.kind \in Guarded,
           ~(slots >= Slots), slots' = slots + 1
    PROVE  Slotted'
<1>1. req'[q] = r /\ \A p \in Requests \ {q} : req'[p] = req[p]
  BY Replaced
<1>2. Authenticating' = Authenticating \cup {q} /\ q \notin Authenticating
  BY <1>1 DEF Authenticating
<1>3. /\ IsFiniteSet(Authenticating \cup {q})
      /\ Cardinality(Authenticating \cup {q}) = Cardinality(Authenticating) + 1
  BY <1>2, FS_AddElement DEF Slotted
<1>4. slots' <= Slots
  <2>1. slots \in Nat /\ Slots \in Nat
    BY FS_CardinalityType, AccessAssumption DEF Slotted
  <2> QED
    BY <2>1, SMT
<1> QED
  BY <1>2, <1>3, <1>4 DEF Slotted

LEMMA CarriedOn ==
    ASSUME Inv, Carried, NEW q \in Requests, NEW r, req' = [req EXCEPT ![q] = r],
           Form(r), Found(r)', \A p \in Requests \ {q} : Found(req[p]) => Found(req[p])'
    PROVE  Carried'
<1>1. req'[q] = r /\ \A p \in Requests \ {q} : req'[p] = req[p]
  BY Replaced
<1>2. ASSUME NEW p \in Requests PROVE Form(req[p])' /\ Found(req[p])'
  <2>1. CASE p = q
    BY <1>1, <2>1 DEF Form, MayHold, Found
  <2>2. CASE p # q
    BY <1>1, <2>2 DEF Carried, Form, MayHold
  <2> QED
    BY <2>1, <2>2
<1> QED
  BY <1>2 DEF Carried

\* Where a request holds nothing and nothing is required of it.
Plain == {"session", "user", "delete", "hosts", "users", "read", "actor", "admin", "boot",
          "login", "exchange", "view", "demo"}

LEMMA PlainForm ==
    ASSUME NEW r, r.now \in Nat, r.held = {}, r.pc \in Plain
    PROVE  Form(r) /\ Found(r)
<1>1. /\ r.pc \notin {"idle", "issue", "cookie", "save", "available", "create_admin", "insert"}
      /\ r.pc \notin Sharing
  BY DEF Plain, Sharing
<1> QED
  BY <1>1 DEF Form, Found

LEMMA Unlocked ==
    ASSUME NEW r, Form(r), r.pc \in Plain
    PROVE  r.held = {}
<1>1. r.pc \notin {"available", "create_admin", "ack_write"}
  BY DEF Plain
<1>2. r.pc \notin Operating /\ r.pc \notin Managing /\ r.pc \notin Sharing
  BY DEF Plain, Operating, Managing, Sharing
<1> QED
  BY <1>1, <1>2 DEF Form, MayHold

-----------------------------------------------------------------------------
(* Steps that read                                                         *)

AllStay == UNCHANGED <<accounts, logins, work, sharing, ambient>>

LEMMA TablesStay ==
    ASSUME Inv2, Inv', AllStay, Slotted', Carried'
    PROVE  Inv2'
<1>1. /\ UNCHANGED <<users, passwords, marker, lastUser, sessions, lastToken, cookie>>
      /\ UNCHANGED <<ackedBy, shares, shareSessions, shareCookie, clock, tenantOn, attempts>>
  BY DEF AllStay, accounts, logins, work, sharing, ambient
<1>2. Rows' /\ (clock \in 0..MaxTime)'
  BY <1>1 DEF Inv2, Rows
<1>3. Memory'
  BY <1>1 DEF Inv2, Memory, Tracked
<1>4. Named'
  BY <1>1 DEF Inv2, Named, Accounts
<1>5. Quotas'
  BY <1>1 DEF Inv2, Quotas, Issued, SessionsOf
<1> QED
  BY <1>2, <1>3, <1>4, <1>5 DEF Inv2

LEMMA ReadingEnds ==
    ASSUME Inv2, Inv', AllStay, NEW q \in Requests, Finish(q)
    PROVE  Inv2'
<1>1. UNCHANGED <<shares, passwords>>
  BY DEF AllStay, accounts, sharing
<1>2. Inv /\ Slotted /\ Carried
  BY DEF Inv2
<1>3. Slotted'
  BY <1>2, SlotBack
<1>4. Found(Idle)'
  BY <1>1, IdleForm, StillFound
<1>5. \A p \in Requests \ {q} : Found(req[p]) => Found(req[p])'
  <2>1. SUFFICES ASSUME NEW p \in Requests \ {q}, Found(req[p]) PROVE Found(req[p])'
    OBVIOUS
  <2>2. req'[p] = req[p]
    BY <1>2, Replaced DEF Finish
  <2>3. Issued' = Issued
    BY <1>1 DEF Issued
  <2> QED
    BY <2>1, <2>2, <2>3, <1>1 DEF Found
<1>6. Carried'
  BY <1>2, <1>4, <1>5, IdleForm, CarriedOn DEF Finish
<1> QED
  BY <1>3, <1>6, TablesStay

LEMMA ReadingGoes ==
    ASSUME Inv2, Inv', AllStay, NEW q \in Requests, NEW r, Go(q, r), Form(r), Found(r),
           r.kind \in Guarded <=> req[q].kind \in Guarded
    PROVE  Inv2'
<1>1. UNCHANGED <<shares, passwords>>
  BY DEF AllStay, accounts, sharing
<1>2. Inv /\ Slotted /\ Carried
  BY DEF Inv2
<1>3. req' = [req EXCEPT ![q] = r] /\ slots' = slots
  BY DEF Go
<1>4. Slotted'
  BY <1>2, <1>3, SameSlots
<1>5. Found(r)'
  BY <1>1, StillFound
<1>6. \A p \in Requests \ {q} : Found(req[p]) => Found(req[p])'
  <2>1. SUFFICES ASSUME NEW p \in Requests \ {q}, Found(req[p]) PROVE Found(req[p])'
    OBVIOUS
  <2>2. req'[p] = req[p]
    BY <1>2, <1>3, Replaced
  <2>3. Issued' = Issued
    BY <1>1 DEF Issued
  <2> QED
    BY <2>1, <2>2, <2>3, <1>1 DEF Found
<1>7. Carried'
  BY <1>2, <1>3, <1>5, <1>6, CarriedOn
<1> QED
  BY <1>4, <1>7, TablesStay

\* The record a step makes of its request: what it does not set stays.
LEMMA Kept ==
    ASSUME Inv, NEW q \in Requests, NEW x
    PROVE  LET r == [req[q] EXCEPT !.pc = x] IN
           /\ r.pc = x /\ r.kind = req[q].kind /\ r.now = req[q].now /\ r.held = req[q].held
           /\ r.user = req[q].user /\ r.target = req[q].target /\ r.row = req[q].row
<1>1. DOMAIN req[q] = Fields
  BY DEF Inv, Requested, Prepared
<1> QED
  BY <1>1 DEF Fields

LEMMA PlainGo ==
    ASSUME Inv2, Inv', AllStay, NEW q \in Requests, NEW x, x \in Plain, req[q].pc \in Plain,
           Go(q, [req[q] EXCEPT !.pc = x])
    PROVE  Inv2'
<1> DEFINE r == [req[q] EXCEPT !.pc = x]
<1>1. Inv /\ Form(req[q])
  BY DEF Inv2, Carried
<1>2. r.pc = x /\ r.kind = req[q].kind /\ r.now = req[q].now /\ r.held = req[q].held
  BY <1>1, Kept
<1>3. Go(q, r)
  OBVIOUS
<1> HIDE DEF r
<1>4. r.now \in Nat /\ r.held = {}
  BY <1>1, <1>2, Unlocked DEF Form
<1>5. Form(r) /\ Found(r)
  BY <1>2, <1>4, PlainForm
<1> QED
  BY <1>2, <1>3, <1>5, ReadingGoes

LEMMA SessionReads ==
    ASSUME Inv2, Inv', NEW q \in Requests, requireSession(q) \/ ResolveSessionUser(q)
    PROVE  Inv2'
<1>1. AllStay /\ Inv /\ Form(req[q])
  BY DEF requireSession, ResolveSessionUser, AllStay, Inv2, Carried
<1>2. CASE Finish(q)
  BY <1>1, <1>2, ReadingEnds
<1>3. CASE requireSession(q) /\ ~Finish(q)
  <2> DEFINE u == sessions[req[q].token].user
             r == [req[q] EXCEPT !.pc = "user", !.user = u]
  <2>1. Go(q, r) /\ req[q].pc = "session"
    BY <1>3 DEF requireSession, At
  <2>2. DOMAIN req[q] = Fields
    BY <1>1 DEF Inv, Requested, Prepared
  <2> HIDE DEF u
  <2>3. r.pc = "user" /\ r.kind = req[q].kind /\ r.now = req[q].now /\ r.held = req[q].held
    BY <2>2 DEF Fields
  <2> HIDE DEF r
  <2>4. r.now \in Nat /\ r.held = {} /\ r.pc \in Plain
    BY <1>1, <2>1, <2>3, Unlocked DEF Form, Plain
  <2>5. Form(r) /\ Found(r)
    BY <2>4, PlainForm
  <2> QED
    BY <1>1, <2>1, <2>3, <2>5, ReadingGoes
<1>4. CASE ResolveSessionUser(q) /\ ~Finish(q)
  <2> DEFINE k == req[q].kind
  <2>1. Go(q, [req[q] EXCEPT !.pc = Entry[k]]) /\ req[q].pc = "user"
    BY <1>4 DEF ResolveSessionUser, At
  <2>2. k \in DOMAIN Entry
    BY <1>1, <2>1 DEF Inv, Requested, Prepared
  <2>3. Entry[k] \in Plain /\ req[q].pc \in Plain
    BY <2>1, <2>2, Routes DEF Plain
  <2> QED
    BY <1>1, <2>1, <2>3, PlainGo
<1> QED
  BY <1>2, <1>3, <1>4

LEMMA ViewReads ==
    ASSUME Inv2, Inv', NEW q \in Requests,
           \/ AuthenticateShareSession(q) \/ DemoPrincipal(q) \/ ReadHosts(q)
           \/ ListUsers(q) \/ ListShares(q) \/ Fail(q)
    PROVE  Inv2'
<1>1. AllStay
  BY DEF AuthenticateShareSession, DemoPrincipal, ReadHosts, ListUsers, ListShares, Fail, AllStay
<1>2. CASE Finish(q)
  BY <1>1, <1>2, ReadingEnds
<1>3. CASE ~Finish(q)
  <2>1. Go(q, [req[q] EXCEPT !.pc = "hosts"]) /\ req[q].pc \in {"view", "demo"}
    BY <1>3 DEF AuthenticateShareSession, DemoPrincipal, ReadHosts, ListUsers, ListShares, Fail, At
  <2>2. "hosts" \in Plain /\ req[q].pc \in Plain
    BY <2>1 DEF Plain
  <2> QED
    BY <1>1, <2>1, <2>2, PlainGo
<1> QED
  BY <1>2, <1>3

LEMMA BootReads ==
    ASSUME Inv2, Inv', NEW q \in Requests, BootBegin(q) \/ BootCheck(q)
    PROVE  Inv2'
<1>1. AllStay /\ Inv /\ Form(req[q])
  BY DEF BootBegin, BootCheck, AllStay, Inv2, Carried
<1>2. DOMAIN req[q] = Fields
  BY <1>1 DEF Inv, Requested, Prepared
<1>3. CASE Finish(q)
  BY <1>1, <1>3, ReadingEnds
<1>4. CASE BootBegin(q)
  <2> DEFINE locks == {Exclusive(BootLock)}
                      \cup (IF req[q].kind = "startup" THEN {Exclusive(UsersTable)} ELSE {})
             r == [req[q] EXCEPT !.pc = "available", !.held = locks]
  <2>1. Go(q, r)
    BY <1>4 DEF BootBegin
  <2>2. Exclusive(BootLock) \in locks /\ locks \subseteq {Exclusive(BootLock), Exclusive(UsersTable)}
    OBVIOUS
  <2> HIDE DEF locks
  <2>3. r.pc = "available" /\ r.kind = req[q].kind /\ r.now = req[q].now /\ r.held = locks
    BY <1>2 DEF Fields
  <2> HIDE DEF r
  <2>4. Form(r)
    BY <1>1, <2>2, <2>3 DEF Form, MayHold
  <2>5. Found(r)
    BY <2>3 DEF Found, Sharing
  <2> QED
    BY <1>1, <2>1, <2>3, <2>4, <2>5, ReadingGoes
<1>5. CASE BootCheck(q) /\ ~Finish(q)
  <2> DEFINE r == [req[q] EXCEPT !.pc = "create_admin"]
  <2>1. Go(q, r) /\ req[q].pc = "available" /\ Accounts = {}
    BY <1>5 DEF BootCheck, At, Available
  <2>2. r.pc = "create_admin" /\ r.kind = req[q].kind /\ r.now = req[q].now /\ r.held = req[q].held
    BY <1>1, Kept
  <2> HIDE DEF r
  <2>3. passwords = {}
    BY <2>1 DEF Inv2, Named
  <2>4. \A l \in req[q].held : l \in {Exclusive(BootLock), Exclusive(UsersTable)}
    <3>1. req[q].pc \notin Operating /\ req[q].pc \notin Managing /\ req[q].pc \notin Sharing
          /\ req[q].pc # "ack_write"
      BY <2>1 DEF Operating, Managing, Sharing
    <3> QED
      BY <1>1, <3>1 DEF Form, MayHold
  <2>5. Form(r)
    BY <1>1, <2>1, <2>2, <2>4 DEF Form, MayHold
  <2>6. Found(r)
    BY <2>2, <2>3 DEF Found, Sharing
  <2> QED
    BY <1>1, <2>1, <2>2, <2>5, <2>6, ReadingGoes
<1> QED
  BY <1>3, <1>4, <1>5

\* A change of a user makes a row of a row.
LEMMA PatchedRow ==
    ASSUME NEW row \in UserRow, NEW x
    PROVE  Patched(row, x) \in UserRow
<1>1. row.role \in {"admin", "member"} /\ row.status \in {"active", "disabled"}
  BY DEF UserRow
<1>2. (CASE x = "promote" -> "admin" [] x = "demote" -> "member" [] OTHER -> row.role)
        \in {"admin", "member"}
  BY <1>1, SMT
<1>3. (CASE x = "disable" -> "disabled" [] x = "enable" -> "active" [] OTHER -> row.status)
        \in {"active", "disabled"}
  BY <1>1, SMT
<1> QED
  BY <1>2, <1>3 DEF Patched, UserRow

LEMMA AccountReads ==
    ASSUME Inv2, Inv', NEW q \in Requests, Login(q) \/ UpdateUserRead(q)
    PROVE  Inv2'
<1>1. AllStay /\ Inv /\ Form(req[q])
  BY DEF Login, UpdateUserRead, AllStay, Inv2, Carried
<1>2. DOMAIN req[q] = Fields
  BY <1>1 DEF Inv, Requested, Prepared
<1>3. CASE Finish(q)
  BY <1>1, <1>3, ReadingEnds
<1>4. CASE Login(q) /\ ~Finish(q)
  <2> DEFINE u == req[q].target
             r == [req[q] EXCEPT !.pc = "issue", !.user = u]
  <2>1. Go(q, r) /\ req[q].pc = "login" /\ u \in Accounts
    BY <1>4 DEF Login, At, LocalCredentials
  <2>2. u \in Users
    BY <2>1 DEF Accounts
  <2>3. req[q].held = {}
    BY <1>1, <2>1, Unlocked DEF Plain
  <2> HIDE DEF u
  <2>4. r.pc = "issue" /\ r.kind = req[q].kind /\ r.now = req[q].now /\ r.held = {} /\ r.user = u
    BY <1>2, <2>3 DEF Fields
  <2> HIDE DEF r
  <2>5. Form(r) /\ Found(r)
    BY <1>1, <2>2, <2>4 DEF Form, Found, Sharing
  <2> QED
    BY <1>1, <2>1, <2>4, <2>5, ReadingGoes
<1>5. CASE UpdateUserRead(q) /\ ~Finish(q)
  <2> DEFINE row == Patched(users[req[q].target], req[q].patch)
             r == [req[q] EXCEPT !.pc = "save", !.row = row]
  <2>1. Go(q, r) /\ req[q].pc = "read" /\ req[q].target \in Accounts
    BY <1>5 DEF UpdateUserRead, At
  <2>2. users[req[q].target] \in UserRow
    BY <2>1 DEF Accounts, Inv2, Rows
  <2>3. row \in UserRow
    BY <2>2, PatchedRow
  <2>4. req[q].held = {}
    BY <1>1, <2>1, Unlocked DEF Plain
  <2> HIDE DEF row
  <2>5. r.pc = "save" /\ r.kind = req[q].kind /\ r.now = req[q].now /\ r.held = {} /\ r.row = row
    BY <1>2, <2>4 DEF Fields
  <2> HIDE DEF r
  <2>6. Form(r) /\ Found(r)
    BY <1>1, <2>3, <2>5 DEF Form, Found, Sharing
  <2> QED
    BY <1>1, <2>1, <2>5, <2>6, ReadingGoes
<1> QED
  BY <1>3, <1>4, <1>5

LEMMA OperationReads ==
    ASSUME Inv2, Inv', NEW q \in Requests, LockActor(q) \/ LockAlert(q)
    PROVE  Inv2'
<1>1. AllStay /\ Inv /\ Form(req[q])
  BY DEF LockActor, LockAlert, AllStay, Inv2, Carried
<1>2. DOMAIN req[q] = Fields /\ (req[q].pc = "actor" => req[q].kind \in {"maintenance", "ack"})
  BY <1>1 DEF Inv, Requested, Prepared
<1>3. CASE Finish(q)
  BY <1>1, <1>3, ReadingEnds
<1>4. CASE LockActor(q) /\ ~Finish(q)
  <2> DEFINE k == req[q].kind
             locks == OperationLocks(req[q].user)
             r == [req[q] EXCEPT !.pc = k, !.held = locks]
  <2>1. Go(q, r) /\ k \in {"maintenance", "ack"}
    BY <1>2, <1>4 DEF LockActor, At
  <2> HIDE DEF k, locks
  <2>2. r.pc = k /\ r.kind = req[q].kind /\ r.now = req[q].now /\ r.held = locks
        /\ r.user = req[q].user
    BY <1>2 DEF Fields
  <2> HIDE DEF r
  <2>3. /\ r.pc \in Operating
        /\ r.pc \notin {"idle", "issue", "cookie", "save", "available", "create_admin", "insert"}
        /\ r.pc \notin Sharing
    BY <2>1, <2>2 DEF Operating, Sharing
  <2>4. Form(r) /\ Found(r)
    BY <1>1, <2>2, <2>3 DEF Form, MayHold, Found, locks
  <2> QED
    BY <1>1, <2>1, <2>2, <2>4, ReadingGoes
<1>5. CASE LockAlert(q) /\ ~Finish(q)
  <2> DEFINE locks == req[q].held \cup {Exclusive(AlertLock)}
             r == [req[q] EXCEPT !.pc = "ack_write", !.held = locks]
  <2>1. Go(q, r) /\ req[q].pc = "ack"
    BY <1>5 DEF LockAlert, At
  <2>2. \A l \in locks : l \in OperationLocks(req[q].user) \/ l = Exclusive(AlertLock)
    <3>1. /\ req[q].pc \notin {"available", "create_admin", "ack_write"}
          /\ req[q].pc \notin Managing \cup Sharing
      BY <2>1 DEF Managing, Sharing
    <3> QED
      BY <1>1, <3>1 DEF Form, MayHold
  <2> HIDE DEF locks
  <2>3. r.pc = "ack_write" /\ r.kind = req[q].kind /\ r.now = req[q].now /\ r.held = locks
        /\ r.user = req[q].user
    BY <1>2 DEF Fields
  <2> HIDE DEF r
  <2>4. r.pc \in Operating /\ r.pc \notin Sharing
    BY <2>3 DEF Operating, Sharing
  <2>5. Form(r) /\ Found(r)
    BY <1>1, <2>2, <2>3, <2>4 DEF Form, MayHold, Found
  <2> QED
    BY <1>1, <2>1, <2>3, <2>5, ReadingGoes
<1> QED
  BY <1>3, <1>4, <1>5

\* What an administrator of shares holds, before the share's own row.
LEMMA ManagerHolds ==
    ASSUME NEW r, Form(r), r.pc \in {"create", "list", "revoke", "insert"}
    PROVE  \A l \in r.held : l \in AdminLocks(r.user)
<1>1. r.pc \notin {"available", "create_admin", "ack_write"} /\ r.pc \notin Operating \cup Sharing
  BY DEF Operating, Sharing
<1> QED
  BY <1>1 DEF Form, MayHold

LEMMA ManagerReads ==
    ASSUME Inv2, Inv', NEW q \in Requests, LockAdmin(q) \/ CountShares(q) \/ MarkRevoked(q)
    PROVE  Inv2'
<1>1. AllStay /\ Inv /\ Form(req[q])
  BY DEF LockAdmin, CountShares, MarkRevoked, AllStay, Inv2, Carried
<1>2. DOMAIN req[q] = Fields /\ (req[q].pc = "admin" => req[q].kind \in {"list", "create", "revoke"})
  BY <1>1 DEF Inv, Requested, Prepared
<1>3. CASE Finish(q)
  BY <1>1, <1>3, ReadingEnds
<1>4. CASE LockAdmin(q) /\ ~Finish(q)
  <2> DEFINE k == req[q].kind
             locks == AdminLocks(req[q].user)
             r == [req[q] EXCEPT !.pc = k, !.held = locks]
  <2>1. Go(q, r) /\ k \in {"list", "create", "revoke"}
    BY <1>2, <1>4 DEF LockAdmin, At
  <2> HIDE DEF k, locks
  <2>2. r.pc = k /\ r.kind = req[q].kind /\ r.now = req[q].now /\ r.held = locks
        /\ r.user = req[q].user
    BY <1>2 DEF Fields
  <2> HIDE DEF r
  <2>3. /\ r.pc \in Managing
        /\ r.pc \notin {"idle", "issue", "cookie", "save", "available", "create_admin", "insert"}
        /\ r.pc \notin Sharing
    BY <2>1, <2>2 DEF Managing, Sharing
  <2>4. Form(r) /\ Found(r)
    BY <1>1, <2>2, <2>3 DEF Form, MayHold, Found, locks
  <2> QED
    BY <1>1, <2>1, <2>2, <2>4, ReadingGoes
<1>5. CASE CountShares(q) /\ ~Finish(q)
  <2> DEFINE r == [req[q] EXCEPT !.pc = "insert"]
  <2>1. Go(q, r) /\ req[q].pc = "create" /\ ~(Cardinality(Issued) >= ShareQuota)
    BY <1>5 DEF CountShares, At
  <2>2. Cardinality(Issued) < ShareQuota
    <3>1. Cardinality(Issued) \in Nat /\ ShareQuota \in Nat
      BY FS_CardinalityType, AccessAssumption DEF Inv2, Quotas
    <3> QED
      BY <2>1, <3>1, SMT
  <2>3. /\ r.pc = "insert" /\ r.kind = req[q].kind /\ r.now = req[q].now
        /\ r.held = req[q].held /\ r.user = req[q].user
    BY <1>1, Kept
  <2> HIDE DEF r
  <2>4. r.pc \in Managing /\ r.pc \notin Sharing /\ \A l \in r.held : l \in AdminLocks(r.user)
    BY <1>1, <2>1, <2>3, ManagerHolds DEF Managing, Sharing
  <2>5. Form(r) /\ Found(r)
    BY <1>1, <2>2, <2>3, <2>4 DEF Form, MayHold, Found
  <2> QED
    BY <1>1, <2>1, <2>3, <2>5, ReadingGoes
<1>6. CASE MarkRevoked(q) /\ ~Finish(q)
  <2> DEFINE lock == Exclusive(ShareLock(req[q].target))
             locks == req[q].held \cup {lock}
             r == [req[q] EXCEPT !.pc = "purge", !.held = locks]
  <2>1. Go(q, r) /\ req[q].pc = "revoke" /\ req[q].target \in Issued
    BY <1>6 DEF MarkRevoked, At
  <2>2. \A l \in locks : l \in AdminLocks(req[q].user) \/ l = lock
    BY <1>1, <2>1, ManagerHolds
  <2> HIDE DEF locks
  <2>3. /\ r.pc = "purge" /\ r.kind = req[q].kind /\ r.now = req[q].now /\ r.held = locks
        /\ r.user = req[q].user /\ r.target = req[q].target
    BY <1>2 DEF Fields
  <2> HIDE DEF r
  <2>4. r.pc \in Managing /\ r.pc \in Sharing
    BY <2>3 DEF Managing, Sharing
  <2>5. Form(r) /\ Found(r)
    BY <1>1, <2>1, <2>2, <2>3, <2>4 DEF Form, MayHold, Found
  <2> QED
    BY <1>1, <2>1, <2>3, <2>5, ReadingGoes
<1> QED
  BY <1>3, <1>4, <1>5, <1>6

LEMMA ExchangeReads ==
    ASSUME Inv2, Inv', NEW q \in Requests, LockShare(q) \/ CheckShare(q)
    PROVE  Inv2'
<1>1. AllStay /\ Inv /\ Form(req[q]) /\ Found(req[q])
  BY DEF LockShare, CheckShare, AllStay, Inv2, Carried
<1>2. DOMAIN req[q] = Fields
  BY <1>1 DEF Inv, Requested, Prepared
<1>3. CASE Finish(q)
  BY <1>1, <1>3, ReadingEnds
<1>4. CASE LockShare(q) /\ ~Finish(q)
  <2> DEFINE lock == Exclusive(ShareLock(req[q].target))
             r == [req[q] EXCEPT !.pc = "valid", !.held = {lock}]
  <2>1. Go(q, r) /\ req[q].target \in Issued
    BY <1>4 DEF LockShare, At
  <2>2. /\ r.pc = "valid" /\ r.kind = req[q].kind /\ r.now = req[q].now /\ r.held = {lock}
        /\ r.target = req[q].target
    BY <1>2 DEF Fields
  <2> HIDE DEF r
  <2>3. r.pc \in Sharing
    BY <2>2 DEF Sharing
  <2>4. Form(r) /\ Found(r)
    BY <1>1, <2>1, <2>2, <2>3 DEF Form, MayHold, Found
  <2> QED
    BY <1>1, <2>1, <2>2, <2>4, ReadingGoes
<1>5. CASE CheckShare(q) /\ ~Finish(q)
  <2> DEFINE r == [req[q] EXCEPT !.pc = "grant"]
  <2>1. Go(q, r) /\ req[q].pc = "valid"
    BY <1>5 DEF CheckShare, At
  <2>2. /\ r.pc = "grant" /\ r.kind = req[q].kind /\ r.now = req[q].now
        /\ r.held = req[q].held /\ r.target = req[q].target
    BY <1>1, Kept
  <2> HIDE DEF r
  <2>3. req[q].pc \in Sharing /\ r.pc \in Sharing
        /\ req[q].pc \notin {"available", "create_admin", "ack_write"} \cup Operating \cup Managing
    BY <2>1, <2>2 DEF Sharing, Operating, Managing
  <2>4. \A l \in r.held : l = Exclusive(ShareLock(r.target))
    BY <1>1, <2>2, <2>3 DEF Form, MayHold
  <2>5. Form(r) /\ Found(r)
    BY <1>1, <2>2, <2>3, <2>4 DEF Form, MayHold, Found
  <2> QED
    BY <1>1, <2>1, <2>2, <2>5, ReadingGoes
<1> QED
  BY <1>3, <1>4, <1>5

-----------------------------------------------------------------------------
(* Steps that write                                                        *)

LEMMA Frames ==
    ASSUME Inv2
    PROVE  /\ UNCHANGED attempts => Memory'
           /\ UNCHANGED <<users, passwords>> => Named'
           /\ UNCHANGED <<shares, shareSessions>> => Quotas'
<1>1. UNCHANGED attempts => Memory'
  BY DEF Inv2, Memory, Tracked
<1>2. UNCHANGED <<users, passwords>> => Named'
  BY DEF Inv2, Named, Accounts
<1>3. UNCHANGED <<shares, shareSessions>> => Quotas'
  BY DEF Inv2, Quotas, Issued, SessionsOf
<1> QED
  BY <1>1, <1>2, <1>3

LEMMA OthersFound ==
    ASSUME Inv, NEW q \in Requests, NEW r, req' = [req EXCEPT ![q] = r],
           UNCHANGED <<shares, passwords>>
    PROVE  \A p \in Requests \ {q} : Found(req[p]) => Found(req[p])'
<1>1. SUFFICES ASSUME NEW p \in Requests \ {q}, Found(req[p]) PROVE Found(req[p])'
  OBVIOUS
<1>2. req'[p] = req[p] /\ passwords' = passwords
  BY Replaced
<1>3. Issued' = Issued
  BY DEF Issued
<1> QED
  BY <1>1, <1>2, <1>3, SMT DEF Found

LEMMA WritingEnds ==
    ASSUME Inv2, Inv', NEW q \in Requests, Finish(q), clock' = clock,
           \A p \in Requests \ {q} : Found(req[p]) => Found(req[p])',
           Rows', Memory', Named', Quotas'
    PROVE  Inv2'
<1>1. Inv /\ Slotted /\ Carried /\ (clock \in 0..MaxTime)'
  BY DEF Inv2
<1>2. Slotted'
  BY <1>1, SlotBack
<1>3. Found(Idle)'
  BY IdleRequest DEF Found, Sharing
<1>4. Carried'
  BY <1>1, <1>3, IdleForm, CarriedOn DEF Finish
<1> QED
  BY <1>1, <1>2, <1>4 DEF Inv2

LEMMA WritingGoes ==
    ASSUME Inv2, Inv', NEW q \in Requests, NEW r, Go(q, r), Form(r), Found(req[q])',
           r.kind = req[q].kind, clock' = clock,
           \A p \in Requests \ {q} : Found(req[p]) => Found(req[p])',
           Rows', Memory', Named', Quotas'
    PROVE  Inv2'
<1>1. Inv /\ Slotted /\ Carried /\ (clock \in 0..MaxTime)'
  BY DEF Inv2
<1>2. req' = [req EXCEPT ![q] = r] /\ slots' = slots
  BY DEF Go
<1>3. Slotted'
  BY <1>1, <1>2, SameSlots
<1>4. Found(r)'
  <2>1. req'[q] = r
    BY <1>1, <1>2, Replaced
  <2> QED
    BY <2>1 DEF Found
<1>5. Carried'
  BY <1>1, <1>2, <1>4, CarriedOn
<1> QED
  BY <1>1, <1>3, <1>5 DEF Inv2

LEMMA SessionWrites ==
    ASSUME Inv2, Inv', NEW q \in Requests, SetCookie(q) \/ RotateFails(q) \/ Logout(q)
    PROVE  Inv2'
<1>1. Inv /\ Form(req[q]) /\ Rows
  BY DEF Inv2, Carried
<1>2. /\ UNCHANGED <<users, passwords, marker, lastUser, lastToken, ackedBy, shares, shareSessions>>
      /\ UNCHANGED <<shareCookie, clock, tenantOn, attempts>> /\ Finish(q)
  BY DEF SetCookie, RotateFails, Logout, accounts, work, sharing, ambient
<1>3. sessions' \in [Tokens -> SessionRow \cup {NoSession}]
  <2>1. \A t : DeleteSession(t) \in [Tokens -> SessionRow \cup {NoSession}]
    BY <1>1 DEF DeleteSession, Rows
  <2>2. sessions' = sessions \/ \E t : sessions' = DeleteSession(t)
    BY DEF SetCookie, RotateFails, Logout
  <2> QED
    BY <1>1, <2>1, <2>2 DEF Rows
<1>4. cookie' \in [Browsers -> Tokens \cup {0}]
  <2>1. \A b, t : t \in Tokens \cup {0} =>
           [cookie EXCEPT ![b] = t] \in [Browsers -> Tokens \cup {0}]
    BY <1>1 DEF Rows
  <2>2. CASE SetCookie(q)
    <3>1. req[q].target \in Tokens \cup {0}
      BY <1>1, <2>2 DEF SetCookie, At, Form
    <3> QED
      BY <2>1, <2>2, <3>1 DEF SetCookie
  <2>3. CASE RotateFails(q)
    BY <1>1, <2>3 DEF RotateFails, Rows
  <2>4. CASE Logout(q)
    BY <2>1, <2>4 DEF Logout
  <2> QED
    BY <2>2, <2>3, <2>4
<1>5. Rows'
  BY <1>1, <1>2, <1>3, <1>4 DEF Rows
<1>6. Memory' /\ Named' /\ Quotas'
  BY <1>2, Frames
<1>7. \A p \in Requests \ {q} : Found(req[p]) => Found(req[p])'
  BY <1>1, <1>2, OthersFound DEF Finish
<1> QED
  BY <1>2, <1>5, <1>6, <1>7, WritingEnds

LEMMA LoginWrites ==
    ASSUME Inv2, Inv', NEW q \in Requests, createLoginSession(q)
    PROVE  Inv2'
<1>1. Inv /\ Form(req[q]) /\ Rows /\ clock \in 0..MaxTime
  BY DEF Inv2, Carried
<1>2. /\ UNCHANGED <<users, passwords, marker, lastUser, cookie, ackedBy, shares, shareSessions>>
      /\ UNCHANGED <<shareCookie, clock, tenantOn, attempts>>
  BY DEF createLoginSession, accounts, work, sharing, ambient
<1>3. Memory' /\ Named' /\ Quotas'
  BY <1>2, Frames
<1>4. CASE Finish(q) /\ UNCHANGED <<sessions, lastToken>>
  <2>1. Rows'
    BY <1>1, <1>2, <1>4 DEF Rows
  <2>2. \A p \in Requests \ {q} : Found(req[p]) => Found(req[p])'
    BY <1>1, <1>2, <1>4, OthersFound DEF Finish
  <2> QED
    BY <1>2, <1>3, <1>4, <2>1, <2>2, WritingEnds
<1>5. CASE ~(Finish(q) /\ UNCHANGED <<sessions, lastToken>>)
  <2> DEFINE n == lastToken + 1
             u == req[q].user
             row == [user |-> u, expires |-> clock + SessionTTL]
             r == [req[q] EXCEPT !.pc = "cookie", !.target = n]
  <2>1. /\ req[q].pc = "issue" /\ n \in Tokens /\ lastToken' = n /\ Go(q, r)
        /\ sessions' = [sessions EXCEPT ![n] = row]
    BY <1>5 DEF createLoginSession, CreateSession, At
  <2>2. u \in Users
    BY <1>1, <2>1 DEF Form
  <2>3. clock + SessionTTL \in Nat
    BY <1>1, AccessAssumption, SMT
  <2>4. row \in SessionRow
    BY <2>2, <2>3 DEF SessionRow
  <2> HIDE DEF n, row
  <2>5. Rows'
    BY <1>1, <1>2, <2>1, <2>4 DEF Rows
  <2>6. DOMAIN req[q] = Fields
    BY <1>1 DEF Inv, Requested, Prepared
  <2>7. /\ r.pc = "cookie" /\ r.kind = req[q].kind /\ r.now = req[q].now /\ r.held = req[q].held
        /\ r.target = n
    BY <2>6 DEF Fields
  <2> HIDE DEF r
  <2>8. \A l \in req[q].held : FALSE
    <3>1. /\ req[q].pc \notin {"available", "create_admin", "ack_write"}
          /\ req[q].pc \notin Operating \cup Managing \cup Sharing
      BY <2>1 DEF Operating, Managing, Sharing
    <3> QED
      BY <1>1, <3>1 DEF Form, MayHold
  <2>9. Form(r)
    BY <1>1, <2>1, <2>7, <2>8 DEF Form
  <2>10. Found(req[q])'
    <3>1. req'[q].pc = "cookie"
      BY <1>1, <2>1, <2>7, Replaced DEF Go
    <3> QED
      BY <3>1 DEF Found, Sharing
  <2>11. \A p \in Requests \ {q} : Found(req[p]) => Found(req[p])'
    BY <1>1, <1>2, <2>1, OthersFound DEF Go
  <2> QED
    BY <1>2, <1>3, <2>1, <2>5, <2>7, <2>9, <2>10, <2>11, WritingGoes
<1> QED
  BY <1>4, <1>5

LEMMA RowExists ==
    \A row \in UserRow : row # NoUser
<1>1. \A row \in UserRow : row.role \in {"admin", "member"}
  BY DEF UserRow
<1>2. NoUser.role = "none"
  BY DEF NoUser
<1> QED
  BY <1>1, <1>2

\* An account whose row is written is still one.
LEMMA Renamed ==
    ASSUME Inv2, NEW u, NEW row \in UserRow, users' = [users EXCEPT ![u] = row]
    PROVE  /\ users' \in [Users -> UserRow \cup {NoUser}]
           /\ Accounts \subseteq Accounts'
           /\ u \in Users => u \in Accounts'
<1>1. users \in [Users -> UserRow \cup {NoUser}]
  BY DEF Inv2, Rows
<1>2. users' \in [Users -> UserRow \cup {NoUser}]
  BY <1>1
<1>3. ASSUME NEW v \in Users, v = u \/ users[v] # NoUser PROVE users'[v] # NoUser
  BY <1>1, <1>3, RowExists
<1> QED
  BY <1>2, <1>3 DEF Accounts

LEMMA UserSaves ==
    ASSUME Inv2, Inv', NEW q \in Requests, UpdateUserSave(q)
    PROVE  Inv2'
<1>1. Inv /\ Form(req[q]) /\ Rows
  BY DEF Inv2, Carried
<1>2. /\ UNCHANGED <<passwords, marker, lastUser, sessions, lastToken, cookie, ackedBy, shares>>
      /\ UNCHANGED <<shareSessions, shareCookie, clock, tenantOn, attempts>> /\ Finish(q)
      /\ users' = [users EXCEPT ![req[q].target] = req[q].row]
  BY DEF UpdateUserSave, logins, work, sharing, ambient
<1>3. req[q].row \in UserRow
  BY <1>1 DEF UpdateUserSave, At, Form
<1>4. users' \in [Users -> UserRow \cup {NoUser}] /\ Accounts \subseteq Accounts'
  BY <1>2, <1>3, Renamed
<1>5. Rows'
  BY <1>1, <1>2, <1>4 DEF Rows
<1>6. Named'
  BY <1>2, <1>4 DEF Inv2, Named
<1>7. Memory' /\ Quotas'
  BY <1>2, Frames
<1>8. \A p \in Requests \ {q} : Found(req[p]) => Found(req[p])'
  BY <1>1, <1>2, OthersFound DEF Finish
<1> QED
  BY <1>2, <1>5, <1>6, <1>7, <1>8, WritingEnds

\* Whoever creates the first administrator is alone behind the advisory lock.
LEMMA AloneAtCreation ==
    ASSUME Inv2, NEW q \in Requests, req[q].pc = "create_admin"
    PROVE  passwords = {} /\ \A p \in Requests \ {q} : req[p].pc # "create_admin"
<1>1. Requested /\ Found(req[q])
  BY DEF Inv2, Inv, Carried
<1>2. \A p \in Requests : req[p].pc = "create_admin" => Exclusive(BootLock) \in req[p].held
  BY DEF Inv2, Carried, Form
<1>3. ASSUME NEW p \in Requests \ {q}, req[p].pc = "create_admin" PROVE FALSE
  BY <1>1, <1>2, <1>3, OneHolder
<1> QED
  BY <1>1, <1>3 DEF Found

LEMMA AdminWrites ==
    ASSUME Inv2, Inv', NEW q \in Requests, BootCreate(q)
    PROVE  Inv2'
<1>1. Inv /\ Form(req[q]) /\ Rows
  BY DEF Inv2, Carried
<1>2. /\ UNCHANGED <<sessions, lastToken, cookie, ackedBy, shares, shareSessions, shareCookie>>
      /\ UNCHANGED <<clock, tenantOn, attempts>>
  BY DEF BootCreate, logins, work, sharing, ambient
<1>3. Memory' /\ Quotas'
  BY <1>2, Frames
<1>4. CASE Finish(q) /\ UNCHANGED accounts
  <2>1. AllStay
    BY <1>4 DEF BootCreate, AllStay
  <2> QED
    BY <1>4, <2>1, ReadingEnds
<1>5. CASE ~(Finish(q) /\ UNCHANGED accounts)
  <2> DEFINE u == lastUser + 1
             row == [role |-> "admin", status |-> "active"]
             r == [req[q] EXCEPT !.pc = "issue", !.user = u, !.held = {}]
  <2>1. /\ req[q].pc = "create_admin" /\ u \in Users /\ lastUser' = u /\ marker' = TRUE
        /\ users' = [users EXCEPT ![u] = row] /\ passwords' = passwords \cup {u}
        /\ Go(q, r) \/ Finish(q)
    BY <1>5 DEF BootCreate, createLocalAdmin, At
  <2>2. row \in UserRow
    BY DEF UserRow
  <2> HIDE DEF u, row
  <2>3. /\ users' \in [Users -> UserRow \cup {NoUser}] /\ Accounts \subseteq Accounts'
        /\ u \in Accounts'
    BY <2>1, <2>2, Renamed
  <2>4. Rows'
    <3>1. marker' \in BOOLEAN /\ passwords' \subseteq Users /\ lastUser' \in Users \cup {0}
      BY <1>1, <2>1 DEF Rows
    <3> QED
      BY <1>1, <1>2, <2>3, <3>1 DEF Rows
  <2>5. Named'
    BY <2>1, <2>3 DEF Inv2, Named
  <2>6. DOMAIN req[q] = Fields
    BY <1>1 DEF Inv, Requested, Prepared
  <2>7. r.pc = "issue" /\ r.kind = req[q].kind /\ r.now = req[q].now /\ r.held = {} /\ r.user = u
    BY <2>6 DEF Fields
  <2> HIDE DEF r
  <2>8. \E x : req' = [req EXCEPT ![q] = x]
    BY <2>1 DEF Go, Finish
  <2>9. \A p \in Requests \ {q} : Found(req[p]) => Found(req[p])'
    <3>1. SUFFICES ASSUME NEW p \in Requests \ {q}, Found(req[p]) PROVE Found(req[p])'
      OBVIOUS
    <3>2. req'[p] = req[p] /\ req[p].pc # "create_admin"
      BY <1>1, <2>1, <2>8, Replaced, AloneAtCreation
    <3>3. Issued' = Issued
      BY <1>2 DEF Issued
    <3> QED
      BY <3>1, <3>2, <3>3 DEF Found
  <2>10. CASE Finish(q)
    BY <1>2, <1>3, <2>4, <2>5, <2>9, <2>10, WritingEnds
  <2>11. CASE Go(q, r)
    <3>1. Form(r)
      BY <1>1, <2>1, <2>7 DEF Form
    <3>2. req'[q].pc = "issue"
      BY <1>1, <2>7, <2>11, Replaced DEF Go
    <3>3. Found(req[q])'
      BY <3>2 DEF Found, Sharing
    <3> QED
      BY <1>2, <1>3, <2>4, <2>5, <2>7, <2>9, <2>11, <3>1, <3>3, WritingGoes
  <2> QED
    BY <2>1, <2>10, <2>11
<1> QED
  BY <1>4, <1>5

LEMMA OperationWrites ==
    ASSUME Inv2, Inv', NEW q \in Requests, CreateMaintenance(q) \/ AckAlert(q)
    PROVE  Inv2'
<1>1. Inv /\ Requested /\ Rows
  BY DEF Inv2, Inv
<1>2. /\ UNCHANGED <<users, passwords, marker, lastUser, sessions, lastToken, cookie, shares>>
      /\ UNCHANGED <<shareSessions, shareCookie, clock, tenantOn, attempts>> /\ Finish(q)
  BY DEF CreateMaintenance, AckAlert, accounts, logins, sharing, ambient
<1>3. ackedBy' \in Users \cup {0}
  <2>1. CASE CreateMaintenance(q)
    BY <1>1, <2>1 DEF CreateMaintenance, Rows
  <2>2. CASE AckAlert(q)
    <3>1. req[q].user \in Users
      BY <1>1, <2>2, Actors DEF AckAlert, At, Operating
    <3> QED
      BY <2>2, <3>1 DEF AckAlert
  <2> QED
    BY <2>1, <2>2
<1>4. Rows'
  BY <1>1, <1>2, <1>3 DEF Rows
<1>5. Memory' /\ Named' /\ Quotas'
  BY <1>2, Frames
<1>6. \A p \in Requests \ {q} : Found(req[p]) => Found(req[p])'
  BY <1>1, <1>2, OthersFound DEF Finish
<1> QED
  BY <1>2, <1>4, <1>5, <1>6, WritingEnds

LEMMA ShareExists ==
    \A row \in ShareRow : row # NoShare
<1>1. \A row \in ShareRow : row.creator \in Users
  BY DEF ShareRow
<1>2. NoShare.creator = 0 /\ 0 \notin Users
  BY AccessAssumption DEF NoShare
<1> QED
  BY <1>1, <1>2

\* One share more is within the quota: only the request that counted inserts.
LEMMA ShareInserts ==
    ASSUME Inv2, Inv', NEW q \in Requests, CreateShare(q)
    PROVE  Inv2'
<1>1. Inv /\ Requested /\ Form(req[q]) /\ Found(req[q]) /\ Rows /\ Quotas
  BY DEF Inv2, Inv, Carried
<1>2. /\ UNCHANGED <<users, passwords, marker, lastUser, sessions, lastToken, cookie, ackedBy>>
      /\ UNCHANGED <<shareSessions, shareCookie, clock, tenantOn, attempts>> /\ Finish(q)
      /\ req[q].pc = "insert"
  BY DEF CreateShare, accounts, logins, ambient, At
<1>3. PICK s \in Shares \ Issued :
         shares' = [shares EXCEPT ![s] = [creator |-> req[q].user, revoked |-> FALSE,
                                          expires |-> req[q].now + ShareTTL]]
  BY DEF CreateShare
<1> DEFINE row == [creator |-> req[q].user, revoked |-> FALSE, expires |-> req[q].now + ShareTTL]
<1>4. row \in ShareRow
  <2>1. req[q].user \in Users
    BY <1>1, <1>2, Actors DEF Managing
  <2>2. req[q].now + ShareTTL \in Nat
    <3>1. req[q].now \in Nat /\ ShareTTL \in Nat
      BY <1>1, AccessAssumption DEF Form
    <3> QED
      BY <3>1, SMT
  <2> QED
    BY <2>1, <2>2 DEF ShareRow
<1>5. shares' = [shares EXCEPT ![s] = row] /\ row # NoShare
  BY <1>3, <1>4, ShareExists
<1> HIDE DEF row
<1>6. shares \in [Shares -> ShareRow \cup {NoShare}]
  BY <1>1 DEF Rows
<1>7. shares' \in [Shares -> ShareRow \cup {NoShare}]
  BY <1>4, <1>5, <1>6
<1>8. Issued' = Issued \cup {s}
  <2>1. \A t \in Shares : t # s => shares'[t] = shares[t]
    BY <1>5, <1>6
  <2>2. shares'[s] # NoShare
    BY <1>5, <1>6
  <2>3. ASSUME NEW t \in Shares PROVE t \in Issued' <=> t \in Issued \cup {s}
    <3>1. CASE t = s
      BY <2>2, <3>1 DEF Issued
    <3>2. CASE t # s
      BY <2>1, <3>2 DEF Issued
    <3> QED
      BY <3>1, <3>2
  <2>4. Issued' \subseteq Shares /\ Issued \subseteq Shares
    BY DEF Issued
  <2> QED
    BY <2>3, <2>4
<1>9. IsFiniteSet(Issued') /\ Cardinality(Issued') <= ShareQuota
  <2>1. IsFiniteSet(Issued) /\ Cardinality(Issued) < ShareQuota
    BY <1>1, <1>2 DEF Quotas, Found
  <2>2. IsFiniteSet(Issued \cup {s}) /\ Cardinality(Issued \cup {s}) = Cardinality(Issued) + 1
    BY <1>3, <2>1, FS_AddElement
  <2>3. Cardinality(Issued) \in Nat /\ ShareQuota \in Nat
    BY <2>1, FS_CardinalityType, AccessAssumption
  <2>4. Cardinality(Issued) + 1 <= ShareQuota
    BY <2>1, <2>3, SMT
  <2> QED
    BY <1>8, <2>2, <2>4
<1>10. Quotas'
  <2>1. \A x : SessionsOf(x)' = SessionsOf(x)
    BY <1>2 DEF SessionsOf
  <2> QED
    BY <1>1, <1>9, <2>1 DEF Quotas
<1>11. Rows'
  BY <1>1, <1>2, <1>7 DEF Rows
<1>12. Memory' /\ Named'
  BY <1>2, Frames
<1>13. \A p \in Requests \ {q} : Found(req[p]) => Found(req[p])'
  <2>1. SUFFICES ASSUME NEW p \in Requests \ {q}, Found(req[p]) PROVE Found(req[p])'
    OBVIOUS
  <2>2. req'[p] = req[p] /\ passwords' = passwords
    BY <1>1, <1>2, Replaced DEF Finish
  <2>3. \A x \in Requests : req[x].pc = "insert" => Exclusive(TenantLock) \in req[x].held
    BY <1>1 DEF Requested, Prepared, Managing, AdminLocks
  <2>4. req[p].pc # "insert"
    BY <1>1, <1>2, <2>3, OneHolder
  <2> QED
    BY <1>8, <2>1, <2>2, <2>4 DEF Found
<1> QED
  BY <1>2, <1>10, <1>11, <1>12, <1>13, WritingEnds

LEMMA ShareRevoked ==
    ASSUME Inv2, Inv', NEW q \in Requests, RevokeShare(q)
    PROVE  Inv2'
<1> DEFINE s == req[q].target
           row == [shares[s] EXCEPT !.revoked = TRUE]
<1>1. Inv /\ Requested /\ Found(req[q]) /\ Rows /\ Quotas
  BY DEF Inv2, Inv, Carried
<1>2. /\ UNCHANGED <<users, passwords, marker, lastUser, sessions, lastToken, cookie, ackedBy>>
      /\ UNCHANGED <<shareCookie, clock, tenantOn, attempts>> /\ Finish(q) /\ req[q].pc = "purge"
      /\ shares' = [shares EXCEPT ![s] = row]
      /\ shareSessions' = {x \in shareSessions : x.share # s}
  BY DEF RevokeShare, accounts, logins, ambient, At
<1>3. s \in Issued
  BY <1>1, <1>2 DEF Found, Sharing
<1>4. shares \in [Shares -> ShareRow \cup {NoShare}]
  BY <1>1 DEF Rows
<1>5. row \in ShareRow /\ row # NoShare
  <2>1. shares[s] \in ShareRow
    BY <1>3, <1>4 DEF Issued
  <2>2. row \in ShareRow
    BY <2>1 DEF ShareRow
  <2> QED
    BY <2>2, ShareExists
<1> HIDE DEF row
<1>6. shares' \in [Shares -> ShareRow \cup {NoShare}]
  BY <1>2, <1>4, <1>5
<1>7. Issued' = Issued
  <2>1. \A t \in Shares : t # s => shares'[t] = shares[t]
    BY <1>2, <1>4
  <2>2. s \in Shares /\ shares'[s] # NoShare
    BY <1>2, <1>3, <1>4, <1>5 DEF Issued
  <2>3. ASSUME NEW t \in Shares PROVE t \in Issued' <=> t \in Issued
    <3>1. CASE t = s
      BY <1>3, <2>2, <3>1 DEF Issued
    <3>2. CASE t # s
      BY <2>1, <3>2 DEF Issued
    <3> QED
      BY <3>1, <3>2
  <2>4. Issued' \subseteq Shares /\ Issued \subseteq Shares
    BY DEF Issued
  <2> QED
    BY <2>3, <2>4
<1>8. Quotas'
  <2>1. ASSUME NEW x \in Shares
        PROVE  (IsFiniteSet(SessionsOf(x)) /\ Cardinality(SessionsOf(x)) <= SessionQuota)'
    <3>1. CASE x = s
      <4>1. SessionsOf(x)' = {}
        BY <1>2, <3>1 DEF SessionsOf
      <4>2. 0 <= SessionQuota
        BY AccessAssumption, SMT
      <4> QED
        BY <4>1, <4>2, FS_EmptySet
    <3>2. CASE x # s
      <4>1. SessionsOf(x)' = SessionsOf(x)
        BY <1>2, <3>2 DEF SessionsOf
      <4> QED
        BY <1>1, <4>1 DEF Quotas
    <3> QED
      BY <3>1, <3>2
  <2> QED
    BY <1>1, <1>7, <2>1 DEF Quotas
<1>9. Rows'
  BY <1>1, <1>2, <1>6 DEF Rows
<1>10. Memory' /\ Named'
  BY <1>2, Frames
<1>11. \A p \in Requests \ {q} : Found(req[p]) => Found(req[p])'
  <2>1. SUFFICES ASSUME NEW p \in Requests \ {q}, Found(req[p]) PROVE Found(req[p])'
    OBVIOUS
  <2>2. req'[p] = req[p] /\ passwords' = passwords
    BY <1>1, <1>2, Replaced DEF Finish
  <2> QED
    BY <1>7, <2>1, <2>2 DEF Found
<1> QED
  BY <1>2, <1>8, <1>9, <1>10, <1>11, WritingEnds

\* A session more is within the share's quota, which the same request counted.
LEMMA ShareExchanged ==
    ASSUME Inv2, Inv', NEW q \in Requests, ExchangeShare(q)
    PROVE  Inv2'
<1> DEFINE s == req[q].target
           kept == {x \in shareSessions : x.share = s => x.expires > req[q].now}
           own == {x \in kept : x.share = s}
           token == lastToken + 1
           new == [token |-> token, share |-> s, expires |-> shares[s].expires]
<1>1. Inv /\ Found(req[q]) /\ Rows /\ Quotas
  BY DEF Inv2, Carried
<1>2. /\ UNCHANGED <<users, passwords, marker, lastUser, sessions, cookie, ackedBy, shares>>
      /\ UNCHANGED <<clock, tenantOn, attempts>> /\ Finish(q) /\ req[q].pc = "grant"
  BY DEF ExchangeShare, accounts, work, ambient, At
<1>3. Memory' /\ Named'
  BY <1>2, Frames
<1>4. \A p \in Requests \ {q} : Found(req[p]) => Found(req[p])'
  BY <1>1, <1>2, OthersFound DEF Finish
<1>5. CASE UNCHANGED <<shareSessions, shareCookie, lastToken>>
  <2>1. Quotas'
    BY <1>2, <1>5, Frames
  <2>2. Rows'
    BY <1>1, <1>2, <1>5 DEF Rows
  <2> QED
    BY <1>2, <1>3, <1>4, <2>1, <2>2, WritingEnds
<1>6. CASE ~UNCHANGED <<shareSessions, shareCookie, lastToken>>
  <2>1. /\ Cardinality(own) < SessionQuota /\ token \in Tokens /\ lastToken' = token
        /\ shareSessions' = kept \cup {new}
        /\ shareCookie' = [shareCookie EXCEPT ![req[q].browser] = token]
    BY <1>6 DEF ExchangeShare
  <2>2. s \in Shares /\ shares[s] \in ShareRow
    BY <1>1, <1>2 DEF Found, Sharing, Issued, Rows
  <2>3. new \in [token : Tokens, share : Shares, expires : Nat] /\ new.share = s
    <3>1. shares[s].expires \in Nat
      BY <2>2 DEF ShareRow
    <3> QED
      BY <2>1, <2>2, <3>1
  <2>4. own \subseteq SessionsOf(s) /\ kept \subseteq shareSessions
    BY DEF SessionsOf
  <2>5. \A x \in shareSessions : x.share # s => x \in kept
    OBVIOUS
  <2>6. \A x \in own : x.share = s
    OBVIOUS
  <2>7. \A x \in kept : x.share = s => x \in own
    OBVIOUS
  <2>8. own \subseteq kept
    OBVIOUS
  <2> HIDE DEF token, new, kept, own
  <2>9. Rows'
    <3>1. shareSessions' \subseteq [token : Tokens, share : Shares, expires : Nat]
      BY <1>1, <2>1, <2>3, <2>4 DEF Rows
    <3>2. lastToken' \in Tokens \cup {0} /\ shareCookie' \in [Browsers -> Tokens \cup {0}]
      BY <1>1, <2>1 DEF Rows
    <3> QED
      BY <1>1, <1>2, <3>1, <3>2 DEF Rows
  <2>10. {y \in shareSessions' : y.share = s} = own \cup {new}
    <3>1. ASSUME NEW y PROVE y \in {z \in shareSessions' : z.share = s} <=> y \in own \cup {new}
      BY <2>1, <2>3, <2>6, <2>7, <2>8
    <3> QED
      BY <3>1
  <2>11. IsFiniteSet(own \cup {new}) /\ Cardinality(own \cup {new}) <= SessionQuota
    <3>1. IsFiniteSet(own)
      BY <1>1, <2>2, <2>4, FS_Subset DEF Quotas
    <3>2. /\ IsFiniteSet(own \cup {new})
          /\ \/ Cardinality(own \cup {new}) = Cardinality(own)
             \/ Cardinality(own \cup {new}) = Cardinality(own) + 1
      BY <3>1, FS_AddElement
    <3>3. Cardinality(own) \in Nat /\ SessionQuota \in Nat
      BY <3>1, FS_CardinalityType, AccessAssumption
    <3> QED
      BY <2>1, <3>2, <3>3, SMT
  <2>12. ASSUME NEW x \in Shares
         PROVE  (IsFiniteSet(SessionsOf(x)) /\ Cardinality(SessionsOf(x)) <= SessionQuota)'
    <3>1. CASE x = s
      <4>1. {y \in shareSessions' : y.share = x} = own \cup {new}
        BY <2>10, <3>1
      <4> QED
        BY <2>11, <4>1 DEF SessionsOf
    <3>2. CASE x # s
      <4>1. SessionsOf(x)' = SessionsOf(x)
        BY <2>1, <2>3, <2>4, <2>5, <3>2 DEF SessionsOf
      <4> QED
        BY <1>1, <4>1 DEF Quotas
    <3> QED
      BY <3>1, <3>2
  <2>13. Issued' = Issued
    BY <1>2 DEF Issued
  <2>14. Quotas'
    BY <1>1, <2>12, <2>13 DEF Quotas
  <2> QED
    BY <1>2, <1>3, <1>4, <2>9, <2>14, WritingEnds
<1> QED
  BY <1>5, <1>6

-----------------------------------------------------------------------------
(* The guard                                                               *)

\* Dropping old windows only makes room.
LEMMA Dropped ==
    ASSUME Memory
    PROVE  /\ Purged \in [Browsers -> Attempt]
           /\ \A p \in Browsers : Purged[p].count <= MaxAttempts
           /\ IsFiniteSet(Known) /\ Cardinality(Known) <= MaxPeers
<1>1. NoAttempt \in Attempt /\ NoAttempt.count = 0 /\ 0 <= MaxAttempts /\ ~(0 > 0)
  BY AccessAssumption, SMT DEF NoAttempt, Attempt
<1>2. \A p \in Browsers : Purged[p] = NoAttempt \/ Purged[p] = attempts[p]
  BY DEF Purged
<1>3. \A p \in Browsers : Purged[p] \in Attempt /\ Purged[p].count <= MaxAttempts
  BY <1>1, <1>2 DEF Memory
<1>4. Purged \in [Browsers -> Attempt]
  BY <1>3 DEF Purged
<1>5. Known \subseteq Tracked
  BY <1>1, <1>2 DEF Known, Tracked
<1>6. IsFiniteSet(Known) /\ Cardinality(Known) <= Cardinality(Tracked)
  BY <1>5, FS_Subset DEF Memory
<1>7. Cardinality(Known) <= MaxPeers
  <2>1. /\ Cardinality(Known) \in Nat /\ Cardinality(Tracked) \in Nat /\ MaxPeers \in Nat
        /\ Cardinality(Tracked) <= MaxPeers
    BY <1>6, FS_CardinalityType, AccessAssumption DEF Memory
  <2> QED
    BY <1>6, <2>1, SMT
<1> QED
  BY <1>3, <1>4, <1>6, <1>7

\* An attempt is counted for a peer that is known or finds room, below its limit.
LEMMA Allowed ==
    ASSUME Memory, clock \in Nat, NEW p \in Browsers, allow(p)
    PROVE  Memory'
<1>1. /\ Purged \in [Browsers -> Attempt]
      /\ \A b \in Browsers : Purged[b].count <= MaxAttempts
      /\ IsFiniteSet(Known) /\ Cardinality(Known) <= MaxPeers
  BY Dropped
<1>2. CASE Refused(p)
  <2>1. attempts' = Purged
    BY <1>2 DEF allow
  <2>2. Tracked' = Known
    BY <2>1 DEF Tracked, Known
  <2> QED
    BY <1>1, <2>1, <2>2 DEF Memory
<1>3. CASE ~Refused(p)
  <2> DEFINE a == [started |-> IF p \in Known THEN Purged[p].started ELSE clock,
                   count |-> Purged[p].count + 1]
  <2>1. attempts' = [Purged EXCEPT ![p] = a]
    BY <1>3 DEF allow, Counted
  <2>2. /\ p \notin Known => ~(Cardinality(Known) >= MaxPeers)
        /\ ~(Purged[p].count >= MaxAttempts)
    BY <1>3 DEF Refused
  <2>3. Purged[p].started \in Nat /\ Purged[p].count \in Nat /\ MaxAttempts \in Nat
    BY <1>1, AccessAssumption DEF Attempt
  <2>4. a \in Attempt /\ a.count <= MaxAttempts /\ a.count > 0
    <3>1. a.count = Purged[p].count + 1 /\ a.started \in Nat
      BY <2>3
    <3>2. /\ Purged[p].count + 1 \in Nat /\ Purged[p].count + 1 <= MaxAttempts
          /\ Purged[p].count + 1 > 0
      BY <2>2, <2>3, SMT
    <3> QED
      BY <2>3, <3>1, <3>2 DEF Attempt
  <2> HIDE DEF a
  <2>5. attempts' \in [Browsers -> Attempt]
    BY <1>1, <2>1, <2>4
  <2>6. attempts'[p] = a /\ \A b \in Browsers : b # p => attempts'[b] = Purged[b]
    BY <1>1, <2>1
  <2>7. \A b \in Browsers : attempts'[b].count <= MaxAttempts
    BY <1>1, <2>4, <2>6
  <2>8. Tracked' = Known \cup {p}
    <3>1. ASSUME NEW b \in Browsers PROVE b \in Tracked' <=> b \in Known \cup {p}
      <4>1. CASE b = p
        BY <2>4, <2>6, <4>1 DEF Tracked
      <4>2. CASE b # p
        BY <2>6, <4>2 DEF Tracked, Known
      <4> QED
        BY <4>1, <4>2
    <3>2. Tracked' \subseteq Browsers /\ Known \subseteq Browsers
      BY DEF Tracked, Known
    <3> QED
      BY <3>1, <3>2
  <2>9. IsFiniteSet(Known \cup {p}) /\ Cardinality(Known \cup {p}) <= MaxPeers
    <3>1. CASE p \in Known
      <4>1. Known \cup {p} = Known
        BY <3>1
      <4> QED
        BY <1>1, <4>1
    <3>2. CASE p \notin Known
      <4>1. IsFiniteSet(Known \cup {p}) /\ Cardinality(Known \cup {p}) = Cardinality(Known) + 1
        BY <1>1, <3>2, FS_AddElement
      <4>2. Cardinality(Known) \in Nat /\ MaxPeers \in Nat /\ ~(Cardinality(Known) >= MaxPeers)
        BY <1>1, <2>2, <3>2, FS_CardinalityType, AccessAssumption
      <4> QED
        BY <4>1, <4>2, SMT
    <3> QED
      BY <3>1, <3>2
  <2> QED
    BY <2>5, <2>7, <2>8, <2>9 DEF Memory
<1> QED
  BY <1>2, <1>3

-----------------------------------------------------------------------------
(* Requests that come in, the operator and time                            *)

\* Steps that no request takes.
LEMMA Standing ==
    ASSUME Inv2, Inv', UNCHANGED <<req, slots, shares, shareSessions>>,
           (clock \in 0..MaxTime)', Rows', Memory', Named',
           passwords' = passwords \/ passwords' = {}
    PROVE  Inv2'
<1>1. req' = req /\ slots' = slots /\ Issued' = Issued
  BY DEF Issued
<1>2. Slotted'
  BY <1>1 DEF Inv2, Slotted, Authenticating
<1>3. Quotas'
  BY Frames
<1>4. ASSUME NEW p \in Requests PROVE Form(req[p])' /\ Found(req[p])'
  <2>1. Form(req[p]) /\ Found(req[p])
    BY DEF Inv2, Carried
  <2>2. Form(req[p])'
    BY <1>1, <2>1 DEF Form, MayHold
  <2>3. Found(req[p])'
    BY <1>1, <2>1 DEF Found
  <2> QED
    BY <2>2, <2>3
<1> QED
  BY <1>2, <1>3, <1>4 DEF Inv2, Carried

LEMMA RequestComes ==
    ASSUME Inv2, Inv', NEW q \in Requests, Begin(q)
    PROVE  Inv2'
<1>1. Inv /\ Form(req[q]) /\ Rows /\ Memory /\ Slotted /\ Carried /\ clock \in 0..MaxTime
  BY DEF Inv2, Carried
<1>2. /\ UNCHANGED <<users, passwords, marker, lastUser, sessions, lastToken, cookie, ackedBy>>
      /\ UNCHANGED <<shares, shareSessions, shareCookie, clock, tenantOn>> /\ req[q].pc = "idle"
  BY DEF Begin, accounts, logins, work, sharing, At
<1>3. Rows' /\ Named' /\ Quotas' /\ (clock \in 0..MaxTime)'
  <2>1. Rows'
    BY <1>1, <1>2 DEF Rows
  <2>2. Named' /\ Quotas'
    BY <1>2, Frames
  <2> QED
    BY <1>1, <1>2, <2>1, <2>2
<1>4. clock \in Nat
  BY <1>1, AccessAssumption, SMTT(60)
<1>5. PICK k \in Kinds : \E b \in Browsers, i \in Inputs(k) :
         LET r == [Arrival(k, b, i[1], i[2]) EXCEPT !.pc = Door(k)] IN
         IF k \in Guarded THEN limitAuthWork(q, r) ELSE Go(q, r) /\ UNCHANGED attempts
  BY DEF Begin
<1>6. PICK b \in Browsers, i \in Inputs(k) :
         LET r == [Arrival(k, b, i[1], i[2]) EXCEPT !.pc = Door(k)] IN
         IF k \in Guarded THEN limitAuthWork(q, r) ELSE Go(q, r) /\ UNCHANGED attempts
  BY <1>5
<1> DEFINE a == Arrival(k, b, i[1], i[2])
           r == [a EXCEPT !.pc = Door(k)]
<1>7. IF k \in Guarded THEN limitAuthWork(q, r) ELSE Go(q, r) /\ UNCHANGED attempts
  BY <1>6
<1>8. DOMAIN a = Fields /\ a.kind = k /\ a.held = {} /\ a.now = clock /\ a.browser = b
  BY DEF Arrival, Idle, Fields
<1> HIDE DEF a
<1>9. r.pc = Door(k) /\ r.kind = k /\ r.held = {} /\ r.now = clock /\ r.browser = b
  BY <1>8 DEF Fields
<1> HIDE DEF r
<1>10. r.pc \in Plain
  BY <1>9, Doors DEF Plain
<1>11. Form(r) /\ Found(r)
  BY <1>4, <1>9, <1>10, PlainForm
<1>12. req[q].kind \notin Guarded
  BY <1>1, <1>2 DEF Form, Guarded
<1>13. Memory'
  <2>1. CASE k \in Guarded
    <3>1. allow(PeerOf[b]) /\ PeerOf[b] \in Browsers
      BY <1>7, <1>9, <2>1, AccessAssumption DEF limitAuthWork
    <3> QED
      BY <1>1, <1>4, <3>1, Allowed
  <2>2. CASE k \notin Guarded
    BY <1>7, <2>2, Frames
  <2> QED
    BY <2>1, <2>2
<1>14. CASE UNCHANGED <<req, slots>>
  BY <1>2, <1>3, <1>13, <1>14, Standing
<1>15. CASE ~UNCHANGED <<req, slots>>
  <2>1. /\ req' = [req EXCEPT ![q] = r]
        /\ \/ k \in Guarded /\ ~(slots >= Slots) /\ slots' = slots + 1
           \/ k \notin Guarded /\ slots' = slots
    BY <1>7, <1>15 DEF limitAuthWork, Go
  <2>2. Slotted'
    <3>1. CASE k \in Guarded
      BY <1>1, <1>9, <1>12, <2>1, <3>1, SlotTaken
    <3>2. CASE k \notin Guarded
      BY <1>1, <1>9, <1>12, <2>1, <3>2, SameSlots
    <3> QED
      BY <3>1, <3>2
  <2>3. req'[q] = r
    BY <1>1, <2>1, Replaced
  <2>4. Found(req[q])'
    <3>1. req'[q].pc \notin {"create_admin", "insert"} \cup Sharing
      BY <1>10, <2>3 DEF Plain, Sharing
    <3> QED
      BY <3>1 DEF Found
  <2>5. \A p \in Requests \ {q} : Found(req[p]) => Found(req[p])'
    BY <1>1, <1>2, <2>1, OthersFound
  <2>6. Carried'
    <3>1. ASSUME NEW p \in Requests PROVE Form(req[p])' /\ Found(req[p])'
      <4>1. CASE p = q
        BY <1>11, <2>3, <2>4, <4>1 DEF Form, MayHold
      <4>2. CASE p # q
        <5>1. req'[p] = req[p]
          BY <1>1, <2>1, <4>2, Replaced
        <5>2. Form(req[p]) /\ Found(req[p])
          BY <1>1 DEF Carried
        <5> QED
          BY <2>5, <4>2, <5>1, <5>2 DEF Form, MayHold
      <4> QED
        BY <4>1, <4>2
    <3> QED
      BY <3>1 DEF Carried
  <2> QED
    BY <1>3, <1>13, <2>2, <2>6 DEF Inv2
<1> QED
  BY <1>14, <1>15

LEMMA Rejected ==
    ASSUME Inv2, Inv', NEW q \in Requests, Reject(q)
    PROVE  Inv2'
<1>1. AllStay
  BY DEF Reject, AllStay
<1>2. CASE Finish(q)
  BY <1>1, <1>2, ReadingEnds
<1>3. CASE UNCHANGED <<req, slots>>
  <2>1. Inv2 /\ req' = req /\ slots' = slots
    BY <1>3
  <2>2. Slotted'
    BY <2>1 DEF Inv2, Slotted, Authenticating
  <2>3. shares' = shares /\ passwords' = passwords
    BY <1>1 DEF AllStay, sharing, accounts
  <2>4. ASSUME NEW p \in Requests PROVE (Form(req[p]) /\ Found(req[p]))'
    <3>1. Form(req[p]) /\ Found(req[p]) /\ req'[p] = req[p]
      BY <2>1 DEF Inv2, Carried
    <3>2. Form(req[p])'
      BY <3>1 DEF Form, MayHold
    <3>3. Found(req[p])'
      BY <2>3, <3>1 DEF Found, Issued
    <3> QED
      BY <3>2, <3>3
  <2>5. Carried'
    BY <2>4 DEF Carried
  <2> QED
    BY <1>1, <2>2, <2>5, TablesStay
<1> QED
  BY <1>2, <1>3 DEF Reject

LEMMA Surroundings ==
    ASSUME Inv2, Inv', DeleteUsers \/ SwitchTenant \/ Tick \/ UNCHANGED vars
    PROVE  Inv2'
<1>1. Rows /\ clock \in 0..MaxTime
  BY DEF Inv2
<1>2. /\ UNCHANGED <<marker, lastUser, lastToken, cookie, ackedBy, shares, shareSessions>>
      /\ UNCHANGED <<shareCookie, req, slots, attempts>>
  BY DEF DeleteUsers, SwitchTenant, Tick, vars, accounts, logins, work, sharing
<1>3. Memory'
  BY <1>2, Frames
<1>4. CASE DeleteUsers
  <2>1. /\ users' = [u \in Users |-> NoUser] /\ passwords' = {}
        /\ sessions' = [t \in Tokens |-> NoSession] /\ clock' = clock /\ tenantOn' = tenantOn
    BY <1>4 DEF DeleteUsers
  <2>2. Rows' /\ Named'
    BY <1>1, <1>2, <2>1 DEF Rows, Named
  <2> QED
    BY <1>1, <1>2, <1>3, <2>1, <2>2, Standing
<1>5. CASE SwitchTenant \/ Tick \/ UNCHANGED vars
  <2>1. UNCHANGED <<users, passwords, sessions>>
    BY <1>5 DEF SwitchTenant, Tick, vars, accounts, logins
  <2>2. tenantOn' = ~tenantOn \/ tenantOn' = tenantOn
    BY <1>5 DEF SwitchTenant, Tick, vars
  <2>3. tenantOn' \in BOOLEAN
    BY <1>1, <2>2 DEF Rows
  <2>4. clock' = clock \/ (clock < MaxTime /\ clock' = clock + 1)
    BY <1>5 DEF SwitchTenant, Tick, vars
  <2>5. (clock \in 0..MaxTime)'
    BY <1>1, <2>4, AccessAssumption, SMT
  <2>6. Rows'
    BY <1>1, <1>2, <2>1, <2>3 DEF Rows
  <2>7. Named'
    BY <2>1, Frames
  <2> QED
    BY <1>2, <1>3, <2>1, <2>5, <2>6, <2>7, Standing
<1> QED
  BY <1>4, <1>5

-----------------------------------------------------------------------------
(* The invariant                                                           *)

\* The tables of an installation in use, up to its quota of shares.
LEMMA InUseTables ==
    ASSUME InUse, tenantOn = TRUE, ackedBy = 0
    PROVE  Rows /\ Named /\ Quotas
<1>1. PICK second \in UserRow, n \in 0..ShareQuota :
        /\ users = [u \in Users |-> CASE u = 1 -> [role |-> "admin", status |-> "active"]
                                      [] u = 2 -> second
                                      [] OTHER -> NoUser]
        /\ passwords = {1, 2} /\ marker = FALSE /\ lastUser = 2
        /\ sessions = [t \in Tokens |-> IF t <= 2 THEN [user |-> t, expires |-> SessionTTL] ELSE NoSession]
        /\ lastToken = 3
        /\ cookie = [b \in Browsers |-> IF b \in {1, 2} THEN b ELSE 0]
        /\ shares = [s \in Shares |->
                       IF s <= n THEN [creator |-> 1, expires |-> ShareTTL, revoked |-> FALSE] ELSE NoShare]
        /\ shareSessions = IF n = 0 THEN {} ELSE {[token |-> 3, share |-> 1, expires |-> ShareTTL]}
        /\ shareCookie = [b \in Browsers |-> IF b = 2 /\ n > 0 THEN 3 ELSE 0]
  BY DEF InUse
<1>2. /\ {1, 2} \subseteq Users /\ {1, 2, 3} \subseteq Tokens /\ SessionTTL \in Nat /\ ShareTTL \in Nat
      /\ ShareQuota \in Nat /\ 1..ShareQuota \subseteq Shares /\ Shares \subseteq Nat \ {0}
  BY AccessAssumption
<1> DEFINE admin == [role |-> "admin", status |-> "active"]
           share == [creator |-> 1, expires |-> ShareTTL, revoked |-> FALSE]
           opened == [token |-> 3, share |-> 1, expires |-> ShareTTL]
<1>3. admin \in UserRow
  BY DEF UserRow
<1>4. share \in ShareRow /\ share # NoShare
  <2>1. share \in ShareRow
    BY <1>2 DEF ShareRow
  <2> QED
    BY <2>1, ShareExists
<1>5. users[1] = admin /\ users[2] = second /\ \A u \in Users : u # 1 /\ u # 2 => users[u] = NoUser
  BY <1>1, <1>2, SMT
<1>6. users \in [Users -> UserRow \cup {NoUser}]
  <2>1. ASSUME NEW u \in Users PROVE users[u] \in UserRow \cup {NoUser}
    <3>1. CASE u = 1
      BY <1>3, <1>5, <3>1
    <3>2. CASE u = 2
      BY <1>5, <3>2
    <3>3. CASE u # 1 /\ u # 2
      BY <1>5, <3>3
    <3> QED
      BY <3>1, <3>2, <3>3
  <2>2. users = [u \in Users |-> users[u]]
    BY DEF InUse
  <2> QED
    BY <2>1, <2>2
<1>7. Named
  BY <1>1, <1>2, <1>3, <1>5, RowExists DEF Named, Accounts
<1>8. sessions \in [Tokens -> SessionRow \cup {NoSession}]
  <2>1. ASSUME NEW t \in Tokens, t <= 2 PROVE t \in Users
    <3>1. t = 1 \/ t = 2
      BY <2>1, AccessAssumption, SMT
    <3> QED
      BY <3>1, <1>2
  <2>2. \A t \in Tokens : t <= 2 => [user |-> t, expires |-> SessionTTL] \in SessionRow
    BY <1>2, <2>1 DEF SessionRow
  <2> QED
    BY <1>1, <2>2
<1>9. shares \in [Shares -> ShareRow \cup {NoShare}]
  BY <1>1, <1>4
<1>10. opened \in [token : Tokens, share : Shares, expires : Nat] \/ n = 0
  <2>1. n # 0 => 1 \in 1..ShareQuota
    BY <1>2, SMT
  <2> QED
    BY <1>2, <2>1
<1>11. shareSessions \subseteq [token : Tokens, share : Shares, expires : Nat]
  BY <1>1, <1>10
<1>12. cookie \in [Browsers -> Tokens \cup {0}]
  BY <1>1, <1>2
<1>13. shareCookie \in [Browsers -> Tokens \cup {0}]
  BY <1>1, <1>2
<1>14. Rows
  <2>1. /\ tenantOn \in BOOLEAN /\ marker \in BOOLEAN /\ passwords \subseteq Users
        /\ lastUser \in Users \cup {0} /\ lastToken \in Tokens \cup {0} /\ ackedBy \in Users \cup {0}
    BY <1>1, <1>2
  <2> QED
    BY <1>6, <1>8, <1>9, <1>11, <1>12, <1>13, <2>1 DEF Rows
<1>15. IsFiniteSet(Issued) /\ Cardinality(Issued) <= ShareQuota
  <2>1. \A s \in Shares : shares[s] # NoShare <=> s <= n
    BY <1>1, <1>4
  <2>2. Issued = {s \in Shares : s <= n}
    BY <2>1 DEF Issued
  <2>3. {s \in Shares : s <= n} = 1..n
    <3>1. \A s \in Shares : s <= n => s \in 1..n
      BY <1>2, SMT
    <3>2. \A s \in 1..n : s \in 1..ShareQuota /\ s <= n
      BY <1>2, SMT
    <3> QED
      BY <1>2, <3>1, <3>2
  <2>4. IsFiniteSet(1..n) /\ Cardinality(1..n) = IF 1 > n THEN 0 ELSE n - 1 + 1
    <3>1. 1 \in Int /\ n \in Int
      BY SMT
    <3> QED
      BY <3>1, FS_Interval
  <2>5. Cardinality(1..n) <= ShareQuota
    BY <2>4, <1>2, SMT
  <2> QED
    BY <2>2, <2>3, <2>4, <2>5
<1>16. ASSUME NEW s \in Shares
       PROVE  IsFiniteSet(SessionsOf(s)) /\ Cardinality(SessionsOf(s)) <= SessionQuota
  <2>1. SessionsOf(s) \subseteq {opened}
    BY <1>1 DEF SessionsOf
  <2> HIDE DEF opened
  <2>2. IsFiniteSet({opened}) /\ Cardinality({opened}) = 1
    BY FS_Singleton
  <2>3. IsFiniteSet(SessionsOf(s)) /\ Cardinality(SessionsOf(s)) <= 1
    BY <2>1, <2>2, FS_Subset
  <2>4. Cardinality(SessionsOf(s)) \in Nat /\ SessionQuota \in Nat \ {0}
    BY <2>3, FS_CardinalityType, AccessAssumption
  <2> QED
    BY <2>3, <2>4, SMT
<1> QED
  BY <1>7, <1>14, <1>15, <1>16 DEF Quotas

LEMMA FreshTables ==
    ASSUME Fresh, tenantOn = TRUE, ackedBy = 0
    PROVE  Rows /\ Named /\ Quotas
<1>1. Rows
  BY DEF Fresh, Rows
<1>2. Named
  BY DEF Fresh, Named
<1>3. Issued = {} /\ \A s \in Shares : SessionsOf(s) = {}
  BY DEF Fresh, Issued, SessionsOf
<1>4. 0 <= ShareQuota /\ 0 <= SessionQuota
  BY AccessAssumption, SMT
<1> QED
  BY <1>1, <1>2, <1>3, <1>4, FS_EmptySet DEF Quotas

LEMMA InitInv2 ==
    ASSUME Init PROVE Inv2
<1>1. /\ req = [q \in Requests |-> Idle] /\ attempts = [p \in Browsers |-> NoAttempt]
      /\ slots = 0 /\ clock = 0 /\ tenantOn = TRUE /\ ackedBy = 0
      /\ Fresh \/ InUse
  BY DEF Init
<1>2. Rows /\ Named /\ Quotas
  BY <1>1, FreshTables, InUseTables
<1>3. clock \in 0..MaxTime
  BY <1>1, AccessAssumption, SMT
<1>4. \A q \in Requests : req[q] = Idle
  BY <1>1
<1>5. Carried
  BY <1>4, IdleForm DEF Carried
<1>6. Slotted
  <2>1. Authenticating = {}
    BY <1>4, IdleForm DEF Authenticating
  <2>2. 0 <= Slots
    BY AccessAssumption, SMT
  <2> QED
    BY <1>1, <2>1, <2>2, FS_EmptySet DEF Slotted
<1>7. Memory
  <2>1. /\ NoAttempt \in Attempt /\ NoAttempt.count = 0 /\ 0 <= MaxAttempts /\ ~(0 > 0)
        /\ 0 <= MaxPeers
    BY AccessAssumption, SMT DEF NoAttempt, Attempt
  <2>2. \A p \in Browsers : attempts[p] = NoAttempt
    BY <1>1
  <2>3. attempts \in [Browsers -> Attempt]
    BY <1>1, <2>1
  <2>4. Tracked = {}
    BY <2>1, <2>2 DEF Tracked
  <2> QED
    BY <2>1, <2>2, <2>3, <2>4, FS_EmptySet DEF Memory
<1> QED
  BY <1>2, <1>3, <1>5, <1>6, <1>7, InitInv DEF Inv2

LEMMA StepInv2 ==
    ASSUME Inv2, [Next]_vars PROVE Inv2'
<1>1. Inv'
  BY StepInv DEF Inv2
<1>2. ASSUME NEW q \in Requests, Proceed(q) PROVE Inv2'
  BY <1>1, <1>2, SessionReads, ViewReads, BootReads, AccountReads, OperationReads, ManagerReads,
     ExchangeReads, SessionWrites, LoginWrites, UserSaves, AdminWrites, OperationWrites,
     ShareInserts, ShareRevoked, ShareExchanged DEF Proceed
<1>3. ASSUME NEW q \in Requests, Begin(q) \/ Reject(q) \/ Fail(q) \/ RotateFails(q) PROVE Inv2'
  BY <1>1, <1>3, RequestComes, Rejected, ViewReads, SessionWrites
<1>4. CASE DeleteUsers \/ SwitchTenant \/ Tick \/ UNCHANGED vars
  BY <1>1, <1>4, Surroundings
<1> QED
  BY <1>2, <1>3, <1>4 DEF Next

LEMMA SpecInv2 == Spec => []Inv2
<1>1. Init => Inv2
  BY InitInv2
<1>2. Inv2 /\ [Next]_vars => Inv2'
  BY StepInv2
<1> QED
  BY <1>1, <1>2, PTL DEF Spec

-----------------------------------------------------------------------------
(* What it gives                                                           *)

\* Every row is well formed and the guard's memory keeps its two limits, for
\* any number of peers, users, shares and requests (limitAuthWork, allow).
THEOREM TypesHold == Spec => []TypeOK
<1>1. ASSUME Inv2 PROVE TypeOK
  <2>1. /\ attempts \in [Browsers -> Attempt]
        /\ \A p \in Browsers : attempts[p].count <= MaxAttempts
        /\ Cardinality({p \in Browsers : attempts[p].count > 0}) <= MaxPeers
    BY <1>1 DEF Inv2, Memory, Tracked
  <2>2. clock \in 0..MaxTime /\ Rows
    BY <1>1 DEF Inv2
  <2> QED
    BY <2>1, <2>2 DEF Rows, TypeOK
<1> QED
  BY <1>1, SpecInv2, PTL

\* The guard's slots are the authentication requests in progress, never more
\* than it has: none is lost or given back twice (limitAuthWork).
THEOREM SlotsNeverLeak == Spec => []SlotsAreHeld
<1>1. Inv2 => SlotsAreHeld
  BY DEF Inv2, Slotted, Authenticating, SlotsAreHeld
<1> QED
  BY <1>1, SpecInv2, PTL

\* The space keeps to its quota of shares and every share to its quota of
\* sessions, however many count and insert at the same time (CreateShare under
\* the space's row, ExchangeShare under the share's row).
THEOREM QuotasKept == Spec => []QuotasHold
<1>1. Inv2 => QuotasHold
  BY DEF Inv2, Quotas, SessionsOf, QuotasHold
<1> QED
  BY <1>1, SpecInv2, PTL

NoneBefore == \A u \in Users : u \in passwords' \ passwords => passwords = {}

\* A password is added only while nobody has one: of the setups and the
\* starting servers that race, one creates the first administrator
\* (BootstrapAdmin, EnsureStartupAdmin behind one advisory lock).
THEOREM FirstAdminOnce == Spec => OneFirstAdmin
<1>1. ASSUME Inv2, [Next]_vars PROVE [NoneBefore]_vars
  <2>1. CASE passwords' \subseteq passwords
    BY <2>1 DEF NoneBefore
  <2>2. CASE ~(passwords' \subseteq passwords)
    <3>1. \E q \in Requests : BootCreate(q)
      <4>1. passwords' # passwords /\ passwords' # {}
        BY <2>2
      <4>2. ~(DeleteUsers \/ SwitchTenant \/ Tick \/ UNCHANGED vars)
        BY <4>1 DEF DeleteUsers, SwitchTenant, Tick, vars, accounts
      <4>3. ASSUME NEW q \in Requests, Begin(q) \/ Reject(q) \/ Fail(q) \/ RotateFails(q)
            PROVE  FALSE
        BY <4>1, <4>3 DEF Begin, Reject, Fail, RotateFails, accounts
      <4>4. PICK q \in Requests : Proceed(q)
        BY <1>1, <4>2, <4>3 DEF Next
      <4>5. /\ ~(requireSession(q) \/ ResolveSessionUser(q) \/ BootBegin(q) \/ BootCheck(q))
            /\ ~(Login(q) \/ createLoginSession(q) \/ SetCookie(q) \/ Logout(q))
            /\ ~(ListUsers(q) \/ UpdateUserRead(q) \/ UpdateUserSave(q) \/ LockActor(q))
            /\ ~(CreateMaintenance(q) \/ LockAlert(q) \/ AckAlert(q))
        BY <4>1 DEF requireSession, ResolveSessionUser, BootBegin, BootCheck, Login,
               createLoginSession, SetCookie, Logout, ListUsers, UpdateUserRead, UpdateUserSave,
               LockActor, CreateMaintenance, LockAlert, AckAlert, accounts
      <4>6. /\ ~(LockAdmin(q) \/ CountShares(q) \/ CreateShare(q) \/ ListShares(q))
            /\ ~(MarkRevoked(q) \/ RevokeShare(q) \/ LockShare(q) \/ CheckShare(q))
            /\ ~(ExchangeShare(q) \/ AuthenticateShareSession(q) \/ DemoPrincipal(q) \/ ReadHosts(q))
        BY <4>1 DEF LockAdmin, CountShares, CreateShare, ListShares, MarkRevoked, RevokeShare,
               LockShare, CheckShare, ExchangeShare, AuthenticateShareSession, DemoPrincipal,
               ReadHosts, accounts
      <4> QED
        BY <4>4, <4>5, <4>6 DEF Proceed
    <3>2. PICK q \in Requests : req[q].pc = "create_admin"
      BY <3>1 DEF BootCreate, At
    <3>3. passwords = {}
      BY <1>1, <3>2, AloneAtCreation
    <3> QED
      BY <3>3 DEF NoneBefore
  <2> QED
    BY <2>1, <2>2
<1>2. Spec => [][NoneBefore]_vars
  BY <1>1, SpecInv2, PTL DEF Spec
<1> QED
  BY <1>2 DEF OneFirstAdmin, NoneBefore

-----------------------------------------------------------------------------
(* Waiting                                                                 *)

LEMMA RowNames ==
    /\ \A u : UserLock(u)[1] = "user"
    /\ \A s : ShareLock(s)[1] = "share"
    /\ TenantLock[1] = "tenant" /\ AlertLock[1] = "alert" /\ UsersTable[1] = "users"
    /\ BootLock[1] = "bootstrap"
  BY DEF UserLock, ShareLock, TenantLock, AlertLock, UsersTable, BootLock

\* Which rows are held, and where.
LEMMA HeldRows ==
    ASSUME NEW r, Form(r), NEW l \in r.held
    PROVE  \/ r.pc \in {"available", "create_admin"} /\ l.row[1] \in {"bootstrap", "users"}
           \/ r.pc \in Operating \cup Managing /\ l.row[1] \in {"user", "tenant"}
           \/ r.pc = "ack_write" /\ l.row[1] = "alert"
           \/ r.pc \in Sharing /\ l.row[1] = "share"
<1>1. MayHold(r, l)
  BY DEF Form
<1>2. \A row : Shared(row).row = row /\ Exclusive(row).row = row
  BY Locks
<1>3. CASE r.pc \in {"available", "create_admin"} /\ l \in {Exclusive(BootLock), Exclusive(UsersTable)}
  <2>1. l.row = BootLock \/ l.row = UsersTable
    BY <1>2, <1>3
  <2> QED
    BY <1>3, <2>1, RowNames
<1>4. CASE r.pc \in Operating /\ l \in OperationLocks(r.user)
  <2>1. l.row = UserLock(r.user) \/ l.row = TenantLock
    BY <1>2, <1>4 DEF OperationLocks
  <2> QED
    BY <1>4, <2>1, RowNames
<1>5. CASE r.pc = "ack_write" /\ l = Exclusive(AlertLock)
  BY <1>2, <1>5, RowNames
<1>6. CASE r.pc \in Managing /\ l \in AdminLocks(r.user)
  <2>1. l.row = UserLock(r.user) \/ l.row = TenantLock
    BY <1>2, <1>6 DEF AdminLocks
  <2> QED
    BY <1>6, <2>1, RowNames
<1>7. CASE r.pc \in Sharing /\ l = Exclusive(ShareLock(r.target))
  <2>1. l.row = ShareLock(r.target)
    BY <1>2, <1>7
  <2> QED
    BY <1>7, <2>1, RowNames
<1> QED
  BY <1>1, <1>3, <1>4, <1>5, <1>6, <1>7 DEF MayHold

\* Which rows are waited for, and where.
LEMMA AskedRows ==
    ASSUME NEW q \in Requests, NEW l \in Wants(q)
    PROVE  \/ req[q].pc \in {"boot", "create_admin", "issue", "save", "actor", "admin"}
           \/ req[q].pc = "ack" /\ l.row[1] = "alert"
           \/ req[q].pc \in {"revoke", "exchange"} /\ l.row[1] = "share"
<1>1. \A row : Shared(row).row = row /\ Exclusive(row).row = row
  BY Locks
<1>2. \/ req[q].pc \in {"boot", "create_admin", "issue", "save", "actor", "admin"}
      \/ req[q].pc = "ack" /\ l \in {Exclusive(AlertLock)}
      \/ req[q].pc \in {"revoke", "exchange"} /\ l \in {Exclusive(ShareLock(req[q].target))}
  <2>1. SUFFICES ASSUME req[q].pc \notin {"boot", "create_admin", "issue", "save", "actor", "admin"}
                 PROVE  \/ req[q].pc = "ack" /\ l \in {Exclusive(AlertLock)}
                        \/ /\ req[q].pc \in {"revoke", "exchange"}
                           /\ l \in {Exclusive(ShareLock(req[q].target))}
    OBVIOUS
  <2>2. CASE req[q].pc = "ack"
    BY <2>1, <2>2 DEF Wants
  <2>3. CASE req[q].pc \in {"revoke", "exchange"} /\ req[q].target \in Issued
    BY <2>1, <2>3 DEF Wants
  <2>4. CASE req[q].pc # "ack" /\ ~(req[q].pc \in {"revoke", "exchange"} /\ req[q].target \in Issued)
    BY <2>1, <2>4 DEF Wants
  <2> QED
    BY <2>2, <2>3, <2>4
<1>3. /\ l \in {Exclusive(AlertLock)} => l.row = AlertLock
      /\ l \in {Exclusive(ShareLock(req[q].target))} => l.row = ShareLock(req[q].target)
  BY <1>1
<1> QED
  BY <1>2, <1>3, RowNames

\* Requests do not wait for each other in a circle.  Locks are taken in one
\* order: whoever waits for an alert or a share waits for a request that waits
\* for nothing; whoever waits for a user, the space or the users table waits
\* for one of those, or for the creation of the first administrator, which has
\* only one of those before it (operationTenant, tenantForAdmin, BootstrapAdmin).
THEOREM NobodyWaitsInACircle == Spec => []NoCircularWait
<1>1. ASSUME Inv2, NEW a \in Busy, \A q \in Busy : Waits(q) PROVE FALSE
  <2>1. \A q \in Requests : Form(req[q])
    BY <1>1 DEF Inv2, Carried
  <2>2. ASSUME NEW q \in Busy
        PROVE  \E l \in Wants(q), p \in Requests \ {q} : \E m \in req[p].held : m.row = l.row
    BY <1>1 DEF Waits, Free
  <2>3. ASSUME NEW p \in Requests, NEW m \in req[p].held PROVE p \in Busy
    <3>1. "idle" \notin {"available", "create_admin", "ack_write"} \cup Operating \cup Managing \cup Sharing
      BY DEF Operating, Managing, Sharing
    <3> QED
      BY <2>1, <3>1, HeldRows DEF Busy, At
  <2>4. ASSUME NEW q \in Busy
        PROVE  req[q].pc \in {"boot", "create_admin", "issue", "save", "actor", "admin", "ack",
                              "revoke", "exchange"}
    BY <2>2, AskedRows DEF Busy
  <2>5. ASSUME NEW p \in Requests, NEW m \in req[p].held
        PROVE  \/ req[p].pc = "create_admin" /\ m.row[1] \in {"bootstrap", "users"}
               \/ req[p].pc \in {"ack", "revoke"} /\ m.row[1] \in {"user", "tenant"}
    <3>1. req[p].pc \in {"boot", "create_admin", "issue", "save", "actor", "admin", "ack",
                         "revoke", "exchange"}
      BY <2>3, <2>4
    <3>2. /\ req[p].pc \notin Sharing /\ req[p].pc # "ack_write" /\ req[p].pc # "available"
          /\ req[p].pc \in Operating \cup Managing => req[p].pc \in {"ack", "revoke"}
      BY <3>1 DEF Operating, Managing, Sharing
    <3> QED
      BY <2>1, <3>2, HeldRows
  <2>6. ASSUME NEW q \in Busy
        PROVE  req[q].pc \in {"boot", "create_admin", "issue", "save", "actor", "admin"}
    <3>1. PICK l \in Wants(q), p \in Requests \ {q} : \E m \in req[p].held : m.row = l.row
      BY <2>2
    <3>2. l.row[1] # "alert" /\ l.row[1] # "share"
      BY <2>5, <3>1
    <3> QED
      BY <3>1, <3>2, AskedRows DEF Busy
  <2>7. ASSUME NEW p \in Requests, NEW m \in req[p].held PROVE req[p].pc = "create_admin"
    BY <2>3, <2>5, <2>6
  <2>8. PICK p \in Requests : req[p].pc = "create_admin"
    BY <1>1, <2>2, <2>7
  <2>9. \A x \in Requests \ {p} : req[x].held = {}
    BY <1>1, <2>7, <2>8, AloneAtCreation
  <2>10. p \in Busy
    BY <2>8 DEF Busy, At
  <2> QED
    BY <2>2, <2>9, <2>10
<1>2. Inv2 => NoCircularWait
  BY <1>1 DEF NoCircularWait
<1> QED
  BY <1>2, SpecInv2, PTL

-----------------------------------------------------------------------------
(* What a request needs to go on                                           *)

\* Where a request may be: before one of the statements of its handler.
Statements ==
    {"boot", "available", "create_admin", "issue", "cookie", "login", "delete", "read", "save",
     "users", "session", "user", "actor", "maintenance", "ack", "ack_write", "admin", "create",
     "insert", "list", "revoke", "purge", "exchange", "valid", "grant", "view", "demo", "hosts"}

Placed == \A q \in Requests : req[q].pc \in Statements \cup {"idle"}

\* q goes on to pc.
To(q, pc) == \E r : r.pc = pc /\ Go(q, r)

\* What q needs for its next statement: the locks it asks for, and an id for a share.
Ready(q) ==
    /\ req[q].pc \in Statements
    /\ \A l \in Wants(q) : Free(q, l)
    /\ req[q].pc = "insert" => \E s \in Shares \ Issued : \A t \in Shares \ Issued : s <= t

OneIsReady == Busy # {} => \E q \in Busy : Ready(q)

LEMMA TurnsTo ==
    ASSUME NEW q, DOMAIN req[q] = Fields, NEW pc
    PROVE  /\ Go(q, [req[q] EXCEPT !.pc = pc]) => To(q, pc)
           /\ \A x : Go(q, [req[q] EXCEPT !.pc = pc, !.user = x]) => To(q, pc)
           /\ \A x : Go(q, [req[q] EXCEPT !.pc = pc, !.held = x]) => To(q, pc)
           /\ \A x : Go(q, [req[q] EXCEPT !.pc = pc, !.row = x]) => To(q, pc)
           /\ \A x : Go(q, [req[q] EXCEPT !.pc = pc, !.target = x]) => To(q, pc)
           /\ \A x, y : Go(q, [req[q] EXCEPT !.pc = pc, !.user = x, !.held = y]) => To(q, pc)
<1>1. \A r : r.pc = pc /\ Go(q, r) => To(q, pc)
  BY DEF To
<1>2. ASSUME NEW x, NEW y
      PROVE  /\ Go(q, [req[q] EXCEPT !.pc = pc]) => To(q, pc)
             /\ Go(q, [req[q] EXCEPT !.pc = pc, !.user = x]) => To(q, pc)
             /\ Go(q, [req[q] EXCEPT !.pc = pc, !.held = x]) => To(q, pc)
             /\ Go(q, [req[q] EXCEPT !.pc = pc, !.row = x]) => To(q, pc)
             /\ Go(q, [req[q] EXCEPT !.pc = pc, !.target = x]) => To(q, pc)
             /\ Go(q, [req[q] EXCEPT !.pc = pc, !.user = x, !.held = y]) => To(q, pc)
  <2>1. /\ [req[q] EXCEPT !.pc = pc].pc = pc
        /\ [req[q] EXCEPT !.pc = pc, !.user = x].pc = pc
        /\ [req[q] EXCEPT !.pc = pc, !.held = x].pc = pc
        /\ [req[q] EXCEPT !.pc = pc, !.row = x].pc = pc
        /\ [req[q] EXCEPT !.pc = pc, !.target = x].pc = pc
        /\ [req[q] EXCEPT !.pc = pc, !.user = x, !.held = y].pc = pc
    BY DEF Fields
  <2> QED
    BY <1>1, <2>1
<1> QED
  BY <1>2

LEMMA Replacing ==
    ASSUME Inv, Placed, NEW q \in Requests, NEW r, req' = [req EXCEPT ![q] = r],
           r.pc \in Statements \cup {"idle"}
    PROVE  Placed'
<1>1. req'[q] = r /\ \A p \in Requests \ {q} : req'[p] = req[p]
  BY Replaced
<1> QED
  BY <1>1 DEF Placed

LEMMA FinishPlaced ==
    ASSUME Inv, Placed, NEW q \in Requests, Finish(q)
    PROVE  Placed'
  BY Replacing, IdleRequest DEF Finish

LEMMA ToPlaced ==
    ASSUME Inv, Placed, NEW q \in Requests, NEW pc \in Statements, To(q, pc)
    PROVE  Placed'
<1>1. PICK r : r.pc = pc /\ req' = [req EXCEPT ![q] = r]
  BY DEF To, Go
<1> QED
  BY <1>1, Replacing

\* Where each step leads.
LEMMA Leads ==
    ASSUME Inv, NEW q \in Requests, Proceed(q)
    PROVE  Finish(q) \/ \E pc \in Statements : To(q, pc)
<1>1. DOMAIN req[q] = Fields /\ Prepared(req[q])
  BY DEF Inv, Requested, Prepared
<1>2. /\ requireSession(q) => Finish(q) \/ To(q, "user")
      /\ BootBegin(q) => Finish(q) \/ To(q, "available")
      /\ BootCheck(q) => Finish(q) \/ To(q, "create_admin")
  BY <1>1, TurnsTo DEF requireSession, BootBegin, BootCheck
<1>3. ResolveSessionUser(q) => Finish(q) \/ \E pc \in Statements : To(q, pc)
  <2>1. SUFFICES ASSUME ResolveSessionUser(q), ~Finish(q) PROVE \E pc \in Statements : To(q, pc)
    OBVIOUS
  <2>2. req[q].pc = "user" /\ To(q, Entry[req[q].kind])
    BY <1>1, <2>1, TurnsTo DEF ResolveSessionUser, At
  <2>3. req[q].kind \in DOMAIN Entry
    BY <1>1, <2>2 DEF Prepared
  <2>4. Entry[req[q].kind] \in Statements
    BY <2>3, Routes DEF Statements
  <2> QED
    BY <2>2, <2>4
<1>4. /\ BootCreate(q) => Finish(q) \/ To(q, "issue")
      /\ Login(q) => Finish(q) \/ To(q, "issue")
      /\ createLoginSession(q) => Finish(q) \/ To(q, "cookie")
      /\ UpdateUserRead(q) => Finish(q) \/ To(q, "save")
  BY <1>1, TurnsTo DEF BootCreate, Login, createLoginSession, UpdateUserRead
<1>5. SetCookie(q) \/ Logout(q) \/ ListUsers(q) \/ UpdateUserSave(q) => Finish(q)
  BY DEF SetCookie, Logout, ListUsers, UpdateUserSave
<1>6. LockActor(q) \/ LockAdmin(q) => Finish(q) \/ \E pc \in Statements : To(q, pc)
  <2>1. SUFFICES ASSUME LockActor(q) \/ LockAdmin(q), ~Finish(q) PROVE \E pc \in Statements : To(q, pc)
    OBVIOUS
  <2>2. req[q].pc \in {"actor", "admin"} /\ To(q, req[q].kind)
    BY <1>1, <2>1, TurnsTo DEF LockActor, LockAdmin, At
  <2>3. req[q].kind \in {"maintenance", "ack", "list", "create", "revoke"}
    BY <1>1, <2>2 DEF Prepared
  <2>4. req[q].kind \in Statements
    BY <2>3 DEF Statements
  <2> QED
    BY <2>2, <2>4
<1>7. /\ LockAlert(q) => Finish(q) \/ To(q, "ack_write")
      /\ CountShares(q) => Finish(q) \/ To(q, "insert")
      /\ MarkRevoked(q) => Finish(q) \/ To(q, "purge")
      /\ LockShare(q) => Finish(q) \/ To(q, "valid")
      /\ CheckShare(q) => Finish(q) \/ To(q, "grant")
      /\ AuthenticateShareSession(q) \/ DemoPrincipal(q) => Finish(q) \/ To(q, "hosts")
  BY <1>1, TurnsTo DEF LockAlert, CountShares, MarkRevoked, LockShare, CheckShare,
     AuthenticateShareSession, DemoPrincipal
<1>8. CreateMaintenance(q) \/ AckAlert(q) \/ CreateShare(q) \/ ListShares(q) \/ RevokeShare(q)
      \/ ExchangeShare(q) \/ ReadHosts(q) => Finish(q)
  BY DEF CreateMaintenance, AckAlert, CreateShare, ListShares, RevokeShare, ExchangeShare, ReadHosts
<1>9. {"user", "available", "create_admin", "issue", "cookie", "save", "ack_write", "insert",
       "purge", "valid", "grant", "hosts"} \subseteq Statements
  BY DEF Statements
<1> QED
  BY <1>2, <1>3, <1>4, <1>5, <1>6, <1>7, <1>8, <1>9 DEF Proceed

LEMMA StepPlaced == ASSUME Inv, Placed, [Next]_vars PROVE Placed'
<1>1. ASSUME NEW q \in Requests, Proceed(q) PROVE Placed'
  BY <1>1, Leads, FinishPlaced, ToPlaced
<1>2. ASSUME NEW q \in Requests, Begin(q) PROVE Placed'
  <2>1. PICK k \in Kinds : \E b \in Browsers, i \in Inputs(k) :
           LET r == [Arrival(k, b, i[1], i[2]) EXCEPT !.pc = Door(k)] IN
           IF k \in Guarded THEN limitAuthWork(q, r) ELSE Go(q, r) /\ UNCHANGED attempts
    BY <1>2 DEF Begin
  <2>2. PICK b \in Browsers, i \in Inputs(k) :
           LET r == [Arrival(k, b, i[1], i[2]) EXCEPT !.pc = Door(k)] IN
           IF k \in Guarded THEN limitAuthWork(q, r) ELSE Go(q, r) /\ UNCHANGED attempts
    BY <2>1
  <2> DEFINE a == Arrival(k, b, i[1], i[2])
             r == [a EXCEPT !.pc = Door(k)]
  <2>3. DOMAIN a = Fields
    BY DEF Arrival, Idle, Fields
  <2>4. IF k \in Guarded THEN limitAuthWork(q, r) ELSE Go(q, r) /\ UNCHANGED attempts
    BY <2>2
  <2> HIDE DEF a
  <2>5. r.pc = Door(k)
    BY <2>3 DEF Fields
  <2> HIDE DEF r
  <2>6. r.pc \in Statements \cup {"idle"}
    BY <2>5, Doors DEF Statements
  <2>7. UNCHANGED req \/ req' = [req EXCEPT ![q] = r]
    BY <2>4 DEF limitAuthWork, Go
  <2>8. CASE UNCHANGED req
    BY <2>8 DEF Placed
  <2> QED
    BY <2>6, <2>7, <2>8, Replacing
<1>3. ASSUME NEW q \in Requests, Reject(q) \/ Fail(q) \/ RotateFails(q) PROVE Placed'
  <2>1. Finish(q) \/ UNCHANGED req
    BY <1>3 DEF Reject, Fail, RotateFails
  <2>2. CASE UNCHANGED req
    BY <2>2 DEF Placed
  <2> QED
    BY <2>1, <2>2, FinishPlaced
<1>4. CASE DeleteUsers \/ SwitchTenant \/ Tick \/ UNCHANGED vars
  <2>1. UNCHANGED req
    BY <1>4 DEF DeleteUsers, SwitchTenant, Tick, vars
  <2> QED
    BY <2>1 DEF Placed
<1> QED
  BY <1>1, <1>2, <1>3, <1>4 DEF Next

LEMMA SpecPlaced == Spec => []Placed
<1>1. Init => Placed
  <2>1. SUFFICES ASSUME Init, NEW q \in Requests PROVE req[q].pc = "idle"
    BY DEF Placed
  <2>2. req = [p \in Requests |-> Idle]
    BY <2>1 DEF Init
  <2>3. req[q] = Idle
    BY <2>2
  <2> QED
    BY <2>3, IdleRequest
<1>2. Inv2 /\ Placed /\ [Next]_vars => Placed'
  BY StepPlaced DEF Inv2
<1> QED
  BY <1>1, <1>2, SpecInv2, PTL DEF Spec
\* The statements that ask for no lock.
Lockless ==
    {"available", "cookie", "login", "delete", "read", "users", "session", "user", "maintenance",
     "ack_write", "create", "insert", "list", "purge", "valid", "grant", "view", "demo", "hosts"}

LEMMA WantedAt ==
    ASSUME NEW q \in Requests
    PROVE  /\ req[q].pc = "boot" =>
                Wants(q) = {Exclusive(BootLock)}
                           \cup (IF req[q].kind = "startup" THEN {Exclusive(UsersTable)} ELSE {})
           /\ req[q].pc = "create_admin" => Wants(q) = {Shared(TenantLock), Shared(UsersTable)}
           /\ req[q].pc = "issue" => Wants(q) = {Exclusive(UserLock(req[q].user)), Shared(UsersTable)}
           /\ req[q].pc = "save" => Wants(q) = {Exclusive(UserLock(req[q].target)), Shared(UsersTable)}
           /\ req[q].pc = "actor" => Wants(q) = OperationLocks(req[q].user)
           /\ req[q].pc = "ack" => Wants(q) = {Exclusive(AlertLock)}
           /\ req[q].pc = "admin" => Wants(q) = AdminLocks(req[q].user)
           /\ req[q].pc \in {"revoke", "exchange"} =>
                Wants(q) = IF req[q].target \in Issued THEN {Exclusive(ShareLock(req[q].target))} ELSE {}
           /\ req[q].pc \in Lockless => Wants(q) = {}
<1>1. CASE req[q].pc \in {"boot", "create_admin", "issue", "save"}
  BY <1>1 DEF Wants, Lockless
<1>2. CASE req[q].pc \in {"actor", "ack", "admin"}
  BY <1>2 DEF Wants, Lockless
<1>3. CASE req[q].pc \in {"revoke", "exchange"}
  BY <1>3 DEF Wants, Lockless
<1>4. CASE req[q].pc \in Lockless
  BY <1>4 DEF Wants, Lockless
<1> QED
  BY <1>1, <1>2, <1>3, <1>4

\* The quota that was counted leaves an id, and so a least one.
LEMMA ShareLeft ==
    ASSUME Inv2, NEW q \in Requests, req[q].pc = "insert"
    PROVE  \E s \in Shares \ Issued : \A t \in Shares \ Issued : s <= t
<1> DEFINE U == Shares \ Issued
           L == OpToRel(<, Nat)
<1>1. IsFiniteSet(Issued) /\ Cardinality(Issued) < ShareQuota /\ Cardinality(Issued) \in Nat
  BY FS_CardinalityType DEF Inv2, Quotas, Carried, Found
<1>2. ShareQuota \in Nat /\ 1..ShareQuota \subseteq Shares /\ Shares \subseteq Nat
  BY AccessAssumption
<1>3. U # {}
  <2>1. SUFFICES ASSUME U = {} PROVE FALSE
    OBVIOUS
  <2>2. 1..ShareQuota \in SUBSET Issued
    BY <1>2, <2>1
  <2>3. Cardinality(1..ShareQuota) <= Cardinality(Issued)
    BY <1>1, <2>2, FS_Subset
  <2>4. Cardinality(1..ShareQuota) = IF 1 > ShareQuota THEN 0 ELSE ShareQuota - 1 + 1
    <3>1. 1 \in Int /\ ShareQuota \in Int
      BY <1>2, SMT
    <3> QED
      BY <3>1, FS_Interval
  <2> QED
    BY <1>1, <1>2, <2>3, <2>4, SMT
<1>4. IsWellFoundedOn(L, Nat)
  BY NatLessThanWellFounded
<1>5. U \subseteq Nat
  BY <1>2
<1>6. PICK s \in U : \A t \in U : ~(<<t, s>> \in L)
  <2> HIDE DEF U, L
  <2> QED
    BY <1>3, <1>4, <1>5, WFMin
<1>7. \A t \in U : ~(t < s)
  BY <1>5, <1>6 DEF OpToRel
<1>8. \A m, n \in Nat : ~(n < m) => m <= n
  BY SMT
<1> QED
  BY <1>5, <1>6, <1>7, <1>8

LEMMA FreeIsReady ==
    ASSUME Inv2, Placed, NEW q \in Busy, ~Waits(q)
    PROVE  Ready(q)
<1>1. q \in Requests /\ req[q].pc \in Statements
  BY DEF Busy, Placed, At
<1> QED
  BY <1>1, ShareLeft DEF Ready, Waits

\* As long as a request is in progress, one has all that its next statement needs: it waits
\* for no lock, and CreateShare finds an id for the share it has counted room for.  Ready
\* is what has to hold for Proceed to be possible, written out.
THEOREM SomeRequestIsReady == Spec => []OneIsReady
<1>1. Inv2 /\ Placed /\ NoCircularWait => OneIsReady
  BY FreeIsReady DEF NoCircularWait, OneIsReady
<1> QED
  BY <1>1, SpecInv2, SpecPlaced, NobodyWaitsInACircle, PTL

LEMMA Asking ==
    ASSUME NEW q \in Requests, Proceed(q)
    PROVE  \/ req[q].pc \in Lockless
           \/ /\ req[q].pc \in {"boot", "create_admin", "issue", "save", "actor", "ack", "admin",
                                "revoke", "exchange"}
              /\ \A l \in Wants(q) : Free(q, l)
<1>1. CASE BootBegin(q) \/ BootCreate(q) \/ createLoginSession(q) \/ UpdateUserSave(q)
  <2>1. CASE BootBegin(q)
    BY <2>1, WantedAt DEF BootBegin, At
  <2>2. CASE BootCreate(q)
    BY <2>2, WantedAt DEF BootCreate, At
  <2>3. CASE createLoginSession(q)
    BY <2>3, WantedAt DEF createLoginSession, At
  <2>4. CASE UpdateUserSave(q)
    BY <2>4, WantedAt DEF UpdateUserSave, At
  <2> QED
    BY <1>1, <2>1, <2>2, <2>3, <2>4
<1>2. CASE LockActor(q) \/ LockAlert(q) \/ LockAdmin(q)
  BY <1>2, WantedAt DEF LockActor, LockAlert, LockAdmin, At
<1>3. CASE MarkRevoked(q) \/ LockShare(q)
  BY <1>3, WantedAt DEF MarkRevoked, LockShare, At
<1>4. CASE \/ requireSession(q) \/ ResolveSessionUser(q) \/ BootCheck(q) \/ Login(q) \/ SetCookie(q)
           \/ Logout(q) \/ ListUsers(q) \/ UpdateUserRead(q) \/ CreateMaintenance(q) \/ AckAlert(q)
  BY <1>4 DEF requireSession, ResolveSessionUser, BootCheck, Login, SetCookie, Logout, ListUsers,
     UpdateUserRead, CreateMaintenance, AckAlert, At, Lockless
<1>5. CASE \/ CountShares(q) \/ CreateShare(q) \/ ListShares(q) \/ RevokeShare(q) \/ CheckShare(q)
           \/ ExchangeShare(q) \/ AuthenticateShareSession(q) \/ DemoPrincipal(q) \/ ReadHosts(q)
  BY <1>5 DEF CountShares, CreateShare, ListShares, RevokeShare, CheckShare, ExchangeShare,
     AuthenticateShareSession, DemoPrincipal, ReadHosts, At, Lockless
<1> QED
  BY <1>1, <1>2, <1>3, <1>4, <1>5 DEF Proceed

OnlyReady == \A q \in Requests : Proceed(q) => q \in Busy /\ ~Waits(q) /\ Ready(q)

\* No statement is made without its locks: a request that goes on is in progress and
\* waits for nothing.  It is the half of SomeRequestProceeds from left to right.
THEOREM OnlyReadyProceed == Spec => [][OnlyReady]_vars
<1>1. ASSUME Inv2, NEW q \in Requests, Proceed(q) PROVE q \in Busy /\ ~Waits(q) /\ Ready(q)
  <2>1. /\ req[q].pc \in Statements /\ req[q].pc # "idle"
    BY <1>1, Asking DEF Lockless, Statements
  <2>2. \A l \in Wants(q) : Free(q, l)
    BY <1>1, Asking, WantedAt
  <2> QED
    BY <1>1, <2>1, <2>2, ShareLeft DEF Busy, At, Waits, Ready
<1>2. Inv2 => OnlyReady
  BY <1>1 DEF OnlyReady
<1> QED
  BY <1>2, SpecInv2, PTL DEF Spec
=============================================================================
