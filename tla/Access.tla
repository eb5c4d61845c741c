------------------------------- MODULE Access -------------------------------
(***************************************************************************)
(* The master's write API: accounts, operations and shares over the same   *)
(* tables, with requests that run at the same time, changes the operator   *)
(* makes in SQL, and time.                                                 *)
(***************************************************************************)
EXTENDS Accounts, Operations, Shares

\* What each service method asks of the principal.
Admits(p, k) ==
    CASE k = "update" -> svcUpdateUser(p)
      [] k = "maintenance" -> svcCreateMaintenance(p)
      [] k = "ack" -> svcAckAlert(p)
      [] k = "create" -> svcCreateShare(p)
      [] k = "list" -> svcListShares(p)
      [] k = "revoke" -> svcRevokeShare(p)
      [] OTHER -> TRUE

\* The second statement of the session middleware, then the route's checks.
ResolveSessionUser(q) ==
    LET u == req[q].user
        p == [user |-> u, role |-> users[u].role]
        k == req[q].kind IN
    /\ At(q, "user")
    /\ IF users[u].status = "active" /\ tenantOn /\ requireAdmin(p, k) /\ Admits(p, k)
       THEN Go(q, [req[q] EXCEPT !.pc = Entry[k]])
       ELSE Finish(q)
    /\ UNCHANGED <<accounts, logins, work, sharing, ambient>>

\* Where a request of each kind starts.
Door(k) ==
    CASE k \in {"setup", "startup"} -> "boot"
      [] k \in {"login", "exchange", "view", "demo"} -> k
      [] OTHER -> "session"

\* What a handler takes from its request: a user, a share, a change.  One that
\* names nothing that exists, or cannot be decoded, is Fail.
handleLogin == Accounts \X {"none"}
handleUpdateUser == Accounts \X Patches
handleShare == Issued \X {"none"}
Inputs(k) ==
    CASE k = "login" -> handleLogin
      [] k = "update" -> handleUpdateUser
      [] k \in {"revoke", "exchange"} -> handleShare
      [] OTHER -> {<<0, "none">>}

\* Handler: a request comes in.
Begin(q) ==
    /\ At(q, "idle") /\ left > 0
    /\ left' = left - 1
    /\ \E k \in Kinds : \E b \in Browsers, i \in Inputs(k) :
        LET r == [Arrival(k, b, i[1], i[2]) EXCEPT !.pc = Door(k)] IN
        IF k \in Guarded THEN limitAuthWork(q, r) ELSE Go(q, r) /\ UNCHANGED attempts
    /\ UNCHANGED <<accounts, logins, work, sharing, clock, tenantOn, edits>>

\* requireAllowedOrigin, requireCSRF: nothing is done for a request that fails
\* them; one that needs a session is looked up first.
Reject(q) ==
    /\ \/ At(q, "idle") /\ UNCHANGED <<req, slots>>
       \/ At(q, "user") /\ Finish(q)
    /\ UNCHANGED <<accounts, logins, work, sharing, ambient>>

\* The operator deletes every user; shares keep their creators from it.
DeleteUsers ==
    /\ edits > 0 /\ edits' = edits - 1
    /\ Issued = {}
    /\ \A l \in UNION {req[p].held : p \in Requests} : l.row[1] \notin {"user", "users"}
    /\ users' = [u \in Users |-> NoUser]
    /\ passwords' = {}
    /\ sessions' = [t \in Tokens |-> NoSession]
    /\ UNCHANGED <<marker, lastUser, lastToken, cookie, work, sharing, req, slots, clock,
                   tenantOn, attempts, left>>

\* The operator switches the space off or on.
SwitchTenant ==
    /\ edits > 0 /\ edits' = edits - 1
    /\ \A l \in UNION {req[p].held : p \in Requests} : l.row # TenantLock
    /\ tenantOn' = ~tenantOn
    /\ UNCHANGED <<accounts, logins, work, sharing, req, slots, clock, attempts, left>>

Tick ==
    /\ clock < MaxTime
    /\ clock' = clock + 1
    /\ UNCHANGED <<accounts, logins, work, sharing, req, slots, tenantOn, attempts, left, edits>>

\* What a request in progress does next, unless it fails.
Proceed(q) ==
    \/ requireSession(q) \/ ResolveSessionUser(q)
    \/ BootBegin(q) \/ BootCheck(q) \/ BootCreate(q)
    \/ Login(q) \/ createLoginSession(q) \/ SetCookie(q) \/ Logout(q)
    \/ ListUsers(q) \/ UpdateUserRead(q) \/ UpdateUserSave(q)
    \/ LockActor(q) \/ CreateMaintenance(q) \/ LockAlert(q) \/ AckAlert(q)
    \/ LockAdmin(q) \/ CountShares(q) \/ CreateShare(q) \/ ListShares(q)
    \/ MarkRevoked(q) \/ RevokeShare(q)
    \/ LockShare(q) \/ CheckShare(q) \/ ExchangeShare(q)
    \/ AuthenticateShareSession(q) \/ DemoPrincipal(q) \/ ReadHosts(q)

Next ==
    \/ \E q \in Requests : Begin(q) \/ Reject(q) \/ Proceed(q) \/ Fail(q) \/ RotateFails(q)
    \/ DeleteUsers \/ SwitchTenant \/ Tick

-----------------------------------------------------------------------------
\* A new installation: the schema and nothing else.
Fresh ==
    /\ users = [u \in Users |-> NoUser] /\ passwords = {} /\ marker = FALSE /\ lastUser = 0
    /\ sessions = [t \in Tokens |-> NoSession] /\ lastToken = 0
    /\ cookie = [b \in Browsers |-> 0]
    /\ shares = [s \in Shares |-> NoShare]
    /\ shareSessions = {} /\ shareCookie = cookie

\* One in use: an administrator and a second user are logged in; the
\* administrator has shared up to the quota, and the second browser has opened
\* the first share.  The accounts were made in SQL, which leaves no marker.
InUse ==
    \E second \in UserRow, n \in 0..ShareQuota :
        /\ users = [u \in Users |-> CASE u = 1 -> [role |-> "admin", status |-> "active"]
                                      [] u = 2 -> second
                                      [] OTHER -> NoUser]
        /\ passwords = {1, 2} /\ marker = FALSE /\ lastUser = 2
        /\ sessions = [t \in Tokens |-> IF t <= 2 THEN [user |-> t, expires |-> SessionTTL] ELSE NoSession]
        /\ lastToken = 3
        /\ cookie = [b \in Browsers |-> IF b \in {1, 2} THEN b ELSE 0]
        /\ shares = [s \in Shares |->
                       IF s <= n THEN [creator |-> 1, expires |-> ShareTTL, revoked |-> FALSE] ELSE NoShare]
        /\ shareSessions = IF n = 0 THEN {} ELSE {[token |-> 3, share |-> 1, expires |-> ShareTTL]}
        /\ shareCookie = [b \in Browsers |-> IF b = 2 /\ n > 0 THEN 3 ELSE 0]

Init ==
    /\ clock = 0 /\ tenantOn = TRUE
    /\ Fresh \/ InUse
    /\ ackedBy = 0 /\ audit = <<>>
    /\ req = [q \in Requests |-> Idle]
    /\ attempts = [p \in Browsers |-> NoAttempt] /\ slots = 0
    /\ left = MaxRequests /\ edits = MaxEdits

Spec == Init /\ [][Next]_vars

-----------------------------------------------------------------------------
\* Every row is well formed, a session belongs to a user that exists (or was
\* being deleted), and the guard's table respects its two limits.
TypeOK ==
    /\ clock \in 0..MaxTime /\ tenantOn \in BOOLEAN /\ marker \in BOOLEAN
    /\ users \in [Users -> UserRow \cup {NoUser}] /\ passwords \subseteq Users
    /\ lastUser \in Users \cup {0} /\ lastToken \in Tokens \cup {0}
    /\ sessions \in [Tokens -> SessionRow \cup {NoSession}]
    /\ cookie \in [Browsers -> Tokens \cup {0}] /\ shareCookie \in [Browsers -> Tokens \cup {0}]
    /\ ackedBy \in Users \cup {0}
    /\ shares \in [Shares -> ShareRow \cup {NoShare}]
    /\ shareSessions \subseteq [token : Tokens, share : Shares, expires : Nat]
    /\ attempts \in [Browsers -> Attempt]
    /\ \A p \in Browsers : attempts[p].count <= MaxAttempts
    /\ Cardinality({p \in Browsers : attempts[p].count > 0}) <= MaxPeers

\* The guard's slots are exactly the authentication requests in progress, so
\* none is lost however a request ends, and there are never more than Slots
\* (limitAuthWork, whose deferred receive is the only way out).
SlotsAreHeld ==
    /\ slots = Cardinality({q \in Requests : req[q].kind \in Guarded})
    /\ slots <= Slots

\* The first administrator is created once: setups and starting servers that
\* race, with an operator deleting users meanwhile, add an account only while
\* no account can log in (BootstrapAdmin, EnsureStartupAdmin).
OneFirstAdmin ==
    [][\A u \in Users : u \in passwords' \ passwords => passwords = {}]_vars

\* Permission is held at the moment of the write, not only when the session
\* was read: whoever an audit entry names is active at that moment, in a space
\* that is on, and an administrator unless the alert is acknowledged; a role
\* or status change cannot overtake the check (operationTenant, tenantForAdmin).
ActorsAreEntitled ==
    [][\A i \in DOMAIN audit' \ DOMAIN audit :
        /\ tenantOn /\ users[audit'[i].actor].status = "active"
        /\ audit'[i].action # "ack" => users[audit'[i].actor].role = "admin"]_vars

\* An alert keeps the one who acknowledged it first, and exactly one entry says
\* so, however many acknowledge it at the same time (AckAlert).
AckedOnce ==
    LET acks == {i \in DOMAIN audit : audit[i].action = "ack"} IN
    /\ Cardinality(acks) = IF ackedBy = 0 THEN 0 ELSE 1
    /\ \A i \in acks : audit[i].actor = ackedBy

\* A revoked share has no session left, and never gets one: revocation and
\* exchange cannot overtake each other (ExchangeShare, RevokeShare).
RevokedMeansNoSessions ==
    \A s \in shareSessions : ~shares[s.share].revoked

\* Counting and inserting are not interleaved with another insert: a space
\* keeps to its quota of shares, a share to its quota of sessions.
QuotasHold ==
    /\ Cardinality(Issued) <= ShareQuota
    /\ \A s \in Shares : Cardinality({x \in shareSessions : x.share = s}) <= SessionQuota

\* The locks that the next statement of a request asks for, and a request that has
\* to wait for one of them.
Wants(q) ==
    LET r == req[q] IN
    CASE r.pc = "boot" -> {Exclusive(BootLock)}
                          \cup (IF r.kind = "startup" THEN {Exclusive(UsersTable)} ELSE {})
      [] r.pc = "create_admin" -> {Shared(TenantLock), Shared(UsersTable)}
      [] r.pc = "issue" -> {Exclusive(UserLock(r.user)), Shared(UsersTable)}
      [] r.pc = "save" -> {Exclusive(UserLock(r.target)), Shared(UsersTable)}
      [] r.pc = "actor" -> OperationLocks(r.user)
      [] r.pc = "ack" -> {Exclusive(AlertLock)}
      [] r.pc = "admin" -> AdminLocks(r.user)
      [] r.pc \in {"revoke", "exchange"} /\ r.target \in Issued -> {Exclusive(ShareLock(r.target))}
      [] OTHER -> {}

Waits(q) == \E l \in Wants(q) : ~Free(q, l)

Busy == {q \in Requests : ~At(q, "idle")}

NoCircularWait == Busy # {} => \E q \in Busy : ~Waits(q)

\* Requests never all wait: as long as one is in progress one can take its
\* next step, so no two transactions wait for each other and no lock outlives
\* the request that took it.  A request that does not wait for a lock can go on.
SomeRequestProceeds ==
    /\ \A q \in Requests : ENABLED Proceed(q) <=> q \in Busy /\ ~Waits(q)
    /\ NoCircularWait
=============================================================================
