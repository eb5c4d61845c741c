---------------------------- MODULE AccessTables ----------------------------
(***************************************************************************)
(* The rows, row locks and requests that accounts, operations and shares   *)
(* have in common: the master's tables in PostgreSQL, the guard in front of*)
(* the endpoints that check credentials, and the session middleware.       *)
(*                                                                         *)
(* One space (tenant) is modelled.  A request is a record in req: where it *)
(* is (pc), what it carries, and the row locks its transaction holds.  The *)
(* writes of a transaction become visible when it commits, so they happen  *)
(* in its last step; every step before it is one statement.                *)
(***************************************************************************)
EXTENDS Integers, FiniteSets, Sequences

CONSTANTS
    Requests,       \* requests that may be in progress at the same time
    Browsers,       \* cookie jars, 1..n
    PeerOf,         \* the TCP peer each browser is seen as
    Users,          \* user ids, 1..n
    Tokens,         \* session tokens, 1..n
    Shares,         \* share ids, 1..n
    Kinds,          \* the requests that may come
    Patches,        \* the changes of a user that may be asked for
    Slots,          \* authentication requests at a time (4)
    MaxAttempts,    \* authentication attempts per peer and window (20)
    MaxPeers,       \* peers the guard remembers (1024)
    Window,         \* length of the guard's window (a minute)
    SessionTTL,     \* lifetime of a login
    ShareTTL,       \* lifetime of a share
    ShareQuota,     \* shares of a space (100)
    SessionQuota,   \* sessions of a share (100)
    MaxTime, MaxRequests, MaxEdits   \* bounds

ASSUME AccessAssumption ==
    /\ Users \subseteq Nat \ {0} /\ Tokens \subseteq Nat \ {0} /\ Shares \subseteq Nat \ {0}
    /\ {1, 2} \subseteq Users /\ {1, 2, 3} \subseteq Tokens /\ 1..ShareQuota \subseteq Shares
    /\ PeerOf \in [Browsers -> Browsers]
    /\ Kinds \subseteq {"setup", "startup", "login", "logout", "hosts", "users", "update",
                        "maintenance", "ack", "list", "create", "revoke", "exchange", "view",
                        "demo"}
    /\ Patches \subseteq {"rename", "promote", "demote", "disable", "enable"}
    /\ {Slots, MaxAttempts, MaxPeers, Window, SessionTTL, ShareTTL, SessionQuota} \subseteq Nat \ {0}
    /\ {ShareQuota, MaxTime, MaxRequests, MaxEdits} \subseteq Nat

VARIABLES
    clock,          \* time
    tenantOn,       \* tenants.status = 1
    users,          \* the users table
    passwords,      \* users with a row in user_passwords
    marker,         \* the row of auth_bootstrap_state exists
    lastUser,       \* the last user id drawn
    sessions,       \* user_sessions, by token
    lastToken,      \* tokens drawn so far, of either kind
    cookie,         \* session token in each cookie jar, 0 for none
    ackedBy,        \* alert_events.acked_by of one alert, 0 for none
    audit,          \* audit_logs
    shares,         \* access_shares
    shareSessions,  \* access_share_sessions
    shareCookie,    \* share session in each cookie jar
    req,            \* the requests in progress
    attempts,       \* authGuard.attempts, by peer
    slots,          \* tokens in authGuard.slots
    left, edits     \* requests still to come; changes made in SQL

accounts == <<users, passwords, marker, lastUser>>
logins == <<sessions, lastToken, cookie>>
work == <<ackedBy, audit>>
sharing == <<shares, shareSessions, shareCookie>>
ambient == <<clock, tenantOn, attempts, left, edits>>
vars == <<clock, tenantOn, users, passwords, marker, lastUser, sessions, lastToken, cookie,
          ackedBy, audit, shares, shareSessions, shareCookie, req, attempts, slots,
          left, edits>>

-----------------------------------------------------------------------------
\* Rows.  A row that does not exist is the record with the zero key.
UserRow == [role : {"admin", "member"}, status : {"active", "disabled"}]
NoUser == [role |-> "none", status |-> "none"]
SessionRow == [user : Users, expires : Nat]
NoSession == [user |-> 0, expires |-> 0]
ShareRow == [creator : Users, expires : Nat, revoked : BOOLEAN]
NoShare == [creator |-> 0, expires |-> 0, revoked |-> FALSE]
Attempt == [started : Nat, count : Nat]
NoAttempt == [started |-> 0, count |-> 0]

Accounts == {u \in Users : users[u] # NoUser}
Issued == {s \in Shares : shares[s] # NoShare}

\* Principal of the session middleware: the identity as it was read.
IsUser(p) == p.user > 0 /\ p.role \in {"admin", "member"}
IsAdmin(p) == IsUser(p) /\ p.role = "admin"

-----------------------------------------------------------------------------
\* Locks.  A lock is a row (or table, or advisory key) and a mode.
UserLock(u) == <<"user", u>>
ShareLock(s) == <<"share", s>>
TenantLock == <<"tenant", 0>>
AlertLock == <<"alert", 0>>
UsersTable == <<"users", 0>>
BootLock == <<"bootstrap", 0>>
Shared(row) == [row |-> row, mode |-> "share"]
Exclusive(row) == [row |-> row, mode |-> "update"]

\* q need not wait for row in this mode: PostgreSQL's conflict table.
Free(q, lock) ==
    \A p \in Requests \ {q} : \A l \in req[p].held :
        l.row = lock.row => l.mode = "share" /\ lock.mode = "share"

-----------------------------------------------------------------------------
\* Requests.
Idle == [pc |-> "idle", kind |-> "none", browser |-> 0, target |-> 0, patch |-> "none",
         token |-> 0, now |-> 0, user |-> 0, row |-> NoUser, held |-> {}]

Guarded == {"setup", "login", "exchange"}
At(q, pc) == req[q].pc = pc
Go(q, r) == req' = [req EXCEPT ![q] = r] /\ UNCHANGED slots

\* Fault variant: a slot is given back by logins only.
FinishLogin(q) ==
    /\ req' = [req EXCEPT ![q] = Idle]
    /\ slots' = IF req[q].kind = "login" THEN slots - 1 ELSE slots

\* The response is written: a rolled back or committed transaction holds no
\* lock, and the deferred receive of limitAuthWork gives its slot back.
Finish(q) ==
    /\ req' = [req EXCEPT ![q] = Idle]
    /\ slots' = IF req[q].kind \in Guarded THEN slots - 1 ELSE slots

\* An error of the database, of the request's data (a wrong password, an
\* unknown host, scope or alert) or of the connection: the transaction is
\* rolled back and the request answered.
Fail(q) ==
    /\ ~At(q, "idle") /\ ~At(q, "cookie")
    /\ Finish(q)
    /\ UNCHANGED <<accounts, logins, work, sharing, ambient>>

-----------------------------------------------------------------------------
\* The guard in front of setup, login and exchange.
Purged == [p \in Browsers |->
    IF clock - attempts[p].started >= Window THEN NoAttempt ELSE attempts[p]]
Known == {p \in Browsers : Purged[p].count > 0}
Refused(p) ==
    \/ p \notin Known /\ Cardinality(Known) >= MaxPeers
    \/ Purged[p].count >= MaxAttempts
Counted(p) ==
    [Purged EXCEPT ![p] = [started |-> IF p \in Known THEN @.started ELSE clock,
                           count |-> @.count + 1]]

\* Fault variant: the count is compared before the old windows are dropped and
\* with one attempt too many, and the table's size is not looked at.
allowSliding(p) ==
    IF attempts[p].count > MaxAttempts THEN UNCHANGED attempts
    ELSE attempts' = Counted(p)

allow(p) == attempts' = IF Refused(p) THEN Purged ELSE Counted(p)

\* A request arrives with the cookies its browser has now.
Arrival(k, b, t, x) ==
    [Idle EXCEPT !.kind = k, !.browser = b, !.target = t, !.patch = x, !.now = clock,
                 !.token = IF k = "view" THEN shareCookie[b] ELSE cookie[b]]

\* limitAuthWork: counted, then refused, sent away busy, or let in.
limitAuthWork(q, r) ==
    LET peer == PeerOf[r.browser] IN
    /\ allow(peer)
    /\ IF Refused(peer) \/ slots >= Slots
       THEN UNCHANGED <<req, slots>>
       ELSE req' = [req EXCEPT ![q] = r] /\ slots' = slots + 1

-----------------------------------------------------------------------------
\* The session middleware: two statements, and what the first one read may
\* have changed when the second is made.
requireSession(q) ==
    LET s == sessions[req[q].token] IN
    /\ At(q, "session")
    /\ IF req[q].token \in Tokens /\ s # NoSession /\ s.expires > req[q].now
       THEN Go(q, [req[q] EXCEPT !.pc = "user", !.user = s.user])
       ELSE Finish(q)
    /\ UNCHANGED <<accounts, logins, work, sharing, ambient>>

\* Routes behind requireAdmin, and where each handler goes from there.
AdminRoutes == {"users", "update", "list", "create", "revoke"}
Entry == [logout |-> "delete", hosts |-> "hosts", users |-> "users", update |-> "read",
          maintenance |-> "actor", ack |-> "actor",
          list |-> "admin", create |-> "admin", revoke |-> "admin"]
requireAdmin(p, k) == k \in AdminRoutes => p.role = "admin"
=============================================================================
