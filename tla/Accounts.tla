------------------------------ MODULE Accounts ------------------------------
(***************************************************************************)
(* Accounts and logins: the first administrator (by the setup page or when *)
(* a server starts), login, logout and the administration of users.        *)
(***************************************************************************)
EXTENDS AccessTables

\* Fault variant: setup asks for the marker only.
AvailableByMarker(kind) == IF kind = "startup" THEN Accounts = {} ELSE ~marker

\* Setup wants neither the marker nor a user; a starting server follows the
\* users table alone.
Available(kind) == Accounts = {} /\ (kind = "startup" \/ ~marker)

\* BootstrapAdmin, EnsureStartupAdmin: the advisory lock comes first, and a
\* starting server also keeps writers off the users table.
BootBegin(q) ==
    LET locks == {Exclusive(BootLock)}
                 \cup (IF req[q].kind = "startup" THEN {Exclusive(UsersTable)} ELSE {}) IN
    /\ At(q, "boot")
    /\ \A l \in locks : Free(q, l)
    /\ Go(q, [req[q] EXCEPT !.pc = "available", !.held = locks])
    /\ UNCHANGED <<accounts, logins, work, sharing, ambient>>

BootCheck(q) ==
    /\ At(q, "available")
    /\ IF Available(req[q].kind)
       THEN Go(q, [req[q] EXCEPT !.pc = "create_admin"])
       ELSE Finish(q)
    /\ UNCHANGED <<accounts, logins, work, sharing, ambient>>

\* createLocalAdmin: the row and its password, under a fresh id.
createLocalAdmin(u) ==
    /\ lastUser' = u
    /\ users' = [users EXCEPT ![u] = [role |-> "admin", status |-> "active"]]
    /\ passwords' = passwords \cup {u}

\* The account and the marker are one transaction.  The marker's key rejects
\* a second setup; a starting server ignores that conflict.
BootCreate(q) ==
    LET u == lastUser + 1 IN
    /\ At(q, "create_admin")
    /\ Free(q, Shared(TenantLock)) /\ Free(q, Shared(UsersTable))
    /\ IF tenantOn /\ (req[q].kind = "startup" \/ ~marker) /\ u \in Users
       THEN /\ createLocalAdmin(u)
            /\ marker' = TRUE
            /\ IF req[q].kind = "setup"
               THEN Go(q, [req[q] EXCEPT !.pc = "issue", !.user = u, !.held = {}])
               ELSE Finish(q)
       ELSE Finish(q) /\ UNCHANGED accounts
    /\ UNCHANGED <<logins, work, sharing, ambient>>

-----------------------------------------------------------------------------
\* LocalCredentials finds the account of an active space.
LocalCredentials(u) == u \in Accounts /\ u \in passwords /\ tenantOn

\* Login: the password is right (a wrong one is Fail) and the user active now;
\* the session is created later, by another transaction.
Login(q) ==
    /\ At(q, "login")
    /\ IF LocalCredentials(req[q].target) /\ users[req[q].target].status = "active"
       THEN Go(q, [req[q] EXCEPT !.pc = "issue", !.user = req[q].target])
       ELSE Finish(q)
    /\ UNCHANGED <<accounts, logins, work, sharing, ambient>>

\* CreateSession updates last_login_at, so it waits for the user's row, and
\* its foreign key wants the user to exist.
CreateSession(u) ==
    /\ lastToken' = lastToken + 1
    /\ sessions' = [sessions EXCEPT ![lastToken + 1] = [user |-> u, expires |-> clock + SessionTTL]]

createLoginSession(q) ==
    /\ At(q, "issue")
    /\ Free(q, Exclusive(UserLock(req[q].user))) /\ Free(q, Shared(UsersTable))
    /\ IF req[q].user \in Accounts /\ lastToken + 1 \in Tokens
       THEN /\ CreateSession(req[q].user)
            /\ Go(q, [req[q] EXCEPT !.pc = "cookie", !.target = lastToken + 1])
       ELSE Finish(q) /\ UNCHANGED <<sessions, lastToken>>
    /\ UNCHANGED <<accounts, cookie, work, sharing, ambient>>

DeleteSession(t) == [sessions EXCEPT ![t] = NoSession]

\* handleLogin, handleSetup: a login deletes the session of the cookie that
\* came with it, then the new one is set.
SetCookie(q) ==
    /\ At(q, "cookie")
    /\ sessions' = IF req[q].kind = "login" /\ req[q].token \in Tokens
                   THEN DeleteSession(req[q].token) ELSE sessions
    /\ cookie' = [cookie EXCEPT ![req[q].browser] = req[q].target]
    /\ Finish(q)
    /\ UNCHANGED <<accounts, lastToken, work, sharing, ambient>>

\* The old session could not be deleted: the new one is, if that works.
RotateFails(q) ==
    /\ At(q, "cookie") /\ req[q].kind = "login" /\ req[q].token \in Tokens
    /\ sessions' \in {sessions, DeleteSession(req[q].target)}
    /\ Finish(q)
    /\ UNCHANGED <<accounts, lastToken, cookie, work, sharing, ambient>>

Logout(q) ==
    /\ At(q, "delete")
    /\ sessions' = DeleteSession(req[q].token)
    /\ cookie' = [cookie EXCEPT ![req[q].browser] = 0]
    /\ Finish(q)
    /\ UNCHANGED <<accounts, lastToken, work, sharing, ambient>>

-----------------------------------------------------------------------------
\* What an administrator may change of a user.
Patched(row, x) ==
    [role |-> CASE x = "promote" -> "admin" [] x = "demote" -> "member" [] OTHER -> row.role,
     status |-> CASE x = "disable" -> "disabled" [] x = "enable" -> "active" [] OTHER -> row.status]

\* UpdateUser of the service trusts the role the session had.
svcUpdateUser(p) == IsAdmin(p)

\* UpdateUser reads the row without a lock ...
UpdateUserRead(q) ==
    /\ At(q, "read")
    /\ IF req[q].target \in Accounts
       THEN Go(q, [req[q] EXCEPT !.pc = "save", !.row = Patched(users[req[q].target], req[q].patch)])
       ELSE Finish(q)
    /\ UNCHANGED <<accounts, logins, work, sharing, ambient>>

\* ... and saves every column of it; Save inserts a row that is gone.
UpdateUserSave(q) ==
    /\ At(q, "save")
    /\ Free(q, Exclusive(UserLock(req[q].target))) /\ Free(q, Shared(UsersTable))
    /\ users' = [users EXCEPT ![req[q].target] = req[q].row]
    /\ Finish(q)
    /\ UNCHANGED <<passwords, marker, lastUser, logins, work, sharing, ambient>>

\* ListUsers reads once.
ListUsers(q) ==
    /\ At(q, "users")
    /\ Finish(q)
    /\ UNCHANGED <<accounts, logins, work, sharing, ambient>>
=============================================================================
