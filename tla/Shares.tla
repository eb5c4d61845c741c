------------------------------- MODULE Shares -------------------------------
(***************************************************************************)
(* Shares of a space: created, listed and revoked by administrators,       *)
(* exchanged for a session by whoever has the link.                        *)
(***************************************************************************)
EXTENDS AccessTables

svcCreateShare(p) == IsAdmin(p)
svcListShares(p) == IsAdmin(p)
svcRevokeShare(p) == IsAdmin(p)

\* Fault variant: the space is locked for reading, as by an operation.
AdminLocksShared(u) == {Shared(UserLock(u)), Shared(TenantLock)}

\* FOR SHARE OF users FOR UPDATE OF tenants
AdminLocks(u) == {Shared(UserLock(u)), Exclusive(TenantLock)}

tenantForAdmin(u) == tenantOn /\ users[u].status = "active" /\ users[u].role = "admin"

LockAdmin(q) ==
    LET u == req[q].user IN
    /\ At(q, "admin")
    /\ \A l \in AdminLocks(u) : Free(q, l)
    /\ IF tenantForAdmin(u)
       THEN Go(q, [req[q] EXCEPT !.pc = req[q].kind, !.held = AdminLocks(u)])
       ELSE Finish(q)
    /\ UNCHANGED <<accounts, logins, work, sharing, ambient>>

auditShare(action, u, s) == audit' = Append(audit, [action |-> action, actor |-> u, id |-> s])

\* Fault variant: the request over the quota is answered, but its transaction
\* stays open with what it has locked.
CountSharesOpen(q) ==
    /\ At(q, "create")
    /\ IF Cardinality(Issued) >= ShareQuota
       THEN Go(q, [Idle EXCEPT !.held = req[q].held])
       ELSE Go(q, [req[q] EXCEPT !.pc = "insert"])
    /\ UNCHANGED <<accounts, logins, work, sharing, ambient>>

\* CreateShare counts every share the space ever had ...
CountShares(q) ==
    /\ At(q, "create")
    /\ IF Cardinality(Issued) >= ShareQuota
       THEN Finish(q)
       ELSE Go(q, [req[q] EXCEPT !.pc = "insert"])
    /\ UNCHANGED <<accounts, logins, work, sharing, ambient>>

\* ... and inserts the share, its hosts (an unknown one is Fail) and the entry.
CreateShare(q) ==
    /\ At(q, "insert")
    /\ \E s \in Shares \ Issued :
        /\ \A t \in Shares \ Issued : s <= t
        /\ shares' = [shares EXCEPT ![s] = [creator |-> req[q].user, revoked |-> FALSE,
                                            expires |-> req[q].now + ShareTTL]]
        /\ auditShare("create", req[q].user, s)
    /\ Finish(q)
    /\ UNCHANGED <<accounts, logins, ackedBy, shareSessions, shareCookie, ambient>>

\* ListShares reads under the same locks.
ListShares(q) ==
    /\ At(q, "list")
    /\ Finish(q)
    /\ UNCHANGED <<accounts, logins, work, sharing, ambient>>

\* RevokeShare: the row exists; the UPDATE waits for the share's row.
MarkRevoked(q) ==
    LET lock == Exclusive(ShareLock(req[q].target)) IN
    /\ At(q, "revoke")
    /\ IF req[q].target \in Issued
       THEN Free(q, lock) /\ Go(q, [req[q] EXCEPT !.pc = "purge", !.held = @ \cup {lock}])
       ELSE Finish(q)
    /\ UNCHANGED <<accounts, logins, work, sharing, ambient>>

\* The DELETE sees the sessions committed by then; all is committed at once.
RevokeShare(q) ==
    /\ At(q, "purge")
    /\ shares' = [shares EXCEPT ![req[q].target] = [@ EXCEPT !.revoked = TRUE]]
    /\ shareSessions' = {s \in shareSessions : s.share # req[q].target}
    /\ auditShare("revoke", req[q].user, req[q].target)
    /\ Finish(q)
    /\ UNCHANGED <<accounts, logins, ackedBy, shareCookie, ambient>>

-----------------------------------------------------------------------------
\* A share counts while its space is on and its creator an active administrator.
validShare(s, now) ==
    /\ s \in Issued /\ ~shares[s].revoked /\ shares[s].expires > now
    /\ tenantOn
    /\ users[shares[s].creator] = [role |-> "admin", status |-> "active"]

\* Fault variant: the share is looked up without FOR UPDATE.
FindShare(q) ==
    /\ At(q, "exchange")
    /\ IF req[q].target \in Issued THEN Go(q, [req[q] EXCEPT !.pc = "valid"]) ELSE Finish(q)
    /\ UNCHANGED <<accounts, logins, work, sharing, ambient>>

\* ExchangeShare locks the share before it looks whether it is valid.
LockShare(q) ==
    LET lock == Exclusive(ShareLock(req[q].target)) IN
    /\ At(q, "exchange")
    /\ IF req[q].target \in Issued
       THEN Free(q, lock) /\ Go(q, [req[q] EXCEPT !.pc = "valid", !.held = {lock}])
       ELSE Finish(q)
    /\ UNCHANGED <<accounts, logins, work, sharing, ambient>>

CheckShare(q) ==
    /\ At(q, "valid")
    /\ IF validShare(req[q].target, req[q].now)
       THEN Go(q, [req[q] EXCEPT !.pc = "grant"])
       ELSE Finish(q)
    /\ UNCHANGED <<accounts, logins, work, sharing, ambient>>

\* Expired sessions make room; a session lives as long as its share.
ExchangeShare(q) ==
    LET s == req[q].target
        kept == {x \in shareSessions : x.share = s => x.expires > req[q].now}
        token == lastToken + 1 IN
    /\ At(q, "grant")
    /\ IF Cardinality({x \in kept : x.share = s}) < SessionQuota /\ token \in Tokens
       THEN /\ shareSessions' = kept \cup {[token |-> token, share |-> s,
                                            expires |-> shares[s].expires]}
            /\ lastToken' = token
            /\ shareCookie' = [shareCookie EXCEPT ![req[q].browser] = token]
       ELSE UNCHANGED <<shareSessions, shareCookie, lastToken>>
    /\ Finish(q)
    /\ UNCHANGED <<accounts, sessions, cookie, work, shares, ambient>>

-----------------------------------------------------------------------------
\* A shared view: the session, its share and the share's creator are looked up
\* by one statement, with the time the request came in.
AuthenticateShareSession(q) ==
    LET valid == {x \in shareSessions : /\ x.token = req[q].token /\ x.expires > req[q].now
                                        /\ validShare(x.share, req[q].now)} IN
    /\ At(q, "view")
    /\ IF valid # {} THEN Go(q, [req[q] EXCEPT !.pc = "hosts"]) ELSE Finish(q)
    /\ UNCHANGED <<accounts, logins, work, sharing, ambient>>

\* The demo is configured; its space must be on.
DemoPrincipal(q) ==
    /\ At(q, "demo")
    /\ IF tenantOn THEN Go(q, [req[q] EXCEPT !.pc = "hosts"]) ELSE Finish(q)
    /\ UNCHANGED <<accounts, logins, work, sharing, ambient>>

\* ReadHosts: the hosts of the space that the principal may see.
ReadHosts(q) ==
    /\ At(q, "hosts")
    /\ Finish(q)
    /\ UNCHANGED <<accounts, logins, work, sharing, ambient>>
=============================================================================
