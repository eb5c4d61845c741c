----------------------------- MODULE Operations -----------------------------
(***************************************************************************)
(* Operations on the space: creating a maintenance window, acknowledging   *)
(* an alert.  Each is one transaction that locks its actor first.          *)
(***************************************************************************)
EXTENDS AccessTables

\* Fault variant: the actor is read without a lock.
OperationLocksNone(u) == {}

\* FOR SHARE OF users, tenants
OperationLocks(u) == {Shared(UserLock(u)), Shared(TenantLock)}

svcCreateMaintenance(p) == IsAdmin(p)
svcAckAlert(p) == IsUser(p)

\* The actor is still active, in an active space and of the role it needs.
operationTenant(u, admin) ==
    /\ tenantOn
    /\ users[u].status = "active"
    /\ admin => users[u].role = "admin"

LockActor(q) ==
    LET u == req[q].user IN
    /\ At(q, "actor")
    /\ \A l \in OperationLocks(u) : Free(q, l)
    /\ IF operationTenant(u, req[q].kind = "maintenance")
       THEN Go(q, [req[q] EXCEPT !.pc = req[q].kind, !.held = OperationLocks(u)])
       ELSE Finish(q)
    /\ UNCHANGED <<accounts, logins, work, sharing, ambient>>

writeOperationAudit(action, u, id) ==
    audit' = Append(audit, [action |-> action, actor |-> u, id |-> id])

\* The scope exists (an unknown one is Fail): the window and its audit entry.
CreateMaintenance(q) ==
    /\ At(q, "maintenance")
    /\ writeOperationAudit("maintenance", req[q].user, 0)
    /\ Finish(q)
    /\ UNCHANGED <<accounts, logins, ackedBy, sharing, ambient>>

\* Fault variant: the alert is read without FOR UPDATE.
ReadAlert(q) ==
    /\ At(q, "ack")
    /\ IF ackedBy # 0 THEN Finish(q) ELSE Go(q, [req[q] EXCEPT !.pc = "ack_write"])
    /\ UNCHANGED <<accounts, logins, work, sharing, ambient>>

\* An alert that is acknowledged already is left as it is, without an entry.
LockAlert(q) ==
    /\ At(q, "ack")
    /\ Free(q, Exclusive(AlertLock))
    /\ IF ackedBy # 0
       THEN Finish(q)
       ELSE Go(q, [req[q] EXCEPT !.pc = "ack_write", !.held = @ \cup {Exclusive(AlertLock)}])
    /\ UNCHANGED <<accounts, logins, work, sharing, ambient>>

AckAlert(q) ==
    /\ At(q, "ack_write")
    /\ ackedBy' = req[q].user
    /\ writeOperationAudit("ack", req[q].user, 0)
    /\ Finish(q)
    /\ UNCHANGED <<accounts, logins, sharing, ambient>>
=============================================================================
