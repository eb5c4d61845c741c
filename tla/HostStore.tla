----------------------------- MODULE HostStore -----------------------------
(***************************************************************************)
(* The PostgreSQL host store (pkg/hostruntime/repository/postgres/store.go)*)
(* at the granularity of its SQL statements.                               *)
(*                                                                         *)
(* A worker serves one request (RegisterAgent or ReportMetrics) in one     *)
(* READ COMMITTED transaction: a SELECT sees the committed rows and the    *)
(* transaction's own writes, a written row stays locked until the          *)
(* transaction ends, and a write to a row that another transaction holds   *)
(* waits.  A reconciler is one ReconcileOffline pass; several ingest       *)
(* processes may run one each.                                             *)
(*                                                                         *)
(* Rows keep what the properties tell apart: a host row is the tenant that *)
(* owns it, an agent_instances row is its last_seq, a host_status_current  *)
(* row keeps the three states that change, the time of the last report,    *)
(* the batch its digest columns come from and its version.                 *)
(***************************************************************************)
EXTENDS Integers, FiniteSets

CONSTANTS
    Hosts,          \* host ids (numbers: ReconcileOffline updates in id order)
    Agents,         \* agent instances, identified by agent_id
    HostOf,         \* the host an agent reports for
    TenantOf,       \* the tenant code an agent is configured with, or NoTenant
    NamedTenants,   \* tenant codes that a request may carry
    FreshTenants,   \* codes that ids.New("tenant") will generate
    DefaultTenant,  \* the store's default tenant
    NoTenant,       \* no tenant: an empty code, or a host row that is absent
    NoAgent,        \* the origin of a digest nobody has reported yet
    Workers,        \* request handlers of the ingest processes
    Reconcilers,    \* offline scanners, one per ingest process
    Kinds,          \* the requests that are served: "register", "report"
    AllowCustomTenantCode,  \* the server option of that name
    OfflineAfter,   \* the silence after which a host is stale (15s in the code)
    MaxRequests,    \* bound: requests served in one behaviour
    LastRequest,    \* bound: no request starts later than this
    MaxTime,        \* bound: the last instant of the clock
    MaxFaults       \* bound: transactions that fail

Tenants == NamedTenants \cup FreshTenants
Procs   == Workers \cup Reconcilers

ASSUME HostsAssumption == Hosts \subseteq Nat
ASSUME AgentsAssumption ==
    /\ HostOf \in [Agents -> Hosts]
    /\ TenantOf \in [Agents -> NamedTenants \cup {NoTenant}]
    /\ Agents # {} /\ NoAgent \notin Agents
ASSUME TenantsAssumption ==
    /\ NoTenant \notin Tenants
    /\ DefaultTenant \in NamedTenants
    /\ NamedTenants \cap FreshTenants = {}
ASSUME ProcsAssumption ==
    /\ Workers \cap Reconcilers = {}
    /\ Kinds \subseteq {"register", "report"}
    /\ AllowCustomTenantCode \in BOOLEAN
ASSUME BoundsAssumption ==
    /\ OfflineAfter \in Nat
    /\ MaxRequests \in Nat /\ LastRequest \in Nat
    /\ MaxTime \in Nat /\ MaxFaults \in Nat

VARIABLES
    clock,        \* wall clock
    tenantState,  \* tenants: "absent", "active" (status 1) or "disabled"
    hostTenant,   \* hosts: the owning tenant, NoTenant when there is no row
    lastSeq,      \* agent_instances.last_seq, NoInstance when there is no row
    status,       \* host_status_current, version 0 when there is no row
    held,         \* the rows each transaction has written and keeps locked
    pc,           \* the statement each worker is at, or its outcome
    req,          \* the request each worker serves
    tenant,       \* the tenant it has resolved
    seqRead,      \* the last_seq it has read or is about to commit
    row,          \* the status row it has read or is about to commit
    pass,         \* where each reconciler is in its pass
    todo,         \* the stale hosts it has still to update
    versions,     \* the versions its scan has read
    sent,         \* the last batch_seq each agent has sent
    requests,     \* requests started
    faults        \* transactions that have failed

tables == <<tenantState, hostTenant, lastSeq, status>>
locals == <<tenant, seqRead, row>>
passes == <<pass, todo, versions>>
bounds == <<sent, requests, faults>>
vars   == <<clock, tenantState, hostTenant, lastSeq, status, held, pc, req,
            tenant, seqRead, row, pass, todo, versions, sent, requests, faults>>

-----------------------------------------------------------------------------
(* Rows                                                                    *)

NoInstance == -1

States == {"unknown", "up", "offline"}

Digests  == [agent : Agents \cup {NoAgent}, seq : Nat]
NoDigest == [agent |-> NoAgent, seq |-> 0]

StatusRows == [agentState : States, reachability : States, overall : States,
               seen : Nat, digest : Digests, version : Nat]

\* The zero hostStatusCurrentModel: version 0 is how the code, too, recognises
\* a row that it has just created.
NoStatus == [agentState |-> "unknown", reachability |-> "unknown",
             overall |-> "unknown", seen |-> 0, digest |-> NoDigest,
             version |-> 0]

TenantRow(t) == <<"tenant", t>>
HostRow(h)   == <<"host", h>>
AgentRow(a)  == <<"agent", a>>
StatusRow(h) == <<"status", h>>

Rows == {TenantRow(t) : t \in Tenants} \cup {HostRow(h) : h \in Hosts}
          \cup {AgentRow(a) : a \in Agents} \cup {StatusRow(h) : h \in Hosts}

\* No other transaction has written row r, so p's write does not wait.
Free(p, r) == \A q \in Procs \ {p} : r \notin held[q]

\* p writes row r and keeps it locked until its transaction ends.
Lock(p, r) ==
    /\ Free(p, r)
    /\ held' = [held EXCEPT ![p] = @ \cup {r}]

Release(p) == held' = [held EXCEPT ![p] = {}]

-----------------------------------------------------------------------------
(* A worker's request                                                      *)

\* The statements of a transaction, in the order of the code; "committed",
\* "failed" and "noTenant" are its outcomes.
InTxn == {"lookupAgent", "lookupTenant", "tenant", "host", "readAgent",
          "writeAgent", "readStatus", "writeStatus", "touchAgent",
          "readDigest", "writeDigest", "commit"}
Outcomes == {"committed", "failed", "noTenant"}

Goto(p, next) == pc' = [pc EXCEPT ![p] = next]

Agent(p) == req[p].agent
Host(p)  == HostOf[req[p].agent]

\* A request arrives: the service reads its clock before the transaction
\* begins, and every row the transaction writes carries that time.
Begin(p, a, k) ==
    /\ pc[p] = "idle"
    /\ requests < MaxRequests
    /\ clock <= LastRequest
    /\ Goto(p, IF k = "report" THEN "lookupAgent" ELSE "lookupTenant")
    /\ req' = [req EXCEPT ![p] = [kind |-> k, agent |-> a, now |-> clock,
                                  seq |-> sent[a] + 1]]
    /\ sent' = IF k = "report" THEN [sent EXCEPT ![a] = @ + 1] ELSE sent
    /\ requests' = requests + 1
    /\ UNCHANGED <<clock, tables, held, locals, passes, faults>>

\* lookupAgentInstance: a report whose host or instance has no row yet makes
\* the store bootstrap them (bootstrapHostForMetric).
LookupAgent(p) ==
    /\ pc[p] = "lookupAgent"
    /\ Goto(p, IF lastSeq[Agent(p)] = NoInstance THEN "lookupTenant"
                                                 ELSE "touchAgent")
    /\ UNCHANGED <<clock, tables, held, req, locals, passes, bounds>>

\* The tenant the request resolves to when no host row is there to decide it.
Requested(p) == IF AllowCustomTenantCode THEN TenantOf[Agent(p)] ELSE NoTenant

\* Fault variant: the tenant of the request wins.
LookupTenantRequestWins(p) ==
    /\ pc[p] = "lookupTenant"
    /\ Goto(p, "tenant")
    /\ tenant' = [tenant EXCEPT ![p] =
                    IF Requested(p) # NoTenant THEN Requested(p)
                                               ELSE hostTenant[Host(p)]]
    /\ UNCHANGED <<clock, tables, held, req, seqRead, row, passes, bounds>>

\* lookupTenantCodeByHostUID: the tenant of an existing host wins.
LookupTenant(p) ==
    /\ pc[p] = "lookupTenant"
    /\ Goto(p, "tenant")
    /\ tenant' = [tenant EXCEPT ![p] =
                    IF hostTenant[Host(p)] # NoTenant THEN hostTenant[Host(p)]
                                                      ELSE Requested(p)]
    /\ UNCHANGED <<clock, tables, held, req, seqRead, row, passes, bounds>>

\* The rest of resolveTenantForMetric: metrics never create a tenant.
FindTenant(p) ==
    /\ pc[p] = "tenant" /\ req[p].kind = "report"
    /\ Goto(p, IF tenant[p] # NoTenant /\ tenantState[tenant[p]] # "absent"
               THEN "host" ELSE "noTenant")
    /\ UNCHANGED <<clock, tables, held, req, locals, passes, bounds>>

\* The rest of resolveTenantForRegister: without a code a new one is drawn,
\* and ensureTenant inserts the row or sets its status to 1 again.
EnsureTenant(p, t) ==
    /\ pc[p] = "tenant" /\ req[p].kind = "register"
    /\ IF tenant[p] # NoTenant THEN t = tenant[p]
       ELSE t \in FreshTenants /\ tenantState[t] = "absent"
    /\ Lock(p, TenantRow(t))
    /\ Goto(p, "host")
    /\ tenant' = [tenant EXCEPT ![p] = t]
    /\ UNCHANGED <<clock, tables, req, seqRead, row, passes, bounds>>

\* Fault variants: the host is written outside the transaction; a host that
\* exists is left alone.
UpsertHostOutsideTx(p) ==
    /\ pc[p] = "host"
    /\ Free(p, HostRow(Host(p)))
    /\ Goto(p, "readAgent")
    /\ hostTenant' = [hostTenant EXCEPT ![Host(p)] = tenant[p]]
    /\ UNCHANGED <<clock, tenantState, lastSeq, status, held, req, locals,
                   passes, bounds>>

UpsertHostIfAbsent(p) ==
    /\ pc[p] = "host"
    /\ IF hostTenant[Host(p)] = NoTenant THEN Lock(p, HostRow(Host(p)))
                                         ELSE held' = held
    /\ Goto(p, "readAgent")
    /\ UNCHANGED <<clock, tables, req, locals, passes, bounds>>

\* upsertHost and replaceLabels: insert the host or overwrite the whole row,
\* the tenant included.  An insert that loses to a concurrent one on host_uid
\* is a Fail.
UpsertHost(p) ==
    /\ pc[p] = "host"
    /\ Lock(p, HostRow(Host(p)))
    /\ Goto(p, "readAgent")
    /\ UNCHANGED <<clock, tables, req, locals, passes, bounds>>

\* upsertAgentInstance reads the instance without locking it ...
ReadAgent(p) ==
    /\ pc[p] = "readAgent"
    /\ Goto(p, "writeAgent")
    /\ seqRead' = [seqRead EXCEPT ![p] = lastSeq[Agent(p)]]
    /\ UNCHANGED <<clock, tables, held, req, tenant, row, passes, bounds>>

\* ... and inserts it with last_seq 0, or saves the row with the last_seq it
\* read.  An insert that finds a committed row violates the unique key.
WriteAgent(p) ==
    /\ pc[p] = "writeAgent"
    /\ seqRead[p] = NoInstance => lastSeq[Agent(p)] = NoInstance
    /\ Lock(p, AgentRow(Agent(p)))
    /\ Goto(p, "readStatus")
    /\ seqRead' = [seqRead EXCEPT ![p] = IF @ = NoInstance THEN 0 ELSE @]
    /\ UNCHANGED <<clock, tables, req, tenant, row, passes, bounds>>

\* The status row as p's SELECT returns it: its own write, if it has one.
VisibleStatus(p) ==
    IF StatusRow(Host(p)) \in held[p] THEN row[p] ELSE status[Host(p)]

\* upsertRegisteredStatus reads the row without locking it ...
ReadStatus(p) ==
    /\ pc[p] = "readStatus"
    /\ Goto(p, "writeStatus")
    /\ row' = [row EXCEPT ![p] = VisibleStatus(p)]
    /\ UNCHANGED <<clock, tables, held, req, tenant, seqRead, passes, bounds>>

\* A row over which a sign of life has been written: the agent and the overall
\* state are up, reachability is left as it was read.
UpStatus(old, now, digest, version) ==
    [agentState |-> "up", reachability |-> old.reachability, overall |-> "up",
     seen |-> now, digest |-> digest, version |-> version]

\* Fault variant: the version is decremented.
RegisteredStatusOlder(old, now) ==
    UpStatus(old, now, old.digest, old.version - 1)

\* The row that upsertRegisteredStatus writes over the row it has read; a new
\* row has version 1.
RegisteredStatus(old, now) ==
    UpStatus(old, now, old.digest, old.version + 1)

\* ... and saves every column of it.
WriteStatus(p) ==
    /\ pc[p] = "writeStatus"
    /\ row[p].version = 0 => status[Host(p)].version = 0
    /\ Lock(p, StatusRow(Host(p)))
    /\ Goto(p, IF req[p].kind = "report" THEN "touchAgent" ELSE "commit")
    /\ row' = [row EXCEPT ![p] = RegisteredStatus(@, req[p].now)]
    /\ UNCHANGED <<clock, tables, req, tenant, seqRead, passes, bounds>>

\* Fault variants: the instance is touched before the host is written; last_seq
\* keeps the larger number.
TouchAgentThenHost(p) ==
    /\ pc[p] = "touchAgent"
    /\ Lock(p, AgentRow(Agent(p)))
    /\ Goto(p, IF HostRow(Host(p)) \in held[p] THEN "readDigest" ELSE "host")
    /\ tenant' = [tenant EXCEPT ![p] = hostTenant[Host(p)]]
    /\ seqRead' = [seqRead EXCEPT ![p] = req[p].seq]
    /\ UNCHANGED <<clock, tables, req, row, passes, bounds>>

TouchAgentGreatest(p) ==
    /\ pc[p] = "touchAgent"
    /\ Lock(p, AgentRow(Agent(p)))
    /\ Goto(p, "readDigest")
    /\ seqRead' = [seqRead EXCEPT ![p] =
                     IF lastSeq[Agent(p)] > req[p].seq THEN lastSeq[Agent(p)]
                                                       ELSE req[p].seq]
    /\ UNCHANGED <<clock, tables, req, tenant, row, passes, bounds>>

\* updateAgentInstanceState: last_seq becomes the batch's, older or newer.
TouchAgent(p) ==
    /\ pc[p] = "touchAgent"
    /\ Lock(p, AgentRow(Agent(p)))
    /\ Goto(p, "readDigest")
    /\ seqRead' = [seqRead EXCEPT ![p] = req[p].seq]
    /\ UNCHANGED <<clock, tables, req, tenant, row, passes, bounds>>

\* upsertDigestStatus reads the row without locking it ...
ReadDigest(p) ==
    /\ pc[p] = "readDigest"
    /\ Goto(p, "writeDigest")
    /\ row' = [row EXCEPT ![p] = VisibleStatus(p)]
    /\ UNCHANGED <<clock, tables, held, req, tenant, seqRead, passes, bounds>>

\* The row that upsertDigestStatus writes over the row it has read; a row it
\* did not find starts at version 1 and is incremented like any other.
DigestStatus(old, now, digest) ==
    UpStatus(old, now, digest, IF old.version = 0 THEN 2 ELSE old.version + 1)

\* ... and saves every column of it.
WriteDigest(p) ==
    /\ pc[p] = "writeDigest"
    /\ Lock(p, StatusRow(Host(p)))
    /\ Goto(p, "commit")
    /\ row' = [row EXCEPT ![p] =
                 DigestStatus(@, req[p].now, [agent |-> Agent(p), seq |-> req[p].seq])]
    /\ UNCHANGED <<clock, tables, req, tenant, seqRead, passes, bounds>>

\* The transaction's writes become visible together and its locks are gone.
\* The snapshot that getHostByUID reads before is what the caller publishes:
\* its status is row[p], which nobody else can change any more.
Commit(p) ==
    /\ pc[p] = "commit"
    /\ tenantState' = [t \in Tenants |->
         IF TenantRow(t) \in held[p] THEN "active" ELSE tenantState[t]]
    /\ hostTenant' = [h \in Hosts |->
         IF HostRow(h) \in held[p] THEN tenant[p] ELSE hostTenant[h]]
    /\ lastSeq' = [a \in Agents |->
         IF AgentRow(a) \in held[p] THEN seqRead[p] ELSE lastSeq[a]]
    /\ status' = [h \in Hosts |->
         IF StatusRow(h) \in held[p] THEN row[p] ELSE status[h]]
    /\ Release(p)
    /\ Goto(p, "committed")
    /\ UNCHANGED <<clock, req, locals, passes, bounds>>

\* A statement or the commit fails (a lost connection, a cancelled context, a
\* unique key taken by a concurrent insert): the transaction is rolled back.
Fail(p) ==
    /\ pc[p] \in InTxn
    /\ faults < MaxFaults
    /\ faults' = faults + 1
    /\ Release(p)
    /\ Goto(p, "failed")
    /\ UNCHANGED <<clock, tables, req, locals, passes, sent, requests>>

\* What an idle worker's variables hold.
NoRequest == [kind |-> "report", agent |-> CHOOSE a \in Agents : TRUE,
              now |-> 0, seq |-> 0]

\* The caller has taken the outcome.
Finish(p) ==
    /\ pc[p] \in Outcomes
    /\ Goto(p, "idle")
    /\ req' = [req EXCEPT ![p] = NoRequest]
    /\ tenant' = [tenant EXCEPT ![p] = NoTenant]
    /\ seqRead' = [seqRead EXCEPT ![p] = NoInstance]
    /\ row' = [row EXCEPT ![p] = NoStatus]
    /\ UNCHANGED <<clock, tables, held, passes, bounds>>

-----------------------------------------------------------------------------
(* A reconciler's pass                                                     *)

\* Fault variant: hosts are skipped by the reachability column.
StaleByReachability(h) ==
    /\ status[h].version # 0
    /\ status[h].seen < clock - OfflineAfter
    /\ status[h].reachability # "offline"

\* The rows ReconcileOffline selects: silent for too long, not yet offline.
Stale(h) ==
    /\ status[h].version # 0
    /\ status[h].seen < clock - OfflineAfter
    /\ ~(status[h].agentState = "offline" /\ status[h].overall = "offline")

\* The SELECT runs before the transaction and locks nothing.
Scan(r) ==
    /\ pass[r] = "idle"
    /\ \E h \in Hosts : Stale(h)
    /\ pass' = [pass EXCEPT ![r] = "mark"]
    /\ todo' = [todo EXCEPT ![r] = {h \in Hosts : Stale(h)}]
    /\ versions' = [versions EXCEPT ![r] = [h \in Hosts |-> status[h].version]]
    /\ UNCHANGED <<clock, tables, held, pc, req, locals, bounds>>

\* Fault variant: the rows are updated in any order.
MarkAnyOrder(r, h) ==
    /\ pass[r] = "mark" /\ h \in todo[r]
    /\ Lock(r, StatusRow(h))
    /\ todo' = [todo EXCEPT ![r] = @ \ {h}]
    /\ UNCHANGED <<clock, tables, pc, req, locals, pass, versions, bounds>>

\* The UPDATE of the next row in host_id order locks it until the commit.
Mark(r, h) ==
    /\ pass[r] = "mark" /\ h \in todo[r]
    /\ \A k \in todo[r] : h <= k
    /\ Lock(r, StatusRow(h))
    /\ todo' = [todo EXCEPT ![r] = @ \ {h}]
    /\ UNCHANGED <<clock, tables, pc, req, locals, pass, versions, bounds>>

\* Fault variant: the overall state is left to somebody else.
OfflineStatusUnknown(old, version) ==
    [agentState |-> "offline", reachability |-> "offline",
     overall |-> "unknown", seen |-> old.seen, digest |-> old.digest,
     version |-> version + 1]

\* The columns the UPDATE sets, on the row as it is when it is locked; the
\* version is computed from the one the scan has read.
OfflineStatus(old, version) ==
    [agentState |-> "offline", reachability |-> "offline",
     overall |-> "offline", seen |-> old.seen, digest |-> old.digest,
     version |-> version + 1]

CommitScan(r) ==
    /\ pass[r] = "mark" /\ todo[r] = {}
    /\ status' = [h \in Hosts |->
         IF StatusRow(h) \in held[r]
         THEN OfflineStatus(status[h], versions[r][h]) ELSE status[h]]
    /\ Release(r)
    /\ pass' = [pass EXCEPT ![r] = "committed"]
    /\ UNCHANGED <<clock, tenantState, hostTenant, lastSeq, pc, req, locals,
                   todo, versions, bounds>>

NoVersions == [h \in Hosts |-> 0]

FailScan(r) ==
    /\ pass[r] = "mark"
    /\ faults < MaxFaults
    /\ faults' = faults + 1
    /\ Release(r)
    /\ pass' = [pass EXCEPT ![r] = "idle"]
    /\ todo' = [todo EXCEPT ![r] = {}]
    /\ versions' = [versions EXCEPT ![r] = NoVersions]
    /\ UNCHANGED <<clock, tables, pc, req, locals, sent, requests>>

FinishScan(r) ==
    /\ pass[r] = "committed"
    /\ pass' = [pass EXCEPT ![r] = "idle"]
    /\ versions' = [versions EXCEPT ![r] = NoVersions]
    /\ UNCHANGED <<clock, tables, held, pc, req, locals, todo, bounds>>

-----------------------------------------------------------------------------
(* The rest of the system                                                  *)

\* AllocateTenant: the installer asks for a tenant of its own.
AllocateTenant(t) ==
    /\ t \in FreshTenants /\ tenantState[t] = "absent"
    /\ \A q \in Procs : TenantRow(t) \notin held[q]
    /\ tenantState' = [tenantState EXCEPT ![t] = "active"]
    /\ UNCHANGED <<clock, hostTenant, lastSeq, status, held, pc, req, locals,
                   passes, bounds>>

\* The server dies and starts again: open transactions are rolled back and
\* NewStore ensures the default tenant.
Restart ==
    /\ faults < MaxFaults
    /\ faults' = faults + 1
    /\ pc' = [p \in Workers |-> "idle"]
    /\ req' = [p \in Workers |-> NoRequest]
    /\ tenant' = [p \in Workers |-> NoTenant]
    /\ seqRead' = [p \in Workers |-> NoInstance]
    /\ row' = [p \in Workers |-> NoStatus]
    /\ pass' = [r \in Reconcilers |-> "idle"]
    /\ todo' = [r \in Reconcilers |-> {}]
    /\ versions' = [r \in Reconcilers |-> NoVersions]
    /\ held' = [p \in Procs |-> {}]
    /\ tenantState' = [tenantState EXCEPT ![DefaultTenant] = "active"]
    /\ UNCHANGED <<clock, hostTenant, lastSeq, status, sent, requests>>

Tick ==
    /\ clock < MaxTime
    /\ clock' = clock + 1
    /\ UNCHANGED <<tables, held, pc, req, locals, passes, bounds>>

-----------------------------------------------------------------------------

\* The schema starts empty but for the default tenant that NewStore ensures
\* and the tenants a DBA may have created.
Init ==
    /\ clock = 1
    /\ tenantState \in [Tenants -> {"absent", "active", "disabled"}]
    /\ tenantState[DefaultTenant] = "active"
    /\ \A t \in FreshTenants : tenantState[t] = "absent"
    /\ hostTenant = [h \in Hosts |-> NoTenant]
    /\ lastSeq = [a \in Agents |-> NoInstance]
    /\ status = [h \in Hosts |-> NoStatus]
    /\ pc = [p \in Workers |-> "idle"]
    /\ req = [p \in Workers |-> NoRequest]
    /\ tenant = [p \in Workers |-> NoTenant]
    /\ seqRead = [p \in Workers |-> NoInstance]
    /\ row = [p \in Workers |-> NoStatus]
    /\ pass = [r \in Reconcilers |-> "idle"]
    /\ todo = [r \in Reconcilers |-> {}]
    /\ versions = [r \in Reconcilers |-> NoVersions]
    /\ held = [p \in Procs |-> {}]
    /\ sent = [a \in Agents |-> 0]
    /\ requests = 0
    /\ faults = 0

\* One statement of p's transaction.
Statement(p) ==
    \/ LookupAgent(p) \/ LookupTenant(p) \/ FindTenant(p)
    \/ \E t \in Tenants : EnsureTenant(p, t)
    \/ UpsertHost(p) \/ ReadAgent(p) \/ WriteAgent(p) \/ ReadStatus(p)
    \/ WriteStatus(p) \/ TouchAgent(p) \/ ReadDigest(p) \/ WriteDigest(p)
    \/ Commit(p)

\* One step of r's pass.
Pass(r) == Scan(r) \/ (\E h \in Hosts : Mark(r, h)) \/ CommitScan(r)

Next ==
    \/ \E p \in Workers : \/ \E a \in Agents, k \in Kinds : Begin(p, a, k)
                          \/ Statement(p) \/ Fail(p) \/ Finish(p)
    \/ \E r \in Reconcilers : Pass(r) \/ FailScan(r) \/ FinishScan(r)
    \/ \E t \in Tenants : AllocateTenant(t)
    \/ Restart
    \/ Tick

Spec == Init /\ [][Next]_vars

-----------------------------------------------------------------------------
(* Properties                                                              *)

Requests == [kind : {"register", "report"}, agent : Agents, now : Nat, seq : Nat]

\* Every variable has its type: rows, requests and passes stay well formed.
TypeOK ==
    /\ clock \in Nat
    /\ tenantState \in [Tenants -> {"absent", "active", "disabled"}]
    /\ hostTenant \in [Hosts -> Tenants \cup {NoTenant}]
    /\ lastSeq \in [Agents -> Nat \cup {NoInstance}]
    /\ status \in [Hosts -> StatusRows]
    /\ held \in [Procs -> SUBSET Rows]
    /\ pc \in [Workers -> {"idle"} \cup InTxn \cup Outcomes]
    /\ req \in [Workers -> Requests]
    /\ tenant \in [Workers -> Tenants \cup {NoTenant}]
    /\ seqRead \in [Workers -> Nat \cup {NoInstance}]
    /\ row \in [Workers -> StatusRows]
    /\ pass \in [Reconcilers -> {"idle", "mark", "committed"}]
    /\ todo \in [Reconcilers -> SUBSET Hosts]
    /\ versions \in [Reconcilers -> [Hosts -> Nat]]
    /\ sent \in [Agents -> Nat]
    /\ requests \in Nat /\ faults \in Nat

\* A committed host is never half registered: it has an existing tenant, at
\* least one agent instance and a status row, whatever transactions failed or
\* raced (RegisterAgent and bootstrapHostForMetric write them in one go).
HostsAreComplete ==
    \A h \in Hosts :
      /\ hostTenant[h] # NoTenant => tenantState[hostTenant[h]] # "absent"
      /\ (hostTenant[h] # NoTenant) <=> (status[h].version # 0)
      /\ (hostTenant[h] # NoTenant) <=>
           (\E a \in Agents : HostOf[a] = h /\ lastSeq[a] # NoInstance)

\* Although upsertAgentInstance and upsertRegisteredStatus decide between
\* insert and update on an unlocked read, their inserts never meet a row that
\* appeared in between: the host row, written first, keeps others out.  Only
\* tenant_code and host_uid can be fought over.
InsertsNeverCollide ==
    \A p \in Workers :
      /\ pc[p] = "writeAgent" /\ seqRead[p] = NoInstance
           => lastSeq[Agent(p)] = NoInstance
      /\ pc[p] = "writeStatus" /\ row[p].version = 0
           => status[Host(p)].version = 0

\* The rows whose lock a transaction needs for its next statement.
Wanted(p) ==
    {r \in Rows :
       \/ p \in Workers /\
            \/ pc[p] = "tenant" /\ req[p].kind = "register"
                 /\ r = TenantRow(tenant[p])
            \/ pc[p] = "host" /\ r = HostRow(Host(p))
            \/ pc[p] \in {"writeAgent", "touchAgent"} /\ r = AgentRow(Agent(p))
            \/ pc[p] \in {"writeStatus", "writeDigest"} /\ r = StatusRow(Host(p))
       \/ p \in Reconcilers /\ pass[p] = "mark"
            /\ \E h \in todo[p] : r = StatusRow(h) /\ \A k \in todo[p] : h <= k}

Waits(p, q) == p # q /\ Wanted(p) \cap held[q] # {}

\* No set of transactions wait for one another: registrations, reports and
\* any number of offline passes lock tenant, host, instance and status rows in
\* one order, and status rows by host_id, so PostgreSQL never has to break a
\* deadlock between them.
NoDeadlock ==
    \A S \in (SUBSET Procs) \ {{}} : \E p \in S : \A q \in S : ~Waits(p, q)

\* The digest columns of a status row belong to the batch that its agent's
\* instance row names, when all requests are reports: the two rows are written
\* by one transaction although the status row was read unlocked.
DigestMatchesInstance ==
    \A h \in Hosts : status[h].digest # NoDigest =>
        lastSeq[status[h].digest.agent] = status[h].digest.seq

\* p's transaction has looked up the tenant that it is to give its host.
Resolved(p) ==
    \/ pc[p] \in {"tenant", "host"}
    \/ HostRow(Host(p)) \in held[p]

Settled(h) ==
    /\ hostTenant[h] # NoTenant
    /\ \A p \in Workers : Host(p) = h /\ Resolved(p) => tenant[p] = hostTenant[h]

\* A host can change its tenant only while a transaction is open that looked
\* the tenant up before the host's row had its present owner.  Once all such
\* transactions are over the owner is final, whatever agents claim later.
TenantSettles ==
    [][\A h \in Hosts : Settled(h) =>
         Settled(h)' /\ hostTenant'[h] = hostTenant[h]]_vars

\* A host is declared offline only when it has been silent for longer than
\* the threshold at that moment.
OfflineOnlyWhenSilent ==
    [][\A h \in Hosts :
         status[h].overall = "up" /\ status'[h].overall = "offline"
           => status[h].seen < clock - OfflineAfter]_vars

\* The directory the tables amount to.
Directory == INSTANCE HostDirectory WITH
    owner     <- hostTenant,
    instances <- {a \in Agents : lastSeq[a] # NoInstance},
    health    <- [h \in Hosts |-> IF status[h].version = 0 THEN "absent"
                                                           ELSE status[h].overall]

\* The transactions implement the directory: every commit is one of its
\* atomic steps and nothing else is visible.
ImplementsDirectory == Directory!Spec

-----------------------------------------------------------------------------

\* A started transaction goes on, the ticker of RunReconciler keeps firing
\* and time passes.  Failures are bounded by MaxFaults and nobody owes one.
Fairness ==
    /\ WF_vars(Tick)
    /\ \A p \in Workers : WF_vars(Statement(p)) /\ WF_vars(Finish(p))
    /\ \A r \in Reconcilers : WF_vars(Pass(r)) /\ WF_vars(FinishScan(r))

FairSpec == Spec /\ Fairness

\* When the agents have fallen silent every known host ends up offline and
\* stays so, although passes read stale rows, lose rows to late reports, fail
\* and race each other.
SilentHostsGoOffline ==
    <>[](\A h \in Hosts : hostTenant[h] # NoTenant
                            => status[h].overall = "offline")
=============================================================================
