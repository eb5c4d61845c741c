-------------------------- MODULE HostStoreProofs --------------------------
(***************************************************************************)
(* Proofs about HostStore, for any hosts, agents, workers and reconcilers: *)
(* type correctness, an inductive invariant that says what each            *)
(* transaction has locked and what it is about to commit, and what follows *)
(* from it: the owner of a host settles, the tables implement              *)
(* HostDirectory, digests belong to the batch the instance row names, and  *)
(* no transactions deadlock.                                               *)
(***************************************************************************)
EXTENDS HostStore, TLAPS, WellFoundedInduction

\* Every leaf that names no prover goes to Zenon; the arithmetic goes to SMT.
USE ZenonT(90)

\* A row a registration or a digest has rewritten has a version and is up.
LEMMA WrittenRows ==
    ASSUME NEW old, old.version \in Nat, NEW now, NEW digest
    PROVE  /\ RegisteredStatus(old, now).version # 0
           /\ RegisteredStatus(old, now).overall = "up"
           /\ DigestStatus(old, now, digest).version # 0
           /\ DigestStatus(old, now, digest).overall = "up"
  BY SMT DEF RegisteredStatus, DigestStatus, UpStatus

\* The rows that registration, reports and passes write are status rows.
LEMMA Types ==
    /\ NoStatus \in StatusRows
    /\ NoRequest \in Requests
    /\ \A old \in StatusRows, now \in Nat : RegisteredStatus(old, now) \in StatusRows
    /\ \A old \in StatusRows, now \in Nat, d \in Digests :
         DigestStatus(old, now, d) \in StatusRows
    /\ \A old \in StatusRows, v \in Nat : OfflineStatus(old, v) \in StatusRows
  BY AgentsAssumption, SMT
  DEF NoStatus, StatusRows, NoRequest, Requests, States, Digests, NoDigest,
      RegisteredStatus, DigestStatus, UpStatus, OfflineStatus

\* The names of rows are rows.
LEMMA RowTypes ==
    /\ \A t \in Tenants : TenantRow(t) \in Rows
    /\ \A h \in Hosts : HostRow(h) \in Rows /\ StatusRow(h) \in Rows
    /\ \A a \in Agents : AgentRow(a) \in Rows
  BY DEF Rows

\* The agent and the host of a worker's request are known ones.
LEMMA Accessors ==
    ASSUME TypeOK, NEW p \in Workers
    PROVE  /\ Agent(p) \in Agents /\ Host(p) \in Hosts
           /\ req[p].now \in Nat /\ req[p].seq \in Nat
           /\ Host(p) = HostOf[Agent(p)]
           /\ p \in Procs
  BY AgentsAssumption DEF TypeOK, Requests, Agent, Host, Procs

\* Every step keeps the variables in their types.
LEMMA TypeStep == TypeOK /\ [Next]_vars => TypeOK'
<1> SUFFICES ASSUME TypeOK, [Next]_vars PROVE TypeOK'
  OBVIOUS
<1>a. \A p \in Workers : /\ Agent(p) \in Agents /\ Host(p) \in Hosts /\ p \in Procs
                         /\ req[p].now \in Nat /\ req[p].seq \in Nat
  BY Accessors
<1> USE DEF TypeOK, Goto, Lock, Release, tables, locals, passes, bounds
<1>1. ASSUME NEW p \in Workers, NEW a \in Agents, NEW k \in Kinds, Begin(p, a, k) PROVE TypeOK'
  <2>1. req' \in [Workers -> Requests]
    BY <1>1, ProcsAssumption, SMT DEF Begin, Requests
  <2>2. sent' \in [Agents -> Nat] /\ requests' \in Nat
    BY <1>1, BoundsAssumption, SMT DEF Begin
  <2> QED BY <1>1, <2>1, <2>2 DEF Begin, InTxn
<1>2. ASSUME NEW p \in Workers, LookupAgent(p) PROVE TypeOK'
  BY <1>2 DEF LookupAgent, InTxn
<1>3. ASSUME NEW p \in Workers, LookupTenant(p) PROVE TypeOK'
  BY <1>3, <1>a, AgentsAssumption DEF LookupTenant, Requested, InTxn, Tenants
<1>4. ASSUME NEW p \in Workers, FindTenant(p) PROVE TypeOK'
  BY <1>4 DEF FindTenant, InTxn, Outcomes
<1>5. ASSUME NEW p \in Workers, NEW t \in Tenants, EnsureTenant(p, t) PROVE TypeOK'
  BY <1>5, <1>a, RowTypes DEF EnsureTenant, InTxn
<1>6. ASSUME NEW p \in Workers, UpsertHost(p) PROVE TypeOK'
  BY <1>6, <1>a, RowTypes DEF UpsertHost, InTxn
<1>7. ASSUME NEW p \in Workers, ReadAgent(p) PROVE TypeOK'
  BY <1>7, <1>a, RowTypes DEF ReadAgent, InTxn
<1>8. ASSUME NEW p \in Workers, WriteAgent(p) PROVE TypeOK'
  BY <1>8, <1>a, RowTypes DEF WriteAgent, InTxn
<1>9. ASSUME NEW p \in Workers, ReadStatus(p) PROVE TypeOK'
  BY <1>9, <1>a, RowTypes DEF ReadStatus, VisibleStatus, InTxn
<1>10. ASSUME NEW p \in Workers, WriteStatus(p) PROVE TypeOK'
  BY <1>10, <1>a, RowTypes, Types DEF WriteStatus, InTxn
<1>11. ASSUME NEW p \in Workers, TouchAgent(p) PROVE TypeOK'
  BY <1>11, <1>a, RowTypes DEF TouchAgent, InTxn
<1>12. ASSUME NEW p \in Workers, ReadDigest(p) PROVE TypeOK'
  BY <1>12, <1>a, RowTypes DEF ReadDigest, VisibleStatus, InTxn
<1>13. ASSUME NEW p \in Workers, WriteDigest(p) PROVE TypeOK'
  BY <1>13, <1>a, RowTypes, Types DEF WriteDigest, InTxn, Digests
<1>14. ASSUME NEW p \in Workers, Commit(p) PROVE TypeOK'
  BY <1>14, <1>a DEF Commit, Outcomes
<1>15. ASSUME NEW p \in Workers, Fail(p) PROVE TypeOK'
  <2>1. faults' \in Nat
    BY <1>15, SMT DEF Fail
  <2>2. held' \in [Procs -> SUBSET Rows]
    BY <1>15 DEF Fail
  <2> QED BY <1>15, <2>1, <2>2 DEF Fail, Outcomes
<1>16. ASSUME NEW p \in Workers, Finish(p) PROVE TypeOK'
  BY <1>16, Types DEF Finish
<1>17. ASSUME NEW r \in Reconcilers, Scan(r) PROVE TypeOK'
  BY <1>17 DEF Scan, StatusRows
<1>18. ASSUME NEW r \in Reconcilers, NEW h \in Hosts, Mark(r, h) PROVE TypeOK'
  BY <1>18, RowTypes DEF Mark, Procs
<1>19. ASSUME NEW r \in Reconcilers, CommitScan(r) PROVE TypeOK'
  BY <1>19, Types DEF CommitScan
<1>20. ASSUME NEW r \in Reconcilers, FailScan(r) PROVE TypeOK'
  <2>1. todo' \in [Reconcilers -> SUBSET Hosts] /\ versions' \in [Reconcilers -> [Hosts -> Nat]]
    BY <1>20 DEF FailScan, NoVersions
  <2>2. held' \in [Procs -> SUBSET Rows]
    BY <1>20 DEF FailScan
  <2>3. faults' \in Nat
    BY <1>20, SMT DEF FailScan
  <2> QED BY <1>20, <2>1, <2>2, <2>3 DEF FailScan
<1>21. ASSUME NEW r \in Reconcilers, FinishScan(r) PROVE TypeOK'
  BY <1>21 DEF FinishScan, NoVersions
<1>22. ASSUME NEW t \in Tenants, AllocateTenant(t) PROVE TypeOK'
  BY <1>22 DEF AllocateTenant
<1>23. CASE Restart
  <2>1. todo' \in [Reconcilers -> SUBSET Hosts] /\ versions' \in [Reconcilers -> [Hosts -> Nat]]
    BY <1>23 DEF Restart, NoVersions
  <2>2. held' \in [Procs -> SUBSET Rows] /\ faults' \in Nat
    BY <1>23, BoundsAssumption, SMT DEF Restart
  <2> QED BY <1>23, <2>1, <2>2, Types DEF Restart
<1>24. CASE Tick
  BY <1>24, SMT DEF Tick
<1>25. CASE UNCHANGED vars
  BY <1>25 DEF vars
<1> QED
  BY <1>1, <1>2, <1>3, <1>4, <1>5, <1>6, <1>7, <1>8, <1>9, <1>10, <1>11, <1>12, <1>13, <1>14, <1>15,
     <1>16, <1>17, <1>18, <1>19, <1>20, <1>21, <1>22, <1>23, <1>24, <1>25
  DEF Next, Statement, Pass

\* The tables start well formed.
LEMMA InitTypes == Init => TypeOK
  BY Types, BoundsAssumption, SMT DEF Init, TypeOK, InTxn, NoVersions

\* Every row, request and pass of the store stays well formed.
THEOREM TypeCorrect == Spec => []TypeOK
  BY InitTypes, TypeStep, PTL DEF Spec

-----------------------------------------------------------------------------
(* The inductive invariant                                                 *)

\* Rows of different tables, and of different keys, are different.
LEMMA RowsDiffer ==
    \A x, y : /\ TenantRow(x) = TenantRow(y) <=> x = y
              /\ HostRow(x) = HostRow(y) <=> x = y
              /\ AgentRow(x) = AgentRow(y) <=> x = y
              /\ StatusRow(x) = StatusRow(y) <=> x = y
              /\ TenantRow(x) # HostRow(y) /\ TenantRow(x) # AgentRow(y)
              /\ TenantRow(x) # StatusRow(y) /\ HostRow(x) # AgentRow(y)
              /\ HostRow(x) # StatusRow(y) /\ AgentRow(x) # StatusRow(y)
  BY DEF TenantRow, HostRow, AgentRow, StatusRow

\* A written row is locked by one transaction only.
Exclusive == \A p, q \in Procs : p # q => held[p] \cap held[q] = {}

HoldsHost(p)   == HostRow(Host(p)) \in held[p]
HoldsAgent(p)  == AgentRow(Agent(p)) \in held[p]
HoldsStatus(p) == StatusRow(Host(p)) \in held[p]

\* Which rows a worker holds follows from the statement it is at.
WorkerLocks(p) ==
    /\ held[p] \subseteq {TenantRow(tenant[p]), HostRow(Host(p)),
                          AgentRow(Agent(p)), StatusRow(Host(p))}
    /\ pc[p] \in {"idle", "lookupAgent", "lookupTenant", "tenant",
                  "committed", "failed", "noTenant"} => held[p] = {}
    /\ pc[p] = "host" => ~HoldsHost(p) /\ ~HoldsAgent(p) /\ ~HoldsStatus(p)
    /\ pc[p] \in {"readAgent", "writeAgent"}
         => HoldsHost(p) /\ ~HoldsAgent(p) /\ ~HoldsStatus(p)
    /\ pc[p] \in {"readStatus", "writeStatus"}
         => HoldsHost(p) /\ HoldsAgent(p) /\ ~HoldsStatus(p)
    /\ pc[p] = "touchAgent"
         => (HoldsAgent(p) <=> HoldsHost(p)) /\ (HoldsStatus(p) <=> HoldsHost(p))
    /\ pc[p] \in {"readDigest", "writeDigest"}
         => HoldsAgent(p) /\ (HoldsStatus(p) <=> HoldsHost(p))
    /\ pc[p] = "commit" => HoldsAgent(p) /\ HoldsStatus(p)

\* What a worker is about to commit makes a complete host.
WorkerData(p) ==
    /\ pc[p] = "host" \/ HoldsHost(p)
         => /\ tenant[p] \in Tenants
            /\ tenantState[tenant[p]] # "absent" \/ TenantRow(tenant[p]) \in held[p]
    /\ pc[p] \in {"touchAgent", "readDigest", "writeDigest", "commit"}
         => HoldsHost(p) \/ lastSeq[Agent(p)] # NoInstance
    /\ HoldsAgent(p) => seqRead[p] # NoInstance
    /\ HoldsStatus(p) => row[p].version # 0 /\ row[p].overall = "up"

\* A reconciler holds the status rows it has updated, all of existing hosts
\* and all before those it has still to update.
PassLocks(r) ==
    /\ pass[r] # "mark" => held[r] = {} /\ todo[r] = {}
    /\ \A h \in todo[r] : status[h].version # 0
    /\ \A x \in held[r] : \E h \in Hosts :
         x = StatusRow(h) /\ status[h].version # 0 /\ \A k \in todo[r] : h < k

IInv ==
    /\ TypeOK
    /\ Exclusive
    /\ \A p \in Workers : WorkerLocks(p) /\ WorkerData(p)
    /\ \A r \in Reconcilers : PassLocks(r)
    /\ InsertsNeverCollide
    /\ HostsAreComplete

-----------------------------------------------------------------------------
(* Steps of p itself, and what the steps of others leave alone             *)

OwnStep(p) ==
    \/ \E a \in Agents, k \in Kinds : Begin(p, a, k)
    \/ Statement(p) \/ Fail(p) \/ Finish(p)

OwnPass(r) == Pass(r) \/ FailScan(r) \/ FinishScan(r)

WorkerFrame(p) == /\ pc'[p] = pc[p] /\ req'[p] = req[p] /\ tenant'[p] = tenant[p]
                  /\ seqRead'[p] = seqRead[p] /\ row'[p] = row[p] /\ held'[p] = held[p]
                  /\ Agent(p)' = Agent(p) /\ Host(p)' = Host(p)

PassFrame(r) == /\ pass'[r] = pass[r] /\ todo'[r] = todo[r]
                /\ versions'[r] = versions[r] /\ held'[r] = held[r]

\* A step of one request leaves other requests and the passes alone.
LEMMA OwnStepFrame ==
    ASSUME TypeOK, NEW q \in Workers, OwnStep(q)
    PROVE  /\ \A p \in Workers : p # q => WorkerFrame(p)
           /\ \A r \in Reconcilers : PassFrame(r)
<1> USE ProcsAssumption DEF TypeOK, WorkerFrame, PassFrame, Agent, Host, Procs, Goto, Lock, Release,
       tables, locals, passes, bounds
<1>1. CASE \E a \in Agents, k \in Kinds : Begin(q, a, k)
  BY <1>1 DEF Begin
<1>2. CASE LookupAgent(q) \/ LookupTenant(q) \/ FindTenant(q) \/ ReadAgent(q) \/ ReadStatus(q)
             \/ ReadDigest(q)
  BY <1>2 DEF LookupAgent, LookupTenant, FindTenant, ReadAgent, ReadStatus, ReadDigest
<1>3. CASE \E t \in Tenants : EnsureTenant(q, t)
  BY <1>3, SMTT(60) DEF EnsureTenant
<1>4. CASE UpsertHost(q) \/ WriteAgent(q) \/ WriteStatus(q) \/ TouchAgent(q) \/ WriteDigest(q)
  BY <1>4, SMT DEF UpsertHost, WriteAgent, WriteStatus, TouchAgent, WriteDigest
<1>5. CASE Commit(q) \/ Fail(q) \/ Finish(q)
  BY <1>5, SMT DEF Commit, Fail, Finish
<1> QED BY <1>1, <1>2, <1>3, <1>4, <1>5 DEF OwnStep, Statement

\* A step of one offline pass leaves requests and other passes alone.
LEMMA OwnPassFrame ==
    ASSUME TypeOK, NEW q \in Reconcilers, OwnPass(q)
    PROVE  /\ \A p \in Workers : WorkerFrame(p)
           /\ \A r \in Reconcilers : r # q => PassFrame(r)
<1> USE ProcsAssumption DEF TypeOK, WorkerFrame, PassFrame, Agent, Host, Procs, Lock, Release,
       tables, locals, passes, bounds
<1>1. CASE Scan(q)
  BY <1>1 DEF Scan
<1>2. CASE \E h \in Hosts : Mark(q, h)
  BY <1>2, SMT DEF Mark
<1>3. CASE CommitScan(q)
  BY <1>3 DEF CommitScan
<1>4. CASE FailScan(q) \/ FinishScan(q)
  BY <1>4, SMT DEF FailScan, FinishScan
<1> QED BY <1>1, <1>2, <1>3, <1>4 DEF OwnPass, Pass

\* AllocateTenant and the clock touch no request and no pass.
LEMMA OtherFrame ==
    ASSUME TypeOK, (\E t \in Tenants : AllocateTenant(t)) \/ Tick \/ UNCHANGED vars
    PROVE  /\ \A p \in Workers : WorkerFrame(p)
           /\ \A r \in Reconcilers : PassFrame(r)
  BY DEF AllocateTenant, Tick, vars, WorkerFrame, PassFrame, Agent, Host,
       tables, locals, passes, bounds

\* A step locks one row, releases what one transaction holds, or leaves the
\* locks alone (a restart releases everything).
LEMMA LockChange ==
    ASSUME TypeOK, [Next]_vars
    PROVE  \/ held' = held
           \/ \E p \in Procs, x \in Rows : Lock(p, x)
           \/ \E p \in Procs : Release(p)
           \/ Restart
<1>1. ASSUME NEW p \in Workers, OwnStep(p)
      PROVE  held' = held \/ (\E x \in Rows : Lock(p, x)) \/ Release(p)
  <2>1. Agent(p) \in Agents /\ Host(p) \in Hosts
    BY Accessors
  <2>2. CASE \E a \in Agents, k \in Kinds : Begin(p, a, k)
    BY <2>2 DEF Begin
  <2>3. CASE LookupAgent(p) \/ LookupTenant(p) \/ FindTenant(p) \/ ReadAgent(p) \/ ReadStatus(p)
               \/ ReadDigest(p)
    BY <2>3 DEF LookupAgent, LookupTenant, FindTenant, ReadAgent, ReadStatus, ReadDigest
  <2>4. CASE \E t \in Tenants : EnsureTenant(p, t)
    BY <2>4, RowTypes DEF EnsureTenant
  <2>5. CASE UpsertHost(p) \/ WriteAgent(p) \/ WriteStatus(p) \/ TouchAgent(p) \/ WriteDigest(p)
    BY <2>1, <2>5, RowTypes DEF UpsertHost, WriteAgent, WriteStatus, TouchAgent, WriteDigest
  <2>6. CASE Commit(p) \/ Fail(p) \/ Finish(p)
    BY <2>6 DEF Commit, Fail, Finish
  <2> QED BY <1>1, <2>2, <2>3, <2>4, <2>5, <2>6 DEF OwnStep, Statement
<1>2. ASSUME NEW r \in Reconcilers, OwnPass(r)
      PROVE  held' = held \/ (\E x \in Rows : Lock(r, x)) \/ Release(r)
  <2>1. CASE Scan(r) \/ FinishScan(r)
    BY <2>1 DEF Scan, FinishScan
  <2>2. CASE \E h \in Hosts : Mark(r, h)
    BY <2>2, RowTypes DEF Mark
  <2>3. CASE CommitScan(r) \/ FailScan(r)
    BY <2>3 DEF CommitScan, FailScan
  <2> QED BY <1>2, <2>1, <2>2, <2>3 DEF OwnPass, Pass
<1>3. CASE (\E t \in Tenants : AllocateTenant(t)) \/ Tick \/ UNCHANGED vars
  BY <1>3 DEF AllocateTenant, Tick, vars
<1> QED BY <1>1, <1>2, <1>3 DEF Next, OwnStep, OwnPass, Procs

\* PostgreSQL gives a row lock to one transaction at a time.
LEMMA ExclusiveStep == ASSUME TypeOK, Exclusive, [Next]_vars PROVE Exclusive'
<1>1. CASE held' = held
  BY <1>1 DEF Exclusive
<1>2. ASSUME NEW p \in Procs, NEW x \in Rows, Lock(p, x) PROVE Exclusive'
  BY <1>2, SMT DEF Lock, Free, Exclusive, TypeOK
<1>3. ASSUME NEW p \in Procs, Release(p) PROVE Exclusive'
  BY <1>3 DEF Release, Exclusive, TypeOK
<1>4. CASE Restart
  BY <1>4 DEF Restart, Exclusive
<1> QED BY <1>1, <1>2, <1>3, <1>4, LockChange

\* Rows, once committed, stay: nothing in the code deletes a tenant, a host,
\* an instance or a status row.
RowsStay ==
    /\ \A t \in Tenants : tenantState[t] # "absent" => tenantState'[t] # "absent"
    /\ \A h \in Hosts : hostTenant[h] # NoTenant => hostTenant'[h] # NoTenant
    /\ \A a \in Agents : lastSeq[a] # NoInstance => lastSeq'[a] # NoInstance
    /\ \A h \in Hosts : status[h].version # 0 => status'[h].version # 0

\* The steps that change no committed row.
LEMMA TablesChange ==
    ASSUME [Next]_vars
    PROVE  \/ UNCHANGED tables
           \/ \E p \in Workers : Commit(p)
           \/ \E r \in Reconcilers : CommitScan(r)
           \/ \E t \in Tenants : AllocateTenant(t)
           \/ Restart
<1> USE DEF tables
<1>1. ASSUME NEW p \in Workers, OwnStep(p) PROVE UNCHANGED tables \/ Commit(p)
  <2>1. CASE (\E a \in Agents, k \in Kinds : Begin(p, a, k)) \/ Fail(p) \/ Finish(p)
    BY <2>1 DEF Begin, Fail, Finish
  <2>2. CASE LookupAgent(p) \/ LookupTenant(p) \/ FindTenant(p) \/ ReadAgent(p) \/ ReadStatus(p)
               \/ ReadDigest(p)
    BY <2>2 DEF LookupAgent, LookupTenant, FindTenant, ReadAgent, ReadStatus, ReadDigest
  <2>3. CASE (\E t \in Tenants : EnsureTenant(p, t)) \/ UpsertHost(p) \/ WriteAgent(p)
               \/ WriteStatus(p) \/ TouchAgent(p) \/ WriteDigest(p)
    BY <2>3 DEF EnsureTenant, UpsertHost, WriteAgent, WriteStatus, TouchAgent, WriteDigest
  <2> QED BY <1>1, <2>1, <2>2, <2>3 DEF OwnStep, Statement
<1>2. ASSUME NEW r \in Reconcilers, OwnPass(r) PROVE UNCHANGED tables \/ CommitScan(r)
  BY <1>2 DEF OwnPass, Pass, Scan, Mark, FailScan, FinishScan
<1>3. CASE Tick \/ UNCHANGED vars
  BY <1>3 DEF Tick, vars
<1> QED BY <1>1, <1>2, <1>3 DEF Next, OwnStep, OwnPass

\* The rows a worker holds are those of its own agent, host and tenant.
LEMMA OwnRows ==
    ASSUME TypeOK, NEW p \in Workers, WorkerLocks(p)
    PROVE  /\ \A t : TenantRow(t) \in held[p] => t = tenant[p]
           /\ \A h : HostRow(h) \in held[p] => h = Host(p)
           /\ \A a : AgentRow(a) \in held[p] => a = Agent(p)
           /\ \A h : StatusRow(h) \in held[p] => h = Host(p)
  BY RowsDiffer, SMT DEF WorkerLocks

\* No step removes a tenant, an instance or a status row.
LEMMA RowsStayStep == ASSUME IInv, [Next]_vars PROVE RowsStay
<1> USE DEF IInv
<1>1. CASE UNCHANGED tables
  BY <1>1 DEF RowsStay, tables
<1>2. ASSUME NEW p \in Workers, Commit(p) PROVE RowsStay
  <2>1. WorkerLocks(p) /\ WorkerData(p)
    OBVIOUS
  <2>2. \A a \in Agents : AgentRow(a) \in held[p] => seqRead[p] # NoInstance
    BY <2>1, OwnRows DEF WorkerData, HoldsAgent
  <2>3. \A h \in Hosts : StatusRow(h) \in held[p] => row[p].version # 0
    BY <2>1, OwnRows DEF WorkerData, HoldsStatus
  <2>4. \A h \in Hosts : HostRow(h) \in held[p] => tenant[p] # NoTenant
    BY <2>1, OwnRows, TenantsAssumption DEF WorkerData, HoldsHost
  <2> QED BY <1>2, <2>2, <2>3, <2>4 DEF Commit, RowsStay
<1>3. ASSUME NEW r \in Reconcilers, CommitScan(r) PROVE RowsStay
  <2>1. \A h \in Hosts : OfflineStatus(status[h], versions[r][h]).version # 0
    BY <1>3, SMT DEF OfflineStatus, TypeOK
  <2> QED BY <1>3, <2>1 DEF CommitScan, RowsStay
<1>4. ASSUME NEW t \in Tenants, AllocateTenant(t) PROVE RowsStay
  BY <1>4 DEF AllocateTenant, RowsStay, TypeOK
<1>5. CASE Restart
  BY <1>5 DEF Restart, RowsStay, TypeOK
<1> QED BY <1>1, <1>2, <1>3, <1>4, <1>5, TablesChange
-----------------------------------------------------------------------------
(* The inductive step                                                      *)

\* A worker's own step re-establishes what its next statement relies on.
LEMMA OwnWorker ==
    ASSUME IInv, NEW p \in Workers, OwnStep(p)
    PROVE  (WorkerLocks(p) /\ WorkerData(p))'
<1>a. /\ TypeOK /\ WorkerLocks(p) /\ WorkerData(p) /\ p \in Procs
      /\ held \in [Procs -> SUBSET Rows]
      /\ pc[p] \in {"idle"} \cup InTxn \cup Outcomes
      /\ Agent(p) \in Agents /\ Host(p) \in Hosts
  BY Accessors DEF IInv, TypeOK, Procs
<1> USE DEF WorkerLocks, WorkerData, HoldsHost, HoldsAgent, HoldsStatus, Goto
<1>1. ASSUME NEW a \in Agents, NEW k \in Kinds, Begin(p, a, k)
      PROVE  (WorkerLocks(p) /\ WorkerData(p))'
  <2>1. held'[p] = {} /\ pc'[p] \in {"lookupAgent", "lookupTenant"}
    BY <1>a, <1>1 DEF Begin, TypeOK
  <2> QED BY <2>1
<1>2. CASE LookupAgent(p)
  <2>1. /\ held'[p] = {} /\ pc'[p] \in {"lookupTenant", "touchAgent"}
        /\ pc'[p] = "touchAgent" => lastSeq'[Agent(p)'] # NoInstance
    BY <1>a, <1>2 DEF LookupAgent, TypeOK, tables, Agent
  <2> QED BY <2>1
<1>3. CASE LookupTenant(p)
  <2>1. held'[p] = {} /\ pc'[p] = "tenant"
    BY <1>a, <1>3 DEF LookupTenant, TypeOK
  <2> QED BY <2>1
<1>4. CASE FindTenant(p)
  <2>1. /\ held'[p] = {} /\ pc'[p] \in {"host", "noTenant"}
        /\ pc'[p] = "host" => tenant'[p] \in Tenants /\ tenantState'[tenant'[p]] # "absent"
    BY <1>a, <1>4 DEF FindTenant, TypeOK, tables, locals
  <2> QED BY <2>1
<1>5. ASSUME NEW t \in Tenants, EnsureTenant(p, t)
      PROVE  (WorkerLocks(p) /\ WorkerData(p))'
  <2>1. held'[p] = {TenantRow(t)} /\ pc'[p] = "host" /\ tenant'[p] = t
    BY <1>a, <1>5 DEF EnsureTenant, TypeOK, Lock
  <2> QED BY <2>1, RowsDiffer
<1>6. CASE UpsertHost(p)
  <2>1. /\ held'[p] = held[p] \cup {HostRow(Host(p))} /\ pc'[p] = "readAgent"
        /\ tenant'[p] = tenant[p] /\ tenantState' = tenantState
        /\ Agent(p)' = Agent(p) /\ Host(p)' = Host(p)
    BY <1>a, <1>6 DEF UpsertHost, TypeOK, Lock, locals, tables, Agent, Host
  <2>2. pc[p] = "host"
    BY <1>6 DEF UpsertHost
  <2> QED BY <1>a, <2>1, <2>2, RowsDiffer
<1>7. CASE ReadAgent(p)
  <2>1. /\ held'[p] = held[p] /\ pc'[p] = "writeAgent"
        /\ tenant'[p] = tenant[p] /\ tenantState' = tenantState
        /\ Agent(p)' = Agent(p) /\ Host(p)' = Host(p)
    BY <1>a, <1>7 DEF ReadAgent, TypeOK, tables, Agent, Host
  <2>2. pc[p] = "readAgent"
    BY <1>7 DEF ReadAgent
  <2> QED BY <1>a, <2>1, <2>2, RowsDiffer
<1>8. CASE WriteAgent(p)
  <2>1. /\ held'[p] = held[p] \cup {AgentRow(Agent(p))} /\ pc'[p] = "readStatus"
        /\ tenant'[p] = tenant[p] /\ tenantState' = tenantState
        /\ Agent(p)' = Agent(p) /\ Host(p)' = Host(p)
        /\ seqRead'[p] # NoInstance
    BY <1>a, <1>8, SMT DEF WriteAgent, TypeOK, Lock, tables, Agent, Host, NoInstance
  <2>2. pc[p] = "writeAgent"
    BY <1>8 DEF WriteAgent
  <2> QED BY <1>a, <2>1, <2>2, RowsDiffer
<1>9. CASE ReadStatus(p)
  <2>1. /\ held'[p] = held[p] /\ pc'[p] = "writeStatus"
        /\ tenant'[p] = tenant[p] /\ tenantState' = tenantState
        /\ Agent(p)' = Agent(p) /\ Host(p)' = Host(p)
        /\ seqRead'[p] = seqRead[p]
    BY <1>a, <1>9 DEF ReadStatus, TypeOK, tables, Agent, Host
  <2>2. pc[p] = "readStatus"
    BY <1>9 DEF ReadStatus
  <2> QED BY <1>a, <2>1, <2>2, RowsDiffer
<1>10. CASE WriteStatus(p)
  <2>1. /\ held'[p] = held[p] \cup {StatusRow(Host(p))} /\ pc'[p] \in {"touchAgent", "commit"}
        /\ tenant'[p] = tenant[p] /\ tenantState' = tenantState
        /\ Agent(p)' = Agent(p) /\ Host(p)' = Host(p)
        /\ seqRead'[p] = seqRead[p]
    BY <1>a, <1>10 DEF WriteStatus, TypeOK, Lock, tables, Agent, Host
  <2>2. row'[p].version # 0 /\ row'[p].overall = "up"
    <3>1. row'[p] = RegisteredStatus(row[p], req[p].now)
      BY <1>a, <1>10 DEF WriteStatus, TypeOK
    <3>2. row[p].version \in Nat
      BY <1>a DEF TypeOK, StatusRows
    <3>3. /\ RegisteredStatus(row[p], req[p].now).version # 0
          /\ RegisteredStatus(row[p], req[p].now).overall = "up"
      BY <3>2, WrittenRows
    <3> QED BY <3>1, <3>3
  <2>3. pc[p] = "writeStatus"
    BY <1>10 DEF WriteStatus
  <2> QED BY <1>a, <2>1, <2>2, <2>3, RowsDiffer
<1>11. CASE TouchAgent(p)
  <2>1. /\ held'[p] = held[p] \cup {AgentRow(Agent(p))} /\ pc'[p] = "readDigest"
        /\ tenant'[p] = tenant[p] /\ tenantState' = tenantState /\ lastSeq' = lastSeq
        /\ Agent(p)' = Agent(p) /\ Host(p)' = Host(p) /\ row'[p] = row[p]
    BY <1>a, <1>11 DEF TouchAgent, TypeOK, Lock, tables, Agent, Host
  <2>2. seqRead'[p] # NoInstance
    BY <1>a, <1>11, SMT DEF TouchAgent, TypeOK, NoInstance, Requests
  <2>3. pc[p] = "touchAgent"
    BY <1>11 DEF TouchAgent
  <2>4. WorkerLocks(p)'
    BY <1>a, <2>1, <2>3, RowsDiffer, SMTT(60)
  <2>5. WorkerData(p)'
    BY <1>a, <2>1, <2>2, <2>3, RowsDiffer, SMTT(60)
  <2> QED BY <2>4, <2>5
<1>12. CASE ReadDigest(p)
  <2>1. /\ held'[p] = held[p] /\ pc'[p] = "writeDigest"
        /\ tenant'[p] = tenant[p] /\ tenantState' = tenantState /\ lastSeq' = lastSeq
        /\ Agent(p)' = Agent(p) /\ Host(p)' = Host(p) /\ seqRead'[p] = seqRead[p]
    BY <1>a, <1>12 DEF ReadDigest, TypeOK, tables, Agent, Host
  <2>2. HoldsStatus(p) => row'[p] = row[p]
    BY <1>a, <1>12 DEF ReadDigest, TypeOK, VisibleStatus
  <2>3. pc[p] = "readDigest"
    BY <1>12 DEF ReadDigest
  <2> QED BY <1>a, <2>1, <2>2, <2>3, RowsDiffer
<1>13. CASE WriteDigest(p)
  <2>1. /\ held'[p] = held[p] \cup {StatusRow(Host(p))} /\ pc'[p] = "commit"
        /\ tenant'[p] = tenant[p] /\ tenantState' = tenantState /\ lastSeq' = lastSeq
        /\ Agent(p)' = Agent(p) /\ Host(p)' = Host(p) /\ seqRead'[p] = seqRead[p]
    BY <1>a, <1>13 DEF WriteDigest, TypeOK, Lock, tables, Agent, Host
  <2>2. row'[p].version # 0 /\ row'[p].overall = "up"
    <3>1. row'[p] = DigestStatus(row[p], req[p].now, [agent |-> Agent(p), seq |-> req[p].seq])
      BY <1>a, <1>13 DEF WriteDigest, TypeOK
    <3>2. row[p].version \in Nat
      BY <1>a DEF TypeOK, StatusRows
    <3>3. /\ DigestStatus(row[p], req[p].now, [agent |-> Agent(p), seq |-> req[p].seq]).version # 0
          /\ DigestStatus(row[p], req[p].now, [agent |-> Agent(p), seq |-> req[p].seq]).overall = "up"
      BY <3>2, WrittenRows
    <3> QED BY <3>1, <3>3
  <2>3. pc[p] = "writeDigest"
    BY <1>13 DEF WriteDigest
  <2>4. WorkerLocks(p)'
    <3>1. HoldsAgent(p)
      BY <1>a, <2>3
    <3> QED BY <1>a, <2>1, <3>1
  <2>5. WorkerData(p)'
    <3>1. HoldsHost(p)' => HoldsHost(p)
      BY <2>1, RowsDiffer
    <3>2. TenantRow(tenant[p]) \in held[p] => TenantRow(tenant'[p]) \in held'[p]
      BY <2>1
    <3> QED BY <1>a, <2>1, <2>2, <2>3, <3>1, <3>2
  <2> QED BY <2>4, <2>5
<1>14. CASE Commit(p) \/ Fail(p) \/ Finish(p)
  <2>1. held'[p] = {} /\ pc'[p] \in {"committed", "failed", "idle"}
    BY <1>a, <1>14 DEF Commit, Fail, Finish, Release, TypeOK, Outcomes
  <2> QED BY <2>1
<1> QED BY <1>1, <1>2, <1>3, <1>4, <1>5, <1>6, <1>7, <1>8, <1>9, <1>10, <1>11, <1>12, <1>13, <1>14
        DEF OwnStep, Statement
\* The steps of others leave a worker's part of the invariant alone.
LEMMA OtherWorker ==
    ASSUME TypeOK, NEW p \in Workers, WorkerLocks(p), WorkerData(p), WorkerFrame(p), RowsStay
    PROVE  (WorkerLocks(p) /\ WorkerData(p))'
<1>1. Agent(p) \in Agents
  BY Accessors
<1>2. WorkerLocks(p)'
  BY DEF WorkerLocks, WorkerFrame, HoldsHost, HoldsAgent, HoldsStatus
<1>3. WorkerData(p)'
  BY <1>1 DEF WorkerData, WorkerFrame, RowsStay, HoldsHost, HoldsAgent, HoldsStatus
<1> QED BY <1>2, <1>3

\* A pass locks the rows of hosts that exist, in host_id order.
LEMMA OwnPassLocks ==
    ASSUME IInv, NEW r \in Reconcilers, OwnPass(r), RowsStay
    PROVE  PassLocks(r)'
<1>a. TypeOK /\ PassLocks(r) /\ r \in Procs
  BY DEF IInv, Procs
<1>1. CASE Scan(r)
  <2>1. /\ todo'[r] = {h \in Hosts : Stale(h)} /\ pass'[r] = "mark" /\ held'[r] = {}
        /\ status' = status
    BY <1>a, <1>1 DEF Scan, PassLocks, TypeOK, tables
  <2> QED BY <2>1 DEF PassLocks, Stale
<1>2. ASSUME NEW h \in Hosts, Mark(r, h) PROVE PassLocks(r)'
  <2>1. /\ todo'[r] = todo[r] \ {h} /\ pass'[r] = "mark" /\ held'[r] = held[r] \cup {StatusRow(h)}
        /\ status' = status /\ h \in todo[r] /\ \A k \in todo[r] : h <= k
    BY <1>a, <1>2 DEF Mark, Lock, TypeOK, tables
  <2>2. todo[r] \subseteq Hosts /\ Hosts \subseteq Nat
    BY <1>a, HostsAssumption DEF TypeOK
  <2>3. ASSUME NEW k \in todo'[r] PROVE h < k
    <3>1. k \in todo[r] /\ k # h /\ h <= k
      BY <2>1, <2>3
    <3>2. h \in Int /\ k \in Int
      <4>1. h \in todo[r]
        BY <2>1
      <4>2. h \in Nat /\ k \in Nat
        BY <2>2, <3>1, <4>1
      <4> QED BY <4>2, SMT
    <3> QED BY <3>1, <3>2, SMT
  <2> QED BY <1>a, <2>1, <2>2, <2>3 DEF PassLocks
<1>3. CASE CommitScan(r)
  BY <1>a, <1>3 DEF CommitScan, Release, PassLocks, TypeOK
<1>4. CASE FailScan(r)
  BY <1>a, <1>4 DEF FailScan, Release, PassLocks, TypeOK
<1>5. CASE FinishScan(r)
  BY <1>a, <1>5 DEF FinishScan, PassLocks, TypeOK
<1> QED BY <1>1, <1>2, <1>3, <1>4, <1>5 DEF OwnPass, Pass

\* The steps of others leave a pass's part of the invariant alone.
LEMMA OtherPassLocks ==
    ASSUME TypeOK, NEW r \in Reconcilers, PassLocks(r), PassFrame(r), RowsStay
    PROVE  PassLocks(r)'
  BY DEF PassLocks, PassFrame, RowsStay, TypeOK

\* Who commits the first instance or the status row of a host holds the host.
LEMMA CommitsFirst ==
    ASSUME IInv, NEW q \in Workers, Commit(q)
    PROVE  /\ \A a \in Agents : lastSeq[a] = NoInstance /\ lastSeq'[a] # NoInstance
                => HostRow(HostOf[a]) \in held[q]
           /\ \A h \in Hosts : status[h].version = 0 /\ status'[h].version # 0
                => HostRow(h) \in held[q]
<1>a. /\ TypeOK /\ WorkerLocks(q) /\ WorkerData(q) /\ HostsAreComplete
      /\ Agent(q) \in Agents /\ Host(q) \in Hosts /\ Host(q) = HostOf[Agent(q)]
  BY Accessors DEF IInv, Host, Agent
<1>b. HoldsHost(q) \/ lastSeq[Agent(q)] # NoInstance
  BY <1>a DEF Commit, WorkerData
<1>1. ASSUME NEW a \in Agents, lastSeq[a] = NoInstance, lastSeq'[a] # NoInstance
      PROVE  HostRow(HostOf[a]) \in held[q]
  <2>1. a = Agent(q)
    BY <1>1, <1>a, OwnRows DEF Commit
  <2> QED BY <1>1, <1>a, <1>b, <2>1 DEF HoldsHost
<1>2. ASSUME NEW h \in Hosts, status[h].version = 0, status'[h].version # 0
      PROVE  HostRow(h) \in held[q]
  <2>1. h = Host(q)
    BY <1>2, <1>a, OwnRows DEF Commit
  <2>2. lastSeq[Agent(q)] = NoInstance
    BY <1>2, <1>a, <2>1 DEF HostsAreComplete
  <2> QED BY <1>b, <2>1, <2>2 DEF HoldsHost
<1> QED BY <1>1, <1>2

\* While p holds its host nobody else creates the instance or the status row.
LEMMA NobodyElseCreates ==
    ASSUME IInv, [Next]_vars, NEW p \in Workers, HoldsHost(p), ~Commit(p)
    PROVE  /\ lastSeq[Agent(p)] = NoInstance => lastSeq'[Agent(p)] = NoInstance
           /\ status[Host(p)].version = 0 => status'[Host(p)].version = 0
<1>a. /\ TypeOK /\ Exclusive /\ p \in Procs
      /\ Agent(p) \in Agents /\ Host(p) \in Hosts /\ Host(p) = HostOf[Agent(p)]
  BY Accessors DEF IInv, Host, Agent, Procs
<1>1. CASE UNCHANGED tables
  BY <1>1 DEF tables
<1>2. ASSUME NEW q \in Workers, Commit(q)
      PROVE  /\ lastSeq[Agent(p)] = NoInstance => lastSeq'[Agent(p)] = NoInstance
             /\ status[Host(p)].version = 0 => status'[Host(p)].version = 0
  <2>1. q # p /\ q \in Procs
    BY <1>2 DEF Procs
  <2>2. HostRow(Host(p)) \notin held[q]
    BY <1>a, <2>1 DEF Exclusive, HoldsHost
  <2> QED BY <1>2, <1>a, <2>2, CommitsFirst
<1>3. ASSUME NEW r \in Reconcilers, CommitScan(r)
      PROVE  lastSeq' = lastSeq /\ (status[Host(p)].version = 0 => status'[Host(p)].version = 0)
  <2>1. PassLocks(r)
    BY DEF IInv
  <2>2. StatusRow(Host(p)) \in held[r] => status[Host(p)].version # 0
    BY <2>1, RowsDiffer, SMT DEF PassLocks
  <2> QED BY <1>3, <1>a, <2>2 DEF CommitScan
<1>4. CASE (\E t \in Tenants : AllocateTenant(t)) \/ Restart
  BY <1>4 DEF AllocateTenant, Restart
<1> QED BY <1>1, <1>2, <1>3, <1>4, TablesChange

\* Every step keeps the rows that are about to be inserted absent.
LEMMA InsertsStep == ASSUME IInv, [Next]_vars, TypeOK' PROVE InsertsNeverCollide'
<1> SUFFICES ASSUME NEW p \in Workers
             PROVE  /\ pc'[p] = "writeAgent" /\ seqRead'[p] = NoInstance
                         => lastSeq'[Agent(p)'] = NoInstance
                    /\ pc'[p] = "writeStatus" /\ row'[p].version = 0
                         => status'[Host(p)'].version = 0
  BY DEF InsertsNeverCollide
<1>a. /\ TypeOK /\ WorkerLocks(p) /\ InsertsNeverCollide
      /\ Agent(p) \in Agents /\ Host(p) \in Hosts
  BY Accessors DEF IInv
<1>1. ASSUME WorkerFrame(p), ~Commit(p)
      PROVE  /\ pc'[p] = "writeAgent" /\ seqRead'[p] = NoInstance
                  => lastSeq'[Agent(p)'] = NoInstance
             /\ pc'[p] = "writeStatus" /\ row'[p].version = 0
                  => status'[Host(p)'].version = 0
  <2>1. pc[p] \in {"writeAgent", "writeStatus"} => HoldsHost(p)
    BY <1>a DEF WorkerLocks
  <2>2. pc[p] \in {"writeAgent", "writeStatus"}
          => /\ lastSeq[Agent(p)] = NoInstance => lastSeq'[Agent(p)] = NoInstance
             /\ status[Host(p)].version = 0 => status'[Host(p)].version = 0
    BY <2>1, <1>1, NobodyElseCreates
  <2> QED BY <1>1, <1>a, <2>2 DEF WorkerFrame, InsertsNeverCollide
<1>2. ASSUME OwnStep(p), ~ReadAgent(p), ~ReadStatus(p)
      PROVE  pc'[p] \notin {"writeAgent", "writeStatus"}
  <2> USE <1>a DEF TypeOK, Goto
  <2>1. CASE \E a \in Agents, k \in Kinds : Begin(p, a, k)
    BY <2>1 DEF Begin
  <2>2. CASE Fail(p)
    BY <2>2 DEF Fail
  <2>3. CASE Finish(p)
    BY <2>3 DEF Finish
  <2>4. CASE Commit(p)
    BY <2>4 DEF Commit
  <2>5. CASE LookupAgent(p) \/ LookupTenant(p) \/ FindTenant(p) \/ ReadDigest(p)
    BY <2>5 DEF LookupAgent, LookupTenant, FindTenant, ReadDigest
  <2>6. CASE (\E t \in Tenants : EnsureTenant(p, t)) \/ UpsertHost(p) \/ WriteAgent(p)
    BY <2>6 DEF EnsureTenant, UpsertHost, WriteAgent
  <2>7. CASE WriteStatus(p) \/ TouchAgent(p) \/ WriteDigest(p)
    BY <2>7 DEF WriteStatus, TouchAgent, WriteDigest
  <2> QED BY <1>2, <2>1, <2>2, <2>3, <2>4, <2>5, <2>6, <2>7 DEF OwnStep, Statement
<1>3. CASE ReadAgent(p)
  BY <1>3, <1>a DEF ReadAgent, TypeOK, Goto, tables, Agent
<1>4. CASE ReadStatus(p)
  <2>1. pc'[p] = "writeStatus" /\ row'[p] = VisibleStatus(p) /\ Host(p)' = Host(p)
          /\ status' = status /\ pc[p] = "readStatus"
    BY <1>4, <1>a DEF ReadStatus, TypeOK, Goto, tables, Host
  <2>2. VisibleStatus(p) = status[Host(p)]
    BY <1>a, <2>1 DEF WorkerLocks, HoldsStatus, VisibleStatus
  <2> QED BY <2>1, <2>2
<1>5. CASE OwnStep(p)
  BY <1>2, <1>3, <1>4, <1>5
<1>6. ASSUME NEW q \in Workers, q # p, OwnStep(q) PROVE WorkerFrame(p) /\ ~Commit(p)
  <2>1. WorkerFrame(p)
    BY <1>6, <1>a, OwnStepFrame
  <2>2. Commit(p) => pc'[p] # pc[p]
    BY <1>a DEF Commit, Goto, TypeOK
  <2> QED BY <2>1, <2>2 DEF WorkerFrame
<1>7. ASSUME NEW r \in Reconcilers, OwnPass(r) PROVE WorkerFrame(p) /\ ~Commit(p)
  <2>1. WorkerFrame(p)
    BY <1>7, <1>a, OwnPassFrame
  <2>2. Commit(p) => pc'[p] # pc[p]
    BY <1>a DEF Commit, Goto, TypeOK
  <2> QED BY <2>1, <2>2 DEF WorkerFrame
<1>8. ASSUME (\E t \in Tenants : AllocateTenant(t)) \/ Tick \/ UNCHANGED vars
      PROVE  WorkerFrame(p) /\ ~Commit(p)
  <2>1. WorkerFrame(p)
    BY <1>8, <1>a, OtherFrame
  <2>2. Commit(p) => pc'[p] # pc[p]
    BY <1>a DEF Commit, Goto, TypeOK
  <2> QED BY <2>1, <2>2 DEF WorkerFrame
<1>9. CASE Restart
  BY <1>9 DEF Restart
<1> QED BY <1>1, <1>5, <1>6, <1>7, <1>8, <1>9 DEF Next, OwnStep, OwnPass

\* Every step, the commits included, keeps committed hosts complete.
LEMMA CompleteStep == ASSUME IInv, [Next]_vars, RowsStay, TypeOK' PROVE HostsAreComplete'
<1>a. TypeOK /\ HostsAreComplete
  BY DEF IInv
<1>1. CASE UNCHANGED tables
  BY <1>1, <1>a DEF tables, HostsAreComplete
<1>2. ASSUME NEW p \in Workers, Commit(p) PROVE HostsAreComplete'
  <2>a. /\ WorkerLocks(p) /\ WorkerData(p) /\ HoldsAgent(p) /\ HoldsStatus(p)
        /\ Agent(p) \in Agents /\ Host(p) \in Hosts /\ Host(p) = HostOf[Agent(p)]
    BY <1>2, <1>a, Accessors DEF IInv, Commit, WorkerLocks, Host, Agent
  <2>1. ASSUME NEW h \in Hosts, h # Host(p)
        PROVE  /\ hostTenant'[h] = hostTenant[h] /\ status'[h] = status[h]
               /\ \A a \in Agents : HostOf[a] = h => lastSeq'[a] = lastSeq[a]
    BY <1>2, <1>a, <2>1, <2>a, OwnRows DEF Commit
  <2>2. hostTenant'[Host(p)] \in Tenants /\ tenantState'[hostTenant'[Host(p)]] # "absent"
    <3>1. CASE HoldsHost(p)
      <4>1. hostTenant'[Host(p)] = tenant[p]
        BY <1>2, <2>a, <3>1 DEF Commit, HoldsHost
      <4>2. /\ tenant[p] \in Tenants
            /\ tenantState[tenant[p]] # "absent" \/ TenantRow(tenant[p]) \in held[p]
        BY <2>a, <3>1 DEF WorkerData
      <4> QED BY <1>2, <4>1, <4>2 DEF Commit
    <3>2. CASE ~HoldsHost(p)
      <4>1. hostTenant'[Host(p)] = hostTenant[Host(p)]
        BY <1>2, <2>a, <3>2 DEF Commit, HoldsHost
      <4>2. lastSeq[Agent(p)] # NoInstance
        BY <1>2, <2>a, <3>2 DEF Commit, WorkerData
      <4>3. hostTenant[Host(p)] # NoTenant /\ tenantState[hostTenant[Host(p)]] # "absent"
        BY <1>a, <2>a, <4>2 DEF HostsAreComplete
      <4>4. hostTenant[Host(p)] \in Tenants
        BY <1>a, <2>a, <4>3 DEF TypeOK
      <4> QED BY <4>1, <4>3, <4>4 DEF RowsStay
    <3> QED BY <3>1, <3>2
  <2>3. status'[Host(p)].version # 0 /\ lastSeq'[Agent(p)] # NoInstance
    BY <1>2, <2>a DEF Commit, WorkerData, HoldsAgent, HoldsStatus
  <2>4. ASSUME NEW h \in Hosts
        PROVE  /\ hostTenant'[h] # NoTenant => tenantState'[hostTenant'[h]] # "absent"
               /\ (hostTenant'[h] # NoTenant) <=> (status'[h].version # 0)
               /\ (hostTenant'[h] # NoTenant) <=>
                    (\E a \in Agents : HostOf[a] = h /\ lastSeq'[a] # NoInstance)
    <3>1. CASE h = Host(p)
      BY <3>1, <2>a, <2>2, <2>3, TenantsAssumption
    <3>2. CASE h # Host(p)
      <4>1. hostTenant[h] # NoTenant => tenantState'[hostTenant[h]] # "absent"
        BY <1>a, SMT DEF HostsAreComplete, RowsStay, TypeOK
      <4>2. \A a \in Agents : HostOf[a] = h => lastSeq'[a] = lastSeq[a]
        BY <2>1, <3>2
      <4> QED BY <1>a, <2>1, <3>2, <4>1, <4>2, SMTT(60) DEF HostsAreComplete
    <3> QED BY <3>1, <3>2
  <2> QED BY <2>4 DEF HostsAreComplete
<1>3. ASSUME NEW r \in Reconcilers, CommitScan(r) PROVE HostsAreComplete'
  <2>1. \A h \in Hosts : StatusRow(h) \in held[r] => status[h].version # 0
    BY RowsDiffer, SMT DEF IInv, PassLocks
  <2>2. \A h \in Hosts : (status'[h].version # 0) <=> (status[h].version # 0)
    BY <1>3, <2>1 DEF CommitScan, RowsStay
  <2>3. tenantState' = tenantState /\ hostTenant' = hostTenant /\ lastSeq' = lastSeq
    BY <1>3 DEF CommitScan
  <2> QED BY <1>a, <2>2, <2>3 DEF HostsAreComplete
<1>4. ASSUME (\E t \in Tenants : AllocateTenant(t)) \/ Restart PROVE HostsAreComplete'
  <2>1. hostTenant' = hostTenant /\ lastSeq' = lastSeq /\ status' = status
    BY <1>4 DEF AllocateTenant, Restart
  <2>2. \A h \in Hosts : hostTenant[h] # NoTenant => tenantState'[hostTenant[h]] # "absent"
    BY <1>a, SMT DEF HostsAreComplete, RowsStay, TypeOK
  <2> QED BY <1>a, <2>1, <2>2 DEF HostsAreComplete
<1> QED BY <1>1, <1>2, <1>3, <1>4, TablesChange

\* The invariant holds when NewStore returns.
LEMMA IInvInit == Init => IInv
<1> SUFFICES ASSUME Init PROVE IInv
  OBVIOUS
<1>1. TypeOK
  BY InitTypes
<1>2. Exclusive
  BY DEF Init, Exclusive
<1>3. ASSUME NEW p \in Workers PROVE WorkerLocks(p) /\ WorkerData(p)
  <2>1. held[p] = {} /\ pc[p] = "idle"
    BY DEF Init, Procs
  <2> QED BY <2>1 DEF WorkerLocks, WorkerData, HoldsHost, HoldsAgent, HoldsStatus
<1>4. ASSUME NEW r \in Reconcilers PROVE PassLocks(r)
  BY DEF Init, Procs, PassLocks
<1>5. InsertsNeverCollide
  BY DEF Init, InsertsNeverCollide
<1>6. HostsAreComplete
  BY DEF Init, HostsAreComplete, NoStatus
<1> QED BY <1>1, <1>2, <1>3, <1>4, <1>5, <1>6 DEF IInv

\* Every step of a request, a pass, the clock or a restart keeps the invariant.
LEMMA IInvStep == IInv /\ [Next]_vars => IInv'
<1> SUFFICES ASSUME IInv, [Next]_vars PROVE IInv'
  OBVIOUS
<1>1. TypeOK /\ Exclusive /\ RowsStay
  BY RowsStayStep DEF IInv
<1>2. TypeOK'
  BY <1>1, TypeStep
<1>3. Exclusive'
  BY <1>1, ExclusiveStep
<1>4. InsertsNeverCollide' /\ HostsAreComplete'
  BY <1>1, <1>2, InsertsStep, CompleteStep
<1>5. ASSUME NEW p \in Workers, WorkerFrame(p) PROVE (WorkerLocks(p) /\ WorkerData(p))'
  BY <1>1, <1>5, OtherWorker DEF IInv
<1>6. ASSUME NEW r \in Reconcilers, PassFrame(r) PROVE PassLocks(r)'
  BY <1>1, <1>6, OtherPassLocks DEF IInv
<1>7. ASSUME NEW q \in Workers, OwnStep(q)
      PROVE  /\ \A p \in Workers : (WorkerLocks(p) /\ WorkerData(p))'
             /\ \A r \in Reconcilers : PassLocks(r)'
  BY <1>1, <1>5, <1>6, <1>7, OwnStepFrame, OwnWorker
<1>8. ASSUME NEW q \in Reconcilers, OwnPass(q)
      PROVE  /\ \A p \in Workers : (WorkerLocks(p) /\ WorkerData(p))'
             /\ \A r \in Reconcilers : PassLocks(r)'
  BY <1>1, <1>5, <1>6, <1>8, OwnPassFrame, OwnPassLocks
<1>9. ASSUME (\E t \in Tenants : AllocateTenant(t)) \/ Tick \/ UNCHANGED vars
      PROVE  /\ \A p \in Workers : (WorkerLocks(p) /\ WorkerData(p))'
             /\ \A r \in Reconcilers : PassLocks(r)'
  BY <1>1, <1>5, <1>6, <1>9, OtherFrame
<1>10. ASSUME Restart
       PROVE  /\ \A p \in Workers : (WorkerLocks(p) /\ WorkerData(p))'
              /\ \A r \in Reconcilers : PassLocks(r)'
  <2>1. ASSUME NEW p \in Workers PROVE (WorkerLocks(p) /\ WorkerData(p))'
    <3>1. held'[p] = {} /\ pc'[p] = "idle"
      BY <1>10 DEF Restart, Procs
    <3> QED BY <3>1 DEF WorkerLocks, WorkerData, HoldsHost, HoldsAgent, HoldsStatus
  <2>2. ASSUME NEW r \in Reconcilers PROVE PassLocks(r)'
    BY <1>10 DEF Restart, Procs, PassLocks
  <2> QED BY <2>1, <2>2
<1>11. /\ \A p \in Workers : (WorkerLocks(p) /\ WorkerData(p))'
       /\ \A r \in Reconcilers : PassLocks(r)'
  BY <1>7, <1>8, <1>9, <1>10 DEF Next, OwnStep, OwnPass
<1> QED BY <1>2, <1>3, <1>4, <1>11 DEF IInv

\* At every moment locks are exclusive, a request and an offline pass hold what
\* their statements have locked, and what a request is about to commit makes a
\* complete host.
THEOREM Inductive == Spec => []IInv
  BY IInvInit, IInvStep, PTL DEF Spec

\* RegisterAgent and bootstrapHostForMetric never leave half a host behind.
THEOREM Complete == Spec => []HostsAreComplete
<1>1. IInv => HostsAreComplete
  BY DEF IInv
<1> QED BY <1>1, Inductive, PTL

\* The host row, written first, protects the unlocked reads of
\* upsertAgentInstance and upsertRegisteredStatus.
THEOREM InsertsSafe == Spec => []InsertsNeverCollide
<1>1. IInv => InsertsNeverCollide
  BY DEF IInv
<1> QED BY <1>1, Inductive, PTL

-----------------------------------------------------------------------------
(* The owner of a host                                                     *)

\* Between restarts only a worker's own steps touch its variables.
LEMMA WorkerSteps ==
    ASSUME TypeOK, [Next]_vars, NEW p \in Workers
    PROVE  OwnStep(p) \/ WorkerFrame(p) \/ Restart
  BY OwnStepFrame, OwnPassFrame, OtherFrame DEF Next, OwnStep, OwnPass

\* A worker that has resolved its tenant resolved it in this step, or had
\* resolved the same one before.
LEMMA ResolvedStep ==
    ASSUME IInv, NEW p \in Workers, OwnStep(p), hostTenant[Host(p)'] # NoTenant, Resolved(p)'
    PROVE  \/ tenant'[p] = hostTenant[Host(p)']
           \/ Resolved(p) /\ Host(p)' = Host(p) /\ (tenant[p] # NoTenant => tenant'[p] = tenant[p])
<1>a. /\ TypeOK /\ WorkerLocks(p) /\ p \in Procs /\ p \in Workers
  BY DEF IInv, Procs
<1> USE DEF Resolved, Goto, TypeOK
<1>1. CASE (\E a \in Agents, k \in Kinds : Begin(p, a, k)) \/ LookupAgent(p)
  <2>1. pc'[p] \notin {"tenant", "host"} /\ held'[p] = {}
    BY <1>1, <1>a DEF Begin, LookupAgent, WorkerLocks
  <2> QED BY <2>1
<1>2. CASE LookupTenant(p)
  BY <1>2, <1>a DEF LookupTenant, Host
<1>3. CASE FindTenant(p)
  BY <1>3, <1>a DEF FindTenant, Host, locals
<1>4. CASE \E t \in Tenants : EnsureTenant(p, t)
  BY <1>4, <1>a DEF EnsureTenant, Host
<1>5. CASE UpsertHost(p)
  BY <1>5, <1>a DEF UpsertHost, Host, locals
<1>6. CASE ReadAgent(p) \/ ReadStatus(p) \/ ReadDigest(p)
  <2>1. pc'[p] \notin {"tenant", "host"} /\ held'[p] = held[p] /\ req' = req /\ tenant' = tenant
    BY <1>6, <1>a DEF ReadAgent, ReadStatus, ReadDigest
  <2> QED BY <2>1 DEF Host
<1>7. CASE WriteAgent(p) \/ TouchAgent(p)
  <2>1. /\ pc'[p] \notin {"tenant", "host"} /\ held'[p] = held[p] \cup {AgentRow(Agent(p))}
        /\ req' = req /\ tenant' = tenant
    BY <1>7, <1>a DEF WriteAgent, TouchAgent, Lock
  <2> QED BY <2>1, RowsDiffer, SMT DEF Host
<1>8. CASE WriteStatus(p) \/ WriteDigest(p)
  <2>1. /\ pc'[p] \notin {"tenant", "host"} /\ held'[p] = held[p] \cup {StatusRow(Host(p))}
        /\ req' = req /\ tenant' = tenant
    BY <1>8, <1>a DEF WriteStatus, WriteDigest, Lock
  <2> QED BY <2>1, RowsDiffer, SMT DEF Host
<1>9. CASE Commit(p) \/ Fail(p) \/ Finish(p)
  <2>1. pc'[p] \notin {"tenant", "host"} /\ held'[p] = {}
    BY <1>9, <1>a DEF Commit, Fail, Finish, Release, WorkerLocks, Outcomes
  <2> QED BY <2>1
<1> QED BY <1>1, <1>2, <1>3, <1>4, <1>5, <1>6, <1>7, <1>8, <1>9 DEF OwnStep, Statement

\* The owner of a settled host is not changed by any commit.
LEMMA OwnerStep ==
    ASSUME IInv, [Next]_vars, NEW h \in Hosts, Settled(h)
    PROVE  hostTenant'[h] = hostTenant[h]
<1>1. ASSUME NEW p \in Workers, Commit(p) PROVE hostTenant'[h] = hostTenant[h]
  <2>1. HostRow(h) \in held[p] => h = Host(p) /\ Resolved(p)
    BY OwnRows DEF IInv, Resolved
  <2> QED BY <1>1, <2>1 DEF Commit, Settled
<1>2. CASE UNCHANGED tables \/ (\E r \in Reconcilers : CommitScan(r))
             \/ (\E t \in Tenants : AllocateTenant(t)) \/ Restart
  BY <1>2 DEF tables, CommitScan, AllocateTenant, Restart
<1> QED BY <1>1, <1>2, TablesChange

\* A settled host stays settled, with the same owner.
LEMMA SettledStep ==
    ASSUME IInv, [Next]_vars, NEW h \in Hosts, Settled(h)
    PROVE  Settled(h)' /\ hostTenant'[h] = hostTenant[h]
<1>1. hostTenant'[h] = hostTenant[h] /\ hostTenant[h] # NoTenant
  BY OwnerStep DEF Settled
<1> SUFFICES ASSUME NEW p \in Workers, Host(p)' = h, Resolved(p)'
             PROVE  tenant'[p] = hostTenant[h]
  BY <1>1 DEF Settled
<1>2. CASE OwnStep(p)
  <2>1. \/ tenant'[p] = hostTenant[h]
        \/ Resolved(p) /\ Host(p) = h /\ (tenant[p] # NoTenant => tenant'[p] = tenant[p])
    BY <1>1, <1>2, ResolvedStep
  <2> QED BY <1>1, <2>1 DEF Settled
<1>3. CASE WorkerFrame(p)
  BY <1>3 DEF WorkerFrame, Settled, Resolved
<1>4. CASE Restart
  BY <1>4 DEF Restart, Resolved, Procs
<1> QED BY <1>2, <1>3, <1>4, WorkerSteps DEF IInv

\* Once no open transaction has resolved another tenant for a host, the
\* host's owner is final.
THEOREM OwnersSettle == Spec => TenantSettles
<1>1. IInv /\ [Next]_vars =>
        [\A h \in Hosts : Settled(h) => Settled(h)' /\ hostTenant'[h] = hostTenant[h]]_vars
  BY SettledStep
<1> QED BY <1>1, Inductive, PTL DEF Spec, TenantSettles
-----------------------------------------------------------------------------
(* The directory                                                           *)

Instances == {a \in Agents : lastSeq[a] # NoInstance}
Health == [h \in Hosts |-> IF status[h].version = 0 THEN "absent" ELSE status[h].overall]

\* The empty tables are the empty directory.
LEMMA DirectoryInit == Init => Directory!Init
  BY SMT DEF Init, Directory!Init, NoStatus

\* A committed request registers its agent, or reports for a known one.
LEMMA CommitRefines ==
    ASSUME IInv, NEW p \in Workers, Commit(p) PROVE Directory!Next
<1>a. /\ TypeOK /\ WorkerLocks(p) /\ WorkerData(p) /\ HoldsAgent(p) /\ HoldsStatus(p)
      /\ Agent(p) \in Agents /\ Host(p) \in Hosts /\ Host(p) = HostOf[Agent(p)]
  BY Accessors DEF IInv, Commit, WorkerLocks, Host, Agent
<1>1. Instances' = Instances \cup {Agent(p)}
  <2>1. \A a \in Agents : a # Agent(p) => lastSeq'[a] = lastSeq[a]
    BY <1>a, OwnRows DEF Commit
  <2>2. lastSeq'[Agent(p)] # NoInstance
    BY <1>a DEF Commit, HoldsAgent, WorkerData
  <2> QED BY <1>a, <2>1, <2>2 DEF Instances
<1>2. Health' = [Health EXCEPT ![HostOf[Agent(p)]] = "up"]
  <2>1. \A h \in Hosts : h # Host(p) => status'[h] = status[h]
    BY <1>a, OwnRows DEF Commit
  <2>2. status'[Host(p)].version # 0 /\ status'[Host(p)].overall = "up"
    BY <1>a DEF Commit, HoldsStatus, WorkerData
  <2> QED BY <1>a, <2>1, <2>2 DEF Health
<1>3. CASE HoldsHost(p)
  <2>1. tenant[p] \in Tenants
    BY <1>a, <1>3 DEF WorkerData
  <2>2. hostTenant' = [hostTenant EXCEPT ![HostOf[Agent(p)]] = tenant[p]]
    BY <1>a, <1>3, OwnRows DEF Commit, HoldsHost, TypeOK
  <2>3. PICK a \in Agents, t \in Tenants : a = Agent(p) /\ t = tenant[p]
    BY <1>a, <2>1
  <2>4. Directory!Register(a, t)
    BY <1>1, <1>2, <2>2, <2>3 DEF Directory!Register, Instances, Health
  <2> QED BY <2>4 DEF Directory!Next
<1>4. CASE ~HoldsHost(p)
  <2>1. hostTenant' = hostTenant
    BY <1>a, <1>4, OwnRows DEF Commit, HoldsHost, TypeOK
  <2>2. Agent(p) \in Instances
    BY <1>a, <1>4 DEF Commit, WorkerData, Instances
  <2>3. PICK a \in Agents : a = Agent(p)
    BY <1>a
  <2>4. Directory!Report(a)
    BY <1>1, <1>2, <2>1, <2>2, <2>3 DEF Directory!Report, Instances, Health
  <2> QED BY <2>4 DEF Directory!Next
<1> QED BY <1>3, <1>4

\* A committed pass declares known hosts offline, all at once.
LEMMA PassRefines ==
    ASSUME IInv, NEW r \in Reconcilers, CommitScan(r) PROVE Directory!Next
<1>0. PICK S \in SUBSET Hosts : S = {h \in Hosts : StatusRow(h) \in held[r]}
  OBVIOUS
<1>1. \A h \in S : status[h].version # 0
  <2>1. \A h \in Hosts : StatusRow(h) \in held[r] => status[h].version # 0
    BY RowsDiffer, SMT DEF IInv, PassLocks
  <2> QED BY <1>0, <2>1
<1>2. S \subseteq Directory!Known
  <2>1. \A h \in Hosts : hostTenant[h] # NoTenant <=> status[h].version # 0
    BY DEF IInv, HostsAreComplete
  <2> QED BY <1>1, <2>1 DEF Directory!Known
<1>3. Health' = [h \in Hosts |-> IF h \in S THEN "offline" ELSE Health[h]]
  <2>1. ASSUME NEW h \in S
        PROVE  status'[h].version # 0 /\ status'[h].overall = "offline"
    <3>1. status'[h] = OfflineStatus(status[h], versions[r][h])
      BY <1>0, <2>1 DEF CommitScan
    <3>2. versions[r][h] \in Nat
      BY <2>1 DEF IInv, TypeOK
    <3> QED BY <3>1, <3>2, SMT DEF OfflineStatus
  <2>2. \A h \in Hosts : h \notin S => status'[h] = status[h]
    BY <1>0 DEF CommitScan
  <2> QED BY <2>1, <2>2 DEF Health
<1>4. hostTenant' = hostTenant /\ Instances' = Instances
  BY DEF CommitScan, Instances
<1>5. Directory!MarkOffline(S)
  BY <1>2, <1>3, <1>4 DEF Directory!MarkOffline, Instances, Health
<1> QED BY <1>5 DEF Directory!Next

\* Every step is a step of the directory or leaves it as it is.
LEMMA DirectoryStep ==
    ASSUME IInv, [Next]_vars PROVE [Directory!Next]_(Directory!dirVars)
<1>1. CASE UNCHANGED tables \/ (\E t \in Tenants : AllocateTenant(t)) \/ Restart
  <2>1. hostTenant' = hostTenant /\ lastSeq' = lastSeq /\ status' = status
    BY <1>1 DEF tables, AllocateTenant, Restart
  <2> QED BY <2>1 DEF Directory!dirVars
<1> QED BY <1>1, TablesChange, CommitRefines, PassRefines

\* RegisterAgent, ReportMetrics and ReconcileOffline implement the atomic
\* directory, however their statements interleave.
THEOREM Refinement == Spec => ImplementsDirectory
<1>1. IInv /\ [Next]_vars => [Directory!Next]_(Directory!dirVars)
  BY DirectoryStep
<1> QED BY <1>1, DirectoryInit, Inductive, PTL DEF Spec, ImplementsDirectory, Directory!Spec
-----------------------------------------------------------------------------
(* Digests                                                                 *)

\* What a report is about to commit: its own batch, in both rows.
DigestData(p) ==
    /\ req[p].kind = "report"
    /\ pc[p] \in {"readDigest", "writeDigest", "commit"} => seqRead[p] = req[p].seq
    /\ pc[p] = "commit" => row[p].digest = [agent |-> Agent(p), seq |-> req[p].seq]

DigestInv ==
    /\ IInv
    /\ \A p \in Workers : DigestData(p)
    /\ \A h \in Hosts : status[h].digest # NoDigest =>
         /\ status[h].digest.agent \in Agents
         /\ HostOf[status[h].digest.agent] = h
    /\ DigestMatchesInstance

\* What a report carries from statement to statement keeps naming its batch.
LEMMA DigestDataStep ==
    ASSUME IInv, [Next]_vars, "register" \notin Kinds, NEW p \in Workers, DigestData(p)
    PROVE  DigestData(p)'
<1>a. TypeOK /\ p \in Procs
  BY DEF IInv, Procs
<1> USE <1>a DEF DigestData, TypeOK, Goto
<1>1. ASSUME NEW a \in Agents, NEW k \in Kinds, Begin(p, a, k) PROVE DigestData(p)'
  <2>1. k = "report"
    BY ProcsAssumption
  <2> QED BY <1>1, <2>1 DEF Begin
<1>2. CASE LookupAgent(p) \/ LookupTenant(p) \/ FindTenant(p)
  BY <1>2 DEF LookupAgent, LookupTenant, FindTenant
<1>3. CASE (\E t \in Tenants : EnsureTenant(p, t)) \/ UpsertHost(p)
  BY <1>3 DEF EnsureTenant, UpsertHost
<1>4. CASE ReadAgent(p) \/ WriteAgent(p) \/ ReadStatus(p) \/ WriteStatus(p)
  BY <1>4 DEF ReadAgent, WriteAgent, ReadStatus, WriteStatus
<1>5. CASE TouchAgent(p) \/ ReadDigest(p)
  BY <1>5, SMT DEF TouchAgent, ReadDigest
<1>6. CASE WriteDigest(p)
  <2>1. row'[p] = DigestStatus(row[p], req[p].now, [agent |-> Agent(p), seq |-> req[p].seq])
    BY <1>6 DEF WriteDigest
  <2>2. row'[p].digest = [agent |-> Agent(p), seq |-> req[p].seq]
    BY <2>1, SMT DEF DigestStatus, UpStatus
  <2>3. pc'[p] = "commit" /\ req' = req /\ seqRead' = seqRead /\ pc[p] = "writeDigest"
    BY <1>6 DEF WriteDigest
  <2> QED BY <2>2, <2>3 DEF Agent
<1>7. CASE Commit(p) \/ Fail(p) \/ Finish(p)
  BY <1>7, SMT DEF Commit, Fail, Finish, NoRequest
<1>8. CASE WorkerFrame(p)
  BY <1>8 DEF WorkerFrame
<1>9. CASE Restart
  BY <1>9 DEF Restart, NoRequest
<1>10. OwnStep(p) \/ WorkerFrame(p) \/ Restart
  BY WorkerSteps
<1> QED BY <1>1, <1>2, <1>3, <1>4, <1>5, <1>6, <1>7, <1>8, <1>9, <1>10 DEF OwnStep, Statement

\* Every step of a store that only takes reports keeps digests and instances
\* together.
LEMMA DigestStep ==
    ASSUME DigestInv, [Next]_vars, "register" \notin Kinds PROVE DigestInv'
<1>a. IInv /\ TypeOK /\ DigestMatchesInstance
  BY DEF DigestInv, IInv
<1>1. IInv'
  BY <1>a, IInvStep
<1>2. \A p \in Workers : DigestData(p)'
  BY <1>a, DigestDataStep DEF DigestInv
<1> DEFINE Good(h) == status[h].digest # NoDigest =>
                        /\ status[h].digest.agent \in Agents
                        /\ HostOf[status[h].digest.agent] = h
                        /\ lastSeq[status[h].digest.agent] = status[h].digest.seq
<1>b. \A h \in Hosts : Good(h)
  BY DEF DigestInv, DigestMatchesInstance
<1>3. \A h \in Hosts : Good(h)'
  <2>1. CASE UNCHANGED tables \/ (\E t \in Tenants : AllocateTenant(t)) \/ Restart
    <3>1. lastSeq' = lastSeq /\ status' = status
      BY <2>1 DEF tables, AllocateTenant, Restart
    <3> QED BY <1>b, <3>1
  <2>2. ASSUME NEW p \in Workers, Commit(p), NEW h \in Hosts PROVE Good(h)'
    <3>a. /\ WorkerLocks(p) /\ DigestData(p) /\ HoldsAgent(p) /\ HoldsStatus(p) /\ pc[p] = "commit"
          /\ Agent(p) \in Agents /\ Host(p) \in Hosts /\ Host(p) = HostOf[Agent(p)]
      BY <1>a, <2>2, Accessors DEF DigestInv, IInv, Commit, WorkerLocks, Host, Agent
    <3>1. CASE h = Host(p)
      <4>1. status'[h].digest = [agent |-> Agent(p), seq |-> req[p].seq]
        BY <2>2, <3>a, <3>1 DEF Commit, HoldsStatus, DigestData
      <4>2. lastSeq'[Agent(p)] = req[p].seq
        BY <2>2, <3>a DEF Commit, HoldsAgent, DigestData
      <4> QED BY <3>a, <3>1, <4>1, <4>2, SMT
    <3>2. CASE h # Host(p)
      <4>1. status'[h] = status[h]
        BY <1>a, <2>2, <3>a, <3>2, OwnRows DEF Commit
      <4>2. \A a \in Agents : HostOf[a] = h => lastSeq'[a] = lastSeq[a]
        BY <1>a, <2>2, <3>a, <3>2, OwnRows DEF Commit
      <4> QED BY <1>b, <4>1, <4>2, SMT
    <3> QED BY <3>1, <3>2
  <2>3. ASSUME NEW r \in Reconcilers, CommitScan(r) PROVE \A h \in Hosts : Good(h)'
    <3>1. lastSeq' = lastSeq /\ \A h \in Hosts : status'[h].digest = status[h].digest
      BY <2>3 DEF CommitScan, OfflineStatus
    <3> QED BY <1>b, <3>1
  <2> QED BY <2>1, <2>2, <2>3, TablesChange
<1> QED BY <1>1, <1>2, <1>3 DEF DigestInv, DigestMatchesInstance

\* With reports only, a status row always shows the batch that the instance
\* row of its agent names, although upsertDigestStatus reads unlocked.
THEOREM DigestsMatch ==
    ASSUME "register" \notin Kinds PROVE Spec => []DigestMatchesInstance
<1>1. Init => DigestInv
  <2> SUFFICES ASSUME Init PROVE DigestInv
    OBVIOUS
  <2>1. IInv
    BY IInvInit
  <2>2. \A h \in Hosts : status[h].digest = NoDigest
    BY DEF Init, NoStatus
  <2>3. \A p \in Workers : DigestData(p)
    BY DEF Init, DigestData, NoRequest
  <2> QED BY <2>1, <2>2, <2>3 DEF DigestInv, DigestMatchesInstance
<1>2. DigestInv /\ [Next]_vars => DigestInv'
  BY DigestStep
<1>3. DigestInv => DigestMatchesInstance
  BY DEF DigestInv
<1> QED BY <1>1, <1>2, <1>3, PTL DEF Spec
-----------------------------------------------------------------------------
(* Deadlock                                                                *)

\* The order in which transactions lock rows.
Rank(x) == IF x[1] = "tenant" THEN 0
           ELSE IF x[1] = "host" THEN 1
           ELSE IF x[1] = "agent" THEN 2
           ELSE 3 + x[2]

\* The order in which transactions lock rows: tenant, host, instance, then the
\* status rows by host_id.
LEMMA Ranks ==
    /\ \A t : Rank(TenantRow(t)) = 0
    /\ \A h : Rank(HostRow(h)) = 1
    /\ \A a : Rank(AgentRow(a)) = 2
    /\ \A h \in Nat : Rank(StatusRow(h)) = 3 + h
  BY DEF Rank, TenantRow, HostRow, AgentRow, StatusRow

\* A row a transaction waits for comes after all the rows it holds.
LEMMA LockOrder ==
    ASSUME IInv, NEW p \in Procs, NEW x \in Wanted(p), x \notin held[p], NEW y \in held[p]
    PROVE  Rank(y) < Rank(x)
<1>1. CASE p \in Workers
  <2>a. TypeOK /\ WorkerLocks(p) /\ Host(p) \in Nat /\ p \notin Reconcilers
    BY <1>1, Accessors, HostsAssumption, ProcsAssumption DEF IInv
  <2>b. y \in {TenantRow(tenant[p]), HostRow(Host(p)), AgentRow(Agent(p)), StatusRow(Host(p))}
    BY <2>a DEF WorkerLocks
  <2>1. CASE pc[p] = "tenant"
    BY <2>1, <2>a DEF WorkerLocks
  <2>2. CASE pc[p] = "host" /\ x = HostRow(Host(p))
    <3>1. y = TenantRow(tenant[p])
      BY <2>2, <2>a, <2>b DEF WorkerLocks, HoldsHost, HoldsAgent, HoldsStatus
    <3> QED BY <2>2, <3>1, Ranks, SMT
  <2>3. CASE pc[p] \in {"writeAgent", "touchAgent"} /\ x = AgentRow(Agent(p))
    <3>1. y \in {TenantRow(tenant[p]), HostRow(Host(p))}
      BY <2>3, <2>a, <2>b DEF WorkerLocks, HoldsHost, HoldsAgent, HoldsStatus
    <3> QED BY <2>3, <3>1, Ranks, SMT
  <2>4. CASE pc[p] \in {"writeStatus", "writeDigest"} /\ x = StatusRow(Host(p))
    <3>1. y \in {TenantRow(tenant[p]), HostRow(Host(p)), AgentRow(Agent(p))}
      BY <2>4, <2>b
    <3>2. Rank(y) \in {0, 1, 2} /\ Rank(x) = 3 + Host(p)
      BY <2>4, <2>a, <3>1, Ranks
    <3> QED BY <2>a, <3>2, SMT
  <2> QED BY <1>1, <2>a, <2>1, <2>2, <2>3, <2>4 DEF Wanted
<1>2. CASE p \in Reconcilers
  <2>a. TypeOK /\ PassLocks(p) /\ p \notin Workers
    BY <1>2, ProcsAssumption DEF IInv
  <2>1. PICK k \in todo[p] : x = StatusRow(k)
    BY <1>2, <2>a DEF Wanted
  <2>2. PICK h \in Hosts : y = StatusRow(h) /\ h < k
    BY <2>a, <2>1 DEF PassLocks
  <2>3. h \in Nat /\ k \in Nat
    BY <1>2, <2>a, <2>1, <2>2, HostsAssumption DEF TypeOK
  <2> QED BY <2>1, <2>2, <2>3, Ranks, SMT
<1> QED BY <1>1, <1>2 DEF Procs

\* Rows that some member of S waits for while another member holds them.
Contended(S) == {x \in Rows : \E p, q \in S : p # q /\ x \in Wanted(p) /\ x \in held[q]}

\* In a circle of waiting transactions the greatest row that is waited for is
\* held by one that waits for a greater row still.
LEMMA DeadlockFree ==
    ASSUME IInv, NEW N \in Nat, Hosts \subseteq 0 .. N PROVE NoDeadlock
<1> SUFFICES ASSUME NEW S \in SUBSET Procs, S # {},
                    \A p \in S : \E q \in S : Waits(p, q)
             PROVE  FALSE
  BY DEF NoDeadlock
<1> DEFINE T == {N + 3 - Rank(x) : x \in Contended(S)}
<1>1. \A x \in Rows : Rank(x) \in 0 .. N + 3
  <2>1. \A h \in Hosts : h \in Nat /\ 3 + h \in 0 .. N + 3
    BY SMT
  <2> QED BY <2>1, Ranks, SMT DEF Rows
<1>2. T \subseteq Nat
  <2>1. \A x \in Contended(S) : x \in Rows
    BY DEF Contended
  <2>2. \A x \in Contended(S) : N + 3 - Rank(x) \in Nat
    BY <1>1, <2>1, SMT
  <2> QED BY <2>2
<1>3. Contended(S) # {}
  BY SMT DEF Waits, Contended, Wanted
<1>4. PICK m \in T : \A n \in T : ~(n < m)
  <2> DEFINE L == OpToRel(<, Nat)
  <2>1. IsWellFoundedOn(L, Nat)
    BY NatLessThanWellFounded
  <2>2. T # {}
    BY <1>3
  <2> HIDE DEF L, T
  <2>3. \E m \in T : \A n \in T : ~(<<n, m>> \in L)
    BY <1>2, <2>1, <2>2, WFMin
  <2> QED BY <1>2, <2>3 DEF L, OpToRel
<1>5. PICK x \in Contended(S) : m = N + 3 - Rank(x)
  OBVIOUS
<1>6. PICK p, q \in S : p # q /\ x \in Wanted(p) /\ x \in held[q]
  BY DEF Contended
<1>7. PICK q2 \in S : Waits(q, q2)
  OBVIOUS
<1>8. PICK y : q # q2 /\ y \in Wanted(q) /\ y \in held[q2]
  BY <1>7 DEF Waits
<1>9. y \notin held[q]
  BY <1>8 DEF IInv, Exclusive
<1>10. Rank(x) < Rank(y)
  BY <1>6, <1>8, <1>9, LockOrder
<1>11. y \in Contended(S) /\ x \in Rows /\ y \in Rows
  BY <1>8 DEF Contended, Wanted
<1>12. N + 3 - Rank(y) < m
  <2>1. Rank(x) \in Int /\ Rank(y) \in Int
    BY <1>1, <1>11, SMT
  <2> QED BY <1>5, <1>10, <2>1, SMT
<1> QED BY <1>4, <1>11, <1>12

\* With finitely many hosts no set of transactions wait for one another:
\* registrations, reports and offline passes lock rows in one order.
THEOREM NoDeadlocks ==
    ASSUME NEW N \in Nat, Hosts \subseteq 0 .. N PROVE Spec => []NoDeadlock
<1>1. IInv => NoDeadlock
  BY DeadlockFree
<1> QED BY <1>1, Inductive, PTL
=============================================================================
