---------------------------- MODULE AgentReports ----------------------------
(***************************************************************************)
(* The report loop of one machine's agent against the ingest server: a     *)
(* gRPC stream on which the agent sends one batch per tick and waits for   *)
(* its acknowledgement, and a handler per stream that takes each batch     *)
(* through processMetricBatch.  The agent is stopped and started again,    *)
(* connections are lost, calls fail and the server restarts; the handler   *)
(* of a lost stream goes on beside the handler of the next one.            *)
(*                                                                         *)
(* Of the host store only what it promises is used: one report is one step *)
(* of HostDirectory, which the transactions of HostStore implement.        *)
(***************************************************************************)
EXTENDS Identity, Sequences, Functions

CONSTANTS
    Agents,     \* agent ids: one for each start of the agent, 1..n
    FactsOf,    \* what each start finds on the machine
    Tenants,    \* tenant codes that an operator may have allocated
    AllowCustomTenantCode,  \* the server option of that name
    Streams,    \* streams in use at one time
    MaxSeq,     \* bound: batches of one start
    MaxFaults   \* bound: failed calls, lost connections, invalid batches, stops, restarts

ASSUME AgentReportsAssumption ==
    /\ 1 \in Agents /\ Agents \subseteq Nat \ {0}
    /\ DOMAIN FactsOf = Agents
    /\ AllowCustomTenantCode \in BOOLEAN
    /\ "" \notin Tenants /\ 0 \notin Streams
    /\ MaxSeq \in Nat \ {0} /\ MaxFaults \in Nat

VARIABLES
    agent,      \* the agent process
    stream,     \* the streams, with the handler of each
    tenants,    \* the tenants that exist
    owner, instances, health,  \* the host directory
    commits,    \* how often each batch has been committed
    stage,      \* how far each committed batch has come in processMetricBatch
    stats,      \* Counters.MetricBatches of the running server
    faults

HostOf == [a \in Agents |-> HostOfBoot(FactsOf[a])]

Hosts  == {HostOf[a] : a \in Agents}

Store == INSTANCE HostDirectory WITH NoTenant <- ""

directory == <<owner, instances, health>>
records   == <<commits, stage, stats>>
vars == <<agent, stream, tenants, owner, instances, health, commits, stage, stats,
          faults>>

\* PushMetricBatchRequest; whether its points pass validateMetricBatch.
Batch == [agent : Agents, seq : 1..MaxSeq, valid : BOOLEAN]

\* What the server knows a batch by.
Numbers == Agents \X (1..MaxSeq)
No(b) == <<b.agent, b.seq>>

Codes == {"InvalidArgument", "FailedPrecondition", "Internal"}

\* MetricBatchAck, or the status that ends a stream.
Reply == [ack : Batch] \cup [code : Codes]

\* A stream that is over: its handler has returned and it holds nothing.
Over == [pc |-> "ended", up |-> <<>>, down |-> <<>>, lost |-> TRUE,
         batch |-> [agent |-> 1, seq |-> 1, valid |-> TRUE]]

Fault == faults < MaxFaults /\ faults' = faults + 1

-----------------------------------------------------------------------------
(* The agent                                                               *)

\* app.New and service.New: a new agent id and batch number 0.
Boot(a) ==
    /\ agent.pc \in {"off", "stopped"}
    /\ a = agent.id + 1
    /\ agent' = [pc |-> IF Loads(FactsOf[a]) THEN "tick" ELSE "stopped",
                 id |-> a, seq |-> 0, sink |-> 0]
    /\ UNCHANGED <<stream, tenants, directory, records, faults>>

\* The next batch; one that fails validation (too many points, an odd label)
\* counts as a fault of the environment.
NextBatch(b) ==
    /\ b.agent = agent.id /\ b.seq = agent.seq + 1
    /\ IF b.valid THEN faults' = faults ELSE Fault

Unused == {s \in Streams : stream[s].pc = "ended"}

Ready == agent.pc = "tick" /\ agent.seq < MaxSeq

\* pushMetrics takes the next number before anything can fail ...
Wait(s, b) == agent' = [agent EXCEPT !.pc = "wait", !.sink = s, !.seq = b.seq]

\* Fault variant: a batch that failed is sent again under its number.
RetrySameBatch(n) == agent' = [agent EXCEPT !.pc = "tick", !.sink = 0, !.seq = n - 1]

\* ... and a cycle that fails is not repeated: the next one has new data.
Retry(n) == agent' = [agent EXCEPT !.pc = "tick", !.sink = 0, !.seq = n]

\* A new stream, in any slot that is not in use.
metricStreamClient(s) == s \in Unused /\ \A r \in Unused : s <= r

\* Without a stream one is opened, and the batch is sent on it.
OpenAndSend(s, b) ==
    /\ Ready /\ agent.sink = 0
    /\ metricStreamClient(s)
    /\ NextBatch(b)
    /\ Wait(s, b)
    /\ stream' = [stream EXCEPT ![s] = [pc |-> "recv", up |-> <<b>>, down |-> <<>>,
                                        lost |-> FALSE, batch |-> b]]
    /\ UNCHANGED <<tenants, directory, records>>

OpenFails ==
    /\ Ready /\ agent.sink = 0
    /\ Fault
    /\ Retry(agent.seq + 1)
    /\ UNCHANGED <<stream, tenants, directory, records>>

\* Send hands the batch to the transport; on a connection that is gone it is
\* lost without an error as long as the transport has not noticed.
Send(b) ==
    LET s == agent.sink IN
    /\ Ready /\ s # 0
    /\ NextBatch(b)
    /\ Wait(s, b)
    /\ stream' = IF stream[s].lost THEN stream
                 ELSE [stream EXCEPT ![s].up = Append(@, b)]
    /\ UNCHANGED <<tenants, directory, records>>

\* Send fails when it has noticed, or when the stream has ended.
SendFails ==
    LET s == agent.sink IN
    /\ Ready /\ s # 0
    /\ stream[s].lost \/ stream[s].pc = "ended"
    /\ Retry(agent.seq + 1)
    /\ UNCHANGED <<stream, tenants, directory, records, faults>>

\* Fault variant: every status is fatal.
FatalAny(code) == TRUE

\* isFatalMetricError
Fatal(code) == code = "FailedPrecondition"

\* stream.Recv returns the acknowledgement.  A wrong number would be logged, and
\* the loop goes on as well.
RecvAck ==
    LET s == agent.sink  reply == Head(stream[s].down) IN
    /\ agent.pc = "wait" /\ stream[s].down # <<>> /\ reply \in [ack : Batch]
    /\ stream' = [stream EXCEPT ![s].down = Tail(@)]
    /\ agent' = [agent EXCEPT !.pc = "tick"]
    /\ UNCHANGED <<tenants, directory, records, faults>>

\* Fault variant: the stream is kept after an error.
RecvStatusKeep ==
    LET s == agent.sink  reply == Head(stream[s].down) IN
    /\ agent.pc = "wait" /\ stream[s].down # <<>> /\ reply \in [code : Codes]
    /\ stream' = [stream EXCEPT ![s].down = Tail(@)]
    /\ agent' = [agent EXCEPT !.pc = IF Fatal(reply.code) THEN "stopped" ELSE "tick"]
    /\ UNCHANGED <<tenants, directory, records, faults>>

\* It returns the status: resetMetricStream, and a missing tenant ends Run.
RecvStatus ==
    LET s == agent.sink  reply == Head(stream[s].down) IN
    /\ agent.pc = "wait" /\ stream[s].down # <<>> /\ reply \in [code : Codes]
    /\ stream' = [stream EXCEPT ![s] = Over]
    /\ IF Fatal(reply.code) THEN agent' = [agent EXCEPT !.pc = "stopped", !.sink = 0]
                            ELSE Retry(agent.seq)
    /\ UNCHANGED <<tenants, directory, records, faults>>

\* The transport notices that the connection is gone.
RecvLost ==
    LET s == agent.sink IN
    /\ agent.pc = "wait" /\ stream[s].down = <<>> /\ stream[s].lost
    /\ Retry(agent.seq)
    /\ UNCHANGED <<stream, tenants, directory, records, faults>>

\* What each end had sent before a connection is lost may or may not arrive.
Cut(x) ==
    {[x EXCEPT !.lost = TRUE, !.up = u, !.down = d] : u \in {<<>>, x.up}, d \in {<<>>, x.down}}

\* The agent is stopped by a signal, or dies: Close, and its connection with it.
Stop ==
    /\ agent.pc \in {"tick", "wait"}
    /\ Fault
    /\ agent' = [agent EXCEPT !.pc = "off", !.sink = 0]
    /\ IF agent.sink = 0 THEN stream' = stream
       ELSE \E x \in Cut(stream[agent.sink]) :
              stream' = [stream EXCEPT ![agent.sink] = [x EXCEPT !.down = <<>>]]
    /\ UNCHANGED <<tenants, directory, records>>

\* A connection is lost.
Lose(s) ==
    /\ stream[s].pc # "ended" /\ ~stream[s].lost
    /\ Fault
    /\ \E x \in Cut(stream[s]) : stream' = [stream EXCEPT ![s] = x]
    /\ UNCHANGED <<agent, tenants, directory, records>>

-----------------------------------------------------------------------------
(* The server                                                              *)

\* The handler of s goes on to pc; returns from a stream that is gone; or ends
\* the stream with a status.
Goto(s, pc) == stream' = [stream EXCEPT ![s].pc = pc]

Return(s) == stream' = [stream EXCEPT ![s] = [Over EXCEPT !.down = stream[s].down]]

\* Fault variant: a batch that cannot be stored is logged and skipped.
EndSkip(s, code) == stream' = [stream EXCEPT ![s].pc = "recv"]

End(s, code) ==
    IF stream[s].lost THEN Return(s)
    ELSE stream' = [stream EXCEPT ![s] =
           [Over EXCEPT !.lost = FALSE, !.down = Append(stream[s].down, [code |-> code])]]

\* StreamMetricBatches: Recv, and validateMetricBatch.
Recv(s) ==
    LET x == stream[s] IN
    /\ x.pc = "recv" /\ x.up # <<>>
    /\ IF Head(x.up).valid
       THEN stream' = [stream EXCEPT ![s] =
                         [x EXCEPT !.up = Tail(@), !.batch = Head(x.up), !.pc = "store"]]
       ELSE End(s, "InvalidArgument")
    /\ UNCHANGED <<agent, tenants, directory, records, faults>>

\* Recv fails when the agent is gone; the handler returns.
RecvEnds(s) ==
    /\ stream[s].pc = "recv" /\ stream[s].up = <<>> /\ stream[s].lost
    /\ Return(s)
    /\ UNCHANGED <<agent, tenants, directory, records, faults>>

\* Fault variant: a configured code is taken without looking for the tenant.
ResolvedUnchecked(a) ==
    IF owner[HostOf[a]] # "" THEN owner[HostOf[a]] ELSE Load(FactsOf[a]).tenant

\* The tenant that ReportMetrics resolves for a: that of its host, or the code
\* of its configuration; "" when there is none (ErrTenantNotFound).
Resolved(a) ==
    LET code == IF AllowCustomTenantCode THEN Load(FactsOf[a]).tenant ELSE "" IN
    IF owner[HostOf[a]] # "" THEN owner[HostOf[a]]
    ELSE IF code \in tenants THEN code ELSE ""

\* ReportMetrics commits: one step of the directory.
Committed(s) ==
    LET b == stream[s].batch IN
    /\ IF b.agent \in instances THEN Store!Report(b.agent)
       ELSE Store!Register(b.agent, Resolved(b.agent))
    /\ commits' = [commits EXCEPT ![No(b)] = @ + 1]
    /\ stage' = [stage EXCEPT ![No(b)] = 1]

Storable(s) == stream[s].batch.agent \in instances \/ Resolved(stream[s].batch.agent) # ""

ReportMetrics(s) ==
    /\ stream[s].pc = "store" /\ Storable(s)
    /\ Committed(s)
    /\ Goto(s, "append")
    /\ UNCHANGED <<agent, tenants, stats, faults>>

\* Fault variant: a missing tenant is an internal error.
ReportWithoutTenantInternal(s) ==
    /\ stream[s].pc = "store" /\ ~Storable(s)
    /\ End(s, "Internal")
    /\ UNCHANGED <<agent, tenants, directory, records, faults>>

ReportWithoutTenant(s) ==
    /\ stream[s].pc = "store" /\ ~Storable(s)
    /\ End(s, "FailedPrecondition")
    /\ UNCHANGED <<agent, tenants, directory, records, faults>>

\* The calls use the stream's context: they may fail once the stream is gone.
MayFail(s) == IF stream[s].lost THEN faults' = faults ELSE Fault

\* The transaction fails, or the answer to its COMMIT is lost.
ReportFails(s) ==
    /\ stream[s].pc = "store"
    /\ MayFail(s)
    /\ \/ Storable(s) /\ Committed(s)
       \/ UNCHANGED <<directory, commits, stage>>
    /\ End(s, "Internal")
    /\ UNCHANGED <<agent, tenants, stats>>

\* The call at pc succeeds and leaves the batch in stage n.
Call(s, pc, next, n) ==
    /\ stream[s].pc = pc
    /\ Goto(s, next)
    /\ stage' = [stage EXCEPT ![No(stream[s].batch)] = n]
    /\ UNCHANGED <<agent, tenants, directory, commits, faults>>

AppendHeartbeatMetrics(s) == Call(s, "append", "save", 2) /\ UNCHANGED stats
SaveMetricSnapshot(s)     == Call(s, "save", "publish", 3) /\ UNCHANGED stats
PublishHostUpsert(s)      == Call(s, "publish", "send", 4) /\ stats' = stats + 1

\* Fault variant: a failed call after the commit is logged, the batch is acknowledged.
CallFailsQuietly(s) ==
    /\ stream[s].pc \in {"append", "save", "publish"}
    /\ MayFail(s)
    /\ Goto(s, "send")
    /\ UNCHANGED <<agent, tenants, directory, records>>

\* A call fails: the handler ends, what was done before stays.
CallFails(s) ==
    /\ stream[s].pc \in {"append", "save", "publish"}
    /\ MayFail(s)
    /\ End(s, "Internal")
    /\ UNCHANGED <<agent, tenants, directory, records>>

\* stream.Send of the acknowledgement; on a lost stream the handler ends.
SendAck(s) ==
    /\ stream[s].pc = "send"
    /\ IF stream[s].lost THEN Return(s)
       ELSE stream' = [stream EXCEPT ![s].pc = "recv",
                                     ![s].down = Append(@, [ack |-> stream[s].batch])]
    /\ UNCHANGED <<agent, tenants, directory, records, faults>>

\* The server restarts: its handlers are gone and its counters are new.
RestartServer ==
    /\ Fault
    /\ stats' = 0
    /\ \E keep \in BOOLEAN :
         stream' = [s \in Streams |-> IF keep THEN [Over EXCEPT !.down = stream[s].down] ELSE Over]
    /\ UNCHANGED <<agent, tenants, directory, commits, stage>>

-----------------------------------------------------------------------------

Init ==
    /\ agent = [pc |-> "off", id |-> 0, seq |-> 0, sink |-> 0]
    /\ stream = [s \in Streams |-> Over]
    /\ tenants \in SUBSET Tenants
    /\ Store!Init
    /\ commits = [n \in Numbers |-> 0]
    /\ stage = [n \in Numbers |-> 0]
    /\ stats = 0
    /\ faults = 0

Cycle ==
    \/ \E b \in Batch : Send(b) \/ \E s \in Streams : OpenAndSend(s, b)
    \/ SendFails

Answer == RecvAck \/ RecvStatus \/ RecvLost

Handle(s) ==
    \/ Recv(s) \/ RecvEnds(s) \/ ReportMetrics(s) \/ ReportWithoutTenant(s)
    \/ AppendHeartbeatMetrics(s) \/ SaveMetricSnapshot(s) \/ PublishHostUpsert(s)
    \/ SendAck(s)

Next ==
    \/ \E a \in Agents : Boot(a)
    \/ Cycle \/ OpenFails \/ Answer \/ Stop
    \/ \E s \in Streams : Handle(s) \/ ReportFails(s) \/ CallFails(s) \/ Lose(s)
    \/ RestartServer

Spec == Init /\ [][Next]_vars

\* The agent's ticker fires, a reply that has arrived and a connection that is
\* gone (TCP keepalive) are noticed, and the calls of a handler return.
Fairness ==
    /\ WF_vars(Cycle) /\ WF_vars(Answer)
    /\ \A s \in Streams : WF_vars(Handle(s))

FairSpec == Spec /\ Fairness

-----------------------------------------------------------------------------
(* Properties                                                              *)

\* Every variable has its type, and a host belongs to a tenant that exists.
TypeOK ==
    /\ agent \in [pc : {"off", "tick", "wait", "stopped"}, id : Agents \cup {0},
                  seq : 0..MaxSeq, sink : Streams \cup {0}]
    /\ stream \in [Streams -> [pc : {"recv", "store", "append", "save", "publish", "send", "ended"},
                               up : Seq(Batch), down : Seq(Reply), lost : BOOLEAN,
                               batch : Batch]]
    /\ tenants \subseteq Tenants
    /\ owner \in [Hosts -> tenants \cup {""}] /\ instances \subseteq Agents
    /\ health \in [Hosts -> {"absent", "up"}]
    /\ commits \in [Numbers -> Nat] /\ stage \in [Numbers -> 0..4] /\ stats \in Nat

\* Batches whose acknowledgement is on its way to the agent.
Acked == UNION {{No(r.ack) : r \in Range(stream[s].down) \cap [ack : Batch]} : s \in Streams}

\* An acknowledged batch is committed, in its windows and its snapshot, and has
\* been published, whatever failed, restarted or was lost on the way.
AckedMeansStored == \A n \in Acked : commits[n] > 0 /\ stage[n] = 4

\* No batch is stored twice: after a failure the agent cannot tell whether its
\* batch was stored, and does not send it again (pushMetrics).
StoredOnce == \A n \in Numbers : commits[n] <= 1

\* Between two cycles nothing is left in the agent's stream, and its handler is
\* waiting unless the connection is gone: the next acknowledgement belongs to
\* the next batch (pushMetricsGRPC).
SinkIsQuiet ==
    LET x == stream[agent.sink] IN
    agent.pc = "tick" /\ agent.sink # 0 =>
        x.up = <<>> /\ x.down = <<>> /\ (x.pc = "recv" \/ x.lost)

\* The agent gives up only where no report of it can ever be stored: a missing
\* configuration, or a tenant that does not exist (isFatalMetricError).  This is
\* for hosts whose configuration names the same tenant at every start.
FatalOnlyForTenant ==
    agent.pc = "stopped" /\ Loads(FactsOf[agent.id]) =>
        Resolved(agent.id) = "" /\ \A i \in 1..MaxSeq : commits[agent.id, i] = 0

\* The agent does not hang: Recv has no deadline, but every batch it waits for
\* is answered, refused or lost.
CyclesEnd == (agent.pc = "wait") ~> (agent.pc # "wait")

\* An agent whose tenant does not exist stops (TestRunStopsOnInvalidTenant),
\* although statuses get lost, unless it is stopped before.  It has a batch left
\* for that when MaxSeq > MaxFaults.
MissingTenantStops ==
    (agent.pc = "tick" /\ Resolved(agent.id) = "") ~> (agent.pc \in {"stopped", "off"})
=============================================================================
