------------------------------ MODULE Sampler ------------------------------
(***************************************************************************)
(* One round of the agent's sampling and what the server makes of it: nine *)
(* collectors run in goroutines under one deadline and hand their results  *)
(* over a channel; Sample derives the summary and the rates from what has  *)
(* arrived; the batch is validated, its digest is read off its points, and *)
(* becomes the status of the host.                                         *)
(*                                                                         *)
(* A collector makes a few reads of the system, each of which may fail.    *)
(* Names and labels of points are kept where two points can be confused,   *)
(* the other fields of a reading stand for themselves in one point.        *)
(***************************************************************************)
EXTENDS Integers, Sequences, FiniteSetsExt, MetricViews

CONSTANTS
    Scenarios,   \* what the machine's readings are in each round
    Flaky,       \* bound: collectors that may fail or be late; the others are done at once
    MaxPoints,   \* maxMetricPoints of the server
    MayFail,     \* bound: the reads of flaky collectors that may fail
    Quiet,       \* bound: rounds in which no collector fails or is late
    MaxRounds    \* bound: rounds

ASSUME SamplerAssumption == MaxRounds \in Nat

-----------------------------------------------------------------------------
(* Points                                                                  *)

\* The elements of the sequences in ss, one sequence after the other.
Concat(ss) ==
    LET joined[n \in 0..Len(ss)] == IF n = 0 THEN <<>> ELSE joined[n - 1] \o ss[n]
    IN joined[Len(ss)]

\* A value that is no number; a label that validText refuses; no label.
NaN == -1
Odd == -2
None == 0

\* A MetricPoint, and the point of one field of a reading.
P(name, label, value) == [name |-> name, label |-> label, value |-> value]
Field(name, label) == P(name, label, 1)

\* Identical names and label sets (metricPointIdentity).
SamePoint(p, q) == p.name = q.name /\ p.label = q.label

\* Fault variant: everything is appended.
appendAllPoints(dst, extra) == dst \o extra

\* appendMetricPoints: the first point of an identity stays.
appendMetricPoints(dst, extra) ==
    LET New(i) == /\ \A j \in DOMAIN dst : ~SamePoint(extra[i], dst[j])
                  /\ \A j \in 1..(i - 1) : ~SamePoint(extra[i], extra[j])
    IN dst \o Concat([i \in DOMAIN extra |-> IF New(i) THEN <<extra[i]>> ELSE <<>>])

\* appendPoint leaves out what is no number.
appendPoint(p) == IF p.value = NaN THEN <<>> ELSE <<p>>

\* NaN fails both comparisons of clampPercent and passes.
clampPercent(v) == IF v > 100 THEN 100 ELSE v

-----------------------------------------------------------------------------
(* What the system tells in a round                                        *)

Counters == [1..2 -> Nat]

UsageStat == [path : STRING, label : Int, used : Int, free : Int, inodes : Int]
DiskStat == [label : Int, device : STRING, whole : BOOLEAN, bytes : Counters, ops : Counters]
InterfaceStat == [interface : Int, bytes : Counters, packets : Counters]

Readings ==
    [cores : Seq(Int), mem : Int, free : Int, swap : Int, load : Int,
     root : UsageStat, mounts : Seq(UsageStat), disks : Seq(DiskStat),
     interfaces : Seq(InterfaceStat), listed : Nat, sensors : Nat]

systemRootPath == "/"

\* The device an entry belongs to, and the devices that are not counted.
normalizeDiskName(disk) == disk.device
skipDiskCounter(device) == device = "loop"

\* The entry of a whole disk has the largest counters of its device, and there is one.
WholeDisks(disks) ==
    \A d \in disks :
      /\ \E e \in disks : e.whole /\ normalizeDiskName(e) = normalizeDiskName(d)
      /\ d.whole => \A e \in disks : normalizeDiskName(e) = normalizeDiskName(d) =>
                      \A k \in 1..2 : e.bytes[k] <= d.bytes[k] /\ e.ops[k] <= d.ops[k]

\* The system names an interface once.
DistinctInterfaces(interfaces) ==
    \A i, j \in DOMAIN interfaces : interfaces[i].interface = interfaces[j].interface => i = j

ASSUME ReadingsAssumption ==
    \A s \in Scenarios : \A r \in 1..MaxRounds :
      /\ s[r] \in Readings /\ s[r].root.path = systemRootPath
      /\ DistinctInterfaces(s[r].interfaces)
      /\ WholeDisks(Range(s[r].disks))

-----------------------------------------------------------------------------
(* The collectors                                                          *)

collectors == <<"host", "cpu", "memory", "swap", "load", "filesystem", "disk_io",
                "network", "sensors">>
Names == Range(collectors)

\* The mounted file systems, the root among them whether it is listed or not, each once.
Mounts(w) ==
    LET listed == \E i \in DOMAIN w.mounts : w.mounts[i].path = systemRootPath
        all == IF listed THEN w.mounts ELSE w.mounts \o <<w.root>>
    IN Concat([i \in DOMAIN all |->
                 IF \E j \in 1..(i - 1) : all[j].path = all[i].path THEN <<>> ELSE <<all[i]>>])

\* The reads that a collector makes.  When one in Needed fails it returns at once,
\* after any other it goes on.
Reads(c, w) ==
    CASE c = "cpu"        -> {"logical", "physical", "percent", "times", "info"}
      [] c = "load"       -> {"avg", "misc"}
      [] c = "filesystem" -> {"partitions"} \cup {m.path : m \in Range(Mounts(w))}
      [] c = "network"    -> {"counters", "interfaces", "protocols", "filter", "conntrack"}
      [] OTHER            -> {"counters"}

Needed(c) == CASE c \in {"cpu", "load"} -> {} [] c = "filesystem" -> {"partitions"}
               [] OTHER -> {"counters"}

\* The points of a collector for each read that did not fail, in order.
If(read, failed, points) ==
    IF read \in failed THEN <<>> ELSE Concat([i \in DOMAIN points |-> appendPoint(points[i])])

collectHostMetrics(w, failed) ==
    <<Field("host_uptime_seconds", None), Field("host_boot_time_seconds", None)>>

collectCPUMetrics(w, failed) ==
    LET Each(name) == [i \in DOMAIN w.cores |-> Field(name, i)] IN
       If("logical", failed, <<Field("host_cpu_logical_count", None)>>)
    \o If("physical", failed, <<Field("host_cpu_physical_count", None)>>)
    \o If("percent", failed, [i \in DOMAIN w.cores |->
                                P("host_cpu_usage_pct", i, clampPercent(w.cores[i]))])
    \o If("times", failed, Each("host_cpu_time_user_seconds"))
    \o If("info", failed, Each("host_cpu_frequency_mhz"))

collectMemoryMetrics(w, failed) ==
    appendPoint(P("host_mem_available_bytes", None, w.free)) \o appendPoint(P("host_mem_used_pct", None, w.mem))

collectSwapMetrics(w, failed) == appendPoint(P("host_swap_used_pct", None, w.swap))

collectLoadMetrics(w, failed) ==
       If("avg", failed, <<P("host_load1", None, w.load), Field("host_load5", None)>>)
    \o If("misc", failed, <<Field("host_scheduler_procs_total", None)>>)

appendFilesystemUsage(m) ==
    <<Field("host_filesystem_total_bytes", m.label), P("host_filesystem_used_pct", m.label, m.used)>>

collectFilesystemMetrics(w, failed) ==
    LET mounts == Mounts(w) IN
    Concat([i \in DOMAIN mounts |-> If(mounts[i].path, failed, appendFilesystemUsage(mounts[i]))])

collectDiskIOMetrics(w, failed) ==
    [i \in DOMAIN w.disks |-> Field("host_disk_io_read_bytes_total", w.disks[i].label)]

collectNetworkMetrics(w, failed) ==
       [i \in DOMAIN w.interfaces |-> Field("host_net_bytes_recv_total", w.interfaces[i].interface)]
    \o If("interfaces", failed, [i \in 1..w.listed |-> Field("host_net_interface_index", i)])
    \o If("protocols", failed, <<Field("host_net_protocol_in_segs_total", None)>>)
    \o If("filter", failed, <<Field("host_net_filter_conn_track_count", None)>>)
    \o If("conntrack", failed, <<Field("host_net_conntrack_entries_total", None)>>)

collectSensorMetrics(w, failed) ==
    [i \in 1..w.sensors |-> Field("host_sensor_temperature_celsius", i)]

\* What collector c returns when the reads in failed have failed.
run(c, w, failed) ==
    IF failed \cap Needed(c) # {} THEN <<>>
    ELSE CASE c = "host"       -> collectHostMetrics(w, failed)
           [] c = "cpu"        -> collectCPUMetrics(w, failed)
           [] c = "memory"     -> collectMemoryMetrics(w, failed)
           [] c = "swap"       -> collectSwapMetrics(w, failed)
           [] c = "load"       -> collectLoadMetrics(w, failed)
           [] c = "filesystem" -> collectFilesystemMetrics(w, failed)
           [] c = "disk_io"    -> collectDiskIOMetrics(w, failed)
           [] c = "network"    -> collectNetworkMetrics(w, failed)
           [] c = "sensors"    -> collectSensorMetrics(w, failed)

\* The mean usage of the cores.
meanUsage(w) ==
    LET u == [i \in DOMAIN w.cores |-> clampPercent(w.cores[i])] IN
    IF u = <<>> THEN 0
    ELSE IF NaN \in Range(u) THEN NaN
    ELSE SumFunction(u) \div Len(u)

\* The parts of the structured metrics, as far as the summary reads them.
CpuMetrics(w, failed) == [usagePct |-> IF "percent" \in failed THEN 0 ELSE meanUsage(w)]
MemoryMetrics(w) == [usedPct |-> w.mem, availableBytes |-> w.free]
SwapMetrics(w) == [usedPct |-> w.swap]
LoadMetrics(w, failed) == [load1 |-> IF "avg" \in failed THEN 0 ELSE w.load]
FilesystemMetrics(m) == [mountpoint |-> m.path, usedPct |-> m.used, freeBytes |-> m.free, inodesUsedPct |-> m.inodes]
DiskIOMetrics(d) == [device |-> d.device, entry |-> d.label, bytes |-> d.bytes, ops |-> d.ops]
NetworkInterfaceMetrics(i, bytes, packets) == [interface |-> i, bytes |-> bytes, packets |-> packets]

\* An interface that is listed and has no counters is there with zeros.
InterfaceMetrics(w, failed) ==
    LET counters == Range(w.interfaces)
        counted  == {NetworkInterfaceMetrics(i.interface, i.bytes, i.packets) : i \in counters}
        listed   == IF "interfaces" \in failed THEN {} ELSE 1..w.listed \ {i.interface : i \in counters}
    IN counted \cup {NetworkInterfaceMetrics(l, <<0, 0>>, <<0, 0>>) : l \in listed}

-----------------------------------------------------------------------------
(* The summary of a round                                                  *)

\* The values of the AgentDigest by the name of the point that carries each, in the
\* order in which pushMetrics lists them.
digestPoints ==
    <<"host_cpu_usage_pct", "host_mem_used_pct", "host_mem_available_bytes",
      "host_swap_used_pct", "host_disk_used_pct", "host_disk_free_bytes",
      "host_disk_inodes_used_pct", "host_disk_read_bps", "host_disk_write_bps",
      "host_disk_read_iops", "host_disk_write_iops", "host_load1", "host_net_rx_bps",
      "host_net_tx_bps", "host_net_rx_packets_ps", "host_net_tx_packets_ps">>
DigestNames == Range(digestPoints)

\* calculateRate: both rates of a pair are zero on the first sample and when either
\* counter went back.
calculateRate(prev, cur, prevAt, now) ==
    IF prevAt = 0 \/ now <= prevAt \/ \E i \in 1..2 : cur[i] < prev[i] THEN <<0, 0>>
    ELSE [i \in 1..2 |-> (cur[i] - prev[i]) \div (now - prevAt)]

\* A pair of counters, the field f, added up over S.
Sum(S, f) == [k \in 1..2 |-> SumFunction([x \in S |-> x[f][k]])]

\* The disk counters added up over the devices: the largest of the entries of a device.
sumStructuredDiskCounters(disks, f) ==
    LET Devices == {v \in {normalizeDiskName(d) : d \in disks} : ~skipDiskCounter(v)}
        Most(v, k) == Max({d[f][k] : d \in {e \in disks : normalizeDiskName(e) = v}})
    IN [k \in 1..2 |-> SumFunction([v \in Devices |-> Most(v, k)])]

\* What the sampler remembers of the last round that had network and disk counters.
NoSample == [bytes |-> <<0, 0>>, count |-> <<0, 0>>, at |-> 0]

-----------------------------------------------------------------------------
VARIABLES
    scenario,  \* the readings of the machine, one record per round
    round,     \* the current round
    phase,     \* "idle", "collecting", "collected"
    expired,   \* the deadline of the current round has passed
    go,        \* the goroutines of every round: what each is doing, and its result
    chan,      \* resultCh of every round
    byName,    \* the round whose result the current one has from a collector, 0 for none
    prevNet,   \* the sampler's memory of the network counters
    prevDisk,  \* and of the disk counters
    used,      \* history: the rounds whose network and disk counters were used
    batch,     \* the last batch sent
    status,    \* the status row of the host, with the digest of the last batch it took
    snapshot   \* the snapshot of that batch in Redis

vars == <<scenario, round, phase, expired, go, chan, byName, prevNet, prevDisk, used, batch, status, snapshot>>

Rounds == 1..MaxRounds
NotStarted == [pc |-> "none", points |-> <<>>, failed |-> {}, timedOut |-> FALSE]
FlakyIn(r) == IF r \in Quiet THEN {} ELSE Flaky
Over == [NotStarted EXCEPT !.pc = "done"]
NoBatch == [points |-> <<>>, statuses |-> <<>>, capabilities |-> {}, digest |-> <<>>]

Init ==
    /\ scenario \in Scenarios
    /\ round = 0
    /\ phase = "idle"
    /\ expired = FALSE
    /\ go = [r \in Rounds |-> [c \in Names |-> NotStarted]]
    /\ chan = [r \in Rounds |-> {}]
    /\ byName = [c \in Names |-> 0]
    /\ prevNet = NoSample
    /\ prevDisk = NoSample
    /\ used = [net |-> {}, disk |-> {}]
    /\ batch = NoBatch
    /\ status = NoMetrics
    /\ snapshot = NoSnapshot

\* Fault variants: a shorter channel; one channel for the life of the sampler.
CapacityOne == 1
ChanShared(r) == 1

\* The capacity of resultCh; the channel of round r.
Capacity == Len(collectors)
ChanOf(r) == r

\* The next cycle calls Sample, which starts a goroutine for every collector.  What the
\* results of earlier rounds were is forgotten.
Start ==
    /\ phase = "idle"
    /\ round < MaxRounds
    /\ round' = round + 1
    /\ phase' = IF FlakyIn(round + 1) = {} THEN "collected" ELSE "collecting"
    /\ expired' = FALSE
    /\ go' = [r \in Rounds |-> [c \in Names |->
                IF r = round + 1
                THEN IF c \in FlakyIn(r) THEN [NotStarted EXCEPT !.pc = "reading"]
                     ELSE [Over EXCEPT !.points = run(c, scenario[r], {})]
                ELSE IF go[r][c].pc = "done" THEN Over ELSE go[r][c]]]
    /\ byName' = [c \in Names |-> IF c \in FlakyIn(round + 1) THEN 0 ELSE round + 1]
    /\ batch' = NoBatch
    /\ UNCHANGED <<scenario, chan, prevNet, prevDisk, used, status, snapshot>>

\* A collector has made its reads.  The goroutine notes whether the deadline has passed.
\* Nobody looks at the result of a round that is over, so it has no failures to tell apart.
Read(r, c) ==
    /\ go[r][c].pc = "reading"
    /\ \E failed \in SUBSET (Reads(c, scenario[r]) \cap MayFail) :
         /\ (r = round /\ phase = "collecting") \/ failed = {}
         /\ failed \subseteq Needed(c) \/ failed \cap Needed(c) = {}
         /\ go' = [go EXCEPT ![r][c] = [pc |-> "sending", points |-> run(c, scenario[r], failed),
                                        failed |-> failed, timedOut |-> r < round \/ expired]]
    /\ UNCHANGED <<scenario, round, phase, expired, chan, byName, prevNet, prevDisk, used, batch, status, snapshot>>

\* It sends its result, also when nobody receives any more.
Send(r, c) ==
    /\ go[r][c].pc = "sending"
    /\ Cardinality(chan[ChanOf(r)]) < Capacity
    /\ go' = [go EXCEPT ![r][c].pc = "done"]
    /\ chan' = [chan EXCEPT ![ChanOf(r)] = @ \cup {<<r, c>>}]
    /\ UNCHANGED <<scenario, round, phase, expired, byName, prevNet, prevDisk, used, batch, status, snapshot>>

\* collectExtendedMetrics receives a result, and is done with the last one.
Receive ==
    /\ phase = "collecting"
    /\ \E m \in chan[ChanOf(round)] :
         /\ chan' = [chan EXCEPT ![ChanOf(round)] = @ \ {m}]
         /\ byName' = [byName EXCEPT ![m[2]] = m[1]]
         /\ phase' = IF \A c \in Names : byName'[c] # 0 THEN "collected" ELSE phase
    /\ UNCHANGED <<scenario, round, expired, go, prevNet, prevDisk, used, batch, status, snapshot>>

\* maxCollectionDuration is over.
Expire ==
    /\ phase = "collecting"
    /\ ~expired
    /\ expired' = TRUE
    /\ UNCHANGED <<scenario, round, phase, go, chan, byName, prevNet, prevDisk, used, batch, status, snapshot>>

\* Fault variant: it waits for all results.
GiveUpWhenDone ==
    /\ phase = "collecting"
    /\ expired
    /\ \A c \in Names : byName[c] # 0
    /\ phase' = "collected"
    /\ UNCHANGED <<scenario, round, expired, go, chan, byName, prevNet, prevDisk, used, batch, status, snapshot>>

\* It stops waiting: select may also still take a result that is there.
GiveUp ==
    /\ phase = "collecting"
    /\ expired
    /\ phase' = "collected"
    /\ UNCHANGED <<scenario, round, expired, go, chan, byName, prevNet, prevDisk, used, batch, status, snapshot>>

-----------------------------------------------------------------------------
(* The batch of the results in byName                                      *)

Completed(c) == byName[c] # 0
W(c) == scenario[byName[c]]
Failed(c) == go[byName[c]][c].failed
Points(c) == IF Completed(c) THEN go[byName[c]][c].points ELSE <<>>

State(c) ==
    CASE Points(c) = <<>>                         -> "unavailable"
      [] Points(c) # <<>> /\ Failed(c) # {}       -> "degraded"
      [] OTHER                                    -> "available"

Present(c) == State(c) # "unavailable"

uniqueMetricNames(points) == {p.name : p \in Range(points)}

\* A CollectorStatus.
Status(c) ==
    [name |-> c, state |-> State(c), metricNames |-> uniqueMetricNames(Points(c)),
     timedOut |-> ~Completed(c) \/ go[byName[c]][c].timedOut]

\* The points of the collectors in their fixed order.
ExtraPoints ==
    Concat([i \in DOMAIN collectors |-> IF Present(collectors[i]) THEN Points(collectors[i]) ELSE <<>>])

\* The structured metrics: the parts of the collectors that are present.
SystemMetrics ==
    LET Part(c, S) == IF Present(c) THEN S ELSE {} IN
    [cpu         |-> Part("cpu", {CpuMetrics(W("cpu"), Failed("cpu"))}),
     memory      |-> Part("memory", {MemoryMetrics(W("memory"))}),
     swap        |-> Part("swap", {SwapMetrics(W("swap"))}),
     load        |-> Part("load", {LoadMetrics(W("load"), Failed("load"))}),
     filesystems |-> Part("filesystem", {FilesystemMetrics(m) :
                       m \in {n \in Range(Mounts(W("filesystem"))) : n.path \notin Failed("filesystem")}}),
     disks       |-> Part("disk_io", {DiskIOMetrics(d) : d \in Range(W("disk_io").disks)}),
     interfaces  |-> Part("network", InterfaceMetrics(W("network"), Failed("network")))]

\* The counters of a round as calculateRate takes them.
NetSample(system) == [bytes |-> Sum(system.interfaces, "bytes"),
                      count |-> Sum(system.interfaces, "packets"), at |-> round]
DiskSample(system) == [bytes |-> sumStructuredDiskCounters(system.disks, "bytes"),
                       count |-> sumStructuredDiskCounters(system.disks, "ops"), at |-> round]

\* Sample: the summary of the parts that are there, all else is zero.
Sample(system) ==
    LET Of(part, f(_)) == IF part = {} THEN 0 ELSE f(CHOOSE x \in part : TRUE)
        root == {f \in system.filesystems : f.mountpoint = systemRootPath}
        Rate(part, prev, cur) == IF part = {} THEN [bytes |-> <<0, 0>>, count |-> <<0, 0>>]
                                 ELSE [k \in {"bytes", "count"} |-> calculateRate(prev[k], cur[k], prev.at, round)]
        net  == Rate(system.interfaces, prevNet, NetSample(system))
        disk == Rate(system.disks, prevDisk, DiskSample(system))
    IN [n \in DigestNames |->
          CASE n = "host_cpu_usage_pct"        -> Of(system.cpu, LAMBDA x : clampPercent(x.usagePct))
            [] n = "host_mem_used_pct"         -> Of(system.memory, LAMBDA x : clampPercent(x.usedPct))
            [] n = "host_mem_available_bytes"  -> Of(system.memory, LAMBDA x : x.availableBytes)
            [] n = "host_swap_used_pct"        -> Of(system.swap, LAMBDA x : clampPercent(x.usedPct))
            [] n = "host_disk_used_pct"        -> Of(root, LAMBDA x : clampPercent(x.usedPct))
            [] n = "host_disk_free_bytes"      -> Of(root, LAMBDA x : x.freeBytes)
            [] n = "host_disk_inodes_used_pct" -> Of(root, LAMBDA x : clampPercent(x.inodesUsedPct))
            [] n = "host_load1"                -> Of(system.load, LAMBDA x : IF x.load1 > 0 THEN x.load1 ELSE 0)
            [] n = "host_net_rx_bps"           -> net["bytes"][1]
            [] n = "host_net_tx_bps"           -> net["bytes"][2]
            [] n = "host_net_rx_packets_ps"    -> net["count"][1]
            [] n = "host_net_tx_packets_ps"    -> net["count"][2]
            [] n = "host_disk_read_bps"        -> disk["bytes"][1]
            [] n = "host_disk_write_bps"       -> disk["bytes"][2]
            [] n = "host_disk_read_iops"       -> disk["count"][1]
            [] n = "host_disk_write_iops"      -> disk["count"][2]]

\* The points of the summary, which pushMetrics puts before those of the collectors.
SummaryPoints(d) ==
    <<Field("runtime_uptime_seconds", None)>>
      \o [i \in DOMAIN digestPoints |-> P(digestPoints[i], None, d[digestPoints[i]])]

-----------------------------------------------------------------------------
(* The server                                                              *)

\* The request on the wire has the summary and the structured metrics; the server takes
\* neither of them over.
toProtoPushMetricBatchRequest(b, system) ==
    [points |-> b.points, statuses |-> b.statuses, capabilities |-> b.capabilities, digest |-> b.digest,
     systemMetrics |-> system]

fromProtoPushMetricBatchRequest(req) ==
    [points |-> req.points, statuses |-> req.statuses, capabilities |-> req.capabilities]

validMetricBatch(req) ==
    /\ Len(req.points) <= MaxPoints
    /\ \A p \in Range(req.points) : p.value # NaN /\ p.label # Odd

\* digestFromMetricBatch: the last point of a name, whatever its labels.
digestFromMetricBatch(req) ==
    [f \in AgentDigest |->
       LET I == {i \in DOMAIN req.points : req.points[i].name \in DOMAIN PointField /\ PointField[req.points[i].name] = f}
       IN IF I = {} THEN 0 ELSE req.points[Max(I)].value]

\* Fault variant: the time moves on in a round without counters.
RememberTime(kept, part, sample) == IF part # {} THEN sample ELSE [kept EXCEPT !.at = sample.at]

\* Only a round with counters moves the memory on.
Remember(kept, part, sample) == IF part # {} THEN sample ELSE kept

\* sendCycle goes on: Sample derives the summary and remembers the counters, pushMetrics
\* sends the batch, and the server takes it or refuses it.
Push ==
    /\ phase = "collected"
    /\ phase' = "idle"
    /\ \E system \in {SystemMetrics} :
         /\ \E d \in {Sample(system)} : \E dst \in {SummaryPoints(d)}, extra \in {ExtraPoints} :
            \E b \in {[points |-> appendMetricPoints(dst, extra),
                       statuses |-> [i \in DOMAIN collectors |-> Status(collectors[i])],
                       capabilities |-> {c \in Names : Present(c)}, digest |-> d]} :
            \E req \in {fromProtoPushMetricBatchRequest(toProtoPushMetricBatchRequest(b, system))} :
              /\ batch' = b
              /\ IF validMetricBatch(req)
                 THEN /\ status' = upsertDigestStatus(digestFromMetricBatch(req), round)
                      /\ snapshot' = SaveMetricSnapshot(req)
                 ELSE UNCHANGED <<status, snapshot>>
         /\ prevNet' = Remember(prevNet, system.interfaces, NetSample(system))
         /\ prevDisk' = Remember(prevDisk, system.disks, DiskSample(system))
         /\ used' = [net  |-> IF system.interfaces # {} THEN used.net \cup {round} ELSE used.net,
                     disk |-> IF system.disks # {} THEN used.disk \cup {round} ELSE used.disk]
    /\ UNCHANGED <<scenario, round, expired, go, chan, byName>>

Next ==
    \/ Start
    \/ \E r \in Rounds, c \in Names : Read(r, c) \/ Send(r, c)
    \/ Receive
    \/ Expire
    \/ GiveUp
    \/ Push

Spec == Init /\ [][Next]_vars

\* The goroutine that collects goes on, timers fire, and a send that stays possible is
\* made.  Nothing is assumed of the reads: one may hang for ever.
FairSpec ==
    /\ Spec
    /\ WF_vars(Receive \/ GiveUp)
    /\ WF_vars(Expire)
    /\ \A r \in Rounds \ Quiet, c \in Flaky : WF_vars(Send(r, c))

-----------------------------------------------------------------------------
(* Properties                                                              *)

Sent == phase = "idle" /\ round > 0

\* What the batch says of a collector is what happened to it in this very round: its
\* values were read in this round, it is available only if every read succeeded, a
\* collector the round did not wait for is unavailable and marked timed out, none is
\* before the deadline, and capabilities name the collectors that are not unavailable
\* (collectExtendedMetrics; docs/agent-adaptive-collection.md, lines 25 and 42).
StatusesOfRound ==
    Sent => \A i \in DOMAIN batch.statuses :
      LET s == batch.statuses[i] IN
      /\ byName[s.name] \in {0, round}
      /\ s.state # "unavailable" <=> s.name \in batch.capabilities
      /\ s.state = "available" => go[round][s.name].failed = {}
      /\ (byName[s.name] = 0) => s.timedOut /\ s.state = "unavailable"
      /\ s.timedOut => expired

\* And it is unavailable when and only when it put no point into the batch.
StatusesAreTrue ==
    /\ StatusesOfRound
    /\ Sent => \A i \in DOMAIN batch.statuses :
         LET s == batch.statuses[i]
             Own == {p \in Range(batch.points) : p.name \in s.metricNames} IN
         /\ (s.state = "unavailable") <=> (s.metricNames = {})
         /\ s.state # "unavailable" => Own # {}

\* A pair of counters of the machine: added up over its interfaces, and over the entries
\* of whole disks.
NetCounters(w, f) == Sum(Range(w.interfaces), f)
DiskCounters(w, f) ==
    LET Whole(v) == CHOOSE d \in Range(w.disks) : d.device = v /\ d.whole
        Devices  == {d.device : d \in Range(w.disks)} \ {"loop"}
    IN [k \in 1..2 |-> SumFunction([v \in Devices |-> Whole(v)[f][k]])]

\* The growth of a pair of counters per second.
Grown(cur, prev, seconds) ==
    IF \E k \in 1..2 : cur[k] < prev[k] THEN <<0, 0>>
    ELSE [k \in 1..2 |-> (cur[k] - prev[k]) \div seconds]

\* The two values of the digest are the growth of the counters since the last of the
\* rounds that had them, and zero without such a round or in a round without them.
HonestRate(rounds, counters, names) ==
    LET before == Max(rounds \ {round}) IN
    \A k \in 1..2 :
      batch.digest[names[k]] =
        IF rounds \ {round} = {} \/ round \notin rounds THEN 0
        ELSE Grown(counters[round], counters[before], round - before)[k]

\* A reported rate is the growth of the counters since the last round that had them,
\* over the time since that round: rounds without a result and counters that start
\* again neither inflate a rate nor move traffic into a shorter interval
\* (Sample and calculateRate).
RatesAreHonest ==
    LET Net(f)  == [r \in Rounds |-> NetCounters(scenario[r], f)]
        Disk(f) == [r \in Rounds |-> DiskCounters(scenario[r], f)]
    IN Sent =>
       /\ HonestRate(used.net, Net("bytes"), <<"host_net_rx_bps", "host_net_tx_bps">>)
       /\ HonestRate(used.net, Net("packets"), <<"host_net_rx_packets_ps", "host_net_tx_packets_ps">>)
       /\ HonestRate(used.disk, Disk("bytes"), <<"host_disk_read_bps", "host_disk_write_bps">>)
       /\ HonestRate(used.disk, Disk("ops"), <<"host_disk_read_iops", "host_disk_write_iops">>)

\* The hosts of the installation: the one of this agent, and one in another space.
Hosts ==
    [own   |-> [tenant |-> "space", status |-> status, snapshot |-> snapshot],
     other |-> [tenant |-> "elsewhere", status |-> NoMetrics, snapshot |-> NoSnapshot]]

\* The key under which a value of the summary is known to readers.
ShownAs ==
    [host_cpu_usage_pct |-> "cpu_usage_pct", host_mem_used_pct |-> "mem_used_pct",
     host_mem_available_bytes |-> "mem_available_bytes", host_swap_used_pct |-> "swap_used_pct",
     host_disk_used_pct |-> "disk_used_pct", host_disk_free_bytes |-> "disk_free_bytes",
     host_disk_inodes_used_pct |-> "disk_inodes_used_pct",
     host_disk_read_bps |-> "disk_read_bps", host_disk_write_bps |-> "disk_write_bps",
     host_disk_read_iops |-> "disk_read_iops", host_disk_write_iops |-> "disk_write_iops",
     host_load1 |-> "load1", host_net_rx_bps |-> "net_rx_bps", host_net_tx_bps |-> "net_tx_bps",
     host_net_rx_packets_ps |-> "net_rx_packets_ps", host_net_tx_packets_ps |-> "net_tx_packets_ps"]

\* Everybody who may see the metrics of a host is shown, in lists, alone and as latest
\* points, the summary that its agent computed for the last batch that was taken, in every
\* value but the CPU usage, and users of its space every point and status of that batch;
\* others are shown no metrics, and no reader a host of another space or outside a share
\* (from pushMetrics to ProjectHost and handlePublicLatestMetrics).
ShownIsSampled ==
    Sent => \A p \in Readers :
      LET may == MayRead(Hosts, p, "own")
          latest == handlePublicLatestMetrics(Hosts, p, "own") IN
      /\ ReadsAreScoped(Hosts, p)
      /\ status.lastMetricAt = round /\ may /\ SeesMetrics(p) =>
           /\ <<"own", latest>> \in latestMetricPointsByHost(p, ReadHosts(Hosts, p))
           /\ \A n \in DigestNames \ {"host_cpu_usage_pct"} :
                /\ latest[ShownAs[n]] = [ts |-> round, value |-> batch.digest[n]]
                /\ \A shown \in handleGetHost(Hosts, p, "own") : shown[ShownAs[n]] = batch.digest[n]
      /\ status.lastMetricAt = round =>
           handleGetLatestMetricSnapshot(Hosts, p, "own") =
             IF p.kind = "user" /\ may THEN [points |-> batch.points, collectors |-> batch.statuses]
             ELSE NoSnapshot

\* And the CPU usage too: the digest is generated from the compatible metrics
\* (docs/agent-adaptive-collection.md, line 7).
CPUKept ==
    Sent /\ status.lastMetricAt = round => status.values["CPUUsagePct"] = batch.digest["host_cpu_usage_pct"]

\* Collecting ends, also when a read hangs (maxCollectionDuration).
CollectingEnds == (phase = "collecting") ~> (phase = "collected")

\* A goroutine that has a result gets rid of it and ends, also when its round is long over
\* (the buffer of resultCh).
SendersFinish ==
    \A r \in Rounds \ Quiet, c \in Flaky : (go[r][c].pc = "sending") ~> (go[r][c].pc = "done")

=============================================================================
