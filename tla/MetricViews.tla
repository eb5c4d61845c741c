---------------------------- MODULE MetricViews ----------------------------
(***************************************************************************)
(* The way of a digest to those who read it: into the status row of a      *)
(* host, from there into snapshots, and out of these into what a user, a   *)
(* share or the demo is shown.  Each copy goes by its own table of names.  *)
(***************************************************************************)
EXTENDS Naturals

\* A Principal that reads: its kind, space, and the hosts and fields of a share.
CONSTANT Readers

ASSUME ReadersAssumption == \A p \in Readers : p.kind \in {"user", "share", "demo"}

-----------------------------------------------------------------------------
\* The field of a digest for the name of a point.
PointField ==
    [host_cpu_usage_pct |-> "CPUUsagePct", host_mem_used_pct |-> "MemUsedPct",
     host_mem_available_bytes |-> "MemAvailableBytes", host_swap_used_pct |-> "SwapUsedPct",
     host_disk_used_pct |-> "DiskUsedPct", host_disk_free_bytes |-> "DiskFreeBytes",
     host_disk_inodes_used_pct |-> "DiskInodesUsedPct",
     host_disk_read_bps |-> "DiskReadBPS", host_disk_write_bps |-> "DiskWriteBPS",
     host_disk_read_iops |-> "DiskReadIOPS", host_disk_write_iops |-> "DiskWriteIOPS",
     host_load1 |-> "Load1", host_net_rx_bps |-> "NetRxBPS", host_net_tx_bps |-> "NetTxBPS",
     host_net_rx_packets_ps |-> "NetRxPacketsPS", host_net_tx_packets_ps |-> "NetTxPacketsPS"]

AgentDigest == {PointField[n] : n \in DOMAIN PointField}

\* The metric keys, which are also the names of the values in a snapshot.
MetricKeys ==
    {"cpu_usage_pct", "mem_used_pct", "mem_available_bytes", "swap_used_pct", "disk_used_pct",
     "disk_free_bytes", "disk_inodes_used_pct", "disk_read_bps", "disk_write_bps",
     "disk_read_iops", "disk_write_iops", "load1", "net_rx_bps", "net_tx_bps",
     "net_rx_packets_ps", "net_tx_packets_ps"}

\* The field behind a key.
MetricField ==
    [cpu_usage_pct |-> "CPUUsagePct", mem_used_pct |-> "MemUsedPct",
     mem_available_bytes |-> "MemAvailableBytes", swap_used_pct |-> "SwapUsedPct",
     disk_used_pct |-> "DiskUsedPct", disk_free_bytes |-> "DiskFreeBytes",
     disk_inodes_used_pct |-> "DiskInodesUsedPct",
     disk_read_bps |-> "DiskReadBPS", disk_write_bps |-> "DiskWriteBPS",
     disk_read_iops |-> "DiskReadIOPS", disk_write_iops |-> "DiskWriteIOPS", load1 |-> "Load1",
     net_rx_bps |-> "NetRxBPS", net_tx_bps |-> "NetTxBPS",
     net_rx_packets_ps |-> "NetRxPacketsPS", net_tx_packets_ps |-> "NetTxPacketsPS"]

-----------------------------------------------------------------------------
(* The store                                                               *)

\* A status row without metrics, as registration leaves it, and with those of a digest.
NoMetrics == [lastMetricAt |-> 0, values |-> [f \in AgentDigest |-> 0]]
upsertDigestStatus(digest, now) == [lastMetricAt |-> now, values |-> [f \in AgentDigest |-> digest[f]]]

hostSnapshotFromModel(uid, host) ==
    [host_uid |-> uid, tenant_code |-> host.tenant, last_metric_at |-> host.status.lastMetricAt,
     metrics |-> [k \in MetricKeys |-> host.status.values[MetricField[k]]]]

\* The hosts of a space, or one of them.
listHosts(hosts, uids, tenant) ==
    {hostSnapshotFromModel(u, hosts[u]) : u \in {v \in uids : hosts[v].tenant = tenant}}

getHostByUID(hosts, uid, tenant) == listHosts(hosts, {uid}, tenant)

\* The latest MetricSnapshot of a host in Redis: all points and statuses of a batch.
NoSnapshot == [points |-> <<>>, collectors |-> <<>>]
SaveMetricSnapshot(req) == [points |-> req.points, collectors |-> req.statuses]

-----------------------------------------------------------------------------
(* Readers                                                                 *)

IsUser(p) == p.kind = "user" /\ p.tenant # ""

AllowsHost(p, tenant, uid) ==
    /\ p.tenant # "" /\ tenant = p.tenant
    /\ IsUser(p) \/ (p.kind \in {"share", "demo"} /\ uid \in p.hosts)

AllowsField(p, field) == IsUser(p) \/ field \in p.fields

validReader(p) ==
    /\ p.tenant # ""
    /\ IsUser(p) \/ (p.kind \in {"share", "demo"} /\ p.hosts # {} /\ p.fields # {})

ReadHosts(hosts, p) ==
    {s \in listHosts(hosts, DOMAIN hosts, p.tenant) : validReader(p) /\ AllowsHost(p, s.tenant_code, s.host_uid)}

ReadHost(hosts, p, uid) ==
    {s \in getHostByUID(hosts, uid, p.tenant) :
       /\ validReader(p)
       /\ AllowsHost(p, p.tenant, uid)
       /\ AllowsHost(p, s.tenant_code, s.host_uid)}

digestFromSnapshot(s) == [f \in AgentDigest |-> s.metrics[CHOOSE k \in MetricKeys : MetricField[k] = f]]
DigestMetricValues(digest) == [k \in MetricKeys |-> digest[MetricField[k]]]

\* ProjectHost: a user is shown the snapshot, others the metrics only if they were shared
\* and measured.
ProjectHost(p, s) ==
    CASE IsUser(p)                                          -> s.metrics
      [] AllowsField(p, "metrics") /\ s.last_metric_at # 0  -> DigestMetricValues(digestFromSnapshot(s))
      [] OTHER                                              -> <<>>

\* What the list of hosts and the first event of a stream show of each host.
ProjectHosts(p, S) == {<<s.host_uid, ProjectHost(p, s)>> : s \in S}

handleListHosts(hosts, p) == ProjectHosts(p, ReadHosts(hosts, p))
handleGetHost(hosts, p, uid) == {ProjectHost(p, s) : s \in ReadHost(hosts, p, uid)}

\* The full snapshot, on a route for users only; the snapshot is found by the UID alone.
handleGetLatestMetricSnapshot(hosts, p, uid) ==
    IF IsUser(p) /\ getHostByUID(hosts, uid, p.tenant) # {} THEN hosts[uid].snapshot ELSE NoSnapshot

latestMetricPointsFromSnapshot(s) ==
    IF s.last_metric_at = 0 THEN <<>>
    ELSE [k \in MetricKeys |-> [ts |-> s.last_metric_at, value |-> s.metrics[k]]]

\* What the stream adds to it, for those who may see metrics.
latestMetricPointsByHost(p, S) ==
    IF AllowsField(p, "metrics")
    THEN {<<s.host_uid, latestMetricPointsFromSnapshot(s)>> : s \in {t \in S : t.last_metric_at # 0}}
    ELSE {}

\* Nothing when it is forbidden, not found or not measured.
handlePublicLatestMetrics(hosts, p, uid) ==
    IF AllowsField(p, "metrics") /\ ReadHost(hosts, p, uid) # {}
    THEN latestMetricPointsFromSnapshot(CHOOSE s \in ReadHost(hosts, p, uid) : TRUE)
    ELSE <<>>

-----------------------------------------------------------------------------
(* What readers are promised                                               *)

\* Whom a host of the table may be shown, and who may see metrics.
MayRead(hosts, p, uid) ==
    p.tenant = hosts[uid].tenant /\ (p.kind = "user" \/ (uid \in p.hosts /\ p.fields # {}))

SeesMetrics(p) == p.kind = "user" \/ "metrics" \in p.fields

\* A reader is shown the hosts of its space that it may read and no other, the same in a
\* list and one by one, and no metrics that were not shared (ReadHosts, ReadHost and
\* ProjectHost).
ReadsAreScoped(hosts, p) ==
    /\ {shown[1] : shown \in handleListHosts(hosts, p)} = {uid \in DOMAIN hosts : MayRead(hosts, p, uid)}
    /\ \A uid \in DOMAIN hosts :
         handleGetHost(hosts, p, uid) = {shown[2] : shown \in {x \in handleListHosts(hosts, p) : x[1] = uid}}
    /\ ~SeesMetrics(p) => /\ latestMetricPointsByHost(p, ReadHosts(hosts, p)) = {}
                          /\ \A shown \in handleListHosts(hosts, p) : shown[2] = <<>>
=============================================================================
