--------------------------- MODULE HostDirectory ---------------------------
(***************************************************************************)
(* What the host store promises its callers: a directory in which a host   *)
(* appears complete (an owning tenant, an agent instance and a health) and *)
(* changes in single atomic steps.                                         *)
(***************************************************************************)
CONSTANTS Hosts, Agents, HostOf, Tenants, NoTenant

VARIABLES owner, instances, health

dirVars == <<owner, instances, health>>

Known == {h \in Hosts : owner[h] # NoTenant}

Init ==
    /\ owner = [h \in Hosts |-> NoTenant]
    /\ instances = {}
    /\ health = [h \in Hosts |-> "absent"]

\* Agent a enters its host into the directory of tenant t, or enters it again.
Register(a, t) ==
    /\ owner' = [owner EXCEPT ![HostOf[a]] = t]
    /\ instances' = instances \cup {a}
    /\ health' = [health EXCEPT ![HostOf[a]] = "up"]

\* A known agent reports: its host is up.
Report(a) ==
    /\ a \in instances
    /\ health' = [health EXCEPT ![HostOf[a]] = "up"]
    /\ UNCHANGED <<owner, instances>>

\* Known hosts are declared offline together.
MarkOffline(S) ==
    /\ S \subseteq Known
    /\ health' = [h \in Hosts |-> IF h \in S THEN "offline" ELSE health[h]]
    /\ UNCHANGED <<owner, instances>>

Next ==
    \/ \E a \in Agents, t \in Tenants : Register(a, t)
    \/ \E a \in Agents : Report(a)
    \/ \E S \in SUBSET Hosts : MarkOffline(S)

Spec == Init /\ [][Next]_dirVars
=============================================================================
