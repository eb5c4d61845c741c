------------------------------ MODULE Identity ------------------------------
(***************************************************************************)
(* Who an agent says it is.  What a boot of the agent finds on its machine *)
(* is a record of facts: the configuration file, the host name, the two    *)
(* machine-id files ("" when absent) and the network interfaces.  A host   *)
(* UID is the hash of its parts, modelled by the parts: equal parts, equal *)
(* UIDs, and no collisions.                                                *)
(***************************************************************************)
EXTENDS Integers, FiniteSets

\* The first of the two files that holds an id.
machineID(facts) == IF facts.etcID # "" THEN facts.etcID ELSE facts.dbusID

\* The sorted list of addresses: each with the number of its occurrences.
listMACs(facts) ==
    LET wired == {i \in facts.interfaces : ~i.loopback /\ i.mac # ""} IN
    [m \in {i.mac : i \in wired} |-> Cardinality({i \in wired : i.mac = m})]

NoMACs == [m \in {} |-> 0]

\* The host name counts only when there is neither a machine id nor an address
\* (the operating system and the architecture of a machine do not change).
stableHostUID(hostname, machine, macs) ==
    [machine |-> machine, macs |-> macs,
     hostname |-> IF machine = "" /\ macs = NoMACs THEN hostname ELSE ""]

Discover(facts) ==
    [uid |-> stableHostUID(facts.hostname, machineID(facts), listMACs(facts)),
     hostname |-> facts.hostname]

\* A configured name replaces the name and every other part of the UID.
WithHostname(host, hostname) ==
    IF hostname = "" THEN host
    ELSE [uid |-> stableHostUID(hostname, "", NoMACs), hostname |-> hostname]

\* config.Load: an unreadable file ends the program; an empty one is all defaults.
Loads(facts) == facts.file # "unreadable"
Load(facts) ==
    IF facts.file = "empty" THEN [hostname |-> "", tenant |-> ""]
    ELSE [hostname |-> facts.configured, tenant |-> facts.tenant]

\* app.New: the host that this boot reports for.
HostOfBoot(facts) == WithHostname(Discover(facts), Load(facts).hostname).uid
=============================================================================
