---------------------------- MODULE MCHostStore ----------------------------
(* Small instances of HostStore for TLC.                                   *)
EXTENDS HostStore, TLC

CONSTANTS a1, a2, t1, t2, f1, none

\* Two agents installed with different tenants on one host.
OneHost     == {1}
SharedHost  == [a \in {a1, a2} |-> 1]
TwoTenants  == [a \in {a1, a2} |-> IF a = a1 THEN t1 ELSE t2]
\* An agent that asks the server for a tenant and one that is configured.
FreshAndOwn == [a \in {a1, a2} |-> IF a = a1 THEN none ELSE t1]
\* One agent on each of two hosts.
TwoHosts    == {1, 2}
OwnHosts    == [a \in {a1, a2} |-> IF a = a1 THEN 1 ELSE 2]
OneTenant   == [a \in {a1, a2} |-> t1]

Symm == Permutations(Workers) \cup Permutations(Reconcilers)
=============================================================================
