----------------------------- MODULE MCHostFeed -----------------------------
(* Instances of HostFeed for TLC.                                          *)
EXTENDS HostFeed

\* Two hosts of which the viewer may see one, or both.
First == [v \in Viewers |-> {1}]
Both  == [v \in Viewers |-> Hosts]
=============================================================================
