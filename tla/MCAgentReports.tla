--------------------------- MODULE MCAgentReports ---------------------------
(* Constants for checking AgentReports. *)
EXTENDS AgentReports

Card(mac) == [name |-> "eth0", loopback |-> FALSE, mac |-> mac]

\* One machine: renamed, and later without a readable configuration.
Machine(name) ==
    [file |-> "text", configured |-> "", tenant |-> "t", hostname |-> name,
     etcID |-> "", dbusID |-> "m", interfaces |-> {Card("c1")}]

Starts == <<Machine("old"), Machine("new"), [Machine("new") EXCEPT !.file = "unreadable"]>>
=============================================================================
