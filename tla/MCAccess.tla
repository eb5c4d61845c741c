------------------------------ MODULE MCAccess ------------------------------
(* Constants for checking Access. *)
EXTENDS Access, TLC

Symm == Permutations(Requests)
OwnAddress == [b \in Browsers |-> b]
=============================================================================
