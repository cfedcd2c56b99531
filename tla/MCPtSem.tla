------------------------------ MODULE MCPtSem -------------------------------
(* Small instances of PtSem: a and b share a level, z is below them. *)
EXTENDS PtSem

CONSTANTS a, b, z, s1

MCPrio == [t \in Task |-> IF t = z THEN 1 ELSE 0]
=============================================================================
