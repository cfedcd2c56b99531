----------------------------- MODULE MCPtSched ------------------------------
(* Small instances of PtSched: a and b share a level, z is below them. *)
EXTENDS PtSched

CONSTANTS a, b, z

MCPrio == [t \in Task |-> IF t = z THEN 1 ELSE 0]
=============================================================================
