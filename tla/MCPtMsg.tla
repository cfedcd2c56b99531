------------------------------ MODULE MCPtMsg -------------------------------
(* Small instances of PtMsg: a and b share a level, z is above them. *)
EXTENDS PtMsg

CONSTANTS a, b, z, m1

MCPrio == [t \in Task |-> IF t = z THEN 0 ELSE 1]
MCWaitObj == Msg \X Side
SamePrio == Permutations({a, b})
=============================================================================
