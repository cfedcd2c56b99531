------------------------------ MODULE MCEvoke -------------------------------
(* Small instances of Evoke. *)
EXTENDS Evoke

CONSTANTS t1, t2, e1, q1, q2

Names == Permutations(Task) \cup Permutations(Req)
=============================================================================
