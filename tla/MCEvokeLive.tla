---------------------------- MODULE MCEvokeLive -----------------------------
(* A small instance of EvokeLive. *)
EXTENDS EvokeLive

CONSTANTS t1, t2, e1, q1, q2
=============================================================================
