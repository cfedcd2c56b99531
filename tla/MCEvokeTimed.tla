---------------------------- MODULE MCEvokeTimed ----------------------------
(* A small instance of EvokeTimed. *)
EXTENDS EvokeTimed

CONSTANTS t1, e1, q1, q2
=============================================================================
