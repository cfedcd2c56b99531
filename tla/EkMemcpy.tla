------------------------------ MODULE EkMemcpy ------------------------------
(***************************************************************************)
(* What the containers copy in and out with memcpy.  The copy takes time:   *)
(* while it is under way its target holds Torn, and so does the result of  *)
(* a copy whose source changed meanwhile.                                  *)
(***************************************************************************)
CONSTANTS
  Item,  \* what is stored
  Torn   \* half a copy, or the contents of memory nobody wrote

\* The result of a copy that saw `before` when it began and `after` at its end.
Copied(before, after) == IF before = after THEN after ELSE Torn
=============================================================================
