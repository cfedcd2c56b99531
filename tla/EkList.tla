------------------------------- MODULE EkList -------------------------------
(***************************************************************************)
(* The intrusive doubly linked list of ek_list.h, seen as the sequence of  *)
(* the nodes met from head->next on.  A node is the object it is embedded  *)
(* in.  ListRemove and InsertBefore are the loops the scheduler and the     *)
(* event loop write over that list; inserting at the tail is Append,       *)
(* taking the first node is Head and Tail.                                 *)
(***************************************************************************)
EXTENDS Integers, Sequences, SequencesExt

\* ek_list_remove: unlink a node that is on the list.
ListRemove(list, n) == RemoveAt(list, CHOOSE i \in DOMAIN list : list[i] = n)

\* The ordered insertion: walk the list, insert before the first node of the
\* set `later`, at the tail when there is none.
InsertBefore(list, n, later) ==
  LET k == SelectInSeq(list, LAMBDA m : m \in later)
  IN  IF k = 0 THEN Append(list, n) ELSE InsertAt(list, k, n)

\* Node m is met before node n.
Precedes(list, m, n) ==
  \E i, j \in DOMAIN list : i < j /\ list[i] = m /\ list[j] = n
=============================================================================
