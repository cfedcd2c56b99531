---------------------------- MODULE BoundedLifo -----------------------------
(***************************************************************************)
(* What ek_stack.h promises of a stack: last in, first out, at most Bound  *)
(* items, every call at one instant.                                       *)
(***************************************************************************)
EXTENDS Sequences, SequencesExt, Integers

CONSTANTS Item, Bound

VARIABLES
  stack,    \* the items, the top one last
  pushed,   \* what the last push returned
  popped    \* what the last pop returned: the item or EMPTY
lifoVars == <<stack, pushed, popped>>

Push(v) ==
  /\ Len(stack) < Bound
  /\ stack' = Append(stack, v) /\ pushed' = "OK"
  /\ UNCHANGED popped

PushFull == Len(stack) = Bound /\ pushed' = "FULL" /\ UNCHANGED <<stack, popped>>

Pop ==
  /\ stack # <<>>
  /\ popped' = Last(stack) /\ stack' = Front(stack)
  /\ UNCHANGED pushed

PopEmpty == stack = <<>> /\ popped' = "EMPTY" /\ UNCHANGED <<stack, pushed>>

LifoInit == stack = <<>> /\ pushed = "NEW" /\ popped = "NEW"

\* Deinitialised and initialised again.
Clear == LifoInit'

LifoNext == (\E v \in Item : Push(v)) \/ PushFull \/ Pop \/ PopEmpty \/ Clear

LifoSpec == LifoInit /\ [][LifoNext]_lifoVars
=============================================================================
