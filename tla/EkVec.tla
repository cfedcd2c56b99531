------------------------------- MODULE EkVec --------------------------------
(***************************************************************************)
(* The dynamic array of src/inc/ek_vec.h, one vector.  Its macros report   *)
(* nothing: an append whose realloc fails drops the element.               *)
(***************************************************************************)
EXTENDS Integers, SequencesExt, EkMemcpy

CONSTANTS
  FirstCap,   \* capacity of the first allocation (8 in the code)
  Threshold,  \* VEC_LARGE_THRESHOLD: growth is by half from here on (32 in the code)
  MaxAmount   \* bound of the model: elements in the vector

ASSUME VecAssumption ==
  FirstCap \in Nat \ {0} /\ Threshold \in Nat \ {0, 1} /\ MaxAmount \in Nat

VARIABLES
  ve_items,    \* the memory behind items; <<>> when items is NULL
  ve_amount, ve_cap
veVars == <<ve_items, ve_amount, ve_cap>>

VeContents == SubSeq(ve_items, 1, ve_amount)

\* What realloc leaves of the elements in a block of n.
Realloc(n) == [i \in 1 .. n |-> IF i <= Len(ve_items) THEN ve_items[i] ELSE Torn]

\* The element past the end of the used part is written in place.
Put(mem, v) == [mem EXCEPT ![ve_amount + 1] = v]

VeAppend(v) ==
  /\ ve_amount < MaxAmount
  /\ ve_cap > ve_amount
  /\ ve_items' = Put(ve_items, v)
  /\ ve_amount' = ve_amount + 1
  /\ UNCHANGED ve_cap

Grown_HalfMutant == IF ve_cap = 0 THEN FirstCap ELSE ve_cap + ve_cap \div 2
Grown ==
  CASE ve_cap = 0 -> FirstCap
    [] ve_cap # 0 /\ ve_cap < Threshold -> 2 * ve_cap
    [] OTHER -> ve_cap + ve_cap \div 2

VeAppendGrows(v) ==
  /\ ve_amount < MaxAmount
  /\ ve_cap <= ve_amount
  /\ ve_cap' = Grown
  /\ ve_items' = Put(Realloc(Grown), v)
  /\ ve_amount' = ve_amount + 1

VeRemove(i) ==
  /\ i \in 1 .. ve_amount
  /\ ve_items' = [j \in DOMAIN ve_items |->
                    IF j \in i .. ve_amount - 1 THEN ve_items[j + 1] ELSE ve_items[j]]
  /\ ve_amount' = ve_amount - 1
  /\ UNCHANGED ve_cap

VeRemoveUnorder(i) ==
  /\ i \in 1 .. ve_amount
  /\ ve_items' = [ve_items EXCEPT ![i] = ve_items[ve_amount]]
  /\ ve_amount' = ve_amount - 1
  /\ UNCHANGED ve_cap

VeClear == ve_amount' = 0 /\ UNCHANGED <<ve_items, ve_cap>>

VeShrink ==
  /\ ve_amount # 0
  /\ ve_items' = Realloc(ve_amount) /\ ve_cap' = ve_amount
  /\ UNCHANGED ve_amount

VeShrinkEmpty ==
  /\ ve_amount = 0 /\ ve_items # <<>>
  /\ ve_items' = <<>> /\ ve_cap' = 0
  /\ UNCHANGED ve_amount

\* ek_vec_destroy and ek_vec_init leave the same vector.
VeDestroy == ve_items' = <<>> /\ ve_amount' = 0 /\ ve_cap' = 0

VeInit == ve_items = <<>> /\ ve_amount = 0 /\ ve_cap = 0

\* A failed realloc, in append or in shrink, changes nothing.
VeNext ==
  \/ \E v \in Item : VeAppend(v) \/ VeAppendGrows(v)
  \/ \E i \in 1 .. ve_amount : VeRemove(i) \/ VeRemoveUnorder(i)
  \/ VeClear \/ VeShrink \/ VeShrinkEmpty \/ VeDestroy

VeSpec == VeInit /\ [][VeNext]_veVars

-----------------------------------------------------------------------------
VeTypeOK ==
  /\ ve_items \in Seq(Item \cup {Torn})
  /\ ve_amount \in 0 .. MaxAmount
  /\ ve_cap \in Nat

\* What a call does to the list the elements make, and that they are inside the block.
VecCall ==
  LET old == VeContents  new == VeContents'
  IN /\ ve_amount' <= ve_cap' /\ ve_cap' = Len(ve_items')
     /\ \/ \E v \in Item : new = Append(old, v)
        \/ \E i \in DOMAIN old :
             \/ new = RemoveAt(old, i)
             \/ new = Front(ReplaceAt(old, i, Last(old)))
        \/ new = old
        \/ new = <<>>

\* Every sequence of calls leaves the elements a list would hold, all written and all
\* inside the block the capacity stands for, whatever growing and shrinking went on.
VecIsList == [][VecCall]_veVars
=============================================================================
