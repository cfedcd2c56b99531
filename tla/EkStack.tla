------------------------------ MODULE EkStack -------------------------------
(***************************************************************************)
(* The stack ek_stack_t (src/src/ek_stack.c): any number of threads push   *)
(* and pop under its lock.  A push copies before it moves sp, a pop moves  *)
(* sp before it copies.                                                    *)
(***************************************************************************)
EXTENDS EkLocked

CONSTANT st_cap   \* ek_stack.cap

ASSUME StAssumption == st_cap \in Nat \ {0}   \* create and init_static refuse 0

VARIABLES
  st_data, st_sp,
  st_pushed, st_popped   \* what the last push and the last pop returned
stVars == <<st_data, st_sp, st_pushed, st_popped>>
stAllVars == <<lockVars, stVars>>

StFull == st_sp >= st_cap
StEmpty == st_sp = 0

StRefused(t) == IF call[t] = "push" THEN StFull ELSE StEmpty

StEnter(t) ==
  /\ Enter(t, "pop", Torn) \/ \E v \in Item : Enter(t, "push", v)
  /\ UNCHANGED stVars

\* EK_ERR_FULL or EK_ERR_EMPTY.
StRefuse(t) ==
  /\ pc[t] = "locked" /\ StRefused(t)
  /\ Leave(t)
  /\ IF call[t] = "push" THEN st_pushed' = "FULL" /\ UNCHANGED st_popped
                         ELSE st_popped' = "EMPTY" /\ UNCHANGED st_pushed
  /\ UNCHANGED <<st_data, st_sp>>

StTop_BeforeMutant == st_sp
\* The slot a pop empties.
StTop == st_sp - 1

StCopyBegins(t) ==
  /\ pc[t] = "locked" /\ ~StRefused(t)
  /\ Goto(t, "copy")
  /\ IF call[t] = "push"
       THEN /\ st_data' = [st_data EXCEPT ![st_sp] = Torn]
            /\ UNCHANGED <<item, st_sp>>
       ELSE /\ st_sp' = st_sp - 1
            /\ item' = [item EXCEPT ![t] = st_data[StTop]]
            /\ UNCHANGED st_data
  /\ UNCHANGED <<lock, call, st_pushed, st_popped>>

StCopyEnds(t) ==
  /\ pc[t] = "copy"
  /\ Goto(t, "publish")
  /\ IF call[t] = "push"
       THEN st_data' = [st_data EXCEPT ![st_sp] = item[t]] /\ UNCHANGED item
       ELSE item' = [item EXCEPT ![t] = Copied(@, st_data[st_sp])] /\ UNCHANGED st_data
  /\ UNCHANGED <<lock, call, st_sp, st_pushed, st_popped>>

StPushEnds(t) ==
  /\ pc[t] = "publish" /\ call[t] = "push"
  /\ st_sp' = st_sp + 1 /\ st_pushed' = "OK"
  /\ Leave(t)
  /\ UNCHANGED <<st_data, st_popped>>

StPopEnds(t) ==
  /\ pc[t] = "publish" /\ call[t] = "pop"
  /\ st_popped' = item[t]
  /\ Leave(t)
  /\ UNCHANGED <<st_data, st_sp, st_pushed>>

\* ek_stack_deinit_static and init_static, or destroy and create.
StReinit ==
  /\ LockReinit
  /\ st_sp' = 0 /\ st_pushed' = "NEW" /\ st_popped' = "NEW"
  /\ UNCHANGED st_data

StInit ==
  /\ LockInit
  /\ st_data = [i \in 0 .. st_cap - 1 |-> Torn]
  /\ st_sp = 0 /\ st_pushed = "NEW" /\ st_popped = "NEW"

StNextStep ==
  \/ \E t \in Thread :
       \/ StEnter(t) \/ StRefuse(t) \/ StCopyBegins(t) \/ StCopyEnds(t)
       \/ StPushEnds(t) \/ StPopEnds(t)
  \/ StReinit

StSpec == StInit /\ [][StNextStep]_stAllVars

-----------------------------------------------------------------------------
StTypeOK ==
  /\ st_data \in [0 .. st_cap - 1 -> Item \cup {Torn}]
  /\ st_sp \in 0 .. st_cap
  /\ st_pushed \in {"OK", "FULL", "NEW"}
  /\ st_popped \in Item \cup {"EMPTY", "NEW"}

\* The items on the stack; the one a pop is copying out still counts.
StPopping == \E t \in Thread : call[t] = "pop" /\ pc[t] \in {"copy", "publish"}
StContents == [i \in 1 .. IF StPopping THEN st_sp + 1 ELSE st_sp |-> st_data[i - 1]]

StLifo == INSTANCE BoundedLifo WITH
  stack <- StContents, pushed <- st_pushed, popped <- st_popped, Bound <- st_cap

\* For any threads the stack is last in, first out: although a pop gives its slot
\* up before it has copied the item, no push overwrites it meanwhile, and FULL and
\* EMPTY are true when they are returned (ek_stack.c:85-125).
StackIsLifo == StLifo!LifoSpec
=============================================================================
