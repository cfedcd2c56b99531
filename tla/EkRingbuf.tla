----------------------------- MODULE EkRingbuf ------------------------------
(***************************************************************************)
(* The generic ring buffer ek_ringbuf_t (src/src/ek_ringbuf.c): any number *)
(* of threads write, read, skip (a read into NULL) and peek under its      *)
(* lock.  It counts its items, so every slot is used.                      *)
(***************************************************************************)
EXTENDS EkLocked

CONSTANT rb_cap   \* ek_ringbuf.cap

ASSUME RbAssumption == rb_cap \in Nat \ {0}   \* create and init_static refuse 0

VARIABLES
  rb_data, rb_write_idx, rb_read_idx, rb_item_amount,
  rb_wrote, rb_got   \* what the last write and the last read or peek returned
rbVars == <<rb_data, rb_write_idx, rb_read_idx, rb_item_amount, rb_wrote, rb_got>>
rbAllVars == <<lockVars, rbVars>>

RbReads == {"read", "skip", "peek"}

RbFull == rb_item_amount = rb_cap
RbEmpty == rb_item_amount = 0

RbRefused(t) == IF call[t] = "write" THEN RbFull ELSE RbEmpty

RbEnter(t) ==
  /\ \/ \E v \in Item : Enter(t, "write", v)
     \/ \E c \in RbReads : Enter(t, c, Torn)
  /\ UNCHANGED rbVars

\* EK_ERR_FULL or EK_ERR_EMPTY.
RbRefuse(t) ==
  /\ pc[t] = "locked" /\ RbRefused(t)
  /\ Leave(t)
  /\ IF call[t] = "write"
       THEN rb_wrote' = "FULL" /\ UNCHANGED rb_got
       ELSE rb_got' = [call |-> call[t], value |-> "EMPTY"] /\ UNCHANGED rb_wrote
  /\ UNCHANGED <<rb_data, rb_write_idx, rb_read_idx, rb_item_amount>>

RbCopyBegins(t) ==
  /\ pc[t] = "locked" /\ ~RbRefused(t)
  /\ Goto(t, IF call[t] = "skip" THEN "publish" ELSE "copy")
  /\ IF call[t] = "write"
       THEN rb_data' = [rb_data EXCEPT ![rb_write_idx] = Torn] /\ UNCHANGED item
       ELSE item' = [item EXCEPT ![t] = rb_data[rb_read_idx]] /\ UNCHANGED rb_data
  /\ UNCHANGED <<lock, call, rb_write_idx, rb_read_idx, rb_item_amount, rb_wrote, rb_got>>

RbCopyEnds(t) ==
  /\ pc[t] = "copy"
  /\ Goto(t, "publish")
  /\ IF call[t] = "write"
       THEN rb_data' = [rb_data EXCEPT ![rb_write_idx] = item[t]] /\ UNCHANGED item
       ELSE item' = [item EXCEPT ![t] = Copied(@, rb_data[rb_read_idx])] /\ UNCHANGED rb_data
  /\ UNCHANGED <<lock, call, rb_write_idx, rb_read_idx, rb_item_amount, rb_wrote, rb_got>>

RbNext_NoWrapMutant(i) == IF i = rb_cap - 1 THEN i ELSE i + 1
RbNext(i) == (i + 1) % rb_cap

RbWriteEnds(t) ==
  /\ pc[t] = "publish" /\ call[t] = "write"
  /\ rb_write_idx' = RbNext(rb_write_idx)
  /\ rb_item_amount' = rb_item_amount + 1
  /\ rb_wrote' = "OK"
  /\ Leave(t)
  /\ UNCHANGED <<rb_data, rb_read_idx, rb_got>>

RbReadEnds(t) ==
  /\ pc[t] = "publish" /\ call[t] \in RbReads
  /\ IF call[t] = "peek"
       THEN UNCHANGED <<rb_read_idx, rb_item_amount>>
       ELSE /\ rb_read_idx' = RbNext(rb_read_idx)
            /\ rb_item_amount' = rb_item_amount - 1
  /\ rb_got' = [call |-> call[t], value |-> IF call[t] = "skip" THEN "NONE" ELSE item[t]]
  /\ Leave(t)
  /\ UNCHANGED <<rb_data, rb_write_idx, rb_wrote>>

RbNewGot == [call |-> "read", value |-> "NEW"]

\* ek_ringbuf_deinit_static and init_static, or destroy and create: nobody may be
\* in a call.
RbReinit ==
  /\ LockReinit
  /\ rb_write_idx' = 0 /\ rb_read_idx' = 0 /\ rb_item_amount' = 0
  /\ rb_wrote' = "NEW" /\ rb_got' = RbNewGot
  /\ UNCHANGED rb_data

RbInit ==
  /\ LockInit
  /\ rb_data = [i \in 0 .. rb_cap - 1 |-> Torn]
  /\ rb_write_idx = 0 /\ rb_read_idx = 0 /\ rb_item_amount = 0
  /\ rb_wrote = "NEW" /\ rb_got = RbNewGot

RbNextStep ==
  \/ \E t \in Thread :
       \/ RbEnter(t) \/ RbRefuse(t) \/ RbCopyBegins(t) \/ RbCopyEnds(t)
       \/ RbWriteEnds(t) \/ RbReadEnds(t)
  \/ RbReinit

RbSpec == RbInit /\ [][RbNextStep]_rbAllVars

-----------------------------------------------------------------------------
RbTypeOK ==
  /\ rb_data \in [0 .. rb_cap - 1 -> Item \cup {Torn}]
  /\ rb_write_idx \in 0 .. rb_cap - 1 /\ rb_read_idx \in 0 .. rb_cap - 1
  /\ rb_item_amount \in 0 .. rb_cap
  /\ rb_wrote \in {"OK", "FULL", "NEW"}
  /\ rb_got \in [call : RbReads, value : Item \cup {"EMPTY", "NONE", "NEW"}]

\* The items, oldest first: as many as item_amount says, from read_idx on.
RbAt(i) == (rb_read_idx + i - 1) % rb_cap
RbContents == [i \in 1 .. rb_item_amount |-> rb_data[RbAt(i)]]

RbFifo == INSTANCE BoundedFifo WITH
  queue <- RbContents, wrote <- rb_wrote, got <- rb_got, Bound <- rb_cap

\* For any threads the ring buffer is a FIFO of cap items whose calls take effect
\* at one instant: index, count and slots stay in step, no item is lost, torn or
\* read twice, and FULL and EMPTY are true when they are returned.
RingbufIsFifo == RbFifo!FifoSpec
=============================================================================
