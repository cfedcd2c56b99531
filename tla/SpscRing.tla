------------------------------ MODULE SpscRing ------------------------------
(***************************************************************************)
(* The lock-free ring buffer ek_ringbuf_spsc_t (src/src/ek_ringbuf.c): one *)
(* writer and one reader that interleave between any two of their accesses *)
(* to shared memory.  A call checks the other side's index, copies the     *)
(* item with memcpy, then publishes its own index.                         *)
(*                                                                         *)
(* memcpy is not atomic: while the writer copies, the slot holds Torn, and *)
(* the reader gets Torn when the slot changed while it copied.  Accesses   *)
(* take effect in program order, as they do between an interrupt and the   *)
(* code it interrupts.                                                     *)
(***************************************************************************)
EXTENDS Integers, Sequences, EkMemcpy

CONSTANT cap   \* number of slots

ASSUME RingAssumption ==
  /\ Torn \notin Item
  /\ cap \in Nat \ {0, 1}    \* create_spsc and init_spsc_static refuse less

VARIABLES
  data,       \* the slots
  write_idx, read_idx,
  w_pc,       \* the writer: "idle", "copy" or "publish"
  w_item,     \* its item
  r_pc,       \* the reader: "idle", "copy" or "publish"
  r_call,     \* the call it is in: "read", "skip" (read into NULL) or "peek"
  r_item,     \* its copy
  wrote, got  \* what the last call of each side returned
writer == <<w_pc, w_item, wrote>>
reader == <<r_pc, r_call, r_item, got>>
ringVars == <<data, write_idx, read_idx, writer, reader>>

Slot == 0 .. cap - 1
Call == {"read", "skip", "peek"}

-----------------------------------------------------------------------------
(* A definition whose name ends in Mutant is a bug of the definition it   *)
(* precedes, for the checks.                                              *)

\* _ek_ringbuf_spsc_next_idx.
NextIdx_NoWrapMutant(i) == i + 1
NextIdx(i) == (i + 1) % cap

Full_AllSlotsMutant == write_idx - read_idx = cap
Full == NextIdx(write_idx) = read_idx
Empty == read_idx = write_idx

\* ek_ringbuf_write_spsc.

WriteFails ==
  /\ w_pc = "idle" /\ Full
  /\ wrote' = "FULL"
  /\ UNCHANGED <<data, write_idx, read_idx, w_pc, w_item, reader>>

\* The check passes and memcpy begins.
WriteBegins(v) ==
  /\ w_pc = "idle" /\ ~Full
  /\ w_item' = v /\ w_pc' = "copy"
  /\ data' = [data EXCEPT ![write_idx] = Torn]
  /\ UNCHANGED <<write_idx, read_idx, wrote, reader>>

WriteCopies ==
  /\ w_pc = "copy"
  /\ data' = [data EXCEPT ![write_idx] = w_item]
  /\ w_pc' = "publish"
  /\ UNCHANGED <<write_idx, read_idx, w_item, wrote, reader>>

WritePublishes ==
  /\ w_pc = "publish"
  /\ write_idx' = NextIdx(write_idx)
  /\ w_pc' = "idle" /\ wrote' = "OK"
  /\ UNCHANGED <<data, read_idx, w_item, reader>>

\* ek_ringbuf_read_spsc and ek_ringbuf_peek_spsc.

ReadFails(call) ==
  /\ r_pc = "idle" /\ Empty
  /\ got' = [call |-> call, value |-> "EMPTY"]
  /\ UNCHANGED <<data, write_idx, read_idx, r_pc, r_call, r_item, writer>>

\* The check passes; memcpy begins unless the item is to be dropped.
ReadBegins(call) ==
  /\ r_pc = "idle" /\ ~Empty
  /\ r_call' = call
  /\ r_pc' = IF call = "skip" THEN "publish" ELSE "copy"
  /\ r_item' = data[read_idx]
  /\ UNCHANGED <<data, write_idx, read_idx, got, writer>>

ReadCopies ==
  /\ r_pc = "copy"
  /\ r_item' = Copied(r_item, data[read_idx])
  /\ r_pc' = "publish"
  /\ UNCHANGED <<data, write_idx, read_idx, r_call, got, writer>>

Advanced_PeekMutant == NextIdx(read_idx)
\* peek leaves the index alone.
Advanced == IF r_call = "peek" THEN read_idx ELSE NextIdx(read_idx)

ReadPublishes ==
  /\ r_pc = "publish"
  /\ read_idx' = Advanced
  /\ got' = [call |-> r_call, value |-> IF r_call = "skip" THEN "NONE" ELSE r_item]
  /\ r_pc' = "idle"
  /\ UNCHANGED <<data, write_idx, r_call, r_item, writer>>

NewGot == [call |-> "read", value |-> "NEW"]

\* ek_ringbuf_deinit_spsc_static and init again, or destroy and create: nobody
\* may be in a call.
Reinit ==
  /\ w_pc = "idle" /\ r_pc = "idle"
  /\ write_idx' = 0 /\ read_idx' = 0
  /\ wrote' = "NEW" /\ got' = NewGot
  /\ UNCHANGED <<data, w_pc, w_item, r_pc, r_call, r_item>>

-----------------------------------------------------------------------------
\* The slots of a new buffer hold anything; Torn stands for it.
RingInit ==
  /\ data = [s \in Slot |-> Torn]
  /\ write_idx = 0 /\ read_idx = 0
  /\ w_pc = "idle" /\ w_item = Torn /\ wrote = "NEW"
  /\ r_pc = "idle" /\ r_call = "read" /\ r_item = Torn /\ got = NewGot

Writer ==
  WriteFails \/ (\E v \in Item : WriteBegins(v)) \/ WriteCopies \/ WritePublishes
Reader ==
  \/ ReadCopies \/ ReadPublishes
  \/ \E call \in Call : ReadFails(call) \/ ReadBegins(call)

RingNext == Writer \/ Reader \/ Reinit

RingSpec == RingInit /\ [][RingNext]_ringVars

-----------------------------------------------------------------------------
RingTypeOK ==
  /\ data \in [Slot -> Item \cup {Torn}]
  /\ write_idx \in Slot /\ read_idx \in Slot
  /\ w_pc \in {"idle", "copy", "publish"} /\ w_item \in Item \cup {Torn}
  /\ r_pc \in {"idle", "copy", "publish"} /\ r_item \in Item \cup {Torn}
  /\ r_call \in Call
  /\ wrote \in {"OK", "FULL", "NEW"}
  /\ got \in [call : Call, value : Item \cup {"EMPTY", "NONE", "NEW"}]

\* The slots between the two indices, oldest first.
Used == IF read_idx <= write_idx THEN write_idx - read_idx
                                 ELSE write_idx + cap - read_idx
At(i) == IF read_idx + i - 1 < cap THEN read_idx + i - 1
                                   ELSE read_idx + i - 1 - cap
Contents == [i \in 1 .. Used |-> data[At(i)]]

Fifo == INSTANCE BoundedFifo WITH queue <- Contents, Bound <- cap - 1

\* Writer and reader never copy in the same slot at the same time.
NoSharedSlot ==
  w_pc \in {"copy", "publish"} /\ r_pc \in {"copy", "publish"} =>
    write_idx # read_idx

\* Whatever the interleaving, the ring is a FIFO of cap - 1 items: none is lost,
\* duplicated, reordered or torn, FULL and EMPTY are true when they are returned
\* ("at most item_amount - 1 elements", ek_ringbuf.h:172; "lock-free, for an
\* interrupt and the main loop", README.md:829).
IsFifo == Fifo!FifoSpec
=============================================================================
