----------------------------- MODULE BoundedFifo ----------------------------
(***************************************************************************)
(* What ek_ringbuf.h promises of a ring buffer: a first-in first-out queue *)
(* of at most Bound items.  Every call takes effect at one instant, also   *)
(* when writer and reader call at the same time.                           *)
(***************************************************************************)
EXTENDS Sequences, Integers

CONSTANTS Item, Bound

VARIABLES
  queue,   \* the items written and not read
  wrote,   \* what the last write returned
  got      \* what the last read or peek returned
fifoVars == <<queue, wrote, got>>

Write(v) ==
  /\ Len(queue) < Bound
  /\ queue' = Append(queue, v) /\ wrote' = "OK"
  /\ UNCHANGED got

WriteFull ==
  /\ Len(queue) = Bound
  /\ wrote' = "FULL"
  /\ UNCHANGED <<queue, got>>

\* call is "read", "skip" (a read into NULL) or "peek".
Read(call) ==
  /\ queue # <<>>
  /\ got' = [call |-> call, value |-> IF call = "skip" THEN "NONE" ELSE Head(queue)]
  /\ queue' = IF call = "peek" THEN queue ELSE Tail(queue)
  /\ UNCHANGED wrote

ReadEmpty(call) ==
  /\ queue = <<>>
  /\ got' = [call |-> call, value |-> "EMPTY"]
  /\ UNCHANGED <<queue, wrote>>

FifoInit == queue = <<>> /\ wrote = "NEW" /\ got = [call |-> "read", value |-> "NEW"]

\* Deinitialised and initialised again.
Clear == FifoInit'

FifoNext ==
  \/ WriteFull \/ \E v \in Item : Write(v)
  \/ \E call \in {"read", "skip", "peek"} : Read(call) \/ ReadEmpty(call)
  \/ Clear

FifoSpec == FifoInit /\ [][FifoNext]_fifoVars
=============================================================================
