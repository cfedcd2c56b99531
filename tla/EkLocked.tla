------------------------------ MODULE EkLocked ------------------------------
(***************************************************************************)
(* The lock of a container under an RTOS: EK_LOCK_TRY never waits, a call  *)
(* that finds the lock taken returns EK_ERR_BUSY and changes nothing, so it *)
(* is no step.  Without an RTOS the macros are no-ops and there is one     *)
(* thread.                                                                 *)
(*                                                                         *)
(* A call is a thread's walk through "locked" (EK_LOCK_TRY succeeded),     *)
(* "copy" (memcpy is under way) and "publish" (it is done; indices, result *)
(* and EK_LOCK_RELEASE remain) back to "idle".                             *)
(***************************************************************************)
EXTENDS Integers, Sequences, EkMemcpy

CONSTANTS Thread, NoThread

ASSUME LockedAssumption == NoThread \notin Thread /\ Torn \notin Item

VARIABLES
  lock,   \* the thread that took it last and has not given it back, or NoThread
  pc,     \* where each thread is
  call,   \* the call it is in
  item    \* the object its `item` or `data` argument points to
lockVars == <<lock, pc, call, item>>

TryLock_TakenMutant(t) == lock' = t

\* EK_LOCK_TRY succeeds.
TryLock(t) == lock = NoThread /\ lock' = t

Goto(t, next) == pc' = [pc EXCEPT ![t] = next]

\* A call with argument v gets past EK_LOCK_TRY.
Enter(t, c, v) ==
  /\ pc[t] = "idle"
  /\ TryLock(t)
  /\ Goto(t, "locked")
  /\ call' = [call EXCEPT ![t] = c]
  /\ item' = [item EXCEPT ![t] = v]

\* The call is over, and so are its arguments.
Return(t) ==
  /\ Goto(t, "idle")
  /\ call' = [call EXCEPT ![t] = "none"]
  /\ item' = [item EXCEPT ![t] = Torn]

Leave_KeptMutant(t) == UNCHANGED lock /\ Return(t)
\* EK_LOCK_RELEASE and return.
Leave(t) == lock' = NoThread /\ Return(t)

AllIdle == \A t \in Thread : pc[t] = "idle"

\* The initialisation of a container, EK_LOCK_INIT included.
LockReinit == AllIdle /\ lock' = NoThread /\ UNCHANGED <<pc, call, item>>

LockInit ==
  /\ lock = NoThread
  /\ pc = [t \in Thread |-> "idle"]
  /\ call = [t \in Thread |-> "none"]
  /\ item = [t \in Thread |-> Torn]

LockTypeOK ==
  /\ lock \in Thread \cup {NoThread}
  /\ pc \in [Thread -> {"idle", "checked", "locked", "copy", "publish"}]
  /\ call \in [Thread -> {"none", "write", "read", "skip", "peek", "push", "pop",
                          "set", "get"}]
  /\ item \in [Thread -> Item \cup {Torn}]
=============================================================================
