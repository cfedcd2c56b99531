------------------------------- MODULE PtMsg --------------------------------
(***************************************************************************)
(* ek_picothread with EKCFG_PICOTHREAD_MSG: message queues and the macros  *)
(* EK_PT_MSG_SEND and EK_PT_MSG_RECV.  A queue m has two wait objects,     *)
(* <<m, "send">> and <<m, "recv">>, and a ring buffer of which only the    *)
(* number of messages matters here (its order: module EkRingbuf).          *)
(***************************************************************************)
EXTENDS PtWait

CONSTANTS
  Msg,     \* the ek_pt_msg_t objects
  Cap,     \* item_amount they are created with
  Managed  \* bound of the model: the tasks that main and other tasks' callbacks
           \* destroy, deinitialise, suspend or block

Side == {"send", "recv"}

ASSUME MsgAssumption ==
  /\ WaitObj = Msg \X Side
  /\ Cap \in Nat \ {0}    \* msg_create refuses 0
  /\ IsFiniteSet(Task)

VARIABLES
  msgs,        \* queues that exist
  item_amount, \* ek_pt_msg.rb.item_amount
  wasted       \* history: tasks woken at a wait object that were destroyed or set
               \* up anew before they repeated their call, since a task last
               \* found nothing there and waited
queues == <<msgs, item_amount>>
msgVars == <<vars, waitVars, queues, wasted>>

-----------------------------------------------------------------------------
\* ek_pt_msg_create and ek_pt_msg_init_static.
MsgCreate(m) ==
  /\ Executing /\ m \notin msgs
  /\ msgs' = msgs \cup {m}
  /\ item_amount' = [item_amount EXCEPT ![m] = 0]
  /\ UNCHANGED <<vars, waitVars, wasted>>

\* ek_ringbuf_write fails on a full buffer, ek_ringbuf_read on an empty one.
CanSend_AlwaysMutant(m) == TRUE
CanSend(m) == item_amount[m] < Cap
CanRecv(m) == item_amount[m] > 0

WakeOne_IfFirstMutant(o) ==
  \/ /\ HasWaiter(o) /\ item_amount[o[1]] \in {0, Cap}
     /\ Release(o, "OK")
  \/ /\ ~(HasWaiter(o) /\ item_amount[o[1]] \in {0, Cap})
     /\ UNCHANGED <<vars, wait_list, wait_on, wait_result>>

\* The wake-up of one waiter of the other side after a transfer.
WakeOne(o) ==
  \/ HasWaiter(o) /\ Release(o, "OK")
  \/ ~HasWaiter(o) /\ UNCHANGED <<vars, wait_list, wait_on, wait_result>>

\* ek_pt_msg_send returns true.
SendNow(m) ==
  /\ AtCall(<<m, "send">>) /\ m \in msgs /\ CanSend(m)
  /\ item_amount' = [item_amount EXCEPT ![m] = @ + 1]
  /\ WakeOne(<<m, "recv">>)
  /\ Returns
  /\ UNCHANGED <<msgs, wasted>>

\* ek_pt_msg_send returns false.
SendWait(m, x) ==
  /\ AtCall(<<m, "send">>) /\ m \in msgs /\ ~CanSend(m)
  /\ WaitOn(<<m, "send">>, x)
  /\ wasted' = [wasted EXCEPT ![<<m, "send">>] = 0]
  /\ UNCHANGED queues

\* ek_pt_msg_recv returns true.
RecvNow(m) ==
  /\ AtCall(<<m, "recv">>) /\ m \in msgs /\ CanRecv(m)
  /\ item_amount' = [item_amount EXCEPT ![m] = @ - 1]
  /\ WakeOne(<<m, "send">>)
  /\ Returns
  /\ UNCHANGED <<msgs, wasted>>

\* ek_pt_msg_recv returns false.
RecvWait(m, x) ==
  /\ AtCall(<<m, "recv">>) /\ m \in msgs /\ ~CanRecv(m)
  /\ WaitOn(<<m, "recv">>, x)
  /\ wasted' = [wasted EXCEPT ![<<m, "recv">>] = 0]
  /\ UNCHANGED queues

\* ek_pt_msg_destroy releases the receivers, then the senders.
MsgDestroy(m) ==
  /\ m \in msgs
  /\ Close(<< <<m, "recv">>, <<m, "send">> >>)
  /\ UNCHANGED <<queues, wasted>>

MsgDestroyEnds ==
  /\ CloseNext
  /\ msgs' = IF closing' = <<>> THEN msgs \ {Head(closing)[1]} ELSE msgs
  /\ UNCHANGED <<item_amount, wasted>>

\* Operations on tasks.  They know nothing of a wake-up that t has yet to use:
\* destroy, deinit and a new init throw it away, suspend and block put it off.
MsgTask(t) ==
  /\ OnWaitTask(t)
  /\ t \in Managed \/ TaskStart(t) \/ Resume(t)
  /\ wasted' = [o \in WaitObj |->
       IF Woken(t, o) /\ ~Woken(t, o)' /\ HasWaiter(o)
         THEN wasted[o] + 1 ELSE wasted[o]]
  /\ UNCHANGED queues

-----------------------------------------------------------------------------
MsgInit ==
  /\ WaitInit
  /\ msgs = {}
  /\ item_amount = [m \in Msg |-> 0]
  /\ wasted = [o \in WaitObj |-> 0]

MsgNext ==
  \/ WaitKernel /\ UNCHANGED <<queues, wasted>>
  \/ Free /\ \E t \in Task : MsgTask(t)
  \/ Free /\ \E m \in Msg : MsgCreate(m) \/ MsgDestroy(m)
  \/ \E m \in Msg : SendNow(m) \/ RecvNow(m)
  \/ \E m \in Msg, x \in Delays : SendWait(m, x) \/ RecvWait(m, x)
  \/ (Breaks \/ CloseRelease) /\ UNCHANGED <<queues, wasted>>
  \/ MsgDestroyEnds

MsgSpec == MsgInit /\ [][MsgNext]_msgVars

-----------------------------------------------------------------------------
MsgTypeOK ==
  /\ WaitTypeOK
  /\ msgs \subseteq Msg
  /\ item_amount \in [Msg -> 0 .. Cap]
  /\ wasted \in [WaitObj -> Nat]

\* The tasks that were woken at o and will repeat their call there: at once, or
\* when a suspend or block of them is over.
WokenAt(o) == {t \in Task : Woken(t, o)}

\* No receiver sleeps over a message: while one waits, each message in the queue
\* has a woken receiver that will come for it, although a third task may take
\* the message first and a woken receiver may have to wait again.  The only
\* messages left lying are those whose woken receiver was destroyed, or its
\* object set up anew, before it repeated its call: nobody is woken in its place.
NoLostRecvWakeup ==
  \A m \in msgs : wait_list[<<m, "recv">>] # <<>> =>
    item_amount[m] <= Cardinality(WokenAt(<<m, "recv">>)) + wasted[<<m, "recv">>]

\* No sender sleeps over a free slot, in the same way and with the same exception.
NoLostSendWakeup ==
  \A m \in msgs : wait_list[<<m, "send">>] # <<>> =>
    Cap - item_amount[m] <=
      Cardinality(WokenAt(<<m, "send">>)) + wasted[<<m, "send">>]
=============================================================================
