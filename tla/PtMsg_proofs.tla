---------------------------- MODULE PtMsg_proofs ----------------------------
(***************************************************************************)
(* Message queues, for any tasks, priorities, delays and capacity: no      *)
(* wake-up is lost, save with the task that got it.  A send adds a message *)
(* and, when a receiver waits, a woken receiver; a task that comes for a   *)
(* message is either woken, and then both numbers fall by one, or an       *)
(* intruder, and then only the messages do; a woken task that is destroyed *)
(* moves to the wasted ones; a receiver waits only when there is nothing.  *)
(***************************************************************************)
EXTENDS PtMsg, PtWait_proofs, FiniteSetTheorems

\* What the waiters of o wait for: messages, or free slots.
Avail(o) == IF o[2] = "recv" THEN item_amount[o[1]] ELSE Cap - item_amount[o[1]]
NoLost(o) ==
  wait_list[o] # <<>> => Avail(o) <= Cardinality(WokenAt(o)) + wasted[o]

QueueOK ==
  /\ msgs \subseteq Msg
  /\ item_amount \in [Msg -> 0 .. Cap]
  /\ wasted \in [WaitObj -> Nat]
  /\ \A o \in WaitObj : wait_list[o] # <<>> => o[1] \in msgs

\* A waiter's saved line is in the macro of the object it waits on.
InCallOK == \A t \in Task : wait_on[t] # NoObj => in_call[t] = wait_on[t]

\* A destroy releases the receivers of a queue, then its senders.
ClosingOK ==
  closing # <<>> => \E m \in Msg :
    \/ closing = << <<m, "recv">>, <<m, "send">> >>
    \/ closing = << <<m, "send">> >> /\ wait_list[<<m, "recv">>] = <<>>

NoLostOK == \A o \in WaitObj : NoLost(o)

MsgInv == WaitInv /\ QueueOK /\ InCallOK /\ ClosingOK /\ NoLostOK

-----------------------------------------------------------------------------
LEMMA MsgNextIsSched == MsgNext => [Next]_vars
<1> SUFFICES ASSUME MsgNext PROVE [Next]_vars
  OBVIOUS
<1>1. ASSUME NEW o, WakeOne(o) PROVE [Next]_vars
  BY <1>1, ReleaseIsSched DEF WakeOne
<1>2. ASSUME NEW m, SendNow(m) \/ RecvNow(m) PROVE [Next]_vars
  BY <1>1, <1>2 DEF SendNow, RecvNow
<1>3. ASSUME NEW m, NEW x \in Delays, SendWait(m, x) \/ RecvWait(m, x)
      PROVE  [Next]_vars
  BY <1>3, WaitOnIsSched DEF SendWait, RecvWait
<1>4. ASSUME NEW m, MsgCreate(m) \/ MsgDestroy(m) PROVE [Next]_vars
  BY <1>4 DEF MsgCreate, MsgDestroy, Close
<1>5. CASE Breaks \/ CloseRelease
  BY <1>5, ReleaseIsSched DEF Breaks, CloseRelease
<1>6. CASE MsgDestroyEnds
  BY <1>6 DEF MsgDestroyEnds, CloseNext
<1> QED BY <1>2, <1>3, <1>4, <1>5, <1>6, KernelIsSched, OnWaitTaskIsSched
      DEF MsgNext, MsgTask

LEMMA ObjectsArePairs ==
  /\ \A m \in Msg : <<m, "send">> \in WaitObj /\ <<m, "recv">> \in WaitObj
  /\ \A o \in WaitObj : o[1] \in Msg /\ o[2] \in Side /\ o = <<o[1], o[2]>>
BY MsgAssumption DEF Side

LEMMA WokenIsFinite ==
  ASSUME NEW o
  PROVE  /\ IsFiniteSet(WokenAt(o)) /\ Cardinality(WokenAt(o)) \in Nat
         /\ WokenAt(o) \subseteq Task
<1>1. WokenAt(o) \subseteq Task
  BY DEF WokenAt
<1> QED BY <1>1, MsgAssumption, FS_Subset, FS_CardinalityType

-----------------------------------------------------------------------------
(* Steps that wake nobody with EK_OK and leave the woken ones alone. *)

\* Only t changes, and it is not woken before nor after.
LEMMA NobodyWoken ==
  ASSUME NEW t \in Task, \A o \in WaitObj : ~Woken(t, o),
         in_call'[t] = NoObj \/ wait_result'[t] # "OK",
         \A u \in Task : u # t => /\ in_call'[u] = in_call[u]
                                 /\ wait_on'[u] = wait_on[u]
                                 /\ wait_result'[u] = wait_result[u]
  PROVE  \A o \in WaitObj : WokenAt(o)' = WokenAt(o)
<1> SUFFICES ASSUME NEW o \in WaitObj, NEW u \in Task
             PROVE  Woken(u, o)' <=> Woken(u, o)
  BY DEF WokenAt
<1>1. CASE u = t
  <2>1. ~Woken(t, o)'
    BY WaitAssumption DEF Woken
  <2> QED BY <1>1, <2>1
<1>2. CASE u # t
  BY <1>2 DEF Woken
<1> QED BY <1>1, <1>2

LEMMA QuietStep ==
  ASSUME MsgInv, UNCHANGED <<queues, wasted>>,
         \A o \in WaitObj : wait_list'[o] # <<>> => wait_list[o] # <<>>,
         \A o \in WaitObj : WokenAt(o)' = WokenAt(o)
  PROVE  QueueOK' /\ NoLostOK'
<1>1. \A o \in WaitObj : Avail(o)' = Avail(o)
  BY DEF Avail, queues
<1>2. QueueOK'
  BY DEF MsgInv, QueueOK, queues
<1>3. ASSUME NEW o \in WaitObj PROVE NoLost(o)'
  <2>1. NoLost(o)
    BY DEF MsgInv, NoLostOK
  <2> QED BY <1>1, <2>1 DEF NoLost
<1> QED BY <1>2, <1>3 DEF NoLostOK

LEMMA ClosingKept ==
  ASSUME ClosingOK, UNCHANGED closing,
         \A o \in WaitObj : wait_list'[o] # <<>> => wait_list[o] # <<>>
  PROVE  ClosingOK'
BY ObjectsArePairs DEF ClosingOK

-----------------------------------------------------------------------------
(* The steps. *)

LEMMA MsgInitHolds == MsgInit => MsgInv
<1> SUFFICES ASSUME MsgInit PROVE MsgInv
  OBVIOUS
<1>1. WaitInv
  BY WaitInitHolds DEF MsgInit
<1>2. QueueOK /\ InCallOK /\ ClosingOK /\ NoLostOK
  BY MsgAssumption DEF MsgInit, WaitInit, QueueOK, InCallOK, ClosingOK, NoLostOK, NoLost
<1> QED BY <1>1, <1>2 DEF MsgInv

\* A task that waits is not woken.
LEMMA WaiterNotWoken ==
  ASSUME NEW t, wait_on[t] # NoObj
  PROVE  \A o \in WaitObj : ~Woken(t, o)
BY DEF Woken

LEMMA KernelKeepsMsg ==
  ASSUME IInv, MsgInv, WaitKernel, UNCHANGED <<queues, wasted>>
  PROVE  MsgInv'
<1>1. WaitInv /\ WaitInv'
  BY KernelKeepsWait DEF MsgInv
<1>2. UNCHANGED <<in_call, closing>>
  BY DEF WaitKernel, WaitExpire, WaitSchedule, WaitPick, WaitCallbackEnds,
    WaitHardware, waitVars
<1>3. CASE UNCHANGED <<wait_list, wait_on, wait_result>>
  <2>1. \A o \in WaitObj : WokenAt(o)' = WokenAt(o)
    BY <1>2, <1>3 DEF WokenAt, Woken
  <2>2. QueueOK' /\ NoLostOK'
    BY <1>3, <2>1, QuietStep
  <2> QED BY <1>1, <1>2, <1>3, <2>2, ClosingKept DEF MsgInv, InCallOK
<1>4. CASE ~UNCHANGED <<wait_list, wait_on, wait_result>>
  <2> DEFINE t == Head(s_block_list)
  <2>1. WaitExpire
    BY <1>4 DEF WaitKernel, WaitSchedule, WaitPick, WaitCallbackEnds,
      WaitHardware, waitVars
  <2>2. t \in Task
    BY <2>1, HeadOfBlocked DEF WaitExpire, ExpireOne, FirstIsDue
  <2>3. wait_on[t] # NoObj /\ Leave(t, "TIMEOUT")
    BY <1>4, <2>1 DEF WaitExpire
  <2> HIDE DEF t
  <2>4. /\ wait_on \in [Task -> WaitObj \cup {NoObj}]
        /\ wait_result \in [Task -> {"OK", "TIMEOUT", "ABORTED"}]
    BY <1>1 DEF WaitInv, WaitTypeOK
  <2>5. /\ wait_result'[t] = "TIMEOUT"
        /\ \A u \in Task : u # t => wait_on'[u] = wait_on[u] /\ wait_result'[u] = wait_result[u]
        /\ \A u \in Task : wait_on'[u] # NoObj => wait_on'[u] = wait_on[u]
    BY <2>2, <2>3, <2>4 DEF Leave
  <2>6. \A o \in WaitObj : WokenAt(o)' = WokenAt(o)
    BY <1>2, <2>2, <2>3, <2>5, WaiterNotWoken, NobodyWoken
  <2>7. \A o \in WaitObj : wait_list'[o] # <<>> => wait_list[o] # <<>>
    BY <1>1, <2>2, <2>3, LeavingIsLeaving
  <2>8. QueueOK' /\ NoLostOK'
    BY <2>6, <2>7, QuietStep
  <2>9. InCallOK'
    BY <1>2, <2>5 DEF MsgInv, InCallOK
  <2> QED BY <1>1, <1>2, <2>7, <2>8, <2>9, ClosingKept DEF MsgInv
<1> QED BY <1>3, <1>4

LEMMA MsgTaskKeeps ==
  ASSUME IInv, MsgInv, NEW t \in Task, MsgTask(t)
  PROVE  MsgInv'
<1>1. WaitInv /\ WaitInv'
  BY OnWaitTaskKeeps DEF MsgInv, MsgTask
<1>2. /\ wait_on \in [Task -> WaitObj \cup {NoObj}]
      /\ wait_result \in [Task -> {"OK", "TIMEOUT", "ABORTED"}]
      /\ in_call \in [Task -> WaitObj \cup {NoObj}]
  BY <1>1 DEF WaitInv, WaitTypeOK
<1>3. /\ UNCHANGED queues /\ wasted \in [WaitObj -> Nat]
      /\ wasted' = [o \in WaitObj |->
           IF Woken(t, o) /\ ~Woken(t, o)' /\ HasWaiter(o)
             THEN wasted[o] + 1 ELSE wasted[o]]
  BY DEF MsgTask, MsgInv, QueueOK
<1>4. CASE TaskPlain(t)
  <2>1. UNCHANGED waitVars
    BY <1>4 DEF TaskPlain
  <2>2. \A o \in WaitObj, u \in Task : Woken(u, o)' <=> Woken(u, o)
    BY <2>1 DEF Woken, waitVars
  <2>3. \A o \in WaitObj : WokenAt(o)' = WokenAt(o)
    BY <2>2 DEF WokenAt
  <2>4. UNCHANGED wasted
    BY <1>3, <2>2
  <2>5. QueueOK' /\ NoLostOK'
    BY <1>3, <2>1, <2>3, <2>4, QuietStep DEF waitVars
  <2> QED BY <1>1, <2>1, <2>5, ClosingKept DEF MsgInv, InCallOK, waitVars
<1>5. CASE ~TaskPlain(t)
  <2>1. /\ UNCHANGED wait_list \/ \E r : Leave(t, r)
        /\ wait_on' = [wait_on EXCEPT ![t] = NoObj]
        /\ \E r : wait_result' = [wait_result EXCEPT ![t] = r]
        /\ in_call' \in {in_call, [in_call EXCEPT ![t] = NoObj]}
        /\ in_call' = [in_call EXCEPT ![t] = NoObj]
             \/ wait_result' = [wait_result EXCEPT ![t] = "ABORTED"]
        /\ UNCHANGED closing
    BY <1>5 DEF MsgTask, OnWaitTask, TaskStart, TaskDestroy, TaskDeinit, Leave
  <2>2. \A o \in WaitObj : ~Woken(t, o)'
    BY <1>2, <2>1, WaitAssumption DEF Woken
  <2>3. \A u \in Task : u # t => /\ in_call'[u] = in_call[u]
                                 /\ wait_on'[u] = wait_on[u]
                                 /\ wait_result'[u] = wait_result[u]
    BY <1>2, <2>1
  <2>4. ASSUME NEW o \in WaitObj PROVE WokenAt(o)' = WokenAt(o) \ {t}
    <3>1. \A u \in Task : Woken(u, o)' <=> Woken(u, o) /\ u # t
      BY <2>2, <2>3 DEF Woken
    <3> QED BY <3>1 DEF WokenAt
  <2>5. \A o \in WaitObj : wait_list'[o] # <<>> => wait_list[o] # <<>>
    BY <1>1, <2>1, LeavingIsLeaving
  <2>6. QueueOK'
    <3>1. wasted' \in [WaitObj -> Nat]
      BY <1>3
    <3> QED BY <1>3, <2>5, <3>1 DEF MsgInv, QueueOK, queues
  <2>7. ASSUME NEW o \in WaitObj PROVE NoLost(o)'
    <3> SUFFICES ASSUME wait_list'[o] # <<>>
                 PROVE  Avail(o)' <= Cardinality(WokenAt(o)') + wasted'[o]
      BY DEF NoLost
    <3>1. wait_list[o] # <<>> /\ Avail(o)' = Avail(o)
      BY <1>3, <2>5 DEF Avail, queues
    <3>2. Avail(o) <= Cardinality(WokenAt(o)) + wasted[o]
      BY <3>1 DEF MsgInv, NoLostOK, NoLost
    <3>3. IsFiniteSet(WokenAt(o)) /\ Cardinality(WokenAt(o)) \in Nat
      BY WokenIsFinite
    <3>4. WokenAt(o)' = WokenAt(o) \ {t}
      BY <2>4
    <3>5. CASE Woken(t, o)
      <4>1. wasted'[o] = wasted[o] + 1
        BY <1>3, <2>2, <3>1, <3>5 DEF HasWaiter
      <4>2. Cardinality(WokenAt(o)') = Cardinality(WokenAt(o)) - 1
        <5>1. t \in WokenAt(o)
          BY <3>5 DEF WokenAt
        <5> QED BY <3>3, <3>4, <5>1, FS_RemoveElement
      <4>3. wasted[o] \in Nat
        BY <1>3
      <4> QED BY <3>1, <3>2, <3>3, <4>1, <4>2, <4>3
    <3>6. CASE ~Woken(t, o)
      <4>1. wasted'[o] = wasted[o]
        BY <1>3, <3>6
      <4>2. WokenAt(o)' = WokenAt(o)
        BY <3>4, <3>6 DEF WokenAt
      <4> QED BY <3>1, <3>2, <4>1, <4>2
    <3> QED BY <3>5, <3>6
  <2>8. InCallOK'
    BY <1>2, <2>1, <2>3 DEF MsgInv, InCallOK
  <2> QED BY <1>1, <2>1, <2>5, <2>6, <2>7, <2>8, ClosingKept DEF MsgInv, NoLostOK
<1> QED BY <1>4, <1>5

LEMMA BreaksKeeps ==
  ASSUME IInv, MsgInv, Breaks, UNCHANGED <<queues, wasted>>
  PROVE  MsgInv'
<1>1. /\ mode = "run" /\ wait_result[s_cur_pt] # "OK"
      /\ in_call' = [in_call EXCEPT ![s_cur_pt] = NoObj]
      /\ UNCHANGED <<vars, wait_list, wait_on, wait_result, closing>>
  BY DEF Breaks, Returns
<1>2. s_cur_pt \in Task /\ wait_on[s_cur_pt] = NoObj
  <2>1. s_cur_pt \in Task /\ state[s_cur_pt] = "RUNNING"
    BY <1>1, Running
  <2> QED BY <2>1 DEF MsgInv, WaitInv, WaitTypeOK, WaitListsMatch
<1>3. in_call \in [Task -> WaitObj \cup {NoObj}]
  BY DEF MsgInv, WaitInv, WaitTypeOK
<1>4. \A o \in WaitObj : WokenAt(o)' = WokenAt(o)
  <2>1. \A o \in WaitObj : ~Woken(s_cur_pt, o)
    BY <1>1 DEF Woken
  <2>2. in_call'[s_cur_pt] = NoObj
    BY <1>1, <1>2, <1>3
  <2>3. \A u \in Task : u # s_cur_pt => in_call'[u] = in_call[u]
    BY <1>1, <1>3
  <2> QED BY <1>1, <1>2, <2>1, <2>2, <2>3, NobodyWoken
<1>5. QueueOK' /\ NoLostOK'
  BY <1>1, <1>4, QuietStep
<1>6. WaitInv'
  BY <1>1, <1>3, StateChanges DEF MsgInv, WaitInv, WaitTypeOK, vars
<1>7. InCallOK' /\ ClosingOK'
  BY <1>1, <1>2, <1>3 DEF MsgInv, InCallOK, ClosingOK
<1> QED BY <1>5, <1>6, <1>7 DEF MsgInv

\* A waiter leaves a closing queue.
LEMMA CloseReleaseKeeps ==
  ASSUME IInv, MsgInv, CloseRelease, UNCHANGED <<queues, wasted>>
  PROVE  MsgInv'
<1> DEFINE o == Head(closing)
           t == Head(wait_list[o])
<1>1. /\ Release(o, "ABORTED") /\ UNCHANGED <<in_call, closing>>
      /\ closing # <<>> /\ wait_list[o] # <<>>
  BY DEF CloseRelease, HasWaiter
<1>2. /\ wait_list \in [WaitObj -> Seq(Task)] /\ closing \in Seq(WaitObj)
      /\ wait_on \in [Task -> WaitObj \cup {NoObj}]
      /\ wait_result \in [Task -> {"OK", "TIMEOUT", "ABORTED"}]
  BY DEF MsgInv, WaitInv, WaitTypeOK
<1>3. o \in WaitObj /\ wait_list[o] \in Seq(Task)
  BY <1>1, <1>2
<1> HIDE DEF o
<1>4. t \in Task /\ Leave(t, "ABORTED")
  BY <1>1, <1>3 DEF Release
<1>5. wait_on[t] # NoObj
  <2>1. t \in ToSet(wait_list[o])
    BY <1>1, <1>3 DEF ToSet
  <2> QED BY <1>3, <2>1, WaitAssumption DEF MsgInv, WaitInv, WaitListsMatch
<1> HIDE DEF t
<1>6. WaitInv'
  BY <1>1, ReleaseKeeps DEF MsgInv, WaitInv, WaitTypeOK
<1>7. /\ wait_result'[t] = "ABORTED"
      /\ \A u \in Task : u # t => wait_on'[u] = wait_on[u] /\ wait_result'[u] = wait_result[u]
      /\ \A u \in Task : wait_on'[u] # NoObj => wait_on'[u] = wait_on[u]
  BY <1>2, <1>4 DEF Leave
<1>8. \A p \in WaitObj : WokenAt(p)' = WokenAt(p)
  BY <1>1, <1>4, <1>5, <1>7, WaiterNotWoken, NobodyWoken
<1>9. \A p \in WaitObj : wait_list'[p] # <<>> => wait_list[p] # <<>>
  BY <1>4, LeavingIsLeaving DEF MsgInv
<1>10. QueueOK' /\ NoLostOK'
  BY <1>8, <1>9, QuietStep
<1>11. InCallOK'
  BY <1>1, <1>7 DEF MsgInv, InCallOK
<1> QED BY <1>1, <1>6, <1>9, <1>10, <1>11, ClosingKept DEF MsgInv

\* Steps that touch neither the tasks nor the wait lists.
LEMMA TasksStay ==
  ASSUME MsgInv, UNCHANGED <<vars, wait_list, wait_on, wait_result, in_call>>
  PROVE  /\ WaitListsMatch' /\ InCallOK'
         /\ closing' \in Seq(WaitObj) => WaitInv'
         /\ \A o \in WaitObj : WokenAt(o)' = WokenAt(o)
<1>1. WaitListsMatch'
  BY StateChanges DEF MsgInv, vars
<1>2. InCallOK'
  BY DEF MsgInv, InCallOK
<1>3. closing' \in Seq(WaitObj) => WaitInv'
  BY <1>1 DEF MsgInv, WaitInv, WaitTypeOK
<1>4. \A o \in WaitObj : WokenAt(o)' = WokenAt(o)
  BY DEF WokenAt, Woken
<1> QED BY <1>1, <1>2, <1>3, <1>4

LEMMA MsgDestroyKeeps ==
  ASSUME IInv, MsgInv, NEW m \in Msg, MsgDestroy(m)
  PROVE  MsgInv'
<1>1. /\ closing' = << <<m, "recv">>, <<m, "send">> >>
      /\ UNCHANGED <<vars, wait_list, wait_on, wait_result, in_call>>
      /\ UNCHANGED <<queues, wasted>>
  BY DEF MsgDestroy, Close
<1>2. closing' \in Seq(WaitObj) /\ ClosingOK'
  BY <1>1, ObjectsArePairs DEF ClosingOK
<1> QED BY <1>1, <1>2, TasksStay, QuietStep DEF MsgInv

LEMMA MsgDestroyEndsKeeps ==
  ASSUME IInv, MsgInv, MsgDestroyEnds
  PROVE  MsgInv'
<1>1. /\ closing # <<>> /\ wait_list[Head(closing)] = <<>>
      /\ closing' = Tail(closing)
      /\ msgs' = IF closing' = <<>> THEN msgs \ {Head(closing)[1]} ELSE msgs
      /\ UNCHANGED <<vars, wait_list, wait_on, wait_result, in_call, item_amount, wasted>>
  BY DEF MsgDestroyEnds, CloseNext, HasWaiter
<1>2. PICK m \in Msg :
        \/ closing = << <<m, "recv">>, <<m, "send">> >>
        \/ closing = << <<m, "send">> >> /\ wait_list[<<m, "recv">>] = <<>>
  BY <1>1 DEF MsgInv, ClosingOK
<1>3. <<m, "send">> \in WaitObj /\ <<m, "recv">> \in WaitObj
  BY ObjectsArePairs
<1>4. CASE closing = << <<m, "recv">>, <<m, "send">> >>
  <2>1. closing' = << <<m, "send">> >> /\ Head(closing) = <<m, "recv">>
    BY <1>1, <1>4
  <2>2. closing' \in Seq(WaitObj) /\ closing' # <<>>
    BY <1>3, <2>1
  <2>3. ClosingOK'
    BY <1>1, <2>1 DEF ClosingOK
  <2> QED BY <1>1, <2>2, <2>3, TasksStay, QuietStep DEF MsgInv, queues
<1>5. CASE closing = << <<m, "send">> >> /\ wait_list[<<m, "recv">>] = <<>>
  <2>1. closing' = <<>> /\ Head(closing) = <<m, "send">>
    BY <1>1, <1>5
  <2>2. closing' \in Seq(WaitObj) /\ ClosingOK' /\ msgs' = msgs \ {m}
    <3>1. <<m, "send">>[1] = m
      OBVIOUS
    <3>2. msgs' = msgs \ {Head(closing)[1]}
      BY <1>1, <2>1
    <3>3. msgs' = msgs \ {m}
      BY <2>1, <3>1, <3>2
    <3>4. closing' \in Seq(WaitObj)
      BY <2>1
    <3> QED BY <2>1, <3>3, <3>4 DEF ClosingOK
  <2>3. wait_list[<<m, "send">>] = <<>> /\ wait_list[<<m, "recv">>] = <<>>
    BY <1>1, <1>5, <2>1
  <2>4. ASSUME NEW o \in WaitObj, wait_list[o] # <<>> PROVE o[1] # m
    BY <2>3, <2>4, ObjectsArePairs DEF Side
  <2>5. QueueOK'
    BY <1>1, <2>2, <2>4 DEF MsgInv, QueueOK
  <2>6. NoLostOK'
    <3>1. \A o \in WaitObj : WokenAt(o)' = WokenAt(o)
      BY <1>1, TasksStay
    <3>2. \A o : Avail(o)' = Avail(o)
      BY <1>1 DEF Avail
    <3>3. ASSUME NEW o \in WaitObj PROVE NoLost(o)'
      <4>1. NoLost(o)
        BY DEF MsgInv, NoLostOK
      <4> QED BY <1>1, <3>1, <3>2, <4>1 DEF NoLost
    <3> QED BY <3>3 DEF NoLostOK
  <2> QED BY <1>1, <2>2, <2>5, <2>6, TasksStay DEF MsgInv
<1> QED BY <1>2, <1>4, <1>5

LEMMA MsgCreateKeeps ==
  ASSUME IInv, MsgInv, NEW m \in Msg, MsgCreate(m)
  PROVE  MsgInv'
<1>1. /\ m \notin msgs /\ msgs' = msgs \cup {m}
      /\ item_amount' = [item_amount EXCEPT ![m] = 0]
      /\ UNCHANGED vars /\ UNCHANGED <<wait_list, wait_on, wait_result, in_call, closing>>
      /\ UNCHANGED wasted
  BY DEF MsgCreate, waitVars
<1>2. WaitInv' /\ InCallOK' /\ \A o \in WaitObj : WokenAt(o)' = WokenAt(o)
  BY <1>1, TasksStay DEF MsgInv, WaitInv, WaitTypeOK
<1>3. QueueOK'
  BY <1>1, MsgAssumption DEF MsgInv, QueueOK
<1>4. ASSUME NEW o \in WaitObj PROVE NoLost(o)'
  <2>1. wait_list[o] # <<>> => o[1] # m
    BY <1>1 DEF MsgInv, QueueOK
  <2>2. o[1] \in Msg /\ (o[1] # m => item_amount'[o[1]] = item_amount[o[1]])
    BY <1>1, ObjectsArePairs DEF MsgInv, QueueOK
  <2>3. o[1] # m => Avail(o)' = Avail(o)
    BY <2>2 DEF Avail
  <2>4. NoLost(o)
    BY DEF MsgInv, NoLostOK
  <2> QED BY <1>1, <1>2, <2>1, <2>3, <2>4 DEF NoLost
<1> QED BY <1>1, <1>2, <1>3, <1>4, ClosingKept DEF MsgInv, NoLostOK

-----------------------------------------------------------------------------
(* The running task calls. *)

LEMMA AvailIsNat ==
  ASSUME QueueOK, NEW o \in WaitObj
  PROVE  Avail(o) \in Nat
BY ObjectsArePairs, MsgAssumption DEF QueueOK, Avail

\* The caller waits on nothing, and is not woken for another object.
LEMMA Caller ==
  ASSUME IInv, MsgInv, NEW o \in WaitObj, AtCall(o)
  PROVE  /\ s_cur_pt \in Task /\ state[s_cur_pt] = "RUNNING"
         /\ wait_on[s_cur_pt] = NoObj
         /\ in_call[s_cur_pt] \in {NoObj, o}
         /\ \A p \in WaitObj : p # o => s_cur_pt \notin WokenAt(p)
<1>1. s_cur_pt \in Task /\ state[s_cur_pt] = "RUNNING"
  BY Running DEF AtCall
<1>2. wait_on[s_cur_pt] = NoObj
  BY <1>1 DEF MsgInv, WaitInv, WaitTypeOK, WaitListsMatch
<1>3. in_call[s_cur_pt] \in {NoObj, o}
  BY DEF AtCall, Woken
<1> QED BY <1>1, <1>2, <1>3, WaitAssumption DEF WokenAt, Woken

\* The call returns false: there is nothing to come for.
LEMMA WaitingKeeps ==
  ASSUME IInv, MsgInv, NEW o \in WaitObj, NEW x \in Delays,
         AtCall(o), o[1] \in msgs, Avail(o) = 0, WaitOn(o, x), UNCHANGED queues,
         wasted' = [wasted EXCEPT ![o] = 0]
  PROVE  MsgInv'
<1>1. WaitInv /\ WaitInv'
  BY WaitOnKeeps DEF MsgInv
<1>2. /\ wait_on' = [wait_on EXCEPT ![s_cur_pt] = o]
      /\ wait_list' = [wait_list EXCEPT ![o] = InsertByPrio(@, s_cur_pt)]
      /\ in_call' = [in_call EXCEPT ![s_cur_pt] = o]
      /\ UNCHANGED <<wait_result, closing>>
  BY DEF WaitOn
<1>3. /\ wait_list \in [WaitObj -> Seq(Task)]
      /\ wait_on \in [Task -> WaitObj \cup {NoObj}]
      /\ in_call \in [Task -> WaitObj \cup {NoObj}]
  BY <1>1 DEF WaitInv, WaitTypeOK
<1>4. /\ s_cur_pt \in Task
      /\ \A p \in WaitObj : p # o => s_cur_pt \notin WokenAt(p)
  BY Caller
<1>5. /\ \A u \in Task : u # s_cur_pt => wait_on'[u] = wait_on[u] /\ in_call'[u] = in_call[u]
      /\ wait_on'[s_cur_pt] = o /\ in_call'[s_cur_pt] = o
  BY <1>2, <1>3, <1>4
<1>6. \A p \in WaitObj : p # o => wait_list'[p] = wait_list[p]
  BY <1>2, <1>3
<1>7. \A p \in WaitObj : Avail(p)' = Avail(p)
  BY DEF Avail, queues
<1>12. /\ wasted' \in [WaitObj -> Nat] /\ wasted'[o] = 0
       /\ \A p \in WaitObj : p # o => wasted'[p] = wasted[p]
  BY DEF MsgInv, QueueOK
<1>8. ASSUME NEW p \in WaitObj PROVE NoLost(p)'
  <2>1. CASE p = o
    <3>1. Cardinality(WokenAt(o)') \in Nat
      <4>1. WokenAt(o)' \subseteq Task
        BY DEF WokenAt
      <4> QED BY <4>1, MsgAssumption, FS_Subset, FS_CardinalityType
    <3> QED BY <1>7, <1>12, <2>1, <3>1 DEF NoLost
  <2>2. CASE p # o
    <3>1. \A u \in Task : Woken(u, p)' <=> Woken(u, p)
      BY <1>2, <1>4, <1>5, <2>2 DEF WokenAt, Woken
    <3>2. WokenAt(p)' = WokenAt(p)
      BY <3>1 DEF WokenAt
    <3>3. NoLost(p)
      BY DEF MsgInv, NoLostOK
    <3> QED BY <1>6, <1>7, <1>12, <2>2, <3>2, <3>3 DEF NoLost
  <2> QED BY <2>1, <2>2
<1>9. QueueOK'
  BY <1>6, <1>12 DEF MsgInv, QueueOK, queues
<1>10. InCallOK'
  BY <1>5 DEF MsgInv, InCallOK
<1>11. ClosingOK'
  BY <1>2 DEF AtCall, ClosingOK
<1> QED BY <1>1, <1>8, <1>9, <1>10, <1>11 DEF MsgInv, NoLostOK

\* The call transfers a message: what its side waits for falls by one, what the
\* other side waits for rises by one.
LEMMA TransferKeeps ==
  ASSUME IInv, MsgInv, NEW own \in WaitObj, NEW other \in WaitObj, own # other,
         AtCall(own), WakeOne(other), Returns, QueueOK', UNCHANGED wasted,
         Avail(own)' = Avail(own) - 1, Avail(other)' = Avail(other) + 1,
         \A p \in WaitObj : p \notin {own, other} => Avail(p)' = Avail(p)
  PROVE  MsgInv'
<1>1. /\ s_cur_pt \in Task /\ state[s_cur_pt] = "RUNNING"
      /\ in_call[s_cur_pt] \in {NoObj, own}
      /\ \A p \in WaitObj : p # own => s_cur_pt \notin WokenAt(p)
  BY Caller
<1>2. /\ wait_list \in [WaitObj -> Seq(Task)]
      /\ wait_on \in [Task -> WaitObj \cup {NoObj}]
      /\ wait_result \in [Task -> {"OK", "TIMEOUT", "ABORTED"}]
      /\ in_call \in [Task -> WaitObj \cup {NoObj}]
      /\ WaitInv
  BY DEF MsgInv, WaitInv, WaitTypeOK
<1>3. /\ in_call' = [in_call EXCEPT ![s_cur_pt] = NoObj]
      /\ UNCHANGED closing /\ closing = <<>>
  BY DEF Returns, AtCall
<1>4. in_call'[s_cur_pt] = NoObj /\ \A u \in Task : u # s_cur_pt => in_call'[u] = in_call[u]
  BY <1>1, <1>2, <1>3
<1>5. in_call' \in [Task -> WaitObj \cup {NoObj}] /\ ClosingOK'
  BY <1>2, <1>3 DEF ClosingOK
<1>6. CASE ~HasWaiter(other)
  <2>1. UNCHANGED <<vars, wait_list, wait_on, wait_result>> /\ wait_list[other] = <<>>
    BY <1>6 DEF WakeOne, HasWaiter
  <2>2. WaitListsMatch'
    BY <1>2, <2>1, StateChanges DEF vars
  <2>3. WaitInv' /\ InCallOK'
    <3>1. InCallOK'
      BY <1>1, <1>4, <2>1, Caller DEF MsgInv, InCallOK
    <3> QED BY <1>2, <1>3, <1>5, <2>1, <2>2, <3>1 DEF WaitInv, WaitTypeOK
  <2>4. ASSUME NEW p \in WaitObj PROVE WokenAt(p)' = WokenAt(p) \ {s_cur_pt}
    <3>1. \A u \in Task : Woken(u, p)' <=> Woken(u, p) /\ u # s_cur_pt
      BY <1>4, <2>1, WaitAssumption DEF Woken
    <3> QED BY <3>1 DEF WokenAt
  <2>5. ASSUME NEW p \in WaitObj PROVE NoLost(p)'
    <3>1. NoLost(p) /\ wait_list'[p] = wait_list[p]
      BY <2>1 DEF MsgInv, NoLostOK
    <3>2. IsFiniteSet(WokenAt(p)) /\ Cardinality(WokenAt(p)) \in Nat
      BY WokenIsFinite
    <3>3. CASE p = own
      <4>1. Cardinality(WokenAt(own) \ {s_cur_pt}) \in
              {Cardinality(WokenAt(own)), Cardinality(WokenAt(own)) - 1}
        BY <3>2, <3>3, FS_RemoveElement
      <4>2. WokenAt(own)' = WokenAt(own) \ {s_cur_pt}
        BY <2>4
      <4> QED BY <3>1, <3>2, <3>3, <4>1, <4>2, AvailIsNat DEF NoLost, MsgInv, QueueOK
    <3>4. CASE p = other
      BY <2>1, <3>1, <3>4 DEF NoLost
    <3>5. CASE p \notin {own, other}
      <4>1. WokenAt(p)' = WokenAt(p)
        BY <1>1, <2>4, <3>5
      <4> QED BY <3>1, <3>5, <4>1 DEF NoLost
    <3> QED BY <3>3, <3>4, <3>5
  <2> QED BY <1>5, <2>3, <2>5 DEF MsgInv, NoLostOK
<1>7. CASE HasWaiter(other)
  <2> DEFINE t == Head(wait_list[other])
  <2>1. Release(other, "OK") /\ wait_list[other] # <<>>
    BY <1>7 DEF WakeOne, HasWaiter
  <2>2. t \in Task /\ t \in ToSet(wait_list[other]) /\ Leave(t, "OK")
    BY <1>2, <2>1 DEF Release, ToSet
  <2> HIDE DEF t
  <2>3. wait_on[t] = other /\ state[t] = "BLOCK"
    BY <2>2 DEF MsgInv, WaitInv, WaitListsMatch
  <2>4. in_call[t] = other /\ t # s_cur_pt /\ \A p \in WaitObj : t \notin WokenAt(p)
    BY <1>1, <2>2, <2>3, WaitAssumption, WaiterNotWoken DEF MsgInv, InCallOK, WokenAt
  <2>5. /\ wait_on'[t] = NoObj /\ wait_result'[t] = "OK"
        /\ \A u \in Task : u # t => wait_on'[u] = wait_on[u] /\ wait_result'[u] = wait_result[u]
    BY <1>2, <2>2 DEF Leave
  <2>6. WaitInv'
    BY <1>2, <1>3, <1>5, <2>1, ReleaseKeeps DEF WaitInv, WaitTypeOK
  <2>7. InCallOK'
    BY <1>1, <1>4, <2>5, Caller DEF MsgInv, InCallOK
  <2>8. \A p \in WaitObj : wait_list'[p] # <<>> => wait_list[p] # <<>>
    BY <1>2, <2>2, LeavingIsLeaving
  <2>9. ASSUME NEW p \in WaitObj
        PROVE  WokenAt(p)' = (WokenAt(p) \ {s_cur_pt}) \cup (IF p = other THEN {t} ELSE {})
    <3>1. \A u \in Task : Woken(u, p)' <=>
            \/ Woken(u, p) /\ u # s_cur_pt
            \/ u = t /\ p = other
      <4> SUFFICES ASSUME NEW u \in Task
                   PROVE  Woken(u, p)' <=> \/ Woken(u, p) /\ u # s_cur_pt
                                           \/ u = t /\ p = other
        OBVIOUS
      <4>1. CASE u = t
        BY <1>4, <2>2, <2>4, <2>5, <4>1 DEF Woken, WokenAt
      <4>2. CASE u # t
        BY <1>4, <2>5, <4>2, WaitAssumption DEF Woken
      <4> QED BY <4>1, <4>2
    <3> QED BY <2>2, <3>1 DEF WokenAt
  <2>10. ASSUME NEW p \in WaitObj PROVE NoLost(p)'
    <3>1. NoLost(p) /\ (wait_list'[p] # <<>> => wait_list[p] # <<>>)
      BY <2>8 DEF MsgInv, NoLostOK
    <3>2. IsFiniteSet(WokenAt(p)) /\ Cardinality(WokenAt(p)) \in Nat
      BY WokenIsFinite
    <3>3. CASE p = own
      <4>1. Cardinality(WokenAt(own) \ {s_cur_pt}) \in
              {Cardinality(WokenAt(own)), Cardinality(WokenAt(own)) - 1}
        BY <3>2, <3>3, FS_RemoveElement
      <4>2. WokenAt(own)' = WokenAt(own) \ {s_cur_pt}
        BY <2>9
      <4> QED BY <3>1, <3>2, <3>3, <4>1, <4>2, AvailIsNat DEF NoLost, MsgInv, QueueOK
    <3>4. CASE p = other
      <4>1. WokenAt(other)' = WokenAt(other) \cup {t} /\ t \notin WokenAt(other)
        BY <1>1, <2>4, <2>9
      <4>2. Cardinality(WokenAt(other)') = Cardinality(WokenAt(other)) + 1
        BY <3>2, <3>4, <4>1, FS_AddElement
      <4>3. /\ Avail(other) <= Cardinality(WokenAt(other)) + wasted[other]
            /\ Avail(other) \in Nat /\ wasted[other] \in Nat
        BY <2>1, <3>1, <3>4, AvailIsNat DEF NoLost, MsgInv, QueueOK
      <4>4. Avail(other)' <= Cardinality(WokenAt(other)') + wasted'[other]
        BY <3>2, <3>4, <4>2, <4>3
      <4> QED BY <3>4, <4>4 DEF NoLost
    <3>5. CASE p \notin {own, other}
      <4>1. WokenAt(p)' = WokenAt(p)
        BY <1>1, <2>9, <3>5
      <4> QED BY <3>1, <3>5, <4>1 DEF NoLost
    <3> QED BY <3>3, <3>4, <3>5
  <2> QED BY <1>5, <2>6, <2>7, <2>10 DEF MsgInv, NoLostOK
<1> QED BY <1>6, <1>7

LEMMA CallKeeps ==
  ASSUME IInv, MsgInv, NEW m \in Msg,
         \/ SendNow(m) \/ RecvNow(m)
         \/ \E x \in Delays : SendWait(m, x) \/ RecvWait(m, x)
  PROVE  MsgInv'
<1> DEFINE snd == <<m, "send">>
           rcv == <<m, "recv">>
<1>1. /\ snd \in WaitObj /\ rcv \in WaitObj /\ snd # rcv
      /\ snd[1] = m /\ rcv[1] = m /\ snd[2] # "recv" /\ rcv[2] = "recv"
  BY ObjectsArePairs
<1>2. /\ item_amount \in [Msg -> 0 .. Cap] /\ Cap \in Nat
      /\ item_amount[m] \in 0 .. Cap
  BY MsgAssumption DEF MsgInv, QueueOK
<1>3. Avail(rcv) = item_amount[m] /\ Avail(snd) = Cap - item_amount[m]
  BY <1>1 DEF Avail
<1>4. ASSUME NEW p \in WaitObj, p \notin {snd, rcv} PROVE p[1] \in Msg /\ p[1] # m
  BY <1>4, ObjectsArePairs DEF Side
<1>5. ASSUME UNCHANGED <<msgs, wasted>>, WakeOne(snd) \/ WakeOne(rcv),
             item_amount' \in [Msg -> 0 .. Cap]
      PROVE  QueueOK'
  <2>1. \A p \in WaitObj : wait_list'[p] # <<>> => wait_list[p] # <<>>
    BY <1>5, LeavingIsLeaving, SchedAssumption DEF WakeOne, Release, Wake, MsgInv
  <2> QED BY <1>5, <2>1 DEF MsgInv, QueueOK
<1> HIDE DEF snd, rcv
<1>6. CASE SendNow(m)
  <2>1. /\ AtCall(snd) /\ WakeOne(rcv) /\ Returns /\ UNCHANGED <<msgs, wasted>>
        /\ item_amount[m] < Cap /\ item_amount' = [item_amount EXCEPT ![m] = @ + 1]
    BY <1>6 DEF SendNow, CanSend, snd, rcv
  <2>2. /\ item_amount' \in [Msg -> 0 .. Cap]
        /\ item_amount'[m] = item_amount[m] + 1
        /\ \A n \in Msg : n # m => item_amount'[n] = item_amount[n]
    BY <1>2, <2>1
  <2>3. Avail(snd)' = Avail(snd) - 1 /\ Avail(rcv)' = Avail(rcv) + 1
    BY <1>1, <1>2, <1>3, <2>2 DEF Avail
  <2>4. \A p \in WaitObj : p \notin {snd, rcv} => Avail(p)' = Avail(p)
    BY <1>4, <2>2 DEF Avail
  <2>5. QueueOK'
    BY <1>5, <2>1, <2>2
  <2> QED BY <1>1, <2>1, <2>3, <2>4, <2>5, TransferKeeps
<1>7. CASE RecvNow(m)
  <2>1. /\ AtCall(rcv) /\ WakeOne(snd) /\ Returns /\ UNCHANGED <<msgs, wasted>>
        /\ item_amount[m] > 0 /\ item_amount' = [item_amount EXCEPT ![m] = @ - 1]
    BY <1>7 DEF RecvNow, CanRecv, snd, rcv
  <2>2. /\ item_amount' \in [Msg -> 0 .. Cap]
        /\ item_amount'[m] = item_amount[m] - 1
        /\ \A n \in Msg : n # m => item_amount'[n] = item_amount[n]
    BY <1>2, <2>1
  <2>3. Avail(rcv)' = Avail(rcv) - 1 /\ Avail(snd)' = Avail(snd) + 1
    BY <1>1, <1>2, <1>3, <2>2 DEF Avail
  <2>4. \A p \in WaitObj : p \notin {rcv, snd} => Avail(p)' = Avail(p)
    BY <1>4, <2>2 DEF Avail
  <2>5. QueueOK'
    BY <1>5, <2>1, <2>2
  <2> QED BY <1>1, <2>1, <2>3, <2>4, <2>5, TransferKeeps
<1>8. ASSUME NEW x \in Delays, SendWait(m, x) PROVE MsgInv'
  <2>1. /\ AtCall(snd) /\ m \in msgs /\ ~(item_amount[m] < Cap) /\ WaitOn(snd, x) /\ UNCHANGED queues
        /\ wasted' = [wasted EXCEPT ![snd] = 0]
    BY <1>8 DEF SendWait, CanSend, snd
  <2>2. Avail(snd) = 0
    BY <1>2, <1>3, <2>1
  <2> QED BY <1>1, <2>1, <2>2, WaitingKeeps
<1>9. ASSUME NEW x \in Delays, RecvWait(m, x) PROVE MsgInv'
  <2>1. /\ AtCall(rcv) /\ m \in msgs /\ ~(item_amount[m] > 0) /\ WaitOn(rcv, x) /\ UNCHANGED queues
        /\ wasted' = [wasted EXCEPT ![rcv] = 0]
    BY <1>9 DEF RecvWait, CanRecv, rcv
  <2>2. Avail(rcv) = 0
    BY <1>2, <1>3, <2>1
  <2> QED BY <1>1, <2>1, <2>2, WaitingKeeps
<1> QED BY <1>6, <1>7, <1>8, <1>9

LEMMA MsgStep ==
  ASSUME IInv, MsgInv, [MsgNext]_msgVars
  PROVE  MsgInv'
<1>1. CASE UNCHANGED msgVars
  <2>1. /\ UNCHANGED <<vars, wait_list, wait_on, wait_result, in_call, closing>>
        /\ UNCHANGED <<queues, wasted>>
    BY <1>1 DEF msgVars, waitVars
  <2>2. closing' \in Seq(WaitObj)
    BY <2>1 DEF MsgInv, WaitInv, WaitTypeOK
  <2> QED BY <2>1, <2>2, TasksStay, QuietStep, ClosingKept DEF MsgInv
<1> QED BY <1>1, KernelKeepsMsg, MsgTaskKeeps, MsgCreateKeeps, MsgDestroyKeeps,
          CallKeeps, BreaksKeeps, CloseReleaseKeeps, MsgDestroyEndsKeeps DEF MsgNext

-----------------------------------------------------------------------------
\* Every step is one of the scheduler's or leaves it alone, as its definition says:
\* what is proved of the scheduler holds with message queues too.
LEMMA MsgRefinesSched == MsgSpec => SafetySpec
<1>1. MsgInit => Init
  BY DEF MsgInit, WaitInit
<1>2. [MsgNext]_msgVars => [Next]_vars
  BY MsgNextIsSched DEF msgVars
<1> QED BY <1>1, <1>2, PTL DEF MsgSpec, SafetySpec

\* So messages and timeouts leave the states and lists of the scheduler in
\* agreement, and let no task jump the queue of its level.
THEOREM MsgConsistent == MsgSpec => []Consistent
<1>1. IInv => Consistent
  BY IInvSplits
<1> QED BY <1>1, MsgRefinesSched, SchedInvariant, PTL

THEOREM MsgInTurn == MsgSpec => InTurn
BY MsgRefinesSched, SchedInTurn, PTL

\* The wait lists agree with wait_msg and with the state of the tasks, a waiter's
\* saved line is in the macro of its queue, and while a task waits, what it waits
\* for is spoken for: by a woken task or, at most, by one that was destroyed or set
\* up anew between its wake-up and the call it would have repeated.  Every task may
\* be destroyed, suspended or blocked at any time.
THEOREM MsgInvariant == MsgSpec => []MsgInv
<1>1. MsgInit => MsgInv
  BY MsgInitHolds
<1>2. IInv /\ MsgInv /\ [MsgNext]_msgVars => MsgInv'
  BY MsgStep
<1> QED BY <1>1, <1>2, MsgRefinesSched, SchedInvariant, PTL DEF MsgSpec

\* Type correctness of the message queues.
THEOREM MsgTypeCorrect == MsgSpec => []MsgTypeOK
<1>1. MsgInv => MsgTypeOK
  BY DEF MsgInv, WaitInv, QueueOK, MsgTypeOK
<1> QED BY <1>1, MsgInvariant, PTL

\* Exactly the tasks whose wait_msg names it are on a queue's wait list.
THEOREM MsgWaitLists == MsgSpec => []WaitListsMatch
<1>1. MsgInv => WaitListsMatch
  BY DEF MsgInv, WaitInv
<1> QED BY <1>1, MsgInvariant, PTL

\* No receiver sleeps over a message that nobody is coming for, unless the woken
\* receiver that was to take it has been destroyed or set up anew.
THEOREM MsgRecvNotLost == MsgSpec => []NoLostRecvWakeup
<1>1. MsgInv => NoLostRecvWakeup
  <2> SUFFICES ASSUME MsgInv, NEW m \in msgs
               PROVE  wait_list[<<m, "recv">>] # <<>> =>
                        item_amount[m] <=
                          Cardinality(WokenAt(<<m, "recv">>)) + wasted[<<m, "recv">>]
    BY DEF NoLostRecvWakeup
  <2>1. NoLost(<<m, "recv">>)
    BY ObjectsArePairs DEF MsgInv, QueueOK, NoLostOK
  <2> QED BY <2>1 DEF NoLost, Avail
<1> QED BY <1>1, MsgInvariant, PTL

\* No sender sleeps over a free slot that nobody is coming for, with the same
\* exception.
THEOREM MsgSendNotLost == MsgSpec => []NoLostSendWakeup
<1>1. MsgInv => NoLostSendWakeup
  <2> SUFFICES ASSUME MsgInv, NEW m \in msgs
               PROVE  wait_list[<<m, "send">>] # <<>> =>
                        Cap - item_amount[m] <=
                          Cardinality(WokenAt(<<m, "send">>)) + wasted[<<m, "send">>]
    BY DEF NoLostSendWakeup
  <2>1. NoLost(<<m, "send">>)
    BY ObjectsArePairs DEF MsgInv, QueueOK, NoLostOK
  <2> QED BY <2>1 DEF NoLost, Avail
<1> QED BY <1>1, MsgInvariant, PTL

\* Every step keeps the wait lists sorted and releases from their heads.
LEMMA MsgOrdered ==
  ASSUME IInv, MsgInv, WaitSorted, [MsgNext]_msgVars
  PROVE  WaitSorted' /\ BestFirst /\ WaitersKept
<1>1. WaitInv
  BY DEF MsgInv
<1>2. ASSUME NEW m \in Msg, SendNow(m) \/ RecvNow(m)
      PROVE  WaitSorted' /\ BestFirst /\ WaitersKept
  <2>1. <<m, "recv">> \in WaitObj /\ <<m, "send">> \in WaitObj
    BY ObjectsArePairs
  <2> QED BY <1>1, <1>2, <2>1, ReleaseOrdered, NobodyMoves, TurnsRelease, TurnsStay
        DEF SendNow, RecvNow, WakeOne
<1>3. ASSUME NEW m \in Msg, NEW x \in Delays, SendWait(m, x) \/ RecvWait(m, x)
      PROVE  WaitSorted' /\ BestFirst /\ WaitersKept
  <2>1. <<m, "recv">> \in WaitObj /\ <<m, "send">> \in WaitObj
    BY ObjectsArePairs
  <2> QED BY <1>1, <1>3, <2>1, WaitOnOrdered, TurnsJoin DEF SendWait, RecvWait
<1>4. CASE Breaks \/ MsgDestroyEnds \/ UNCHANGED msgVars
          \/ \E m \in Msg : MsgCreate(m) \/ MsgDestroy(m)
  BY <1>4, NobodyMoves, TurnsStay DEF Breaks, MsgDestroyEnds, CloseNext, MsgCreate,
    MsgDestroy, Close, msgVars, waitVars
<1> QED BY <1>1, <1>2, <1>3, <1>4, PlainOrdered, CloseReleaseOrdered,
          TurnsPlain, TurnsClose DEF MsgNext, MsgTask

\* A transfer wakes a waiter of the highest priority on the other side: both wait
\* lists stay sorted by priority whoever queues up, leaves or times out.
THEOREM MsgBestWaiterFirst == MsgSpec => BestWaiterFirst
<1>1. MsgInit => WaitSorted
  BY SortedFromTheStart DEF MsgInit
<1>2. IInv /\ MsgInv /\ WaitSorted /\ [MsgNext]_msgVars =>
        WaitSorted' /\ [BestFirst]_<<vars, waitVars>>
  BY MsgOrdered
<1> QED BY <1>1, <1>2, MsgRefinesSched, SchedInvariant, MsgInvariant, PTL
        DEF MsgSpec, BestWaiterFirst, BestFirst

\* Nor is a waiter overtaken: among equals the wait lists are FIFOs, and a higher
\* priority that queues up later is the only thing that passes it.
THEOREM MsgWaitersInTurn == MsgSpec => WaitersInTurn
<1>1. MsgInit => WaitSorted
  BY SortedFromTheStart DEF MsgInit
<1>2. IInv /\ MsgInv /\ WaitSorted /\ [MsgNext]_msgVars =>
        WaitSorted' /\ [WaitersKept]_<<vars, waitVars>>
  BY MsgOrdered
<1> QED BY <1>1, <1>2, MsgRefinesSched, SchedInvariant, MsgInvariant, PTL
        DEF MsgSpec, WaitersInTurn
=============================================================================
