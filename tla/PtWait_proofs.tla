---------------------------- MODULE PtWait_proofs ---------------------------
(***************************************************************************)
(* The wait lists of semaphores and message queues: every operation of     *)
(* PtWait is a step of the scheduler and keeps the lists and the tasks'    *)
(* wait_on in agreement.  A waiter is BLOCKed, so the steps that concern   *)
(* ready, suspended or running tasks cannot touch one; those that concern  *)
(* blocked tasks take the task off its wait list themselves.               *)
(***************************************************************************)
EXTENDS PtWait, PtSched_proofs

WaitInv == WaitTypeOK /\ WaitListsMatch

-----------------------------------------------------------------------------
(* Steps of the scheduler. *)

LEMMA KernelIsSched ==
  ASSUME WaitKernel
  PROVE  Next
BY DEF WaitKernel, WaitExpire, WaitSchedule, WaitPick, WaitCallbackEnds,
       WaitHardware, Next, Kernel

LEMMA OnWaitTaskIsSched ==
  ASSUME NEW t \in Task, OnWaitTask(t)
  PROVE  Next
<1>1. OnTask(t)
  BY DEF OnWaitTask, TaskStart, TaskDestroy, TaskDeinit, TaskPlain, OnTask
<1> QED BY <1>1 DEF Next

LEMMA ReleaseIsSched ==
  ASSUME NEW o, NEW result, Release(o, result)
  PROVE  Next
<1>1. Head(wait_list[o]) \in Task
  BY SchedAssumption DEF Release, Wake
<1>2. OnTask(Head(wait_list[o]))
  BY DEF Release, OnTask
<1> QED BY <1>1, <1>2 DEF Next

LEMMA WaitOnIsSched ==
  ASSUME NEW o, NEW x \in Delays, WaitOn(o, x)
  PROVE  Next
BY DEF WaitOn, Next, Kernel, CallbackEnds

-----------------------------------------------------------------------------
(* The three ways the wait lists and the states of tasks change. *)

\* The wait lists stay; a task that changes its state is no waiter or BLOCKs.
LEMMA StateChanges ==
  ASSUME WaitInv, UNCHANGED <<wait_list, wait_on>>,
         \A t \in Task : wait_on[t] # NoObj /\ state[t] = "BLOCK" => state'[t] = "BLOCK"
  PROVE  WaitListsMatch'
<1> SUFFICES ASSUME NEW o \in WaitObj
             PROVE  /\ IsInjective(wait_list[o])
                    /\ ToSet(wait_list[o]) = {t \in Task : wait_on[t] = o}
                    /\ \A t \in ToSet(wait_list[o]) : state'[t] = "BLOCK"
  BY DEF WaitListsMatch
<1>1. \A t \in Task : wait_on[t] = o => wait_on[t] # NoObj
  BY WaitAssumption
<1> QED BY <1>1 DEF WaitInv, WaitListsMatch

\* A task leaves the object it waits on, if any.
LEMMA LeaveKeeps ==
  ASSUME WaitInv, NEW t \in Task, NEW result \in {"OK", "TIMEOUT", "ABORTED"},
         Leave(t, result),
         \A u \in Task : u # t => state'[u] = state[u]
  PROVE  /\ WaitListsMatch'
         /\ wait_list' \in [WaitObj -> Seq(Task)]
         /\ wait_on' \in [Task -> WaitObj \cup {NoObj}]
         /\ wait_result' \in [Task -> {"OK", "TIMEOUT", "ABORTED"}]
<1>1. /\ wait_on \in [Task -> WaitObj \cup {NoObj}]
      /\ wait_list \in [WaitObj -> Seq(Task)]
      /\ wait_result \in [Task -> {"OK", "TIMEOUT", "ABORTED"}]
  BY DEF WaitInv, WaitTypeOK
<1>2. /\ wait_on' = [wait_on EXCEPT ![t] = NoObj]
      /\ wait_result' = [wait_result EXCEPT ![t] = result]
  BY DEF Leave
<1>3. ASSUME NEW o \in WaitObj
      PROVE  /\ wait_list[o] \in List(Task)
             /\ ToSet(wait_list[o]) = {u \in Task : wait_on[u] = o}
             /\ \A u \in ToSet(wait_list[o]) : state[u] = "BLOCK"
  BY <1>1 DEF WaitInv, WaitListsMatch, List
<1>4. ASSUME NEW o \in WaitObj
      PROVE  /\ wait_list'[o] \in List(Task)
             /\ ToSet(wait_list'[o]) = ToSet(wait_list[o]) \ {t}
  <2>1. CASE wait_on[t] = o
    <3>1. o # NoObj /\ t \in ToSet(wait_list[o])
      BY <1>3, <2>1, WaitAssumption
    <3>2. wait_list'[o] = ListRemove(wait_list[o], t)
      BY <1>1, <2>1, <3>1 DEF Leave
    <3> QED BY <1>3, <3>1, <3>2, RemoveList
  <2>2. CASE wait_on[t] # o
    <3>1. wait_list'[o] = wait_list[o]
      BY <1>1, <2>2 DEF Leave
    <3> QED BY <1>3, <2>2, <3>1
  <2> QED BY <2>1, <2>2
<1>5. DOMAIN wait_list' = WaitObj /\ wait_list' = [o \in WaitObj |-> wait_list'[o]]
  BY <1>1 DEF Leave
<1>6. WaitListsMatch'
  <2> SUFFICES ASSUME NEW o \in WaitObj
               PROVE  /\ IsInjective(wait_list'[o])
                      /\ ToSet(wait_list'[o]) = {u \in Task : wait_on'[u] = o}
                      /\ \A u \in ToSet(wait_list'[o]) : state'[u] = "BLOCK"
    BY DEF WaitListsMatch
  <2>1. \A u \in Task : wait_on'[u] = o <=> wait_on[u] = o /\ u # t
    BY <1>1, <1>2, WaitAssumption
  <2> QED BY <1>3, <1>4, <2>1 DEF List
<1>7. wait_list' \in [WaitObj -> Seq(Task)]
  BY <1>4, <1>5 DEF List
<1> QED BY <1>1, <1>2, <1>6, <1>7

\* Leaving fills no list.
LEMMA LeavingIsLeaving ==
  ASSUME WaitInv, NEW t \in Task, NEW result, Leave(t, result)
  PROVE  \A o \in WaitObj : wait_list'[o] # <<>> => wait_list[o] # <<>>
<1> SUFFICES ASSUME NEW o \in WaitObj, wait_list[o] = <<>> PROVE wait_list'[o] = <<>>
  OBVIOUS
<1>1. ToSet(<<>>) = {} /\ t \notin ToSet(wait_list[o])
  BY DEF ToSet
<1>2. wait_on[t] # o
  BY <1>1 DEF WaitInv, WaitListsMatch
<1> QED BY <1>2 DEF Leave, WaitInv, WaitTypeOK

\* A task that waits on nothing queues up on o.
LEMMA JoinKeeps ==
  ASSUME WaitInv, NEW t \in Task, NEW o \in WaitObj, wait_on[t] = NoObj,
         wait_on' = [wait_on EXCEPT ![t] = o],
         wait_list' = [wait_list EXCEPT ![o] = InsertByPrio(@, t)],
         StateOK, state' = [state EXCEPT ![t] = "BLOCK"]
  PROVE  /\ WaitListsMatch'
         /\ wait_list' \in [WaitObj -> Seq(Task)]
         /\ wait_on' \in [Task -> WaitObj \cup {NoObj}]
<1>1. /\ wait_on \in [Task -> WaitObj \cup {NoObj}]
      /\ wait_list \in [WaitObj -> Seq(Task)]
      /\ state \in [Task -> States]
  BY DEF WaitInv, WaitTypeOK, StateOK
<1>2. ASSUME NEW p \in WaitObj
      PROVE  /\ wait_list[p] \in List(Task)
             /\ ToSet(wait_list[p]) = {u \in Task : wait_on[u] = p}
             /\ \A u \in ToSet(wait_list[p]) : state[u] = "BLOCK"
  BY <1>1 DEF WaitInv, WaitListsMatch, List
<1> DEFINE l == InsertByPrio(wait_list[o], t)
<1>3. l \in List(Task) /\ ToSet(l) = ToSet(wait_list[o]) \cup {t}
  <2>1. t \notin ToSet(wait_list[o])
    BY <1>2, WaitAssumption
  <2> QED BY <1>2, <2>1, InsertList DEF InsertByPrio
<1> HIDE DEF l
<1>4. wait_list' = [wait_list EXCEPT ![o] = l]
  BY DEF l
<1>5. WaitListsMatch'
  <2> SUFFICES ASSUME NEW p \in WaitObj
               PROVE  /\ IsInjective(wait_list'[p])
                      /\ ToSet(wait_list'[p]) = {u \in Task : wait_on'[u] = p}
                      /\ \A u \in ToSet(wait_list'[p]) : state'[u] = "BLOCK"
    BY DEF WaitListsMatch
  <2>1. CASE p = o
    <3>1. wait_list'[p] = l
      BY <1>1, <1>4, <2>1
    <3>2. \A u \in Task : wait_on'[u] = p <=> u = t \/ wait_on[u] = p
      BY <1>1, <2>1
    <3> QED BY <1>1, <1>2, <1>3, <2>1, <3>1, <3>2 DEF List
  <2>2. CASE p # o
    <3>1. wait_list'[p] = wait_list[p]
      BY <1>1, <1>4, <2>2
    <3>2. \A u \in Task : wait_on'[u] = p <=> wait_on[u] = p
      BY <1>1, <2>2, WaitAssumption
    <3> QED BY <1>1, <1>2, <3>1, <3>2 DEF List
  <2> QED BY <2>1, <2>2
<1>6. wait_list' \in [WaitObj -> Seq(Task)]
  BY <1>1, <1>3, <1>4 DEF List
<1> QED BY <1>1, <1>5, <1>6

-----------------------------------------------------------------------------
(* The operations. *)

LEMMA WaitInitHolds == WaitInit => WaitInv
<1> SUFFICES ASSUME WaitInit PROVE WaitInv
  OBVIOUS
<1>1. <<>> \in Seq(Task) /\ ToSet(<<>>) = {} /\ IsInjective(<<>>)
  BY DEF ToSet, IsInjective
<1> QED BY <1>1, WaitAssumption DEF WaitInit, WaitInv, WaitTypeOK, WaitListsMatch

LEMMA HeadOfBlocked ==
  ASSUME IInv, s_block_list # <<>>
  PROVE  Head(s_block_list) \in Task /\ state[Head(s_block_list)] = "BLOCK"
<1>1. s_block_list \in List(Task)
  BY DEF IInv, BlockOK, BlockListMatches, List
<1>2. Head(s_block_list) \in ToSet(s_block_list)
  BY <1>1, HeadTailList
<1> QED BY <1>2 DEF IInv, BlockOK, BlockListMatches

LEMMA HeadOfReady ==
  ASSUME IInv, s_ready_mask # {}
  PROVE  NextReady \in Task /\ state[NextReady] = "READY"
<1> DEFINE Lowest(p) == \A q \in s_ready_mask : p <= q
<1>1. s_ready_mask \subseteq Levels /\ s_ready_mask \in SUBSET Nat
  BY DEF IInv, ReadyOK, Levels
<1>2. \E p \in s_ready_mask : Lowest(p)
  BY <1>1, MinPosition
<1> DEFINE p == CHOOSE q \in s_ready_mask : Lowest(q)
<1>3. p \in s_ready_mask
  BY <1>2
<1>4. NextReady = Head(s_ready_list[p])
  BY DEF NextReady
<1> HIDE DEF p
<1>5. p \in Levels /\ s_ready_list[p] # <<>>
  BY <1>1, <1>3 DEF IInv, ReadyOK, MaskMatches
<1>6. /\ s_ready_list[p] \in List(Task)
      /\ ToSet(s_ready_list[p]) = {t \in Task : state[t] = "READY" /\ Prio[t] = p}
  BY <1>5, ReadyLevel DEF IInv
<1>7. Head(s_ready_list[p]) \in ToSet(s_ready_list[p])
  BY <1>5, <1>6, HeadTailList
<1> QED BY <1>4, <1>6, <1>7

LEMMA KernelKeepsWait ==
  ASSUME IInv, WaitInv, WaitKernel
  PROVE  WaitInv'
<1>1. state \in [Task -> States]
  BY DEF IInv, StateOK
<1>2. CASE WaitExpire
  <2> DEFINE t == Head(s_block_list)
  <2>1. t \in Task /\ state[t] = "BLOCK"
    BY <1>2, HeadOfBlocked DEF WaitExpire, ExpireOne, FirstIsDue
  <2>2. /\ state' = [state EXCEPT ![t] = "READY"]
        /\ UNCHANGED <<in_call, closing>>
        /\ IF wait_on[t] = NoObj THEN UNCHANGED <<wait_list, wait_on, wait_result>>
                                 ELSE Leave(t, "TIMEOUT")
    BY <1>2 DEF WaitExpire, ExpireOne
  <2>3. \A u \in Task : u # t => state'[u] = state[u]
    BY <1>1, <2>2
  <2> HIDE DEF t
  <2>4. CASE wait_on[t] = NoObj
    BY <2>2, <2>3, <2>4, StateChanges DEF WaitInv, WaitTypeOK
  <2>5. CASE wait_on[t] # NoObj
    BY <2>1, <2>2, <2>3, <2>5, LeaveKeeps DEF WaitInv, WaitTypeOK
  <2> QED BY <2>4, <2>5
<1>3. ASSUME UNCHANGED waitVars,
             \A t \in Task : state[t] = "BLOCK" => state'[t] = "BLOCK"
      PROVE  WaitInv'
  BY <1>3, StateChanges DEF WaitInv, WaitTypeOK, waitVars
<1>4. CASE WaitSchedule \/ WaitHardware
  BY <1>3, <1>4 DEF WaitSchedule, Schedule, WaitHardware, Hardware, Tick,
    TimerFires, Interrupt
<1>5. CASE WaitPick
  <2>1. CASE NothingReady
    BY <1>3, <1>5, <2>1 DEF WaitPick, NothingReady
  <2>2. CASE Dispatch
    <3>1. NextReady \in Task /\ state[NextReady] = "READY"
      BY <2>2, HeadOfReady DEF Dispatch
    <3>2. state' = [state EXCEPT ![NextReady] = "RUNNING"]
      BY <2>2 DEF Dispatch
    <3>3. \A t \in Task : state[t] = "BLOCK" => state'[t] = "BLOCK"
      BY <1>1, <3>1, <3>2
    <3> QED BY <1>3, <1>5, <3>3 DEF WaitPick
  <2> QED BY <1>5, <2>1, <2>2 DEF WaitPick
<1>6. CASE WaitCallbackEnds
  <2>1. mode = "run" /\ UNCHANGED waitVars
        /\ \E s : state' = [state EXCEPT ![s_cur_pt] = s]
    BY <1>6 DEF WaitCallbackEnds, CallbackEnds, Yield, SuspendSelf, Delay
  <2>2. s_cur_pt \in Task /\ state[s_cur_pt] = "RUNNING"
    BY <2>1, Running
  <2>3. \A t \in Task : state[t] = "BLOCK" => state'[t] = "BLOCK"
    BY <1>1, <2>1, <2>2
  <2> QED BY <1>3, <2>1, <2>3
<1> QED BY <1>2, <1>4, <1>5, <1>6 DEF WaitKernel

LEMMA OnWaitTaskKeeps ==
  ASSUME IInv, WaitInv, NEW t \in Task, OnWaitTask(t)
  PROVE  WaitInv'
<1>1. state \in [Task -> States]
  BY DEF IInv, StateOK
<1>2. CASE TaskStart(t)
  <2>1. /\ state[t] \in {"NONE", "SUSPEND"}
        /\ state' = [state EXCEPT ![t] = "READY"]
        /\ wait_result' = [wait_result EXCEPT ![t] = "OK"]
        /\ wait_on' = [wait_on EXCEPT ![t] = NoObj]
        /\ in_call' = [in_call EXCEPT ![t] = NoObj]
        /\ UNCHANGED <<wait_list, closing>>
    BY <1>2 DEF TaskStart, Create, InitStatic, Start
  <2>2. /\ wait_on \in [Task -> WaitObj \cup {NoObj}]
        /\ \A o \in WaitObj : ToSet(wait_list[o]) = {u \in Task : wait_on[u] = o}
        /\ \A o \in WaitObj : \A u \in ToSet(wait_list[o]) : state[u] = "BLOCK"
    BY DEF WaitInv, WaitTypeOK, WaitListsMatch
  <2>3. wait_on[t] = NoObj
    BY <2>1, <2>2
  <2>4. UNCHANGED wait_on
    BY <2>1, <2>2, <2>3
  <2>5. \A u \in Task : state[u] = "BLOCK" => state'[u] = "BLOCK"
    BY <1>1, <2>1
  <2> QED BY <2>1, <2>4, <2>5, StateChanges DEF WaitInv, WaitTypeOK
<1>3. CASE TaskDestroy(t) \/ TaskDeinit(t)
  <2>1. /\ \E s : state' = [state EXCEPT ![t] = s]
        /\ Leave(t, "ABORTED")
        /\ in_call' \in {in_call, [in_call EXCEPT ![t] = NoObj]}
        /\ UNCHANGED closing
    BY <1>3 DEF TaskDestroy, Destroy, TaskDeinit, DeinitStatic, Suspend
  <2>2. \A u \in Task : u # t => state'[u] = state[u]
    BY <1>1, <2>1
  <2> QED BY <2>1, <2>2, LeaveKeeps DEF WaitInv, WaitTypeOK
<1>4. CASE TaskPlain(t)
  <2>1. UNCHANGED waitVars
    BY <1>4 DEF TaskPlain
  <2>2. \A u \in Task : wait_on[u] # NoObj /\ state[u] = "BLOCK" => state'[u] = "BLOCK"
    BY <1>1, <1>4 DEF TaskPlain, Suspend, Resume, Block
  <2> QED BY <2>1, <2>2, StateChanges DEF WaitInv, WaitTypeOK, waitVars
<1> QED BY <1>2, <1>3, <1>4 DEF OnWaitTask

\* A wake-up by a give, a transfer or a destroy.
LEMMA ReleaseKeeps ==
  ASSUME IInv, WaitInv, NEW o, NEW result \in {"OK", "TIMEOUT", "ABORTED"},
         Release(o, result)
  PROVE  /\ WaitListsMatch'
         /\ wait_list' \in [WaitObj -> Seq(Task)]
         /\ wait_on' \in [Task -> WaitObj \cup {NoObj}]
         /\ wait_result' \in [Task -> {"OK", "TIMEOUT", "ABORTED"}]
<1> DEFINE t == Head(wait_list[o])
<1>1. /\ t \in Task /\ state' = [state EXCEPT ![t] = "READY"]
      /\ Leave(t, result)
  BY SchedAssumption DEF Release, Wake
<1> HIDE DEF t
<1>2. \A u \in Task : u # t => state'[u] = state[u]
  BY <1>1 DEF IInv, StateOK
<1> QED BY <1>1, <1>2, LeaveKeeps

LEMMA WaitOnKeeps ==
  ASSUME IInv, WaitInv, NEW o \in WaitObj, NEW x, WaitOn(o, x)
  PROVE  WaitInv'
<1>1. /\ mode = "run" /\ state' = [state EXCEPT ![s_cur_pt] = "BLOCK"]
      /\ wait_on' = [wait_on EXCEPT ![s_cur_pt] = o]
      /\ wait_list' = [wait_list EXCEPT ![o] = InsertByPrio(@, s_cur_pt)]
      /\ in_call' = [in_call EXCEPT ![s_cur_pt] = o]
      /\ UNCHANGED <<wait_result, closing>>
  BY DEF WaitOn, Delay
<1>2. s_cur_pt \in Task /\ state[s_cur_pt] = "RUNNING"
  BY <1>1, Running
<1>3. wait_on[s_cur_pt] = NoObj
  BY <1>2 DEF WaitInv, WaitTypeOK, WaitListsMatch
<1>4. StateOK
  BY DEF IInv
<1>5. /\ WaitListsMatch'
      /\ wait_list' \in [WaitObj -> Seq(Task)]
      /\ wait_on' \in [Task -> WaitObj \cup {NoObj}]
  BY <1>1, <1>2, <1>3, <1>4, JoinKeeps
<1> QED BY <1>1, <1>5 DEF WaitInv, WaitTypeOK

-----------------------------------------------------------------------------
(* The order of the wait lists. *)

PrioOrder == {p \in Task \X Task : Prio[p[1]] <= Prio[p[2]]}
WaitSorted == \A o \in WaitObj : InOrder(wait_list[o], PrioOrder)

LEMMA NobodyMoves ==
  ASSUME WaitSorted, UNCHANGED <<wait_list, wait_on>>
  PROVE  WaitSorted' /\ BestFirst
BY WaitAssumption DEF WaitSorted, BestFirst, Served

LEMMA LeaveSorted ==
  ASSUME WaitInv, WaitSorted, NEW t \in Task, NEW result, Leave(t, result)
  PROVE  WaitSorted'
<1> SUFFICES ASSUME NEW o \in WaitObj PROVE InOrder(wait_list'[o], PrioOrder)
  BY DEF WaitSorted
<1>1. /\ wait_list \in [WaitObj -> Seq(Task)] /\ wait_list[o] \in List(Task)
      /\ InOrder(wait_list[o], PrioOrder)
      /\ ToSet(wait_list[o]) = {u \in Task : wait_on[u] = o}
  BY DEF WaitInv, WaitTypeOK, WaitListsMatch, WaitSorted, List
<1>2. CASE wait_on[t] = o
  <2>1. wait_list'[o] = ListRemove(wait_list[o], t)
    BY <1>1, <1>2, WaitAssumption DEF Leave
  <2> QED BY <1>1, <1>2, <2>1, RemoveInOrder
<1>3. CASE wait_on[t] # o
  <2>1. wait_list'[o] = wait_list[o]
    BY <1>1, <1>3 DEF Leave
  <2> QED BY <1>1, <2>1
<1> QED BY <1>2, <1>3

\* A task that leaves with a timeout or an abort.
LEMMA LeaveOrdered ==
  ASSUME WaitInv, WaitSorted, NEW t \in Task, NEW result \in {"TIMEOUT", "ABORTED"},
         Leave(t, result)
  PROVE  WaitSorted' /\ BestFirst
<1>1. /\ wait_on \in [Task -> WaitObj \cup {NoObj}]
      /\ wait_result \in [Task -> {"OK", "TIMEOUT", "ABORTED"}]
      /\ wait_on' = [wait_on EXCEPT ![t] = NoObj]
      /\ wait_result' = [wait_result EXCEPT ![t] = result]
  BY DEF WaitInv, WaitTypeOK, Leave
<1>2. \A u \in Task : wait_on[u] \in WaitObj /\ wait_on'[u] = NoObj => u = t
  BY <1>1, WaitAssumption
<1>3. wait_result'[t] # "OK"
  BY <1>1
<1> QED BY <1>2, <1>3, LeaveSorted DEF BestFirst, Served

\* The head of a sorted wait list has a priority no other waiter is above.
LEMMA ReleaseOrdered ==
  ASSUME WaitInv, WaitSorted, NEW o \in WaitObj, HasWaiter(o), NEW result,
         Release(o, result)
  PROVE  WaitSorted' /\ BestFirst
<1> DEFINE h == Head(wait_list[o])
<1>1. /\ wait_list[o] \in List(Task) /\ wait_list[o] # <<>>
      /\ InOrder(wait_list[o], PrioOrder)
      /\ ToSet(wait_list[o]) = {u \in Task : wait_on[u] = o}
  BY DEF WaitInv, WaitTypeOK, WaitListsMatch, WaitSorted, List, HasWaiter
<1>2. h \in Task /\ wait_on[h] = o
  BY <1>1, HeadTailList
<1>3. Leave(h, result)
  BY DEF Release
<1>4. ASSUME NEW u \in Task, wait_on[u] = o
      PROVE  Prio[h] <= Prio[u]
  <2>1. PICK i \in DOMAIN wait_list[o] : wait_list[o][i] = u
    BY <1>1, <1>4 DEF ToSet
  <2>2. /\ h = wait_list[o][1] /\ 1 \in DOMAIN wait_list[o]
        /\ i \in Nat /\ 1 <= i
    BY <1>1, <2>1 DEF List
  <2>3. CASE 1 < i
    <3>1. <<h, u>> \in PrioOrder
      BY <1>1, <2>1, <2>2, <2>3 DEF InOrder
    <3> QED BY <3>1 DEF PrioOrder
  <2>4. CASE i = 1
    <3>1. h = u
      BY <2>1, <2>2, <2>4
    <3>2. Prio[u] \in Nat
      BY SchedAssumption
    <3> QED BY <3>1, <3>2
  <2> QED BY <2>2, <2>3, <2>4
<1> HIDE DEF h
<1>5. /\ wait_on \in [Task -> WaitObj \cup {NoObj}]
      /\ wait_on' = [wait_on EXCEPT ![h] = NoObj]
  BY <1>3 DEF WaitInv, WaitTypeOK, Leave
<1>6. \A u \in Task : wait_on[u] \in WaitObj /\ wait_on'[u] = NoObj => u = h
  BY <1>5, WaitAssumption
<1>7. WaitSorted'
  BY <1>2, <1>3, LeaveSorted
<1> QED BY <1>2, <1>4, <1>6, <1>7 DEF BestFirst, Served

LEMMA WaitOnOrdered ==
  ASSUME IInv, WaitInv, WaitSorted, NEW o \in WaitObj, NEW x, WaitOn(o, x)
  PROVE  WaitSorted' /\ BestFirst
<1> DEFINE t == s_cur_pt
           later == {u \in Task : Prio[u] > Prio[t]}
<1>1. /\ mode = "run" /\ wait_on' = [wait_on EXCEPT ![t] = o]
      /\ wait_list' = [wait_list EXCEPT ![o] = InsertBefore(@, t, later)]
  BY DEF WaitOn, Delay, InsertByPrio
<1>2. t \in Task /\ state[t] = "RUNNING"
  BY <1>1, Running
<1>3. /\ wait_list \in [WaitObj -> Seq(Task)] /\ wait_list[o] \in List(Task)
      /\ wait_on \in [Task -> WaitObj \cup {NoObj}]
      /\ t \notin ToSet(wait_list[o]) /\ InOrder(wait_list[o], PrioOrder)
  BY <1>2 DEF WaitInv, WaitTypeOK, WaitListsMatch, WaitSorted, List
<1>4. \A u \in Task : Prio[u] \in Nat
  BY SchedAssumption
<1>5. \A u, v \in Task : <<u, v>> \in PrioOrder <=> Prio[u] <= Prio[v]
  BY DEF PrioOrder
<1>6. /\ \A u \in Task \ {t} : u \notin later => <<u, t>> \in PrioOrder
      /\ \A u \in Task \ {t} : u \in later => <<t, u>> \in PrioOrder
      /\ \A u, v \in Task :
           <<t, u>> \in PrioOrder /\ <<u, v>> \in PrioOrder => <<t, v>> \in PrioOrder
  BY <1>2, <1>4, <1>5
<1> HIDE DEF later, t
<1>7. InOrder(InsertBefore(wait_list[o], t, later), PrioOrder)
  BY <1>2, <1>3, <1>6, InsertInOrder
<1>8. WaitSorted'
  BY <1>1, <1>3, <1>7 DEF WaitSorted
<1>9. \A u \in Task : wait_on[u] \in WaitObj => wait_on'[u] # NoObj
  BY <1>1, <1>2, <1>3, WaitAssumption
<1> QED BY <1>8, <1>9 DEF BestFirst, Served

\* The kernel's steps and those on other tasks.
LEMMA PlainOrdered ==
  ASSUME IInv, WaitInv, WaitSorted,
         WaitKernel \/ \E t \in Task : OnWaitTask(t)
  PROVE  WaitSorted' /\ BestFirst
<1>1. CASE WaitKernel
  <2>1. UNCHANGED <<wait_list, wait_on>> \/
          (Leave(Head(s_block_list), "TIMEOUT") /\ s_block_list # <<>>)
    BY <1>1 DEF WaitKernel, WaitExpire, ExpireOne, FirstIsDue, WaitSchedule, WaitPick,
      WaitCallbackEnds, WaitHardware, waitVars
  <2>2. s_block_list # <<>> => Head(s_block_list) \in Task
    BY HeadOfBlocked
  <2> QED BY <2>1, <2>2, NobodyMoves, LeaveOrdered
<1>2. ASSUME NEW t \in Task, TaskStart(t)
      PROVE  WaitSorted' /\ BestFirst
  <2>1. /\ state[t] # "BLOCK" /\ UNCHANGED wait_list
        /\ wait_on' = [wait_on EXCEPT ![t] = NoObj]
    BY <1>2 DEF TaskStart, Create, InitStatic, Start
  <2>2. wait_on[t] = NoObj /\ wait_on \in [Task -> WaitObj \cup {NoObj}]
    BY <2>1 DEF WaitInv, WaitTypeOK, WaitListsMatch
  <2>3. UNCHANGED wait_on
    BY <2>1, <2>2
  <2> QED BY <2>1, <2>3, NobodyMoves
<1>3. ASSUME NEW t \in Task, TaskDestroy(t) \/ TaskDeinit(t) \/ TaskPlain(t)
      PROVE  WaitSorted' /\ BestFirst
  BY <1>3, NobodyMoves, LeaveOrdered DEF TaskDestroy, TaskDeinit, TaskPlain, waitVars
<1> QED BY <1>1, <1>2, <1>3 DEF OnWaitTask

LEMMA CloseReleaseOrdered ==
  ASSUME WaitInv, WaitSorted, CloseRelease
  PROVE  WaitSorted' /\ BestFirst
<1>1. Head(closing) \in WaitObj
  BY DEF CloseRelease, WaitInv, WaitTypeOK
<1> QED BY <1>1, ReleaseOrdered DEF CloseRelease

-----------------------------------------------------------------------------
(* Turns among waiters. *)

LEMMA TurnsStay ==
  ASSUME UNCHANGED <<wait_list, wait_on>>
  PROVE  WaitersKept
BY WaitAssumption DEF WaitersKept, Served

\* A task leaves; if it is served it was the first.
LEMMA TurnsLeave ==
  ASSUME WaitInv, NEW x \in Task, NEW result, Leave(x, result),
         result = "OK" =>
           \E q \in WaitObj : wait_list[q] # <<>> /\ x = Head(wait_list[q])
  PROVE  WaitersKept
<1> SUFFICES ASSUME NEW o \in WaitObj, NEW t \in Task, NEW u \in Task,
                    wait_on[t] = o, wait_on'[t] = o,
                    IF wait_on[u] = o THEN Precedes(wait_list[o], t, u)
                                      ELSE Prio[t] <= Prio[u]
             PROVE  /\ wait_on'[u] = o => Precedes(wait_list'[o], t, u)
                    /\ ~Served(u, o)
  BY Zenon DEF WaitersKept
<1> DEFINE l == wait_list[o]
<1>1. /\ wait_list \in [WaitObj -> Seq(Task)] /\ l \in List(Task)
      /\ ToSet(l) = {v \in Task : wait_on[v] = o}
      /\ wait_on \in [Task -> WaitObj \cup {NoObj}]
      /\ wait_result \in [Task -> {"OK", "TIMEOUT", "ABORTED"}]
  BY DEF WaitInv, WaitTypeOK, WaitListsMatch, List
<1>2. /\ \A v \in Task : wait_on'[v] = IF v = x THEN NoObj ELSE wait_on[v]
      /\ wait_result'[x] = result
      /\ o # NoObj
  BY <1>1, WaitAssumption DEF Leave
<1>3. t # x
  BY <1>2
<1>4. ASSUME wait_on'[u] = o PROVE Precedes(wait_list'[o], t, u)
  <2>1. u # x /\ Precedes(l, t, u)
    BY <1>2, <1>4
  <2>2. CASE wait_on[x] = o
    <3>1. wait_list'[o] = ListRemove(l, x)
      BY <1>1, <1>2, <2>2 DEF Leave
    <3>2. x \in ToSet(l)
      BY <1>1, <2>2
    <3> HIDE DEF l
    <3> QED BY <1>1, <1>3, <2>1, <3>1, <3>2, RemovePrecedes
  <2>3. CASE wait_on[x] # o
    <3>1. wait_list'[o] = l
      BY <1>1, <2>3 DEF Leave
    <3> QED BY <2>1, <3>1
  <2> QED BY <2>2, <2>3
<1>5. ASSUME Served(u, o) PROVE FALSE
  <2>1. u = x /\ result = "OK" /\ wait_on[x] = o
    BY <1>2, <1>5 DEF Served
  <2>2. PICK q \in WaitObj : wait_list[q] # <<>> /\ x = Head(wait_list[q])
    BY <2>1
  <2>3. wait_list[q] \in Seq(Task) /\ x \in ToSet(wait_list[q])
    BY <1>1, <2>2 DEF ToSet
  <2>4. q = o
    BY <2>1, <2>2, <2>3 DEF WaitInv, WaitListsMatch
  <2>5. l # <<>> /\ Precedes(l, t, Head(l))
    BY <2>1, <2>2, <2>4
  <2> HIDE DEF l
  <2> QED BY <1>1, <2>5, HeadPrecedes
<1> QED BY <1>4, <1>5

\* A task queues up behind those of its priority and above.
LEMMA TurnsJoin ==
  ASSUME IInv, WaitInv, WaitSorted, NEW q \in WaitObj, NEW x, WaitOn(q, x)
  PROVE  WaitersKept
<1> DEFINE n == s_cur_pt
           later == {v \in Task : Prio[v] > Prio[n]}
<1>1. /\ mode = "run" /\ wait_on' = [wait_on EXCEPT ![n] = q]
      /\ wait_list' = [wait_list EXCEPT ![q] = InsertBefore(@, n, later)]
  BY DEF WaitOn, Delay, InsertByPrio
<1>2. n \in Task /\ state[n] = "RUNNING"
  BY <1>1, Running
<1> SUFFICES ASSUME NEW o \in WaitObj, NEW t \in Task, NEW u \in Task,
                    wait_on[t] = o, wait_on'[t] = o,
                    IF wait_on[u] = o THEN Precedes(wait_list[o], t, u)
                                      ELSE Prio[t] <= Prio[u]
             PROVE  /\ wait_on'[u] = o => Precedes(wait_list'[o], t, u)
                    /\ ~Served(u, o)
  BY Zenon DEF WaitersKept
<1> DEFINE l == wait_list[o]
<1>3. /\ wait_list \in [WaitObj -> Seq(Task)] /\ l \in List(Task)
      /\ ToSet(l) = {v \in Task : wait_on[v] = o}
      /\ \A v \in ToSet(l) : state[v] = "BLOCK"
      /\ wait_on \in [Task -> WaitObj \cup {NoObj}]
      /\ InOrder(l, PrioOrder)
  BY DEF WaitInv, WaitTypeOK, WaitListsMatch, WaitSorted, List
<1>4. /\ \A v \in Task : wait_on'[v] = IF v = n THEN q ELSE wait_on[v]
      /\ n \notin ToSet(l) /\ o # NoObj /\ q # NoObj
      /\ wait_list'[o] = IF q = o THEN InsertBefore(l, n, later) ELSE l
  BY <1>1, <1>2, <1>3, WaitAssumption
<1>5. ~Served(u, o)
  BY <1>4 DEF Served
<1>6. \A v \in Task : Prio[v] \in Nat
  BY SchedAssumption
<1>7. t \in ToSet(l)
  BY <1>3
<1>8. ASSUME wait_on'[u] = o PROVE Precedes(wait_list'[o], t, u)
  <2>1. CASE u # n
    <3>1. Precedes(l, t, u)
      BY <1>4, <1>8, <2>1
    <3> HIDE DEF l, n, later
    <3>2. q = o => Precedes(InsertBefore(l, n, later), t, u)
      BY <1>2, <1>3, <3>1, InsertPrecedes
    <3> QED BY <1>4, <3>1, <3>2
  <2>2. CASE u = n
    <3>1. q = o /\ Prio[t] <= Prio[n]
      BY <1>3, <1>4, <1>8, <2>2
    <3>2. ASSUME NEW m \in ToSet(l), m \in later PROVE m # t /\ ~Precedes(l, m, t)
      <4>1. m \in Task /\ Prio[m] > Prio[n]
        BY <1>3, <3>2
      <4>2. m # t
        BY <1>6, <1>2, <3>1, <4>1
      <4>3. ASSUME Precedes(l, m, t) PROVE FALSE
        <5>1. <<m, t>> \in PrioOrder
          BY <1>3, <4>3 DEF Precedes, InOrder
        <5>2. Prio[m] <= Prio[t]
          BY <5>1 DEF PrioOrder
        <5> QED BY <1>2, <1>6, <3>1, <4>1, <5>2
      <4> QED BY <4>2, <4>3
    <3> HIDE DEF l, n, later
    <3>3. Precedes(InsertBefore(l, n, later), t, n)
      BY <1>2, <1>3, <1>7, <3>2, InsertPrecedes
    <3> QED BY <1>4, <2>2, <3>1, <3>3
  <2> QED BY <2>1, <2>2
<1> QED BY <1>5, <1>8

LEMMA TurnsRelease ==
  ASSUME WaitInv, NEW o \in WaitObj, HasWaiter(o), NEW result, Release(o, result)
  PROVE  WaitersKept
<1>1. Head(wait_list[o]) \in Task /\ Leave(Head(wait_list[o]), result)
  BY SchedAssumption DEF Release, Wake
<1> QED BY <1>1, TurnsLeave DEF HasWaiter

\* The kernel's steps and those on other tasks.
LEMMA TurnsPlain ==
  ASSUME IInv, WaitInv, WaitKernel \/ \E t \in Task : OnWaitTask(t)
  PROVE  WaitersKept
<1>1. CASE WaitKernel
  <2>1. UNCHANGED <<wait_list, wait_on>> \/
          (Leave(Head(s_block_list), "TIMEOUT") /\ s_block_list # <<>>)
    BY <1>1 DEF WaitKernel, WaitExpire, ExpireOne, FirstIsDue, WaitSchedule, WaitPick,
      WaitCallbackEnds, WaitHardware, waitVars
  <2>2. s_block_list # <<>> => Head(s_block_list) \in Task
    BY HeadOfBlocked
  <2>3. "TIMEOUT" # "OK"
    OBVIOUS
  <2> QED BY <2>1, <2>2, <2>3, TurnsStay, TurnsLeave
<1>2. ASSUME NEW t \in Task, TaskStart(t)
      PROVE  WaitersKept
  <2>1. /\ state[t] # "BLOCK" /\ UNCHANGED wait_list
        /\ wait_on' = [wait_on EXCEPT ![t] = NoObj]
    BY <1>2 DEF TaskStart, Create, InitStatic, Start
  <2>2. wait_on[t] = NoObj /\ wait_on \in [Task -> WaitObj \cup {NoObj}]
    BY <2>1 DEF WaitInv, WaitTypeOK, WaitListsMatch
  <2>3. UNCHANGED wait_on
    BY <2>1, <2>2
  <2> QED BY <2>1, <2>3, TurnsStay
<1>3. ASSUME NEW t \in Task, TaskDestroy(t) \/ TaskDeinit(t) \/ TaskPlain(t)
      PROVE  WaitersKept
  <2>1. "ABORTED" # "OK"
    OBVIOUS
  <2> QED BY <1>3, <2>1, TurnsStay, TurnsLeave
        DEF TaskDestroy, TaskDeinit, TaskPlain, waitVars
<1> QED BY <1>1, <1>2, <1>3 DEF OnWaitTask

LEMMA TurnsClose ==
  ASSUME WaitInv, CloseRelease
  PROVE  WaitersKept
<1>1. Head(closing) \in WaitObj
  BY DEF CloseRelease, WaitInv, WaitTypeOK
<1> QED BY <1>1, TurnsRelease DEF CloseRelease

LEMMA SortedFromTheStart == WaitInit => WaitSorted
BY DEF WaitInit, WaitSorted, InOrder
=============================================================================
