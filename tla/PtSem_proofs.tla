---------------------------- MODULE PtSem_proofs ----------------------------
(***************************************************************************)
(* Semaphores, for any tasks, priorities, delays and counter width: the    *)
(* counts agree with the wait lists, and the waiters keep their turns.     *)
(***************************************************************************)
EXTENDS PtSem, PtWait_proofs

\* Nobody waits where there is a token, nor where there is no semaphore.
CountOK ==
  /\ sems \subseteq WaitObj
  /\ count \in [WaitObj -> 0 .. CountMod - 1] /\ credit \in [WaitObj -> Nat]
  /\ \A s \in WaitObj : wait_list[s] # <<>> => s \in sems /\ count[s] = 0
  /\ \A s \in WaitObj : count[s] <= credit[s]

SemInv == WaitInv /\ CountOK

-----------------------------------------------------------------------------
LEMMA SemNextIsSched == SemNext => [Next]_vars
<1> SUFFICES ASSUME SemNext PROVE [Next]_vars
  OBVIOUS
<1>1. ASSUME NEW s, SemGive(s) PROVE [Next]_vars
  BY <1>1, ReleaseIsSched DEF SemGive
<1>2. ASSUME NEW s, SemDestroy(s) \/ \E n \in 0 .. MaxTokens : SemCreate(s, n)
      PROVE  [Next]_vars
  BY <1>2 DEF SemDestroy, Close, SemCreate
<1>3. ASSUME NEW s, TakeNow(s) \/ \E x \in Delays : TakeWait(s, x) PROVE [Next]_vars
  BY <1>3, WaitOnIsSched DEF TakeNow, TakeWait
<1>4. CASE Breaks \/ CloseRelease
  BY <1>4, ReleaseIsSched DEF Breaks, CloseRelease
<1>5. CASE SemDestroyEnds
  BY <1>5 DEF SemDestroyEnds, CloseNext
<1> QED BY <1>1, <1>2, <1>3, <1>4, <1>5, KernelIsSched, OnWaitTaskIsSched
      DEF SemNext, OnSem

\* A semaphore whose waiters all left stays as it was; nobody joins it.
LEMMA OnlyLeaving ==
  ASSUME CountOK, UNCHANGED objects,
         \A s \in WaitObj : wait_list'[s] # <<>> => wait_list[s] # <<>>
  PROVE  CountOK'
BY DEF CountOK, objects

LEMMA SemInitHolds == SemInit => SemInv
BY WaitInitHolds, SemAssumption DEF SemInit, SemInv, CountOK, WaitInit

LEMMA OnSemKeeps ==
  ASSUME IInv, SemInv, NEW s \in WaitObj, OnSem(s)
  PROVE  SemInv'
<1>1. CountMod \in Nat /\ CountMod > 0 /\ MaxTokens \in Nat
  BY SemAssumption
<1>2. CASE SemGive(s) /\ HasWaiter(s)
  <2>1. /\ Release(s, "OK") /\ UNCHANGED <<sems, count, in_call, closing>>
        /\ credit' = [credit EXCEPT ![s] = @ + 1]
    BY <1>2 DEF SemGive
  <2>2. WaitInv'
    BY <2>1, ReleaseKeeps DEF SemInv, WaitInv, WaitTypeOK
  <2>3. Head(wait_list[s]) \in Task /\ Leave(Head(wait_list[s]), "OK")
    BY <2>1, SchedAssumption DEF Release, Wake
  <2>4. \A o \in WaitObj : wait_list'[o] # <<>> => wait_list[o] # <<>>
    BY <2>3, LeavingIsLeaving DEF SemInv
  <2>5. CountOK'
    BY <2>1, <2>4 DEF SemInv, CountOK
  <2> QED BY <2>2, <2>5 DEF SemInv
<1>3. CASE SemGive(s) /\ ~HasWaiter(s)
  <2>1. /\ wait_list[s] = <<>>
        /\ count' = [count EXCEPT ![s] = (@ + 1) % CountMod]
        /\ credit' = [credit EXCEPT ![s] = @ + 1]
        /\ UNCHANGED <<vars, waitVars, sems>>
    BY <1>3 DEF SemGive, HasWaiter
  <2>2. WaitInv'
    BY <2>1, StateChanges DEF SemInv, WaitInv, WaitTypeOK, vars, waitVars
  <2>3. \A k \in Nat : k % CountMod \in 0 .. CountMod - 1 /\ k % CountMod <= k
    BY <1>1
  <2>4. count[s] \in Nat /\ credit[s] \in Nat /\ count[s] <= credit[s]
    BY <1>1 DEF SemInv, CountOK
  <2>5. CountOK'
    <3> DEFINE c == (count[s] + 1) % CountMod
    <3>1. c \in 0 .. CountMod - 1 /\ c <= credit[s] + 1
      BY <1>1, <2>3, <2>4
    <3>2. count' = [count EXCEPT ![s] = c]
      BY <2>1
    <3> HIDE DEF c
    <3> QED BY <1>1, <2>1, <2>4, <3>1, <3>2 DEF SemInv, CountOK, waitVars
  <2> QED BY <2>2, <2>5 DEF SemInv
<1>4. ASSUME NEW n \in 0 .. MaxTokens, SemCreate(s, n) PROVE SemInv'
  <2>1. /\ s \notin sems /\ n < CountMod /\ sems' = sems \cup {s}
        /\ count' = [count EXCEPT ![s] = n] /\ credit' = [credit EXCEPT ![s] = n]
        /\ UNCHANGED <<vars, waitVars>>
    BY <1>4 DEF SemCreate
  <2>2. WaitInv'
    BY <2>1, StateChanges DEF SemInv, WaitInv, WaitTypeOK, vars, waitVars
  <2>3. CountOK'
    BY <1>1, <2>1 DEF SemInv, CountOK, waitVars
  <2> QED BY <2>2, <2>3 DEF SemInv
<1>5. CASE SemDestroy(s)
  <2>1. /\ closing' = <<s>> /\ UNCHANGED <<vars, wait_list, wait_on, wait_result, in_call>>
        /\ UNCHANGED objects
    BY <1>5 DEF SemDestroy, Close
  <2>2. WaitInv'
    BY <2>1, StateChanges DEF SemInv, WaitInv, WaitTypeOK, vars
  <2> QED BY <2>1, <2>2, OnlyLeaving DEF SemInv
<1> QED BY <1>2, <1>3, <1>4, <1>5 DEF OnSem, SemGive

LEMMA TakingKeeps ==
  ASSUME IInv, SemInv, NEW s \in WaitObj,
         TakeNow(s) \/ \E x \in Delays : TakeWait(s, x)
  PROVE  SemInv'
<1>1. CountMod \in Nat /\ CountMod > 0
  BY SemAssumption
<1>2. CASE TakeNow(s)
  <2>1. /\ count[s] > 0 /\ UNCHANGED sems
        /\ count' = [count EXCEPT ![s] = @ - 1]
        /\ credit' = [credit EXCEPT ![s] = @ - 1]
        /\ in_call' = [in_call EXCEPT ![s_cur_pt] = NoObj]
        /\ UNCHANGED <<vars, wait_list, wait_on, wait_result, closing>>
    BY <1>2 DEF TakeNow, CanTake, CountAfterTake, Returns
  <2>2. WaitInv'
    BY <2>1, StateChanges DEF SemInv, WaitInv, WaitTypeOK, vars
  <2>3. CountOK'
    BY <1>1, <2>1 DEF SemInv, CountOK
  <2> QED BY <2>2, <2>3 DEF SemInv
<1>3. ASSUME NEW x \in Delays, TakeWait(s, x) PROVE SemInv'
  <2>1. /\ s \in sems /\ ~(count[s] > 0) /\ WaitOn(s, x) /\ UNCHANGED objects
    BY <1>3 DEF TakeWait, CanTake
  <2>2. WaitInv'
    BY <2>1, WaitOnKeeps DEF SemInv
  <2>3. wait_list' = [wait_list EXCEPT ![s] = InsertByPrio(@, s_cur_pt)]
    BY <2>1 DEF WaitOn
  <2>4. count[s] = 0
    BY <1>1, <2>1 DEF SemInv, CountOK
  <2>5. CountOK'
    BY <2>1, <2>3, <2>4 DEF SemInv, CountOK, objects, WaitInv, WaitTypeOK
  <2> QED BY <2>2, <2>5 DEF SemInv
<1> QED BY <1>2, <1>3

LEMMA SemStep ==
  ASSUME IInv, SemInv, [SemNext]_semVars
  PROVE  SemInv'
<1>1. CASE WaitKernel /\ UNCHANGED objects
  <2>1. WaitInv'
    BY <1>1, KernelKeepsWait DEF SemInv
  <2>2. \A s \in WaitObj : wait_list'[s] # <<>> => wait_list[s] # <<>>
    <3>1. CASE WaitExpire
      <4>1. Head(s_block_list) \in Task
        BY <3>1, HeadOfBlocked DEF WaitExpire, ExpireOne, FirstIsDue
      <4>2. UNCHANGED wait_list \/ Leave(Head(s_block_list), "TIMEOUT")
        BY <3>1 DEF WaitExpire
      <4> QED BY <4>1, <4>2, LeavingIsLeaving DEF SemInv
    <3>2. CASE ~WaitExpire
      BY <1>1, <3>2 DEF WaitKernel, WaitSchedule, WaitPick, WaitCallbackEnds,
        WaitHardware, waitVars
    <3> QED BY <3>1, <3>2
  <2> QED BY <1>1, <2>1, <2>2, OnlyLeaving DEF SemInv
<1>2. ASSUME NEW t \in Task, OnWaitTask(t), UNCHANGED objects PROVE SemInv'
  <2>1. WaitInv'
    BY <1>2, OnWaitTaskKeeps DEF SemInv
  <2>2. UNCHANGED wait_list \/ \E r : Leave(t, r)
    BY <1>2 DEF OnWaitTask, TaskStart, TaskDestroy, TaskDeinit, TaskPlain, waitVars
  <2> QED BY <1>2, <2>1, <2>2, LeavingIsLeaving, OnlyLeaving DEF SemInv
<1>3. CASE Breaks /\ UNCHANGED objects
  <2>1. /\ in_call' = [in_call EXCEPT ![s_cur_pt] = NoObj]
        /\ UNCHANGED <<vars, wait_list, wait_on, wait_result, closing>>
    BY <1>3 DEF Breaks, Returns
  <2>2. WaitInv'
    BY <2>1, StateChanges DEF SemInv, WaitInv, WaitTypeOK, vars
  <2> QED BY <1>3, <2>1, <2>2, OnlyLeaving DEF SemInv
<1>4. CASE CloseRelease /\ UNCHANGED objects
  <2>1. /\ Release(Head(closing), "ABORTED") /\ UNCHANGED <<in_call, closing>>
    BY <1>4 DEF CloseRelease
  <2>2. WaitInv'
    BY <2>1, ReleaseKeeps DEF SemInv, WaitInv, WaitTypeOK
  <2>3. \E t \in Task : Leave(t, "ABORTED")
    BY <2>1, SchedAssumption DEF Release, Wake
  <2> QED BY <1>4, <2>2, <2>3, LeavingIsLeaving, OnlyLeaving DEF SemInv
<1>5. CASE SemDestroyEnds
  <2> DEFINE s == Head(closing)
  <2>1. /\ closing # <<>> /\ wait_list[s] = <<>> /\ closing' = Tail(closing)
        /\ sems' = sems \ {s}
        /\ count' = [count EXCEPT ![s] = 0] /\ credit' = [credit EXCEPT ![s] = 0]
        /\ UNCHANGED <<vars, wait_list, wait_on, wait_result, in_call>>
    BY <1>5 DEF SemDestroyEnds, CloseNext, HasWaiter
  <2>2. closing \in Seq(WaitObj)
    BY DEF SemInv, WaitInv, WaitTypeOK
  <2>3. closing' \in Seq(WaitObj)
    BY <2>1, <2>2, HeadTailProperties
  <2>4. WaitInv'
    BY <2>1, <2>3, StateChanges DEF SemInv, WaitInv, WaitTypeOK, vars
  <2>5. s \in WaitObj
    BY <2>1, <2>2
  <2> HIDE DEF s
  <2>6. 0 \in 0 .. CountMod - 1 /\ 0 \in Nat /\ 0 <= 0
    BY SemAssumption
  <2>7. CountOK'
    <3>1. \A o \in WaitObj : /\ count'[o] = IF o = s THEN 0 ELSE count[o]
                            /\ credit'[o] = IF o = s THEN 0 ELSE credit[o]
      BY <2>1 DEF SemInv, CountOK
    <3>2. ASSUME NEW o \in WaitObj, wait_list'[o] # <<>>
          PROVE  o # s /\ o \in sems /\ count[o] = 0
      <4>1. wait_list'[o] = wait_list[o] /\ wait_list[s] = <<>>
        BY <2>1
      <4> QED BY <3>2, <4>1 DEF SemInv, CountOK
    <3>3. /\ count' \in [WaitObj -> 0 .. CountMod - 1]
          /\ credit' \in [WaitObj -> Nat]
      BY <2>1, <2>6 DEF SemInv, CountOK
    <3> QED BY <2>1, <2>6, <3>1, <3>2, <3>3 DEF SemInv, CountOK
  <2> QED BY <2>4, <2>7 DEF SemInv
<1>6. CASE UNCHANGED semVars
  <2>1. WaitInv'
    BY <1>6, StateChanges DEF SemInv, WaitInv, WaitTypeOK, vars, waitVars, semVars
  <2> QED BY <1>6, <2>1, OnlyLeaving DEF SemInv, semVars, waitVars
<1> QED BY <1>1, <1>2, <1>3, <1>4, <1>5, <1>6, OnSemKeeps, TakingKeeps DEF SemNext

-----------------------------------------------------------------------------
\* Every step is one of the scheduler's or leaves it alone, as its definition says:
\* what is proved of the scheduler holds with semaphores too.
LEMMA SemRefinesSched == SemSpec => SafetySpec
<1>1. SemInit => Init
  BY DEF SemInit, WaitInit
<1>2. [SemNext]_semVars => [Next]_vars
  BY SemNextIsSched DEF semVars
<1> QED BY <1>1, <1>2, PTL DEF SemSpec, SafetySpec

\* The states of tasks and the scheduler's lists agree, also with semaphores.
THEOREM SemConsistent == SemSpec => []Consistent
<1>1. IInv => Consistent
  BY IInvSplits
<1> QED BY <1>1, SemRefinesSched, SchedInvariant, PTL

\* Nor do gives, takes and timeouts let a task jump the queue of its level.
THEOREM SemInTurn == SemSpec => InTurn
BY SemRefinesSched, SchedInTurn, PTL

\* The wait lists, wait_sem and the counts agree.
THEOREM SemInvariant == SemSpec => []SemInv
<1>1. SemInit => SemInv
  BY SemInitHolds
<1>2. IInv /\ SemInv /\ [SemNext]_semVars => SemInv'
  BY SemStep
<1> QED BY <1>1, <1>2, SemRefinesSched, SchedInvariant, PTL DEF SemSpec

\* Type correctness of the semaphores.
THEOREM SemTypeCorrect == SemSpec => []SemTypeOK
<1>1. SemInv => SemTypeOK
  BY DEF SemInv, WaitInv, CountOK, SemTypeOK
<1> QED BY <1>1, SemInvariant, PTL

\* Exactly the tasks whose wait_sem names it are on a semaphore's wait list.
THEOREM SemWaitLists == SemSpec => []WaitListsMatch
<1>1. SemInv => WaitListsMatch
  BY DEF SemInv, WaitInv
<1> QED BY <1>1, SemInvariant, PTL

\* Nobody waits while the semaphore can be taken, even when the count wraps.
THEOREM SemWaitOnlyAtZero == SemSpec => []WaitOnlyAtZero
<1>1. SemInv => WaitOnlyAtZero
  BY DEF SemInv, CountOK, WaitOnlyAtZero
<1> QED BY <1>1, SemInvariant, PTL

\* Takes never outnumber the initial count and the gives.
THEOREM SemNoTokenInvented == SemSpec => []NoTokenInvented
<1>1. SemInv => NoTokenInvented
  BY DEF SemInv, CountOK, NoTokenInvented
<1> QED BY <1>1, SemInvariant, PTL

\* Every step keeps the wait lists sorted and releases from their heads.
LEMMA SemOrdered ==
  ASSUME IInv, SemInv, WaitSorted, [SemNext]_semVars
  PROVE  WaitSorted' /\ BestFirst /\ WaitersKept
<1>1. WaitInv
  BY DEF SemInv
<1>2. ASSUME NEW s \in WaitObj, OnSem(s)
      PROVE  WaitSorted' /\ BestFirst /\ WaitersKept
  <2>1. CASE SemGive(s)
    BY <1>1, <2>1, ReleaseOrdered, NobodyMoves, TurnsRelease, TurnsStay
      DEF SemGive, waitVars
  <2>2. CASE SemDestroy(s) \/ \E n \in 0 .. MaxTokens : SemCreate(s, n)
    BY <2>2, NobodyMoves, TurnsStay DEF SemDestroy, Close, SemCreate, waitVars
  <2> QED BY <1>2, <2>1, <2>2 DEF OnSem
<1>3. ASSUME NEW s \in WaitObj, TakeNow(s) \/ \E x \in Delays : TakeWait(s, x)
      PROVE  WaitSorted' /\ BestFirst /\ WaitersKept
  BY <1>1, <1>3, NobodyMoves, WaitOnOrdered, TurnsStay, TurnsJoin DEF TakeNow, TakeWait
<1>4. CASE Breaks \/ SemDestroyEnds \/ UNCHANGED semVars
  BY <1>4, NobodyMoves, TurnsStay DEF Breaks, SemDestroyEnds, CloseNext, semVars, waitVars
<1> QED BY <1>1, <1>2, <1>3, <1>4, PlainOrdered, CloseReleaseOrdered,
          TurnsPlain, TurnsClose DEF SemNext

\* A give wakes a waiter of the highest priority the semaphore has: its wait list
\* stays sorted by priority whoever queues up, leaves or times out.
THEOREM SemBestWaiterFirst == SemSpec => BestWaiterFirst
<1>1. SemInit => WaitSorted
  BY SortedFromTheStart DEF SemInit
<1>2. IInv /\ SemInv /\ WaitSorted /\ [SemNext]_semVars =>
        WaitSorted' /\ [BestFirst]_<<vars, waitVars>>
  BY SemOrdered
<1> QED BY <1>1, <1>2, SemRefinesSched, SchedInvariant, SemInvariant, PTL
        DEF SemSpec, BestWaiterFirst, BestFirst

\* Nor is a waiter overtaken by one of its own priority or a lower one that came
\* later, whichever gives, timeouts and destroys happen meanwhile.
THEOREM SemWaitersInTurn == SemSpec => WaitersInTurn
<1>1. SemInit => WaitSorted
  BY SortedFromTheStart DEF SemInit
<1>2. IInv /\ SemInv /\ WaitSorted /\ [SemNext]_semVars =>
        WaitSorted' /\ [WaitersKept]_<<vars, waitVars>>
  BY SemOrdered
<1> QED BY <1>1, <1>2, SemRefinesSched, SchedInvariant, SemInvariant, PTL
        DEF SemSpec, WaitersInTurn
=============================================================================
