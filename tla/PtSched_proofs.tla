---------------------------- MODULE PtSched_proofs --------------------------
(***************************************************************************)
(* Type correctness and consistency of the scheduler for any number of     *)
(* tasks, levels and ticks, when main leaves the task that ran last alone. *)
(* TypeOK and Consistent are inductive only together: the list operations  *)
(* keep the lists well formed because the node they unlink is on the list  *)
(* its state names.                                                        *)
(*                                                                         *)
(* Then the properties about time.  The block list is sorted whatever the  *)
(* ticks are; that the order is that of time, and with it who runs, how    *)
(* long a delay lasts and how long main may sleep, needs that no tick      *)
(* wraps (NoWrap), the last one also a first tick of at least 1 and        *)
(* callbacks within one tick (OnTime).  Last, that the tasks of one level  *)
(* run in turn.                                                            *)
(***************************************************************************)
EXTENDS PtSched, EkList_proofs

States == Live \cup {"NONE"}

\* The inductive invariant, grouped by what the list helpers touch.
ReadyOK ==
  /\ s_ready_list \in [Levels -> Seq(Task)] /\ s_ready_mask \subseteq Levels
  /\ ReadyListsMatch /\ MaskMatches
BlockOK == s_block_list \in Seq(Task) /\ BlockListMatches
StateOK == state \in [Task -> States]
ClockOK ==
  /\ wake_at \in [Task -> Nat \cup {Never}]
  /\ now \in Nat /\ hwtick \in Nat /\ alarm \in Nat
ModeOK ==
  /\ s_cur_pt \in Task \cup {NoTask}
  /\ mode \in {"awake", "expire", "run", "light", "deep"}
IInv == ReadyOK /\ BlockOK /\ StateOK /\ ClockOK /\ ModeOK /\ RunningMatches

LEMMA IInvSplits == IInv <=> TypeOK /\ Consistent
BY DEF IInv, ReadyOK, BlockOK, StateOK, ClockOK, ModeOK, TypeOK, Consistent, States

-----------------------------------------------------------------------------
(* The list helpers. *)

LEMMA ReadyLevel ==
  ASSUME ReadyOK, NEW p \in Levels
  PROVE  /\ s_ready_list[p] \in List(Task)
         /\ ToSet(s_ready_list[p]) = {t \in Task : state[t] = "READY" /\ Prio[t] = p}
BY DEF ReadyOK, ReadyListsMatch, List

LEMMA EnqueueKeeps ==
  ASSUME ReadyOK, StateOK, NEW t \in Task, state[t] # "READY",
         state' = [state EXCEPT ![t] = "READY"], ReadyEnqueue(t)
  PROVE  ReadyOK'
<1> DEFINE p == Prio[t]
           l == Append(s_ready_list[p], t)
<1>1. p \in Levels
  BY SchedAssumption DEF Levels
<1>2. t \notin ToSet(s_ready_list[p])
  BY <1>1, ReadyLevel
<1>3. /\ l \in List(Task)
      /\ ToSet(l) = ToSet(s_ready_list[p]) \cup {t}
  BY <1>1, <1>2, ReadyLevel, AppendList
<1>4. l # <<>>
  BY <1>3, EmptyList
<1>5. /\ s_ready_list \in [Levels -> Seq(Task)]
      /\ s_ready_list' = [s_ready_list EXCEPT ![p] = l]
      /\ s_ready_mask' = s_ready_mask \cup {p}
      /\ s_ready_mask = {q \in Levels : s_ready_list[q] # <<>>}
  BY DEF ReadyOK, ReadyEnqueue, MaskMatches
<1> HIDE DEF l
<1>6. /\ s_ready_list'[p] = l
      /\ \A q \in Levels \ {p} : s_ready_list'[q] = s_ready_list[q]
      /\ s_ready_list' \in [Levels -> Seq(Task)]
  BY <1>1, <1>3, <1>5 DEF List
<1>7. MaskMatches' /\ s_ready_mask' \subseteq Levels
  BY <1>1, <1>4, <1>5, <1>6 DEF MaskMatches
<1>8. ReadyListsMatch'
  <2> SUFFICES ASSUME NEW q \in Levels
               PROVE  /\ IsInjective(s_ready_list'[q])
                      /\ ToSet(s_ready_list'[q]) =
                           {u \in Task : state'[u] = "READY" /\ Prio[u] = q}
    BY DEF ReadyListsMatch
  <2>1. CASE q = p
    BY <1>1, <1>3, <1>6, <2>1, ReadyLevel DEF List, StateOK
  <2>2. CASE q # p
    BY <1>6, <2>2, ReadyLevel DEF List, StateOK
  <2> QED BY <2>1, <2>2
<1> QED BY <1>6, <1>7, <1>8 DEF ReadyOK

LEMMA DequeueKeeps ==
  ASSUME ReadyOK, StateOK, NEW t \in Task, state[t] = "READY",
         NEW s, s # "READY",
         state' = [state EXCEPT ![t] = s], ReadyDequeue(t)
  PROVE  ReadyOK'
<1> DEFINE p == Prio[t]
           l == ListRemove(s_ready_list[p], t)
<1>1. p \in Levels
  BY SchedAssumption DEF Levels
<1>2. t \in ToSet(s_ready_list[p])
  BY <1>1, ReadyLevel
<1>3. /\ l \in List(Task)
      /\ ToSet(l) = ToSet(s_ready_list[p]) \ {t}
  BY <1>1, <1>2, ReadyLevel, RemoveList
<1>5. /\ s_ready_list \in [Levels -> Seq(Task)]
      /\ s_ready_list' = [s_ready_list EXCEPT ![p] = l]
      /\ s_ready_mask' = IF s_ready_list'[p] = <<>> THEN s_ready_mask \ {p}
                                                    ELSE s_ready_mask
      /\ s_ready_mask = {q \in Levels : s_ready_list[q] # <<>>}
  BY DEF ReadyOK, ReadyDequeue, MaskMatches
<1> HIDE DEF l
<1>6. /\ s_ready_list'[p] = l
      /\ \A q \in Levels \ {p} : s_ready_list'[q] = s_ready_list[q]
      /\ s_ready_list' \in [Levels -> Seq(Task)]
  BY <1>1, <1>3, <1>5 DEF List
<1>4. s_ready_list[p] # <<>>
  BY <1>1, <1>2, ReadyLevel, EmptyList
<1>7. MaskMatches' /\ s_ready_mask' \subseteq Levels
  BY <1>1, <1>4, <1>5, <1>6 DEF MaskMatches
<1>8. ReadyListsMatch'
  <2> SUFFICES ASSUME NEW q \in Levels
               PROVE  /\ IsInjective(s_ready_list'[q])
                      /\ ToSet(s_ready_list'[q]) =
                           {u \in Task : state'[u] = "READY" /\ Prio[u] = q}
    BY DEF ReadyListsMatch
  <2>1. CASE q = p
    BY <1>1, <1>3, <1>6, <2>1, ReadyLevel DEF List, StateOK
  <2>2. CASE q # p
    BY <1>6, <2>2, ReadyLevel DEF List, StateOK
  <2> QED BY <2>1, <2>2
<1> QED BY <1>6, <1>7, <1>8 DEF ReadyOK

\* A step that neither readies t nor takes it from the ready tasks.
LEMMA ReadyUntouched ==
  ASSUME ReadyOK, StateOK, NEW t \in Task, state[t] # "READY",
         NEW s, s # "READY",
         state' = [state EXCEPT ![t] = s], UNCHANGED <<s_ready_list, s_ready_mask>>
  PROVE  ReadyOK'
<1>1. \A u \in Task : state'[u] = "READY" <=> state[u] = "READY"
  BY DEF StateOK
<1> QED BY <1>1 DEF ReadyOK, ReadyListsMatch, MaskMatches

LEMMA BlockUntouched ==
  ASSUME BlockOK, StateOK, NEW t \in Task, state[t] # "BLOCK",
         NEW s, s # "BLOCK",
         state' = [state EXCEPT ![t] = s], UNCHANGED s_block_list
  PROVE  BlockOK'
<1>1. \A u \in Task : state'[u] = "BLOCK" <=> state[u] = "BLOCK"
  BY DEF StateOK
<1> QED BY <1>1 DEF BlockOK, BlockListMatches

LEMMA BlockRemoved ==
  ASSUME BlockOK, StateOK, NEW t \in Task, state[t] = "BLOCK",
         NEW s, s # "BLOCK",
         state' = [state EXCEPT ![t] = s],
         s_block_list' = ListRemove(s_block_list, t)
  PROVE  BlockOK'
<1>1. /\ s_block_list \in List(Task) /\ t \in ToSet(s_block_list)
  BY DEF BlockOK, BlockListMatches, List
<1>2. /\ s_block_list' \in List(Task)
      /\ ToSet(s_block_list') = ToSet(s_block_list) \ {t}
  BY <1>1, RemoveList
<1> QED BY <1>2 DEF BlockOK, BlockListMatches, List, StateOK

\* t is put on the block list, from another state or anew.
LEMMA BlockInserted ==
  ASSUME BlockOK, StateOK, NEW t \in Task, NEW w,
         state' = [state EXCEPT ![t] = "BLOCK"],
         s_block_list' =
           InsertByTime(IF state[t] = "BLOCK" THEN ListRemove(s_block_list, t)
                                              ELSE s_block_list, t, w)
  PROVE  BlockOK'
<1> DEFINE l == IF state[t] = "BLOCK" THEN ListRemove(s_block_list, t)
                                      ELSE s_block_list
<1>1. s_block_list \in List(Task) /\ (state[t] = "BLOCK" <=> t \in ToSet(s_block_list))
  BY DEF BlockOK, BlockListMatches, List
<1>2. l \in List(Task) /\ ToSet(l) = ToSet(s_block_list) \ {t}
  BY <1>1, RemoveList
<1> HIDE DEF l
<1>3. /\ s_block_list' \in List(Task)
      /\ ToSet(s_block_list') = ToSet(s_block_list) \cup {t}
  BY <1>2, InsertList DEF InsertByTime, l
<1> QED BY <1>3 DEF BlockOK, BlockListMatches, List, StateOK

LEMMA UnlinkKeeps ==
  ASSUME ReadyOK, BlockOK, StateOK, NEW t \in Task,
         NEW s, s \notin {"READY", "BLOCK"},
         state' = [state EXCEPT ![t] = s], Unlink(t)
  PROVE  ReadyOK' /\ BlockOK'
<1>1. ReadyOK'
  BY DequeueKeeps, ReadyUntouched DEF Unlink
<1>2. BlockOK'
  BY BlockRemoved, BlockUntouched DEF Unlink
<1> QED BY <1>1, <1>2

-----------------------------------------------------------------------------
(* The time of the model. *)

LEMMA TicksAreNat ==
  ASSUME ClockOK
  PROVE  /\ s_schedule_now \in Nat
         /\ \A x \in Delays : WakeTime(x) \in Nat \cup {Never}
         /\ \A w \in Nat \cup {Never} : Wrapped(w) \in Nat
<1>1. TickMod \in Nat /\ TickMod > 0 /\ \A x \in Delays : x \in Nat
  BY SchedAssumption
<1>2. \A k \in Nat : k % TickMod \in Nat
  BY <1>1
<1>3. Never \notin Nat
  BY DEF Never
<1> QED BY <1>1, <1>2, <1>3 DEF ClockOK, s_schedule_now, WakeTime, Wrapped

\* Return gives the clock and the mode their types.
LEMMA ReturnKeeps ==
  ASSUME IInv, Return, BlockOK', wake_at' \in [Task -> Nat \cup {Never}],
         s_cur_pt' \in Task \cup {NoTask}
  PROVE  ClockOK' /\ ModeOK' /\ mode' # "run"
<1>1. s_schedule_now \in Nat /\ \A w \in Nat \cup {Never} : Wrapped(w) \in Nat
  BY TicksAreNat DEF IInv
<1>2. s_block_list' # <<>> => wake_at'[Head(s_block_list')] \in Nat \cup {Never}
  <2>1. s_block_list' \in Seq(Task)
    BY DEF BlockOK
  <2> QED BY <2>1
<1>3. Result \in Nat
  BY <1>1, <1>2 DEF Result
<1>4. /\ mode' \in {"deep", "light", "awake"}
      /\ mode' = "light" => Result > s_schedule_now
      /\ alarm' = IF mode' = "light" THEN hwtick + (Result - s_schedule_now) ELSE 0
      /\ now' = now /\ hwtick' = hwtick
  BY DEF Return, SleepTicks
<1> HIDE DEF Result
<1>5. alarm' \in Nat
  BY <1>1, <1>3, <1>4 DEF IInv, ClockOK
<1> QED BY <1>4, <1>5 DEF IInv, ClockOK, ModeOK

\* The running task, seen from the two sides of RunningMatches.
LEMMA Running ==
  ASSUME IInv
  PROVE  /\ mode = "run" => s_cur_pt \in Task /\ state[s_cur_pt] = "RUNNING"
         /\ \A t \in Task : state[t] = "RUNNING" => mode = "run" /\ t = s_cur_pt
BY DEF IInv, RunningMatches

-----------------------------------------------------------------------------
(* The invariant and the steps of the specification. *)

LEMMA InitHolds == Init => IInv
<1> SUFFICES ASSUME Init PROVE IInv
  OBVIOUS
<1>1. <<>> \in Seq(Task) /\ ToSet(<<>>) = {} /\ IsInjective(<<>>)
  BY DEF ToSet, IsInjective
<1>2. BootTick \in Nat
  BY SchedAssumption
<1> QED
  BY <1>1, <1>2 DEF Init, IInv, ReadyOK, BlockOK, StateOK, ClockOK, ModeOK, States,
    ReadyListsMatch, BlockListMatches, MaskMatches, RunningMatches

\* Steps that leave the tasks alone.
LEMMA ClockStepKeeps ==
  ASSUME IInv, UNCHANGED <<lists, s_cur_pt, state, wake_at>>,
         ClockOK', ModeOK', mode' # "run", mode # "run"
  PROVE  IInv'
BY DEF IInv, lists, ReadyOK, BlockOK, StateOK, ReadyListsMatch,
       BlockListMatches, MaskMatches, RunningMatches

LEMMA HardwareKeeps ==
  ASSUME IInv, Hardware
  PROVE  IInv'
<1>1. CASE Tick
  BY <1>1 DEF Tick, IInv, lists, ReadyOK, BlockOK, StateOK, ClockOK, ModeOK,
    ReadyListsMatch, BlockListMatches, MaskMatches, RunningMatches
<1>2. CASE TimerFires \/ Interrupt
  <2>1. ClockOK' /\ ModeOK'
    BY <1>2 DEF TimerFires, Interrupt, IInv, ClockOK, ModeOK
  <2> QED BY <1>2, <2>1, ClockStepKeeps DEF TimerFires, Interrupt
<1> QED BY <1>1, <1>2 DEF Hardware

\* The tasks that ek_pt_schedule moves.
LEMMA ExpiredWasBlocked ==
  ASSUME IInv, s_block_list # <<>>
  PROVE  LET t == Head(s_block_list) IN
         /\ t \in Task /\ state[t] = "BLOCK"
         /\ Tail(s_block_list) \in List(Task)
         /\ ToSet(Tail(s_block_list)) = ToSet(s_block_list) \ {t}
<1>1. s_block_list \in List(Task)
  BY DEF IInv, BlockOK, BlockListMatches, List
<1>2. Head(s_block_list) \in ToSet(s_block_list)
  BY <1>1, HeadTailList
<1>3. Head(s_block_list) \in Task /\ state[Head(s_block_list)] = "BLOCK"
  BY <1>2 DEF IInv, BlockOK, BlockListMatches
<1> QED BY <1>1, <1>3, HeadTailList

LEMMA PickedWasReady ==
  ASSUME IInv, s_ready_mask # {}
  PROVE  NextReady \in Task /\ state[NextReady] = "READY"
<1> DEFINE p == CHOOSE p \in s_ready_mask : \A q \in s_ready_mask : p <= q
<1>1. s_ready_mask \in SUBSET Nat
  BY SchedAssumption DEF IInv, ReadyOK, Levels
<1>2. p \in s_ready_mask
  BY <1>1, MinPosition DEF Min
<1>3. p \in Levels /\ s_ready_list[p] # <<>>
  BY <1>2 DEF IInv, ReadyOK, MaskMatches
<1>4. NextReady = Head(s_ready_list[p])
  BY DEF NextReady
<1> HIDE DEF p
<1> QED BY <1>3, <1>4, ReadyLevel, HeadTailList DEF IInv

LEMMA KernelKeeps ==
  ASSUME IInv, Kernel
  PROVE  IInv'
<1> USE DEF lists, clock
<1>1. CASE Schedule
  <2>1. ClockOK' /\ ModeOK'
    BY <1>1 DEF Schedule, IInv, ClockOK, ModeOK
  <2> QED BY <1>1, <2>1, ClockStepKeeps DEF Schedule
<1>2. CASE ExpireOne
  <2> DEFINE t == Head(s_block_list)
  <2>1. s_block_list # <<>> /\ s_block_list' = Tail(s_block_list)
    BY <1>2 DEF ExpireOne, FirstIsDue
  <2>2. /\ s_block_list' \in List(Task)
        /\ ToSet(s_block_list') = ToSet(s_block_list) \ {t}
    BY <2>1, ExpiredWasBlocked
  <2>3. t \in Task /\ state[t] = "BLOCK"
    BY <2>1, ExpiredWasBlocked
  <2>4. /\ state' = [state EXCEPT ![t] = "READY"] /\ ReadyEnqueue(t)
        /\ UNCHANGED <<s_cur_pt, wake_at, clock, mode>> /\ mode = "expire"
    BY <1>2 DEF ExpireOne
  <2> HIDE DEF t
  <2>5. ReadyOK'
    BY <2>3, <2>4, EnqueueKeeps DEF IInv
  <2>6. BlockOK' /\ StateOK'
    BY <2>2, <2>3, <2>4 DEF IInv, BlockOK, BlockListMatches, StateOK, List, States, Live
  <2>7. ClockOK' /\ ModeOK' /\ RunningMatches'
    BY <2>3, <2>4 DEF IInv, ClockOK, ModeOK, RunningMatches, StateOK
  <2> QED BY <2>5, <2>6, <2>7 DEF IInv
<1>3. CASE NothingReady
  <2>1. /\ mode = "expire" /\ s_cur_pt' = NoTask /\ Return
        /\ UNCHANGED <<lists, state, wake_at>>
    BY <1>3 DEF NothingReady
  <2>2. BlockOK' /\ ReadyOK' /\ StateOK'
    BY <2>1 DEF IInv, ReadyOK, BlockOK, StateOK, ReadyListsMatch, BlockListMatches,
      MaskMatches
  <2>3. ClockOK' /\ ModeOK' /\ mode' # "run"
    <3>1. wake_at' \in [Task -> Nat \cup {Never}]
      BY <2>1 DEF IInv, ClockOK
    <3> QED BY <2>1, <2>2, <3>1, ReturnKeeps
  <2> QED BY <2>1, <2>2, <2>3 DEF IInv, RunningMatches
<1>4. CASE Dispatch
  <2> DEFINE t == NextReady
  <2>1. /\ mode = "expire" /\ mode' = "run" /\ s_ready_mask # {} /\ s_cur_pt' = t
        /\ ReadyDequeue(t) /\ state' = [state EXCEPT ![t] = "RUNNING"]
        /\ UNCHANGED <<s_block_list, wake_at, clock>>
    BY <1>4 DEF Dispatch
  <2>2. t \in Task /\ state[t] = "READY"
    BY <2>1, PickedWasReady
  <2> HIDE DEF t
  <2>3. ReadyOK'
    BY <2>1, <2>2, DequeueKeeps DEF IInv
  <2>4. BlockOK'
    BY <2>1, <2>2, BlockUntouched DEF IInv
  <2>5. StateOK' /\ ClockOK' /\ ModeOK' /\ RunningMatches'
    BY <2>1, <2>2 DEF IInv, StateOK, States, Live, ClockOK, ModeOK, RunningMatches
  <2> QED BY <2>3, <2>4, <2>5 DEF IInv
<1>5. CASE CallbackEnds
  <2> DEFINE t == s_cur_pt
  <2>1. mode = "run" /\ Return /\ s_cur_pt' = s_cur_pt
    BY <1>5 DEF CallbackEnds, Yield, SuspendSelf, Delay
  <2>2. t \in Task /\ state[t] = "RUNNING"
    BY <2>1, Running
  <2>3. /\ ReadyOK' /\ BlockOK' /\ StateOK'
        /\ wake_at' \in [Task -> Nat \cup {Never}]
        /\ \A u \in Task : state'[u] # "RUNNING"
    <3>1. \A u \in Task : state[u] = "RUNNING" => u = t
      BY Running
    <3>2. CASE Yield
      <4>1. /\ state' = [state EXCEPT ![t] = "READY"] /\ ReadyEnqueue(t)
            /\ UNCHANGED <<s_block_list, wake_at>>
        BY <3>2 DEF Yield
      <4>2. ReadyOK' /\ BlockOK'
        BY <2>2, <4>1, EnqueueKeeps, BlockUntouched DEF IInv
      <4> QED BY <2>2, <3>1, <4>1, <4>2 DEF IInv, StateOK, States, Live, ClockOK
    <3>3. CASE SuspendSelf
      <4>1. /\ state' = [state EXCEPT ![t] = "SUSPEND"]
            /\ UNCHANGED <<s_ready_list, s_ready_mask, s_block_list, wake_at>>
        BY <3>3 DEF SuspendSelf
      <4>2. ReadyOK' /\ BlockOK'
        BY <2>2, <4>1, ReadyUntouched, BlockUntouched DEF IInv
      <4> QED BY <2>2, <3>1, <4>1, <4>2 DEF IInv, StateOK, States, Live, ClockOK
    <3>4. ASSUME NEW x \in Delays, Delay(x)
          PROVE  /\ ReadyOK' /\ BlockOK' /\ StateOK'
                 /\ wake_at' \in [Task -> Nat \cup {Never}]
                 /\ \A u \in Task : state'[u] # "RUNNING"
      <4>1. /\ state' = [state EXCEPT ![t] = "BLOCK"]
            /\ UNCHANGED <<s_ready_list, s_ready_mask>>
            /\ wake_at' = [wake_at EXCEPT ![t] = WakeTime(x)]
            /\ s_block_list' = InsertByTime(s_block_list, t, WakeTime(x))
        BY <3>4 DEF Delay
      <4>2. ReadyOK'
        BY <2>2, <4>1, ReadyUntouched DEF IInv
      <4>3. BlockOK'
        BY <2>2, <4>1, BlockInserted DEF IInv
      <4>4. wake_at' \in [Task -> Nat \cup {Never}]
        BY <4>1, TicksAreNat DEF IInv, ClockOK
      <4> QED BY <2>2, <3>1, <4>1, <4>2, <4>3, <4>4 DEF IInv, StateOK, States, Live
    <3> QED BY <1>5, <3>2, <3>3, <3>4 DEF CallbackEnds
  <2>4. ClockOK' /\ ModeOK' /\ mode' # "run"
    BY <2>1, <2>2, <2>3, ReturnKeeps
  <2> QED BY <2>3, <2>4 DEF IInv, RunningMatches
<1> QED BY <1>1, <1>2, <1>3, <1>4, <1>5 DEF Kernel

\* What an operation on another task leaves to show.
LEMMA OnTaskFrame ==
  ASSUME IInv, NEW t \in Task, state[t] # "RUNNING",
         NEW s \in States, s # "RUNNING",
         state' = [state EXCEPT ![t] = s],
         wake_at' \in [Task -> Nat \cup {Never}],
         UNCHANGED <<s_cur_pt, clock, mode>>
  PROVE  StateOK' /\ ClockOK' /\ ModeOK' /\ RunningMatches'
BY DEF IInv, StateOK, ClockOK, ModeOK, RunningMatches, clock

LEMMA OnTaskKeeps ==
  ASSUME IInv, NEW t \in Task, OnTask(t)
  PROVE  IInv'
<1>1. wake_at \in [Task -> Nat \cup {Never}]
  BY DEF IInv, ClockOK
<1>2. {"READY", "BLOCK", "SUSPEND", "NONE"} \subseteq States
  BY DEF States, Live
<1>3. t # s_cur_pt => state[t] # "RUNNING"
  BY Running
<1>4. CASE Create(t) \/ InitStatic(t)
  <2>1. /\ state[t] \in {"NONE", "SUSPEND"}
        /\ state' = [state EXCEPT ![t] = "READY"]
        /\ wake_at' = [wake_at EXCEPT ![t] = 0]
        /\ ReadyEnqueue(t)
        /\ UNCHANGED <<s_block_list, s_cur_pt, clock, mode>>
    BY <1>4 DEF Create, InitStatic, Start
  <2>2. ReadyOK' /\ BlockOK'
    BY <2>1, EnqueueKeeps, BlockUntouched DEF IInv
  <2>3. wake_at' \in [Task -> Nat \cup {Never}]
    BY <1>1, <2>1
  <2> QED BY <1>2, <2>1, <2>2, <2>3, OnTaskFrame DEF IInv
<1>5. CASE Destroy(t)
  <2>1. /\ t # s_cur_pt /\ Unlink(t)
        /\ state' = [state EXCEPT ![t] = "NONE"]
        /\ wake_at' = [wake_at EXCEPT ![t] = 0]
        /\ UNCHANGED <<s_cur_pt, clock, mode>>
    BY <1>5 DEF Destroy
  <2>2. ReadyOK' /\ BlockOK'
    BY <2>1, UnlinkKeeps DEF IInv
  <2>3. wake_at' \in [Task -> Nat \cup {Never}]
    BY <1>1, <2>1
  <2> QED BY <1>2, <1>3, <2>1, <2>2, <2>3, OnTaskFrame DEF IInv
<1>6. CASE DeinitStatic(t) \/ Suspend(t)
  <2>1. /\ t # s_cur_pt /\ Unlink(t)
        /\ state' = [state EXCEPT ![t] = "SUSPEND"]
        /\ UNCHANGED <<s_cur_pt, wake_at, clock, mode>>
    BY <1>6 DEF DeinitStatic, Suspend
  <2>2. ReadyOK' /\ BlockOK'
    BY <2>1, UnlinkKeeps DEF IInv
  <2> QED BY <1>1, <1>2, <1>3, <2>1, <2>2, OnTaskFrame DEF IInv
<1>7. CASE Resume(t)
  <2>1. /\ state[t] = "SUSPEND" /\ ReadyEnqueue(t)
        /\ state' = [state EXCEPT ![t] = "READY"]
        /\ UNCHANGED <<s_block_list, s_cur_pt, wake_at, clock, mode>>
    BY <1>7 DEF Resume
  <2>2. ReadyOK' /\ BlockOK'
    BY <2>1, EnqueueKeeps, BlockUntouched DEF IInv
  <2> QED BY <1>1, <1>2, <2>1, <2>2, OnTaskFrame DEF IInv
<1>8. CASE Wake(t)
  <2>1. /\ state[t] = "BLOCK" /\ ReadyEnqueue(t)
        /\ state' = [state EXCEPT ![t] = "READY"]
        /\ s_block_list' = ListRemove(s_block_list, t)
        /\ UNCHANGED <<s_cur_pt, wake_at, clock, mode>>
    BY <1>8 DEF Wake
  <2>2. ReadyOK' /\ BlockOK'
    BY <2>1, EnqueueKeeps, BlockRemoved DEF IInv
  <2> QED BY <1>1, <1>2, <2>1, <2>2, OnTaskFrame DEF IInv
<1>9. ASSUME NEW x \in Delays, Block(t, x)
      PROVE  IInv'
  <2>1. /\ t # s_cur_pt
        /\ IF state[t] = "READY" THEN ReadyDequeue(t)
                                 ELSE UNCHANGED <<s_ready_list, s_ready_mask>>
        /\ state' = [state EXCEPT ![t] = "BLOCK"]
        /\ wake_at' = [wake_at EXCEPT ![t] = WakeTime(x)]
        /\ UNCHANGED <<s_cur_pt, clock, mode>>
    BY <1>9 DEF Block
  <2>2. s_block_list' =
          InsertByTime(IF state[t] = "BLOCK" THEN ListRemove(s_block_list, t)
                                             ELSE s_block_list, t, WakeTime(x))
    BY <1>9 DEF Block
  <2>3. ReadyOK'
    BY <2>1, DequeueKeeps, ReadyUntouched DEF IInv
  <2>4. BlockOK'
    BY <2>1, <2>2, BlockInserted DEF IInv
  <2>5. wake_at' \in [Task -> Nat \cup {Never}]
    BY <1>1, <2>1, TicksAreNat DEF IInv
  <2> QED BY <1>2, <1>3, <2>1, <2>3, <2>4, <2>5, OnTaskFrame DEF IInv
<1> QED BY <1>4, <1>5, <1>6, <1>7, <1>8, <1>9 DEF OnTask

\* Whatever main, the callbacks and the hardware do, every task is linked
\* exactly where its state says, and every variable keeps its type.
THEOREM SchedInvariant == SafetySpec => []IInv
<1>1. Init => IInv
  BY InitHolds
<1>2. IInv /\ [Next]_vars => IInv'
  <2> SUFFICES ASSUME IInv, [Next]_vars PROVE IInv'
    OBVIOUS
  <2>1. CASE Next
    BY <2>1, HardwareKeeps, KernelKeeps, OnTaskKeeps DEF Next
  <2>2. CASE UNCHANGED vars
    BY <2>2 DEF vars, lists, clock, IInv, ReadyOK, BlockOK, StateOK, ClockOK,
      ModeOK, ReadyListsMatch, BlockListMatches, MaskMatches, RunningMatches
  <2> QED BY <2>1, <2>2
<1> QED BY <1>1, <1>2, PTL DEF SafetySpec

\* Type correctness of the scheduler.
THEOREM SchedTypeOK == Spec => []TypeOK
<1>1. IInv => TypeOK
  BY IInvSplits
<1> QED BY <1>1, SchedInvariant, PTL DEF Spec

\* No task is linked twice, left behind on a list or lost from all of them.
THEOREM SchedConsistent == Spec => []Consistent
<1>1. IInv => Consistent
  BY IInvSplits
<1> QED BY <1>1, SchedInvariant, PTL DEF Spec

-----------------------------------------------------------------------------
(* The order of the block list, which holds for any width of the tick: what *)
(* it is sorted by are the ticks as they are stored.                        *)

TimeOrder ==
  {p \in Task \X Task :
     tick(p[1]) < tick(p[2]) \/ (tick(p[1]) = tick(p[2]) /\ Prio[p[1]] <= Prio[p[2]])}
SortInv == InOrder(s_block_list, TimeOrder)

LEMMA TimeOrderPair ==
  ASSUME NEW t \in Task, NEW u \in Task
  PROVE  <<t, u>> \in TimeOrder <=>
           tick(t) < tick(u) \/ (tick(t) = tick(u) /\ Prio[t] <= Prio[u])
BY DEF TimeOrder

LEMMA TicksStored ==
  ASSUME ClockOK, NEW t \in Task
  PROVE  tick(t) \in Nat /\ Prio[t] \in Nat
<1>1. wake_at[t] \in Nat \cup {Never}
  BY DEF ClockOK
<1>2. \A w \in Nat \cup {Never} : Wrapped(w) \in Nat
  BY TicksAreNat
<1>3. Wrapped(wake_at[t]) \in Nat
  BY <1>1, <1>2
<1>4. Prio[t] \in Nat
  BY SchedAssumption
<1> QED BY <1>3, <1>4 DEF tick

\* The order of the others does not depend on the tick of t.
LEMMA OrderOfOthers ==
  ASSUME NEW l \in List(Task), InOrder(l, TimeOrder), NEW t \in Task, t \notin ToSet(l),
         \A u \in Task \ {t} : wake_at'[u] = wake_at[u]
  PROVE  InOrder(l, TimeOrder')
<1>1. \A i \in DOMAIN l : l[i] \in Task \ {t}
  BY DEF List, ToSet
<1>2. \A u \in Task \ {t} : tick(u)' = tick(u)
  BY DEF tick
<1>3. \A u, v \in Task \ {t} : <<u, v>> \in TimeOrder => <<u, v>> \in TimeOrder'
  BY <1>2 DEF TimeOrder
<1> QED BY <1>1, <1>3 DEF InOrder

LEMMA InsertByTimeSorts ==
  ASSUME NEW l \in List(Task), InOrder(l, TimeOrder), NEW t \in Task, t \notin ToSet(l),
         ClockOK, ClockOK', NEW w, wake_at' = [wake_at EXCEPT ![t] = w],
         s_block_list' = InsertByTime(l, t, w)
  PROVE  SortInv'
<1> DEFINE later == {u \in Task : \/ tick(u) > Wrapped(w)
                                  \/ tick(u) = Wrapped(w) /\ Prio[u] > Prio[t]}
<1>1. InOrder(l, TimeOrder')
  BY OrderOfOthers DEF ClockOK
<1>2. /\ tick(t)' = Wrapped(w)
      /\ \A u \in Task \ {t} : tick(u)' = tick(u)
  BY DEF tick, ClockOK
<1>3. \A u \in Task : tick(u)' \in Nat /\ Prio[u] \in Nat
  <2>1. \A u \in Task \ {t} : tick(u) \in Nat /\ Prio[u] \in Nat
    BY TicksStored
  <2>2. w \in Nat \cup {Never}
    BY DEF ClockOK
  <2>3. Wrapped(w) \in Nat /\ Prio[t] \in Nat
    BY <2>2, TicksAreNat, SchedAssumption
  <2> QED BY <1>2, <2>1, <2>3
<1>4. \A u, v \in Task : <<u, v>> \in TimeOrder' <=>
        tick(u)' < tick(v)' \/ (tick(u)' = tick(v)' /\ Prio[u] <= Prio[v])
  BY DEF TimeOrder
<1>5. \A u \in Task \ {t} : u \notin later => <<u, t>> \in TimeOrder'
  BY <1>2, <1>3, <1>4
<1>6. \A u \in Task \ {t} : u \in later => <<t, u>> \in TimeOrder'
  BY <1>2, <1>3, <1>4
<1>7. \A u, v \in Task :
        <<t, u>> \in TimeOrder' /\ <<u, v>> \in TimeOrder' => <<t, v>> \in TimeOrder'
  BY <1>3, <1>4
<1> HIDE DEF later
<1>8. InOrder(InsertBefore(l, t, later), TimeOrder')
  BY <1>1, <1>5, <1>6, <1>7, InsertInOrder
<1> QED BY <1>8 DEF InsertByTime, SortInv, later

\* What the operations do to the list.
LEMMA SortedSteps ==
  ASSUME IInv, SortInv, IInv', [Next]_vars
  PROVE  SortInv'
<1>0. /\ s_block_list \in List(Task)
      /\ \A t \in Task : t \in ToSet(s_block_list) <=> state[t] = "BLOCK"
      /\ ClockOK /\ ClockOK'
  BY DEF IInv, BlockOK, BlockListMatches, List
<1>1. CASE UNCHANGED <<s_block_list, wake_at>>
  BY <1>1 DEF SortInv, TimeOrder, tick, InOrder
<1>2. ASSUME NEW t \in Task, state[t] # "BLOCK", UNCHANGED s_block_list,
             \A u \in Task \ {t} : wake_at'[u] = wake_at[u]
      PROVE  SortInv'
  BY <1>0, <1>2, OrderOfOthers DEF SortInv
<1>3. ASSUME NEW t \in Task, state[t] = "BLOCK",
             s_block_list' = ListRemove(s_block_list, t),
             \A u \in Task \ {t} : wake_at'[u] = wake_at[u]
      PROVE  SortInv'
  <2> DEFINE l == ListRemove(s_block_list, t)
  <2>1. l \in List(Task) /\ t \notin ToSet(l) /\ InOrder(l, TimeOrder)
    BY <1>0, <1>3, RemoveList, RemoveInOrder DEF SortInv
  <2> HIDE DEF l
  <2>2. InOrder(l, TimeOrder')
    BY <1>3, <2>1, OrderOfOthers
  <2> QED BY <1>3, <2>2 DEF SortInv, l
<1>4. CASE ExpireOne
  <2>1. s_block_list # <<>> /\ s_block_list' = Tail(s_block_list) /\ wake_at' = wake_at
    BY <1>4 DEF ExpireOne, FirstIsDue
  <2>2. InOrder(Tail(s_block_list), TimeOrder)
    BY <1>0, <2>1, TailInOrder DEF SortInv
  <2> QED BY <2>1, <2>2 DEF SortInv, TimeOrder, tick
<1>5. ASSUME NEW x \in Delays, Delay(x)
      PROVE  SortInv'
  <2>1. s_cur_pt \in Task /\ state[s_cur_pt] = "RUNNING"
    BY <1>5, Running DEF Delay
  <2>2. s_cur_pt \notin ToSet(s_block_list)
    BY <1>0, <2>1
  <2> QED BY <1>0, <1>5, <2>1, <2>2, InsertByTimeSorts DEF Delay, SortInv
<1>6. ASSUME NEW t \in Task, NEW x \in Delays, Block(t, x)
      PROVE  SortInv'
  <2> DEFINE l == IF state[t] = "BLOCK" THEN ListRemove(s_block_list, t) ELSE s_block_list
  <2>1. l \in List(Task) /\ t \notin ToSet(l) /\ InOrder(l, TimeOrder)
    BY <1>0, RemoveList, RemoveInOrder DEF SortInv
  <2>2. /\ s_block_list' = InsertByTime(l, t, WakeTime(x))
        /\ wake_at' = [wake_at EXCEPT ![t] = WakeTime(x)]
    BY <1>6 DEF Block
  <2> HIDE DEF l
  <2> QED BY <1>0, <2>1, <2>2, InsertByTimeSorts
<1>7. CASE Kernel
  BY <1>1, <1>4, <1>5, <1>7 DEF Kernel, Schedule, NothingReady, Dispatch, CallbackEnds,
    Yield, SuspendSelf, lists
<1>8. CASE Hardware
  BY <1>1, <1>8 DEF Hardware, Tick, TimerFires, Interrupt, lists
<1>9. ASSUME NEW t \in Task, OnTask(t)
      PROVE  SortInv'
  <2>0. wake_at \in [Task -> Nat \cup {Never}]
    BY <1>0 DEF ClockOK
  <2>1. CASE Create(t) \/ InitStatic(t)
    BY <1>2, <2>0, <2>1 DEF Create, InitStatic, Start
  <2>2. CASE Destroy(t)
    BY <1>2, <1>3, <2>0, <2>2 DEF Destroy, Unlink
  <2>3. CASE DeinitStatic(t) \/ Suspend(t)
    BY <1>2, <1>3, <2>3 DEF DeinitStatic, Suspend, Unlink
  <2>4. CASE Resume(t)
    BY <1>1, <2>4 DEF Resume
  <2>5. CASE Wake(t)
    BY <1>3, <2>5 DEF Wake
  <2> QED BY <1>6, <1>9, <2>1, <2>2, <2>3, <2>4, <2>5 DEF OnTask
<1> QED BY <1>1, <1>7, <1>8, <1>9 DEF Next, vars, lists

LEMMA SortInvariant == SafetySpec => []SortInv
<1>1. Init => SortInv
  BY DEF Init, SortInv, InOrder
<1>2. IInv /\ IInv' /\ SortInv /\ [Next]_vars => SortInv'
  BY SortedSteps
<1> QED BY <1>1, <1>2, SchedInvariant, PTL DEF SafetySpec

\* The block list stays sorted by wake-up tick, then priority, whatever is blocked,
\* blocked anew, woken or destroyed, and however the ticks wrap.
THEOREM SchedBlockSorted == Spec => []BlockSorted
<1>1. IInv /\ SortInv => BlockSorted
  <2> SUFFICES ASSUME IInv, SortInv, NEW i \in DOMAIN s_block_list,
                      NEW j \in DOMAIN s_block_list, i < j
               PROVE  <<s_block_list[i], s_block_list[j]>> \in TimeOrder
    BY DEF BlockSorted, TimeOrder
  <2> QED BY DEF SortInv, InOrder
<1> QED BY <1>1, SchedInvariant, SortInvariant, PTL DEF Spec

-----------------------------------------------------------------------------
(* What depends on time, when no wake-up time reaches the tick that stands   *)
(* for "forever" (main reaches MaxTick, at most, while the model runs).      *)

NoWrap ==
  /\ BootTick <= MaxTick /\ MaxTick < TickMod - 1
  /\ \A x \in Delays : x = TickMod - 1 \/ MaxTick + x < TickMod - 1

InTime(w) == w = Never \/ w < TickMod - 1
TimeInv ==
  /\ now <= hwtick /\ hwtick <= MaxTick
  /\ \A t \in Task : InTime(wake_at[t])

LEMMA WakeTimeInTime ==
  ASSUME NoWrap, ClockOK, TimeInv, NEW x \in Delays
  PROVE  InTime(WakeTime(x))
<1>1. x \in Nat /\ TickMod \in Nat /\ MaxTick \in Nat /\ now \in Nat /\ hwtick \in Nat
  BY SchedAssumption DEF ClockOK
<1>2. now + x <= MaxTick + x
  BY <1>1 DEF TimeInv
<1>3. CASE x = TickMod - 1
  BY <1>3 DEF WakeTime, InTime
<1>4. CASE MaxTick + x < TickMod - 1
  BY <1>1, <1>2, <1>4 DEF WakeTime, InTime
<1> QED BY <1>3, <1>4 DEF NoWrap

LEMMA TimeSteps ==
  ASSUME NoWrap, IInv, TimeInv, [Next]_vars
  PROVE  TimeInv'
<1>0. /\ ClockOK /\ now \in Nat /\ hwtick \in Nat /\ MaxTick \in Nat /\ TickMod \in Nat
      /\ wake_at \in [Task -> Nat \cup {Never}]
  BY SchedAssumption DEF IInv, ClockOK
<1>1. CASE UNCHANGED <<wake_at, now, hwtick>>
  BY <1>1 DEF TimeInv
<1>2. ASSUME NEW t \in Task, NEW w, InTime(w), wake_at' = [wake_at EXCEPT ![t] = w],
             UNCHANGED <<now, hwtick>>
      PROVE  TimeInv'
  BY <1>0, <1>2 DEF TimeInv
<1>3. InTime(0)
  <2>1. 0 <= MaxTick /\ MaxTick < TickMod - 1
    BY <1>0 DEF NoWrap
  <2> QED BY <1>0, <2>1 DEF InTime
<1>4. CASE Schedule \/ Tick
  BY <1>0, <1>4 DEF Schedule, Tick, TimeInv
<1>5. ASSUME NEW x \in Delays, Delay(x)
      PROVE  TimeInv'
  <2>1. s_cur_pt \in Task
    BY <1>5, Running DEF Delay
  <2>2. InTime(WakeTime(x))
    BY <1>0, WakeTimeInTime
  <2> QED BY <1>2, <1>5, <2>1, <2>2 DEF Delay, Return
<1>6. ASSUME NEW t \in Task, NEW x \in Delays, Block(t, x)
      PROVE  TimeInv'
  <2>1. InTime(WakeTime(x))
    BY <1>0, WakeTimeInTime
  <2> QED BY <1>2, <1>6, <2>1 DEF Block, clock
<1>7. ASSUME NEW t \in Task, OnTask(t)
      PROVE  TimeInv'
  <2>1. CASE Create(t) \/ InitStatic(t) \/ Destroy(t)
    BY <1>2, <1>3, <2>1 DEF Create, InitStatic, Start, Destroy, clock
  <2>2. CASE DeinitStatic(t) \/ Suspend(t) \/ Resume(t) \/ Wake(t)
    BY <1>1, <2>2 DEF DeinitStatic, Suspend, Resume, Wake, clock
  <2> QED BY <1>6, <1>7, <2>1, <2>2 DEF OnTask
<1>8. CASE ExpireOne \/ NothingReady \/ Dispatch \/ Yield \/ SuspendSelf
  BY <1>1, <1>8 DEF ExpireOne, NothingReady, Dispatch, Yield, SuspendSelf, Return, clock
<1>9. CASE TimerFires \/ Interrupt \/ UNCHANGED vars
  BY <1>1, <1>9 DEF TimerFires, Interrupt, vars, clock
<1> QED BY <1>4, <1>5, <1>7, <1>8, <1>9 DEF Next, Kernel, CallbackEnds, Hardware

LEMMA TimeInvariant ==
  ASSUME NoWrap
  PROVE  SafetySpec => []TimeInv
<1>1. Init => TimeInv
  <2>1. BootTick \in Nat /\ MaxTick \in Nat /\ TickMod \in Nat
    BY SchedAssumption
  <2> QED BY <2>1 DEF Init, TimeInv, InTime, NoWrap
<1>2. IInv /\ TimeInv /\ [Next]_vars => TimeInv'
  BY TimeSteps
<1> QED BY <1>1, <1>2, SchedInvariant, PTL DEF SafetySpec

\* The stored tick tells the time.
LEMMA TicksTellTime ==
  ASSUME NoWrap, ClockOK, TimeInv
  PROVE  /\ s_schedule_now = now
         /\ \A t \in Task : /\ wake_at[t] = Never => tick(t) = TickMod - 1
                            /\ wake_at[t] # Never => tick(t) = wake_at[t]
         /\ \A t \in Task : tick(t) <= s_schedule_now <=> wake_at[t] \in 0 .. now
<1>1. TickMod \in Nat \ {0} /\ MaxTick \in Nat /\ now \in Nat /\ now < TickMod - 1
  BY SchedAssumption DEF ClockOK, TimeInv, NoWrap
<1>2. \A k \in Nat : k < TickMod - 1 => k % TickMod = k
  BY <1>1
<1>3. s_schedule_now = now
  BY <1>1, <1>2 DEF s_schedule_now
<1>4. ASSUME NEW t \in Task
      PROVE  /\ wake_at[t] = Never => tick(t) = TickMod - 1
             /\ wake_at[t] # Never => tick(t) = wake_at[t]
             /\ tick(t) <= s_schedule_now <=> wake_at[t] \in 0 .. now
  <2>1. wake_at[t] = Never \/ (wake_at[t] \in Nat /\ wake_at[t] < TickMod - 1)
    BY DEF ClockOK, TimeInv, InTime
  <2>2. CASE wake_at[t] = Never
    <3>1. tick(t) = TickMod - 1
      BY <2>2 DEF tick, Wrapped
    <3>2. ~(wake_at[t] \in 0 .. now)
      BY <1>1, <2>2 DEF Never
    <3> QED BY <1>1, <1>3, <2>2, <3>1, <3>2
  <2>3. CASE wake_at[t] \in Nat /\ wake_at[t] < TickMod - 1
    <3>1. wake_at[t] # Never
      BY <2>3 DEF Never
    <3>2. tick(t) = wake_at[t]
      BY <1>2, <2>3, <3>1 DEF tick, Wrapped
    <3> QED BY <1>1, <1>3, <2>3, <3>1, <3>2
  <2> QED BY <2>1, <2>2, <2>3
<1> QED BY <1>3, <1>4

\* The head of the block list is due before all others.
LEMMA HeadIsFirst ==
  ASSUME IInv, SortInv, NEW t \in Task, state[t] = "BLOCK"
  PROVE  /\ s_block_list # <<>> /\ Head(s_block_list) \in Task
         /\ tick(Head(s_block_list)) <= tick(t)
<1>1. s_block_list \in List(Task) /\ t \in ToSet(s_block_list)
  BY DEF IInv, BlockOK, BlockListMatches, List
<1>2. PICK i \in DOMAIN s_block_list : s_block_list[i] = t
  BY <1>1 DEF ToSet
<1>3. s_block_list # <<>>
  BY <1>1, EmptyList
<1>4. /\ Head(s_block_list) = s_block_list[1] /\ 1 \in DOMAIN s_block_list
      /\ i \in Nat /\ 1 <= i /\ s_block_list[1] \in Task
  BY <1>1, <1>2, <1>3 DEF List
<1>5. \A u \in Task : tick(u) \in Nat
  BY TicksStored DEF IInv
<1>6. CASE i = 1
  BY <1>2, <1>3, <1>4, <1>5, <1>6
<1>7. CASE 1 < i
  <2>1. <<s_block_list[1], t>> \in TimeOrder
    BY <1>2, <1>4, <1>7 DEF SortInv, InOrder
  <2>2. tick(s_block_list[1]) <= tick(t)
    BY <1>4, <1>5, <2>1, TimeOrderPair
  <2> QED BY <1>3, <1>4, <2>2
<1> QED BY <1>4, <1>6, <1>7

LEMMA NothingDue ==
  ASSUME NoWrap, IInv, SortInv, TimeInv, ~FirstIsDue, NEW t \in Task, state[t] = "BLOCK"
  PROVE  ~Due(t) /\ tick(t) > s_schedule_now
<1>1. s_block_list # <<>> /\ tick(Head(s_block_list)) <= tick(t)
      /\ Head(s_block_list) \in Task
  BY HeadIsFirst
<1>2. ~(tick(Head(s_block_list)) <= s_schedule_now)
  BY <1>1 DEF FirstIsDue
<1>3. tick(t) \in Nat /\ tick(Head(s_block_list)) \in Nat /\ s_schedule_now \in Nat
  BY <1>1, TicksStored, TicksAreNat DEF IInv
<1>4. tick(t) > s_schedule_now
  BY <1>1, <1>2, <1>3
<1>5. ~(wake_at[t] \in 0 .. now)
  BY <1>3, <1>4, TicksTellTime DEF IInv
<1> QED BY <1>4, <1>5 DEF Due

\* No level above that of NextReady has a task.
LEMMA PickedIsHighest ==
  ASSUME IInv, s_ready_mask # {}, NEW t \in Task, state[t] = "READY"
  PROVE  Prio[NextReady] <= Prio[t]
<1> DEFINE p == CHOOSE p \in s_ready_mask : \A q \in s_ready_mask : p <= q
<1>1. s_ready_mask \in SUBSET Nat
  BY SchedAssumption DEF IInv, ReadyOK, Levels
<1>2. p \in s_ready_mask /\ \A q \in s_ready_mask : p <= q
  BY <1>1, MinPosition DEF Min
<1>3. p \in Levels /\ s_ready_list[p] # <<>>
  BY <1>2 DEF IInv, ReadyOK, MaskMatches
<1>4. NextReady = Head(s_ready_list[p])
  BY DEF NextReady
<1> HIDE DEF p
<1>5. NextReady \in ToSet(s_ready_list[p])
  BY <1>3, <1>4, ReadyLevel, HeadTailList DEF IInv
<1>6. Prio[NextReady] = p
  BY <1>3, <1>5, ReadyLevel DEF IInv
<1>7. Prio[t] \in Levels
  BY SchedAssumption DEF Levels
<1>8. t \in ToSet(s_ready_list[Prio[t]])
  BY <1>7, ReadyLevel DEF IInv
<1>9. s_ready_list[Prio[t]] # <<>>
  BY <1>7, <1>8, ReadyLevel, EmptyList DEF IInv
<1>10. Prio[t] \in s_ready_mask
  BY <1>7, <1>9 DEF IInv, ReadyOK, MaskMatches
<1> QED BY <1>2, <1>6, <1>10

\* ek_pt_schedule runs a task of the highest priority among all that are ready or
\* due: the expire loop leaves none that is due behind, the mask no level out.
THEOREM SchedHighestDueRuns ==
  ASSUME NoWrap
  PROVE  Spec => HighestDueRuns
<1>1. ASSUME IInv, SortInv, TimeInv, [Next]_vars
      PROVE  HighestDueRunsStep
  <2> SUFFICES ASSUME mode # "run", mode' = "run", NEW t \in Task,
                      state[t] = "READY" \/ Due(t)
               PROVE  Prio[s_cur_pt'] <= Prio[t]
    BY DEF HighestDueRunsStep
  <2>1. Dispatch
    BY <1>1 DEF Next, Kernel, Hardware, Schedule, ExpireOne, NothingReady, CallbackEnds,
      Yield, Delay, SuspendSelf, Return, Tick, TimerFires, Interrupt, vars, clock, OnTask,
      Create, InitStatic, Start, Destroy, DeinitStatic, Suspend, Resume, Wake, Block
  <2>2. ~FirstIsDue /\ s_ready_mask # {} /\ s_cur_pt' = NextReady
    BY <2>1 DEF Dispatch
  <2>3. state[t] = "READY"
    BY <1>1, <2>2, NothingDue DEF Due
  <2> QED BY <1>1, <2>2, <2>3, PickedIsHighest
<1>2. IInv /\ SortInv /\ TimeInv /\ [Next]_vars => [HighestDueRunsStep]_vars
  BY <1>1
<1> QED BY <1>2, SchedInvariant, SortInvariant, TimeInvariant, PTL
        DEF Spec, SafetySpec, HighestDueRuns

\* A task that only sleeps is not released before its time has come.
THEOREM SchedDelayRespected ==
  ASSUME NoWrap
  PROVE  Spec => DelayRespected
<1>1. ASSUME IInv, TimeInv, [Next]_vars, NEW t \in Task \ Waitable,
             state[t] = "BLOCK", state'[t] = "READY"
      PROVE  Due(t)
  <2>1. CASE ExpireOne
    <3>1. /\ s_block_list # <<>> /\ tick(Head(s_block_list)) <= s_schedule_now
          /\ state' = [state EXCEPT ![Head(s_block_list)] = "READY"]
      BY <2>1 DEF ExpireOne, FirstIsDue
    <3>2. Head(s_block_list) = t
      BY <1>1, <3>1 DEF IInv, StateOK
    <3> QED BY <1>1, <3>1, <3>2, TicksTellTime DEF IInv, Due
  <2>2. CASE CallbackEnds
    <3>1. mode = "run"
      BY <2>2 DEF CallbackEnds, Yield, Delay, SuspendSelf
    <3>2. s_cur_pt # t
      BY <1>1, <3>1, Running
    <3> QED BY <1>1, <2>2, <3>2 DEF CallbackEnds, Yield, Delay, SuspendSelf, IInv, StateOK
  <2>3. CASE Dispatch
    <3>1. state' = [state EXCEPT ![NextReady] = "RUNNING"]
      BY <2>3 DEF Dispatch
    <3> QED BY <1>1, <3>1 DEF IInv, StateOK
  <2>4. CASE NothingReady \/ Schedule \/ Hardware \/ UNCHANGED vars
    BY <1>1, <2>4 DEF NothingReady, Schedule, Hardware, Tick, TimerFires, Interrupt, vars
  <2>5. ASSUME NEW u \in Task, OnTask(u)
        PROVE  FALSE
    <3>1. CASE u = t
      BY <1>1, <2>5, <3>1 DEF OnTask, Create, InitStatic, Start, Destroy, DeinitStatic,
        Suspend, Resume, Wake, Block, IInv, StateOK
    <3>2. CASE u # t
      BY <1>1, <2>5, <3>2 DEF OnTask, Create, InitStatic, Start, Destroy, DeinitStatic,
        Suspend, Resume, Wake, Block, IInv, StateOK
    <3> QED BY <3>1, <3>2
  <2> QED BY <1>1, <2>1, <2>2, <2>3, <2>4, <2>5 DEF Next, Kernel
<1>2. IInv /\ TimeInv /\ [Next]_vars =>
        [\A t \in Task \ Waitable :
           state[t] = "BLOCK" /\ state'[t] = "READY" => Due(t)]_vars
  BY <1>1
<1> QED BY <1>2, SchedInvariant, TimeInvariant, PTL DEF Spec, SafetySpec, DelayRespected

-----------------------------------------------------------------------------
(* When main sleeps.  BootTick >= 1 because 0 means "nothing to do" to main; *)
(* a callback that outlasts a tick would make its timer late.                *)

OnTime == NoWrap /\ BootTick >= 1 /\ ~SlowCallbacks

\* While ek_pt_schedule runs its tick is the hardware's; when a callback runs,
\* no task is blocked until tick 0.
SleepInv ==
  /\ hwtick >= 1
  /\ mode \in {"expire", "run"} => now = hwtick
  /\ mode = "run" => \A t \in Task : state[t] = "BLOCK" => wake_at[t] # 0

LEMMA SleepInvSteps ==
  ASSUME OnTime, IInv, SortInv, TimeInv, SleepInv, [Next]_vars
  PROVE  SleepInv'
<1>0. /\ ClockOK /\ now \in Nat /\ hwtick \in Nat
      /\ wake_at \in [Task -> Nat \cup {Never}] /\ state \in [Task -> States]
  BY DEF IInv, ClockOK, StateOK
<1>1. CASE UNCHANGED <<hwtick, now>> /\ mode' \notin {"expire", "run"}
  BY <1>1 DEF SleepInv
<1>2. CASE UNCHANGED vars \/ ExpireOne
  <2>1. CASE UNCHANGED vars
    BY <2>1 DEF SleepInv, vars, clock
  <2>2. CASE ExpireOne
    BY <2>2 DEF SleepInv, ExpireOne, clock
  <2> QED BY <1>2, <2>1, <2>2
<1>3. CASE Schedule
  BY <1>3 DEF Schedule, SleepInv
<1>4. CASE Tick
  BY <1>0, <1>4 DEF Tick, SleepInv, OnTime
<1>5. CASE Dispatch
  <2>1. /\ mode = "expire" /\ mode' = "run" /\ ~FirstIsDue /\ s_ready_mask # {}
        /\ UNCHANGED <<wake_at, now, hwtick>>
        /\ state' = [state EXCEPT ![NextReady] = "RUNNING"]
    BY <1>5 DEF Dispatch, clock
  <2>2. ASSUME NEW t \in Task, state'[t] = "BLOCK"
        PROVE  wake_at[t] # 0
    <3>1. state[t] = "BLOCK"
      BY <1>0, <2>1, <2>2
    <3>2. ~(wake_at[t] \in 0 .. now)
      BY <2>1, <3>1, NothingDue DEF OnTime, Due
    <3> QED BY <1>0, <3>2
  <2> QED BY <2>1, <2>2 DEF SleepInv
<1>6. ASSUME NEW t \in Task, NEW x \in Delays, Block(t, x)
      PROVE  SleepInv'
  <2>1. /\ mode' = mode /\ now' = now /\ hwtick' = hwtick
        /\ wake_at' = [wake_at EXCEPT ![t] = WakeTime(x)]
        /\ state' = [state EXCEPT ![t] = "BLOCK"]
    BY <1>6 DEF Block, clock
  <2>2. x \in Nat
    BY SchedAssumption
  <2>3. mode = "run" => WakeTime(x) # 0
    BY <1>0, <2>2 DEF WakeTime, SleepInv, Never
  <2> QED BY <1>0, <2>1, <2>3 DEF SleepInv
<1>7. ASSUME NEW t \in Task, OnTask(t)
      PROVE  SleepInv'
  <2>1. ASSUME UNCHANGED <<hwtick, now, mode>>,
               \A u \in Task : state'[u] = "BLOCK" =>
                 state[u] = "BLOCK" /\ wake_at'[u] = wake_at[u]
        PROVE  SleepInv'
    BY <2>1 DEF SleepInv
  <2>2. CASE Create(t) \/ InitStatic(t) \/ Destroy(t)
    BY <1>0, <2>1, <2>2 DEF Create, InitStatic, Start, Destroy, clock
  <2>3. CASE DeinitStatic(t) \/ Suspend(t) \/ Resume(t) \/ Wake(t)
    BY <1>0, <2>1, <2>3 DEF DeinitStatic, Suspend, Resume, Wake, clock
  <2> QED BY <1>6, <1>7, <2>2, <2>3 DEF OnTask
<1>8. CASE NothingReady \/ CallbackEnds
  <2>1. Return
    BY <1>8 DEF NothingReady, CallbackEnds, Yield, Delay, SuspendSelf
  <2> QED BY <1>1, <2>1 DEF Return
<1>9. CASE TimerFires \/ Interrupt
  BY <1>1, <1>9 DEF TimerFires, Interrupt
<1> QED BY <1>2, <1>3, <1>4, <1>5, <1>7, <1>8, <1>9 DEF Next, Kernel, Hardware

\* What Return trusts of the block list it finds.
BlockFacts ==
  /\ s_schedule_now = now
  /\ s_block_list # <<>> =>
       LET h == Head(s_block_list) IN
       /\ h \in Task /\ state[h] = "BLOCK" /\ tick(h) \in Nat
       /\ wake_at[h] # 0 => tick(h) # 0
       /\ \A t \in Task : state[t] = "BLOCK" /\ wake_at[t] # Never => tick(h) <= wake_at[t]

LEMMA BlockFactsHold ==
  ASSUME NoWrap, IInv, SortInv, TimeInv
  PROVE  BlockFacts
<1>1. s_schedule_now = now
  BY TicksTellTime DEF IInv
<1>2. ASSUME s_block_list # <<>>
      PROVE  LET h == Head(s_block_list) IN
             /\ h \in Task /\ state[h] = "BLOCK" /\ tick(h) \in Nat
             /\ wake_at[h] # 0 => tick(h) # 0
             /\ \A t \in Task : state[t] = "BLOCK" /\ wake_at[t] # Never =>
                                 tick(h) <= wake_at[t]
  <2> DEFINE h == Head(s_block_list)
  <2>1. h \in Task /\ state[h] = "BLOCK"
    BY <1>2, ExpiredWasBlocked
  <2>2. ASSUME NEW t \in Task, state[t] = "BLOCK", wake_at[t] # Never
        PROVE  tick(h) <= wake_at[t]
    <3>1. tick(h) <= tick(t)
      BY <2>2, HeadIsFirst
    <3>2. tick(t) = wake_at[t]
      BY <2>2, TicksTellTime DEF IInv
    <3> QED BY <3>1, <3>2
  <2> HIDE DEF h
  <2>3. tick(h) \in Nat
    BY <2>1, TicksStored DEF IInv
  <2>4. wake_at[h] # 0 => tick(h) # 0
    <3>1. TickMod - 1 # 0
      BY SchedAssumption DEF NoWrap
    <3>2. /\ wake_at[h] = Never => tick(h) = TickMod - 1
          /\ wake_at[h] # Never => tick(h) = wake_at[h]
      BY <2>1, TicksTellTime DEF IInv
    <3> QED BY <3>1, <3>2
  <2> QED BY <2>1, <2>2, <2>3, <2>4 DEF h
<1> QED BY <1>1, <1>2 DEF BlockFacts

LEMMA NextBlockFacts ==
  ASSUME NoWrap
  PROVE  IInv' /\ SortInv' /\ TimeInv' => BlockFacts'
<1>1. IInv /\ SortInv /\ TimeInv => BlockFacts
  BY BlockFactsHold
<1> QED BY <1>1, PTL

\* Return puts main to sleep only as SleepSafe says.
LEMMA ReturnSleepsSafely ==
  ASSUME OnTime, IInv', BlockFacts', Return, now \in Nat,
         now = hwtick, hwtick >= 1,
         \A t \in Task : state'[t] = "BLOCK" => wake_at'[t] # 0
  PROVE  SleepSafe'
<1>1. /\ now' = now /\ hwtick' = hwtick /\ s_schedule_now' = s_schedule_now
      /\ mode' = IF Result = 0 THEN "deep"
                 ELSE IF Result > s_schedule_now THEN "light" ELSE "awake"
      /\ alarm' = IF mode' = "light" THEN hwtick + (Result - s_schedule_now) ELSE 0
  BY DEF Return, SleepTicks, s_schedule_now
<1>2. s_schedule_now = now /\ now \in Nat /\ hwtick \in Nat
  <2>1. s_schedule_now' = now'
    BY DEF BlockFacts
  <2> QED BY <1>1, <2>1
<1>3. CASE s_ready_mask' # {}
  <2>1. Result = now
    BY <1>2, <1>3 DEF Result
  <2>2. mode' = "awake"
    BY <1>1, <1>2, <2>1
  <2> QED BY <2>2 DEF SleepSafe
<1>4. CASE s_ready_mask' = {}
  <2>1. ASSUME NEW t \in Task
        PROVE  state'[t] # "READY"
    <3> SUFFICES ASSUME state'[t] = "READY" PROVE FALSE
      OBVIOUS
    <3>1. ReadyOK' /\ Prio[t] \in Levels
      BY SchedAssumption DEF IInv, Levels
    <3>2. t \in ToSet(s_ready_list'[Prio[t]]) /\ s_ready_list'[Prio[t]] \in Seq(Task)
      BY <3>1 DEF ReadyOK, ReadyListsMatch
    <3>3. s_ready_list'[Prio[t]] # <<>>
      BY <3>2 DEF ToSet
    <3>4. Prio[t] \in s_ready_mask'
      BY <3>1, <3>3 DEF ReadyOK, MaskMatches
    <3> QED BY <1>4, <3>4
  <2>2. CASE s_block_list' = <<>>
    <3>1. ToSet(s_block_list') = {}
      BY <2>2 DEF ToSet
    <3>2. \A t \in Task : state'[t] # "BLOCK"
      BY <3>1 DEF IInv, BlockOK, BlockListMatches
    <3> QED BY <2>1, <3>2 DEF SleepSafe
  <2>3. CASE s_block_list' # <<>>
    <3> DEFINE h == Head(s_block_list')
    <3>1. Result = Wrapped(wake_at'[h])
      BY <1>4, <2>3 DEF Result
    <3>2. /\ h \in Task /\ state'[h] = "BLOCK" /\ Wrapped(wake_at'[h]) \in Nat
          /\ wake_at'[h] # 0 => Wrapped(wake_at'[h]) # 0
          /\ \A t \in Task : state'[t] = "BLOCK" /\ wake_at'[t] # Never =>
                Wrapped(wake_at'[h]) <= wake_at'[t]
      BY <2>3 DEF BlockFacts, tick
    <3> HIDE DEF h
    <3>3. Result \in Nat /\ Result # 0
      BY <3>1, <3>2
    <3>4. mode' = "light" => alarm' = Result
      BY <1>1, <1>2, <3>3
    <3>5. \A t \in Task : state'[t] = "BLOCK" /\ wake_at'[t] # Never =>
            Result <= wake_at'[t]
      BY <3>1, <3>2
    <3>6. mode' # "deep"
      BY <1>1, <3>3
    <3> QED BY <2>1, <3>4, <3>5, <3>6 DEF SleepSafe
  <2> QED BY <2>2, <2>3
<1> QED BY <1>3, <1>4

LEMMA SleepSafeSteps ==
  ASSUME OnTime, IInv, IInv', SortInv, SortInv', TimeInv, TimeInv', SleepInv,
         SleepSafe, [Next]_vars
  PROVE  SleepSafe'
<1>0. BlockFacts'
  BY NextBlockFacts DEF OnTime
<1>1. CASE mode' \notin {"light", "deep"}
  BY <1>1 DEF SleepSafe
<1>2. CASE UNCHANGED <<state, wake_at, mode, alarm>>
  BY <1>2 DEF SleepSafe
<1>3. CASE UNCHANGED vars \/ Tick
  BY <1>2, <1>3 DEF vars, clock, Tick
<1>4. CASE NothingReady
  <2>1. /\ Return /\ ~FirstIsDue /\ mode = "expire" /\ UNCHANGED <<state, wake_at>>
    BY <1>4 DEF NothingReady
  <2>2. ASSUME NEW t \in Task, state[t] = "BLOCK"
        PROVE  wake_at[t] # 0
    <3>1. ~(wake_at[t] \in 0 .. now)
      BY <2>1, <2>2, NothingDue DEF OnTime, Due
    <3> QED BY <3>1 DEF IInv, ClockOK
  <2> QED BY <2>1, <2>2, <1>0, ReturnSleepsSafely DEF SleepInv, IInv, ClockOK
<1>5. CASE CallbackEnds
  <2>1. Return /\ mode = "run" /\ s_cur_pt \in Task
    BY <1>5, Running DEF CallbackEnds, Yield, Delay, SuspendSelf
  <2>2. now \in Nat /\ now >= 1 /\ now = hwtick
    BY <2>1 DEF SleepInv, IInv, ClockOK
  <2>3. /\ wake_at \in [Task -> Nat \cup {Never}] /\ state \in [Task -> States]
        /\ \A t \in Task : state[t] = "BLOCK" => wake_at[t] # 0
    BY <2>1 DEF SleepInv, IInv, ClockOK, StateOK
  <2>4. CASE Yield \/ SuspendSelf
    <3>1. \A t \in Task : state'[t] = "BLOCK" => wake_at'[t] # 0
      BY <2>1, <2>3, <2>4 DEF Yield, SuspendSelf
    <3> QED BY <2>1, <2>2, <3>1, <1>0, ReturnSleepsSafely
  <2>5. ASSUME NEW x \in Delays, Delay(x)
        PROVE  SleepSafe'
    <3>1. WakeTime(x) # 0
      <4>1. x \in Nat
        BY SchedAssumption
      <4> QED BY <2>2, <4>1 DEF WakeTime, Never
    <3>2. \A t \in Task : state'[t] = "BLOCK" => wake_at'[t] # 0
      BY <2>1, <2>3, <2>5, <3>1 DEF Delay
    <3> QED BY <2>1, <2>2, <3>2, <1>0, ReturnSleepsSafely
  <2> QED BY <1>5, <2>4, <2>5 DEF CallbackEnds
<1>6. CASE Schedule \/ ExpireOne \/ Dispatch \/ TimerFires \/ Interrupt
  BY <1>1, <1>6 DEF Schedule, ExpireOne, Dispatch, TimerFires, Interrupt
<1>7. ASSUME NEW t \in Task, OnTask(t)
      PROVE  SleepSafe'
  <2>1. Executing /\ mode' = mode
    BY <1>7 DEF OnTask, Create, InitStatic, Start, Destroy, DeinitStatic, Suspend, Resume,
      Wake, Block
  <2> QED BY <1>1, <2>1 DEF Executing
<1> QED BY <1>3, <1>4, <1>5, <1>6, <1>7 DEF Next, Kernel, Hardware

\* main sleeps only when no task is ready, without a timer only when none is
\* blocked, and its timer is no later than the first wake-up time.
THEOREM SchedSleepSafe ==
  ASSUME OnTime
  PROVE  Spec => []SleepSafe
<1>1. Init => SleepInv /\ SleepSafe
  BY DEF Init, SleepInv, SleepSafe, OnTime
<1>2. IInv /\ SortInv /\ TimeInv /\ SleepInv /\ [Next]_vars => SleepInv'
  BY SleepInvSteps
<1>3. IInv /\ IInv' /\ SortInv /\ SortInv' /\ TimeInv /\ TimeInv' /\ SleepInv
        /\ SleepSafe /\ [Next]_vars => SleepSafe'
  BY SleepSafeSteps
<1>4. NoWrap
  BY DEF OnTime
<1> QED BY <1>1, <1>2, <1>3, <1>4, SchedInvariant, SortInvariant, TimeInvariant, PTL
        DEF Spec, SafetySpec

-----------------------------------------------------------------------------
(* Peers take turns.  This is what NoPeerStarvation asks, without time: how *)
(* often a peer may run before a ready task does.                           *)

LEMMA TurnUntouched ==
  ASSUME UNCHANGED <<s_ready_list, state>>
  PROVE  TurnKept
BY DEF TurnKept, Behind

LEMMA TurnEnqueue ==
  ASSUME ReadyOK, StateOK, NEW x \in Task, state[x] # "READY",
         state' = [state EXCEPT ![x] = "READY"], ReadyEnqueue(x)
  PROVE  TurnKept
<1> SUFFICES ASSUME NEW t \in Task, NEW u \in Task \ {t}, Prio[u] = Prio[t],
                    state[t] = "READY", Behind(t, u)
             PROVE  Behind(t, u)' /\ (state'[u] = "RUNNING" => state[u] = "RUNNING")
  BY DEF TurnKept
<1>1. \A v \in Task : state'[v] = IF v = x THEN "READY" ELSE state[v]
  BY DEF StateOK
<1> DEFINE p == Prio[t]
           l == s_ready_list[p]
<1>2. p \in Levels /\ Prio[x] \in Levels
  BY SchedAssumption DEF Levels
<1>3. l \in List(Task) /\ t \in ToSet(l)
  BY <1>2, ReadyLevel
<1>4. s_ready_list'[p] = IF Prio[x] = p THEN Append(l, x) ELSE l
  BY <1>2 DEF ReadyEnqueue, ReadyOK
<1> HIDE DEF p, l
<1>5. Behind(t, u)'
  <2>1. CASE u = x
    <3>1. Precedes(s_ready_list'[p], t, u)
      BY <1>3, <1>4, <2>1, AppendPrecedes DEF p
    <3> QED BY <3>1 DEF Behind, p
  <2>2. CASE u # x /\ state[u] = "READY"
    <3>1. Precedes(l, t, u)
      BY <2>2 DEF Behind, l, p
    <3>2. Precedes(s_ready_list'[p], t, u)
      BY <1>3, <1>4, <3>1, AppendPrecedes
    <3> QED BY <3>2 DEF Behind, p
  <2>3. CASE u # x /\ state[u] # "READY"
    BY <1>1, <2>3 DEF Behind
  <2> QED BY <2>1, <2>2, <2>3
<1> QED BY <1>1, <1>5

\* What leaves its list runs only when it is at the head.
LEMMA TurnDequeue ==
  ASSUME ReadyOK, StateOK, NEW x \in Task, state[x] = "READY",
         NEW s, s # "READY", s = "RUNNING" => x = Head(s_ready_list[Prio[x]]),
         state' = [state EXCEPT ![x] = s], ReadyDequeue(x)
  PROVE  TurnKept
<1> SUFFICES ASSUME NEW t \in Task, NEW u \in Task \ {t}, Prio[u] = Prio[t],
                    state[t] = "READY", state'[t] = "READY", Behind(t, u)
             PROVE  Behind(t, u)' /\ (state'[u] = "RUNNING" => state[u] = "RUNNING")
  BY DEF TurnKept
<1>1. \A v \in Task : state'[v] = IF v = x THEN s ELSE state[v]
  BY DEF StateOK
<1>2. t # x
  BY <1>1
<1> DEFINE p == Prio[t]
           l == s_ready_list[p]
<1>3. p \in Levels /\ Prio[x] \in Levels
  BY SchedAssumption DEF Levels
<1>4. /\ l \in List(Task) /\ t \in ToSet(l)
      /\ Prio[x] = p => x \in ToSet(l)
  BY <1>3, ReadyLevel
<1>5. s_ready_list'[p] = IF Prio[x] = p THEN ListRemove(l, x) ELSE l
  BY <1>3 DEF ReadyDequeue, ReadyOK
<1>6. l # <<>>
  BY <1>4, EmptyList
<1>7. state[u] = "READY" => Precedes(l, t, u)
  BY DEF Behind
<1> HIDE DEF p, l
<1>8. CASE u = x
  <2>1. Prio[x] = p /\ Precedes(l, t, x)
    BY <1>7, <1>8 DEF p
  <2>2. x # Head(l)
    BY <1>4, <1>6, <2>1, HeadPrecedes
  <2>3. s # "RUNNING"
    BY <2>1, <2>2 DEF l
  <2> QED BY <1>1, <1>8, <2>3 DEF Behind
<1>9. CASE u # x /\ state[u] = "READY"
  <2>1. Precedes(s_ready_list'[p], t, u)
    BY <1>2, <1>4, <1>5, <1>7, <1>9, RemovePrecedes
  <2> QED BY <1>1, <1>9, <2>1 DEF Behind, p
<1>10. CASE u # x /\ state[u] # "READY"
  BY <1>1, <1>10 DEF Behind
<1> QED BY <1>8, <1>9, <1>10

\* A task that is not ready stays out of the turns when it does not run.
LEMMA TurnElsewhere ==
  ASSUME StateOK, NEW x \in Task, state[x] # "READY", NEW s, s \notin {"READY", "RUNNING"},
         state' = [state EXCEPT ![x] = s], UNCHANGED s_ready_list
  PROVE  TurnKept
<1>1. \A v \in Task : state'[v] = IF v = x THEN s ELSE state[v]
  BY DEF StateOK
<1> QED BY <1>1 DEF TurnKept, Behind

LEMMA PickedIsHead ==
  ASSUME IInv, s_ready_mask # {}
  PROVE  NextReady = Head(s_ready_list[Prio[NextReady]])
<1> DEFINE p == CHOOSE p \in s_ready_mask : \A q \in s_ready_mask : p <= q
<1>1. s_ready_mask \in SUBSET Nat
  BY SchedAssumption DEF IInv, ReadyOK, Levels
<1>2. p \in s_ready_mask
  BY <1>1, MinPosition DEF Min
<1>3. p \in Levels /\ s_ready_list[p] # <<>>
  BY <1>2 DEF IInv, ReadyOK, MaskMatches
<1>4. NextReady = Head(s_ready_list[p])
  BY DEF NextReady
<1> HIDE DEF p
<1>5. NextReady \in ToSet(s_ready_list[p])
  BY <1>3, <1>4, ReadyLevel, HeadTailList DEF IInv
<1>6. Prio[NextReady] = p
  BY <1>3, <1>5, ReadyLevel DEF IInv
<1> QED BY <1>4, <1>6

LEMMA KernelInTurn ==
  ASSUME IInv, Kernel
  PROVE  TurnKept
<1> USE DEF IInv
<1>1. CASE Schedule \/ NothingReady
  BY <1>1, TurnUntouched DEF Schedule, NothingReady, lists
<1>2. CASE ExpireOne
  <2>1. /\ s_block_list # <<>> /\ ReadyEnqueue(Head(s_block_list))
        /\ state' = [state EXCEPT ![Head(s_block_list)] = "READY"]
    BY <1>2 DEF ExpireOne, FirstIsDue
  <2> QED BY <2>1, ExpiredWasBlocked, TurnEnqueue
<1>3. CASE Dispatch
  <2>1. /\ s_ready_mask # {} /\ ReadyDequeue(NextReady)
        /\ state' = [state EXCEPT ![NextReady] = "RUNNING"]
    BY <1>3 DEF Dispatch
  <2> QED BY <2>1, PickedWasReady, PickedIsHead, TurnDequeue
<1>4. CASE CallbackEnds
  <2>1. mode = "run"
    BY <1>4 DEF CallbackEnds, Yield, SuspendSelf, Delay
  <2>2. s_cur_pt \in Task /\ state[s_cur_pt] = "RUNNING"
    BY <2>1, Running
  <2>3. CASE Yield
    BY <2>2, <2>3, TurnEnqueue DEF Yield
  <2>4. CASE SuspendSelf \/ \E d \in Delays : Delay(d)
    <3>1. /\ UNCHANGED s_ready_list
          /\ \E s \in {"SUSPEND", "BLOCK"} : state' = [state EXCEPT ![s_cur_pt] = s]
      BY <2>4 DEF SuspendSelf, Delay, lists
    <3> QED BY <2>2, <3>1, TurnElsewhere
  <2> QED BY <1>4, <2>3, <2>4 DEF CallbackEnds
<1> QED BY <1>1, <1>2, <1>3, <1>4 DEF Kernel

LEMMA OnTaskInTurn ==
  ASSUME IInv, NEW x \in Task, OnTask(x)
  PROVE  TurnKept
<1> USE DEF IInv
<1>1. CASE Create(x) \/ InitStatic(x) \/ Resume(x) \/ Wake(x)
  <2>1. /\ state[x] # "READY" /\ ReadyEnqueue(x)
        /\ state' = [state EXCEPT ![x] = "READY"]
    BY <1>1 DEF Create, InitStatic, Start, Resume, Wake
  <2> QED BY <2>1, TurnEnqueue
<1>2. CASE Destroy(x) \/ DeinitStatic(x) \/ Suspend(x) \/ \E d \in Delays : Block(x, d)
  <2>1. /\ IF state[x] = "READY" THEN ReadyDequeue(x)
                                 ELSE UNCHANGED <<s_ready_list, s_ready_mask>>
        /\ \E s \in {"NONE", "SUSPEND", "BLOCK"} : state' = [state EXCEPT ![x] = s]
    BY <1>2 DEF Destroy, DeinitStatic, Suspend, Block, Unlink
  <2> QED BY <2>1, TurnDequeue, TurnElsewhere
<1> QED BY <1>1, <1>2 DEF OnTask

\* Between the moment a task is made ready and the moment it runs, whatever main,
\* the callbacks and time do meanwhile, no other task of its level runs twice: one
\* that was ahead of it has its turn and is behind it from then on.
THEOREM SchedInTurn == SafetySpec => InTurn
<1>1. IInv /\ [Next]_vars => [TurnKept]_vars
  <2> SUFFICES ASSUME IInv, Next PROVE TurnKept
    OBVIOUS
  <2>1. CASE Hardware
    BY <2>1, TurnUntouched DEF Hardware, Tick, TimerFires, Interrupt, lists
  <2> QED BY <2>1, KernelInTurn, OnTaskInTurn DEF Next
<1> QED BY <1>1, SchedInvariant, PTL DEF SafetySpec, InTurn

\* What fairness of CallbackEnds promises.
CallbacksReturn == \A u \in Task : []<>(state[u] # "RUNNING")

\* Tasks of one level do not starve each other: when callbacks return, a task
\* that stays ready for ever lets each of its peers run once at the most.
THEOREM SchedNoPeerStarvation == SafetySpec /\ CallbacksReturn => NoPeerStarvation
<1>1. ASSUME NEW t \in Task, NEW u \in Task, Prio[t] = Prio[u]
      PROVE  SafetySpec /\ CallbacksReturn =>
               (<>[](state[t] = "READY") => ~[]<>(state[u] = "RUNNING"))
  <2>1. CASE t = u
    <3>1. state[t] = "READY" => ~(state[u] = "RUNNING")
      BY <2>1
    <3> QED BY <3>1, PTL
  <2>2. CASE t # u
    <3>1. CallbacksReturn => []<>(state[u] # "RUNNING")
      BY DEF CallbacksReturn
    <3>2. state[u] = "RUNNING" => Behind(t, u)
      BY DEF Behind
    <3>3. [TurnKept]_vars /\ state[t] = "READY" /\ (state[t] = "READY")' /\ Behind(t, u)
            => Behind(t, u)' /\ ((state[u] = "RUNNING")' => state[u] = "RUNNING")
      <4>1. CASE TurnKept
        BY <1>1, <2>2, <4>1 DEF TurnKept
      <4>2. CASE UNCHANGED vars
        BY <4>2 DEF vars, lists, Behind
      <4> QED BY <4>1, <4>2
    <3>4. (state[u] # "RUNNING") <=> ~(state[u] = "RUNNING")
      OBVIOUS
    <3> QED BY <3>1, <3>2, <3>3, <3>4, SchedInTurn, PTL DEF InTurn
  <2> QED BY <2>1, <2>2
<1> QED BY <1>1 DEF NoPeerStarvation
=============================================================================
