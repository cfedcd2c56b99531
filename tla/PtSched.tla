------------------------------ MODULE PtSched -------------------------------
(***************************************************************************)
(* ek_picothread: the cooperative scheduler (src/src/ek_picothread.c) and  *)
(* the main loop that drives it (README, "main loop pattern").             *)
(*                                                                         *)
(* One action per public function, one for each iteration of the expire    *)
(* loop and one for the dispatch.  A callback runs between Dispatch and the *)
(* action that ends it (Yield, Delay, SuspendSelf); in between it may call *)
(* any function on other tasks, and so may main between two schedules.     *)
(*                                                                         *)
(* Wake is what the semaphores and the message queues do to these lists    *)
(* when they release a waiter (PtSem, PtMsg say when they do it).          *)
(***************************************************************************)
EXTENDS EkList

CONSTANTS
  Task,             \* the ek_pt_t objects
  NoTask,           \* the NULL of s_cur_pt
  Prio,             \* ek_pt.prio of each task, 0 is the highest
  StaticTask,       \* tasks set up by ek_pt_init_static, the others by create
  Waitable,         \* tasks that also block on a semaphore or a queue
  LOWEST,           \* EKCFG_PT_PRIO_LOWEST
  TickMod,          \* ticks are counted modulo this (2^32 in the code)
  Delays,           \* the xtick arguments; TickMod - 1 means forever
  BootTick,         \* get_tick() when main starts
  MaxTick,          \* bound of the model on the hardware tick
  SlowCallbacks     \* may the tick advance while ek_pt_schedule runs?

ASSUME SchedAssumption ==
  /\ NoTask \notin Task
  /\ LOWEST \in Nat
  /\ Prio \in [Task -> 0 .. LOWEST]
  /\ StaticTask \subseteq Task /\ Waitable \subseteq Task
  /\ TickMod \in Nat \ {0}
  /\ Delays \subseteq 0 .. TickMod - 1
  /\ BootTick \in Nat /\ MaxTick \in Nat
  /\ SlowCallbacks \in BOOLEAN

Never == -1          \* wake_at of a task blocked with xtick = ~0
Levels == 0 .. LOWEST
Live == {"READY", "BLOCK", "SUSPEND", "RUNNING"}

VARIABLES
  s_ready_list,   \* one FIFO of tasks per priority level
  s_ready_mask,   \* the levels whose bit is set
  s_block_list,   \* blocked tasks, by wake-up tick
  s_cur_pt,       \* the task that runs, or that ran last
  state,          \* ek_pt.state; "NONE" while the object does not exist
  wake_at,        \* wake-up time on a clock that does not wrap
  now,            \* the argument of the last ek_pt_schedule, not wrapped
  hwtick,         \* the hardware tick counter, not wrapped
  alarm,          \* when the one-shot timer of the main loop fires
  mode            \* where main is: see TypeOK
lists == <<s_ready_list, s_ready_mask, s_block_list>>
clock == <<now, hwtick, alarm>>
vars == <<lists, s_cur_pt, state, wake_at, clock, mode>>

-----------------------------------------------------------------------------
(* Ticks as the code stores them. *)

s_schedule_now == now % TickMod
Wrapped(w) == IF w = Never THEN TickMod - 1 ELSE w % TickMod
tick(t) == Wrapped(wake_at[t])
WakeTime(x) == IF x = TickMod - 1 THEN Never ELSE now + x

(* The list helpers at the end of ek_picothread.c.  A definition whose name    *)
(* ends in _Mutant is a bug of the definition it precedes, for the checks.     *)

ReadyEnqueue_HeadMutant(t) ==
  /\ s_ready_list' = [s_ready_list EXCEPT ![Prio[t]] = <<t>> \o @]
  /\ s_ready_mask' = s_ready_mask \cup {Prio[t]}

ReadyEnqueue(t) ==
  /\ s_ready_list' = [s_ready_list EXCEPT ![Prio[t]] = Append(@, t)]
  /\ s_ready_mask' = s_ready_mask \cup {Prio[t]}

ReadyDequeue(t) ==
  /\ s_ready_list' = [s_ready_list EXCEPT ![Prio[t]] = ListRemove(@, t)]
  /\ s_ready_mask' = IF s_ready_list'[Prio[t]] = <<>>
                       THEN s_ready_mask \ {Prio[t]} ELSE s_ready_mask

InsertByTime_TailMutant(list, t, w) == Append(list, t)

\* Insert t with wake-up time w: by wrapped tick, then by priority.
InsertByTime(list, t, w) ==
  InsertBefore(list, t,
    {u \in Task : \/ tick(u) > Wrapped(w)
                  \/ tick(u) = Wrapped(w) /\ Prio[u] > Prio[t]})

\* _pt_next_ready: the head of the highest level whose bit is set.
NextReady == Head(s_ready_list[CHOOSE p \in s_ready_mask :
                                 \A q \in s_ready_mask : p <= q])

Unlink_BlockedMutant(t) ==
  /\ IF state[t] = "READY" THEN ReadyDequeue(t)
                           ELSE UNCHANGED <<s_ready_list, s_ready_mask>>
  /\ UNCHANGED s_block_list

\* Take t off whatever list its state says it is on.
Unlink(t) ==
  /\ IF state[t] = "READY" THEN ReadyDequeue(t)
                           ELSE UNCHANGED <<s_ready_list, s_ready_mask>>
  /\ s_block_list' = IF state[t] = "BLOCK" THEN ListRemove(s_block_list, t)
                                           ELSE s_block_list

-----------------------------------------------------------------------------
(* Operations of main and of a running callback on other tasks.  On the task   *)
(* that runs, suspend and block are SuspendSelf and Delay below.  A            *)
(* precondition: main does not call them between two schedules on the task     *)
(* that ran last, which s_cur_pt still names and they take for the one that    *)
(* runs: it would keep its place in s_ready_list.                              *)

Executing == mode \in {"awake", "run"}

\* What ek_pt_create and ek_pt_init_static do to the object and the lists.
Start(t) ==
  /\ Executing
  /\ state' = [state EXCEPT ![t] = "READY"]
  /\ wake_at' = [wake_at EXCEPT ![t] = 0]
  /\ ReadyEnqueue(t)
  /\ UNCHANGED <<s_block_list, s_cur_pt, clock, mode>>

Create(t) == t \in Task \ StaticTask /\ state[t] = "NONE" /\ Start(t)

\* A static object is set up once, or again after ek_pt_deinit_static.
InitStatic(t) ==
  t \in StaticTask /\ state[t] \in {"NONE", "SUSPEND"} /\ Start(t)

\* Destroying s_cur_pt returns at once, so it is no step.
Destroy(t) ==
  /\ Executing /\ t \in Task \ StaticTask
  /\ t # s_cur_pt /\ state[t] # "NONE"
  /\ Unlink(t)
  /\ state' = [state EXCEPT ![t] = "NONE"]
  /\ wake_at' = [wake_at EXCEPT ![t] = 0]
  /\ UNCHANGED <<s_cur_pt, clock, mode>>

\* ek_pt_deinit_static and ek_pt_suspend of another task leave the same state.
Suspend(t) ==
  /\ Executing
  /\ t # s_cur_pt /\ state[t] # "NONE"
  /\ Unlink(t)
  /\ state' = [state EXCEPT ![t] = "SUSPEND"]
  /\ UNCHANGED <<s_cur_pt, wake_at, clock, mode>>

DeinitStatic(t) == t \in StaticTask /\ Suspend(t)

Resume(t) ==
  /\ Executing
  /\ state[t] = "SUSPEND"
  /\ state' = [state EXCEPT ![t] = "READY"]
  /\ ReadyEnqueue(t)
  /\ UNCHANGED <<s_block_list, s_cur_pt, wake_at, clock, mode>>

Block(t, x) ==
  /\ Executing
  /\ t # s_cur_pt /\ state[t] # "NONE"
  /\ wake_at' = [wake_at EXCEPT ![t] = WakeTime(x)]
  /\ IF state[t] = "READY" THEN ReadyDequeue(t)
                           ELSE UNCHANGED <<s_ready_list, s_ready_mask>>
  /\ s_block_list' =
       InsertByTime(IF state[t] = "BLOCK" THEN ListRemove(s_block_list, t)
                                          ELSE s_block_list, t, WakeTime(x))
  /\ state' = [state EXCEPT ![t] = "BLOCK"]
  /\ UNCHANGED <<s_cur_pt, clock, mode>>

\* A semaphore or a queue releases the waiter t before its timeout.
Wake(t) ==
  /\ Executing
  /\ t \in Waitable /\ state[t] = "BLOCK"
  /\ s_block_list' = ListRemove(s_block_list, t)
  /\ state' = [state EXCEPT ![t] = "READY"]
  /\ ReadyEnqueue(t)
  /\ UNCHANGED <<s_cur_pt, wake_at, clock, mode>>

-----------------------------------------------------------------------------
(* ek_pt_schedule. *)

\* The main loop reads the tick and enters ek_pt_schedule.
Schedule ==
  /\ mode = "awake"
  /\ now' = hwtick
  /\ mode' = "expire"
  /\ UNCHANGED <<lists, s_cur_pt, state, wake_at, hwtick, alarm>>

FirstIsDue_LateMutant == /\ s_block_list # <<>>
                         /\ tick(Head(s_block_list)) < s_schedule_now
FirstIsDue_EarlyMutant == s_block_list # <<>>

FirstIsDue == /\ s_block_list # <<>>
              /\ tick(Head(s_block_list)) <= s_schedule_now

\* One turn of the expire loop: the first blocked task becomes ready.
ExpireOne ==
  /\ mode = "expire" /\ FirstIsDue
  /\ LET t == Head(s_block_list) IN
       /\ state' = [state EXCEPT ![t] = "READY"]
       /\ ReadyEnqueue(t)
  /\ s_block_list' = Tail(s_block_list)
  /\ UNCHANGED <<s_cur_pt, wake_at, clock, mode>>

\* The value ek_pt_schedule returns.
Result_BlockedFirstMutant ==
  IF s_block_list' # <<>> THEN Wrapped(wake_at'[Head(s_block_list')])
  ELSE IF s_ready_mask' = {} THEN 0 ELSE s_schedule_now
Result_NoBlockedMutant == IF s_ready_mask' # {} THEN s_schedule_now ELSE 0

Result == IF s_ready_mask' # {} THEN s_schedule_now
          ELSE IF s_block_list' = <<>> THEN 0
          ELSE Wrapped(wake_at'[Head(s_block_list')])

\* Length of the timer main sets.
SleepTicks_SwappedMutant(result) == s_schedule_now - result
SleepTicks(result) == result - s_schedule_now

\* What main does with the result: sleep without a timer on 0, with a timer when
\* it is later than now, loop otherwise.
Return ==
  /\ mode' = IF Result = 0 THEN "deep"
             ELSE IF Result > s_schedule_now THEN "light" ELSE "awake"
  /\ alarm' = IF mode' = "light" THEN hwtick + SleepTicks(Result) ELSE 0
  /\ UNCHANGED <<now, hwtick>>

NothingReady ==
  /\ mode = "expire" /\ ~FirstIsDue
  /\ s_ready_mask = {}
  /\ s_cur_pt' = NoTask
  /\ UNCHANGED <<lists, state, wake_at>>
  /\ Return

Dispatch ==
  /\ mode = "expire" /\ ~FirstIsDue
  /\ s_ready_mask # {}
  /\ s_cur_pt' = NextReady
  /\ ReadyDequeue(NextReady)
  /\ state' = [state EXCEPT ![NextReady] = "RUNNING"]
  /\ mode' = "run"
  /\ UNCHANGED <<s_block_list, wake_at, clock>>

\* The ways a callback ends, each with the re-sort after the call.

Yield ==
  /\ mode = "run"
  /\ state' = [state EXCEPT ![s_cur_pt] = "READY"]
  /\ ReadyEnqueue(s_cur_pt)
  /\ UNCHANGED <<s_block_list, s_cur_pt, wake_at>>
  /\ Return

\* ek_pt_block of the running task and the yield that follows it.
Delay(x) ==
  /\ mode = "run"
  /\ state' = [state EXCEPT ![s_cur_pt] = "BLOCK"]
  /\ wake_at' = [wake_at EXCEPT ![s_cur_pt] = WakeTime(x)]
  /\ s_block_list' = InsertByTime(s_block_list, s_cur_pt, WakeTime(x))
  /\ UNCHANGED <<s_ready_list, s_ready_mask, s_cur_pt>>
  /\ Return

SuspendSelf ==
  /\ mode = "run"
  /\ state' = [state EXCEPT ![s_cur_pt] = "SUSPEND"]
  /\ UNCHANGED <<lists, s_cur_pt, wake_at>>
  /\ Return

CallbackEnds == Yield \/ SuspendSelf \/ \E x \in Delays : Delay(x)

-----------------------------------------------------------------------------
(* The hardware: the tick counter, the one-shot timer, other interrupts. *)

Tick ==
  /\ hwtick < MaxTick
  /\ mode \in {"expire", "run"} => SlowCallbacks
  /\ hwtick' = hwtick + 1
  /\ UNCHANGED <<lists, s_cur_pt, state, wake_at, now, alarm, mode>>

TimerFires ==
  /\ mode = "light" /\ hwtick >= alarm
  /\ mode' = "awake" /\ alarm' = 0
  /\ UNCHANGED <<lists, s_cur_pt, state, wake_at, now, hwtick>>

Interrupt ==
  /\ mode \in {"light", "deep"}
  /\ mode' = "awake" /\ alarm' = 0
  /\ UNCHANGED <<lists, s_cur_pt, state, wake_at, now, hwtick>>

-----------------------------------------------------------------------------
\* ek_pt_init.
Init ==
  /\ s_ready_list = [p \in Levels |-> <<>>]
  /\ s_ready_mask = {}
  /\ s_block_list = <<>>
  /\ s_cur_pt = NoTask
  /\ state = [t \in Task |-> "NONE"]
  /\ wake_at = [t \in Task |-> 0]
  /\ now = 0 /\ hwtick = BootTick /\ alarm = 0
  /\ mode = "awake"

OnTask(t) ==
  \/ Create(t) \/ InitStatic(t) \/ Destroy(t) \/ DeinitStatic(t)
  \/ Suspend(t) \/ Resume(t) \/ Wake(t)
  \/ \E x \in Delays : Block(t, x)

Kernel == Schedule \/ ExpireOne \/ NothingReady \/ Dispatch \/ CallbackEnds

Hardware == Tick \/ TimerFires \/ Interrupt

Next == Kernel \/ Hardware \/ \E t \in Task : OnTask(t)

\* main keeps calling ek_pt_schedule, callbacks return, the timer fires.  The
\* tick counter runs whatever the program does, hence SF: without SlowCallbacks
\* Tick is disabled, again and again, while ek_pt_schedule runs.  Nobody
\* promises an interrupt.
Fairness ==
  /\ WF_vars(Schedule) /\ WF_vars(ExpireOne)
  /\ WF_vars(NothingReady \/ Dispatch) /\ WF_vars(CallbackEnds)
  /\ SF_vars(Tick) /\ WF_vars(TimerFires)

SafetySpec == Init /\ [][Next]_vars
Spec == SafetySpec /\ Fairness

-----------------------------------------------------------------------------
(* Safety. *)

\* Every variable keeps its type; mode says whether main executes its own code,
\* sits in ek_pt_schedule (in the expire loop or in a callback) or sleeps.
TypeOK ==
  /\ s_ready_list \in [Levels -> Seq(Task)]
  /\ s_ready_mask \subseteq Levels
  /\ s_block_list \in Seq(Task)
  /\ s_cur_pt \in Task \cup {NoTask}
  /\ state \in [Task -> Live \cup {"NONE"}]
  /\ wake_at \in [Task -> Nat \cup {Never}]
  /\ now \in Nat /\ hwtick \in Nat /\ alarm \in Nat
  /\ mode \in {"awake", "expire", "run", "light", "deep"}

\* Each level's FIFO holds exactly the READY tasks of that priority, once each.
ReadyListsMatch ==
  \A p \in Levels :
    /\ IsInjective(s_ready_list[p])
    /\ ToSet(s_ready_list[p]) =
         {t \in Task : state[t] = "READY" /\ Prio[t] = p}

\* The block list holds exactly the BLOCKed tasks, once each.
BlockListMatches ==
  /\ IsInjective(s_block_list)
  /\ ToSet(s_block_list) = {t \in Task : state[t] = "BLOCK"}

\* A bit of the mask is set iff its FIFO has a task; s_cur_pt is the one task
\* that runs while a callback does.
MaskMatches == s_ready_mask = {p \in Levels : s_ready_list[p] # <<>>}
RunningMatches ==
  {t \in Task : state[t] = "RUNNING"} = IF mode = "run" THEN {s_cur_pt} ELSE {}

\* The state of every task and the lists it is linked on agree whatever order
\* create, destroy, block, suspend, resume, wake and the scheduler come in: no
\* task is linked twice, left behind on a list or lost from all of them.
Consistent ==
  ReadyListsMatch /\ BlockListMatches /\ MaskMatches /\ RunningMatches

\* The block list stays sorted by wake-up tick, then priority; the expire loop
\* and the return value of ek_pt_schedule both trust its head to be the first.
BlockSorted ==
  \A i, j \in DOMAIN s_block_list : i < j =>
    LET t == s_block_list[i]  u == s_block_list[j]
    IN  tick(t) < tick(u) \/ (tick(t) = tick(u) /\ Prio[t] <= Prio[u])

\* main sleeps only when no task is ready, without a timer only when none is
\* blocked either, and its timer fires no later than the first wake-up time
\* (ek_picothread.h:235-237 and the README's main loop).
SleepSafe ==
  /\ mode \in {"light", "deep"} => \A t \in Task : state[t] # "READY"
  /\ mode = "deep" => \A t \in Task : state[t] # "BLOCK"
  /\ mode = "light" => \A t \in Task :
       state[t] = "BLOCK" /\ wake_at[t] # Never => alarm <= wake_at[t]

-----------------------------------------------------------------------------
(* What a step may never do. *)

Due(t) == state[t] = "BLOCK" /\ wake_at[t] \in 0 .. now

\* The task ek_pt_schedule runs has the highest priority among all that are
\* ready or whose wake-up time has come, however stale the mask or the lists.
HighestDueRunsStep ==
  mode # "run" /\ mode' = "run" =>
    \A t \in Task : state[t] = "READY" \/ Due(t) => Prio[s_cur_pt'] <= Prio[t]
HighestDueRuns == [][HighestDueRunsStep]_vars

\* A task that only sleeps becomes ready when its time has come, not before
\* (EK_PT_DELAY).
DelayRespected ==
  [][\A t \in Task \ Waitable :
       state[t] = "BLOCK" /\ state'[t] = "READY" => Due(t)]_vars

\* u is not to run before t, a ready task of its level.
Behind(t, u) == state[u] # "READY" \/ Precedes(s_ready_list[Prio[t]], t, u)

TurnKept ==
  \A t \in Task : \A u \in Task \ {t} :
    Prio[u] = Prio[t] /\ state[t] = "READY" /\ state'[t] = "READY" /\ Behind(t, u) =>
      /\ Behind(t, u)'
      /\ state'[u] = "RUNNING" => state[u] = "RUNNING"

\* No ready task is overtaken by one of its level (README: one FIFO per level):
\* whoever is behind it stays behind it and does not run first, and whoever
\* becomes ready, by a yield, a timeout, a resume, a wake-up or a new init, goes
\* behind it, whatever is destroyed, suspended or blocked in between.
InTurn == [][TurnKept]_vars

-----------------------------------------------------------------------------
(* Liveness. *)

\* Tasks of one level do not starve each other (README: one FIFO per level): if
\* one of them runs again and again, no other stays ready for ever.
NoPeerStarvation ==
  \A t, u \in Task : Prio[t] = Prio[u] =>
    (<>[](state[t] = "READY") => ~[]<>(state[u] = "RUNNING"))

\* A blocked task is released once its time has come, or is blocked anew.
DelayEnds ==
  \A t \in Task : \A w \in 0 .. MaxTick :
    (state[t] = "BLOCK" /\ wake_at[t] = w)
      ~> ~(state[t] = "BLOCK" /\ wake_at[t] = w)

\* A ready task of the highest level gets the processor.
TopRuns ==
  \A t \in Task : Prio[t] = 0 =>
    (state[t] = "READY" ~> state[t] # "READY")
=============================================================================
