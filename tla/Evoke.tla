------------------------------- MODULE Evoke --------------------------------
(***************************************************************************)
(* ek_evoke: the event loop, the FIFO through which interrupts reach it,   *)
(* the deferred events with their one-shot timer, and the choice of a      *)
(* sleep mode (src/src/ek_evoke.c), over the tasks and events of EvTasks.  *)
(*                                                                         *)
(* Interrupts come between any two actions of the loop.  The lists belong  *)
(* to the loop, so an action is what it does around one access to what it  *)
(* shares with them: the FIFO, s_event_tick_base, s_event_tick_diff,       *)
(* s_defer_evt_wakeup and the timer.  The FIFO is the SPSC ring buffer,    *)
(* which module SpscRing shows to be the atomic queue used here.           *)
(***************************************************************************)
EXTENDS EvTasks

CONSTANTS
  Req,          \* s_defer_req_pool
  IsrCap,       \* EK_EVOKE_MAX_ISR_REQ, of which a ring buffer uses one less
  TickMod,      \* ticks are counted modulo this (2^32 in the code)
  MinDeepSleep, \* EKCFG_EVOKE_MIN_DEEPSLEEP_TICK
  Delays,       \* the delay arguments but 0, which sends at once
  IsrDelays,    \* those of interrupts, 0 when they do not defer
  MaxEvents,    \* bound of the model on events sent and not consumed
  MaxLock       \* bound of the model on s_sleep_lock

ASSUME EvokeAssumption ==
  /\ IsFiniteSet(Req)
  /\ IsrCap \in Nat \ {0, 1} /\ TickMod \in Nat \ {0} /\ MinDeepSleep \in Nat
  /\ Delays \subseteq 1 .. TickMod - 1 /\ IsrDelays \subseteq 0 .. TickMod - 1
  /\ MaxEvents \in Nat /\ MaxLock \in Nat

MaxTick == TickMod - 1   \* UINT32_MAX
NoTimer == -1
NoReq == [evt |-> NoEvent, broadcast |-> FALSE, wakeup_tick |-> 0]

VARIABLES
  s_isr_fifo,             \* requests [evt, broadcast, delay]
  s_defer_evt_list,       \* of Req, by wakeup_tick
  s_defer_pool_free_list, \* of Req
  req,                    \* the contents of each Req
  s_event_tick_base, s_event_tick_diff, s_defer_earliest_tick,
  s_defer_evt_wakeup,
  s_sleep_lock,
  timer,                  \* ticks until the one-shot timer fires
  arm_tick,               \* the argument of _ek_evoke_set_timer
  pc                      \* where the loop is
deferVars == <<s_defer_evt_list, s_defer_pool_free_list, req>>
tickVars == <<s_event_tick_base, s_event_tick_diff, s_defer_earliest_tick, arm_tick>>
wakeVars == <<s_defer_evt_wakeup, timer>>
ownVars == <<s_isr_fifo, deferVars, tickVars, wakeVars, s_sleep_lock, pc>>
evokeVars == <<evVars, ownVars>>

-----------------------------------------------------------------------------
(* Deferred events. *)

InsertByTick_TailMutant(q, w) == Append(s_defer_evt_list, q)

\* Before the first request that is not due earlier.
InsertByTick(q, w) ==
  InsertBefore(s_defer_evt_list, q, {p \in Req : req[p].wakeup_tick >= w})

\* ek_evoke_event_defer with a delay that is not 0.  With an empty pool the
\* event is dropped.
Defer(e, d, broadcast) ==
  \/ /\ s_defer_pool_free_list = <<>>
     /\ UNCHANGED deferVars
  \/ /\ s_defer_pool_free_list # <<>>
     /\ LET q == Head(s_defer_pool_free_list)
            w == (d + s_event_tick_base) % TickMod
        IN  /\ s_defer_evt_list' = InsertByTick(q, w)
            /\ req' = [req EXCEPT ![q] =
                 [evt |-> e, broadcast |-> broadcast, wakeup_tick |-> w]]
     /\ s_defer_pool_free_list' = Tail(s_defer_pool_free_list)

Freed_NoneMutant(q) == s_defer_pool_free_list
\* _defer_req_free.
Freed(q) == Append(s_defer_pool_free_list, q)

Deliver(e, broadcast) == IF broadcast THEN Broadcast(e) ELSE Publish(e)

\* The bound MaxEvents: events on their way or counted.
Room ==
  MapThenSumSet(LAMBDA e : count[e], Event) + Len(s_isr_fifo)
    + Len(s_defer_evt_list) < MaxEvents

\* An event with a request on its way may not be destroyed: the loop would
\* deliver to the freed event.
Awaited(e) ==
  \/ \E i \in DOMAIN s_isr_fifo : s_isr_fifo[i].evt = e
  \/ \E q \in ToSet(s_defer_evt_list) : req[q].evt = e

-----------------------------------------------------------------------------
(* Calls of main before the loop, and of the callback that runs. *)

Calling == pc = "init" \/ s_running # NoTask

CallObjects ==
  /\ Calling
  /\ OnObjects(0 .. MaxEvents)
  /\ \A e \in events \ events' : ~Awaited(e)
  /\ UNCHANGED ownVars

CallSend ==
  /\ Calling /\ Room
  /\ \E e \in events, broadcast \in BOOLEAN :
       \/ Deliver(e, broadcast) /\ UNCHANGED deferVars
       \/ \E d \in Delays : Defer(e, d, broadcast) /\ UNCHANGED evVars
  /\ UNCHANGED <<s_isr_fifo, tickVars, wakeVars, s_sleep_lock, pc>>

CallLock ==
  /\ Calling
  /\ \/ s_sleep_lock < MaxLock /\ s_sleep_lock' = s_sleep_lock + 1
     \/ s_sleep_lock > 0 /\ s_sleep_lock' = s_sleep_lock - 1
  /\ UNCHANGED <<evVars, s_isr_fifo, deferVars, tickVars, wakeVars, pc>>

-----------------------------------------------------------------------------
(* ek_evoke_event_loop. *)

Goto(next) == pc' = next

Start ==
  /\ pc = "init" /\ Goto("drain")
  /\ UNCHANGED <<evVars, s_isr_fifo, deferVars, tickVars, wakeVars, s_sleep_lock>>

DrainOne ==
  /\ pc = "drain" /\ s_isr_fifo # <<>>
  /\ LET r == Head(s_isr_fifo) IN
       \/ /\ r.delay = 0
          /\ Deliver(r.evt, r.broadcast)
          /\ UNCHANGED deferVars
       \/ /\ r.delay # 0
          /\ Defer(r.evt, r.delay, r.broadcast)
          /\ UNCHANGED evVars
  /\ s_isr_fifo' = Tail(s_isr_fifo)
  /\ UNCHANGED <<tickVars, wakeVars, s_sleep_lock, pc>>

DrainEnds ==
  /\ pc = "drain" /\ s_isr_fifo = <<>>
  /\ Goto("ready")
  /\ UNCHANGED <<evVars, s_isr_fifo, deferVars, tickVars, wakeVars, s_sleep_lock>>

RunOne == pc = "ready" /\ Dispatch /\ UNCHANGED ownVars
CallbackEnds == CallbackReturns /\ UNCHANGED ownVars

ReadyEnds ==
  /\ pc = "ready" /\ s_running = NoTask /\ s_ready_task_list = <<>>
  /\ Goto("arm")
  /\ UNCHANGED <<evVars, s_isr_fifo, deferVars, tickVars, wakeVars, s_sleep_lock>>

FirstTick == req[Head(s_defer_evt_list)].wakeup_tick

NeedsArming_LaterMutant == s_defer_evt_list # <<>> /\ FirstTick > s_defer_earliest_tick
NeedsArming == s_defer_evt_list # <<>> /\ FirstTick # s_defer_earliest_tick

ArmDecides ==
  /\ pc = "arm"
  /\ \/ /\ NeedsArming
        /\ s_defer_earliest_tick' = FirstTick
        /\ Goto("set")
     \/ /\ ~NeedsArming
        /\ UNCHANGED s_defer_earliest_tick
        /\ Goto("sleep")
  /\ UNCHANGED <<evVars, s_isr_fifo, deferVars, s_event_tick_base, s_event_tick_diff,
                 arm_tick, wakeVars, s_sleep_lock>>

\* Unsigned, as C subtracts.
Idle == (s_defer_earliest_tick - s_event_tick_base) % TickMod

\* _ek_evoke_set_timer: its argument, the timer, then s_event_tick_diff.
ArmComputes ==
  /\ pc = "set"
  /\ arm_tick' = Idle
  /\ Goto("timer")
  /\ UNCHANGED <<evVars, s_isr_fifo, deferVars, s_event_tick_base, s_event_tick_diff,
                 s_defer_earliest_tick, wakeVars, s_sleep_lock>>

ArmTimer ==
  /\ pc = "timer"
  /\ timer' = arm_tick
  /\ Goto("diff")
  /\ UNCHANGED <<evVars, s_isr_fifo, deferVars, tickVars, s_defer_evt_wakeup, s_sleep_lock>>

ArmDiff ==
  /\ pc = "diff"
  /\ s_event_tick_diff' = arm_tick /\ arm_tick' = 0
  /\ Goto("sleep")
  /\ UNCHANGED <<evVars, s_isr_fifo, deferVars, s_event_tick_base, s_defer_earliest_tick,
                 wakeVars, s_sleep_lock>>

\* _ek_evoke_can_deep_sleep.
CanDeepSleep ==
  s_sleep_lock = 0 /\ (s_defer_evt_list = <<>> \/ Idle >= MinDeepSleep)

Sleeps ==
  /\ pc = "sleep"
  /\ Goto(IF CanDeepSleep THEN "deep" ELSE "light")
  /\ UNCHANGED <<evVars, s_isr_fifo, deferVars, tickVars, wakeVars, s_sleep_lock>>

Asleep == pc \in {"deep", "light"}

\* The sleep function returns, because of some other interrupt or at once, as
\* the weak one does.
Wakes ==
  /\ Asleep
  /\ Goto("woke")
  /\ UNCHANGED <<evVars, s_isr_fifo, deferVars, tickVars, wakeVars, s_sleep_lock>>

\* What the loop does next: from its top unless the timer woke it.
AfterWake == IF s_defer_evt_wakeup THEN "publish" ELSE "drain"

Woke ==
  /\ pc = "woke"
  /\ Goto(AfterWake)
  /\ s_defer_evt_wakeup' = FALSE
  /\ UNCHANGED <<evVars, s_isr_fifo, deferVars, tickVars, timer, s_sleep_lock>>

FirstIsDue == s_defer_evt_list # <<>> /\ FirstTick <= s_defer_earliest_tick

PublishDue ==
  /\ pc = "publish" /\ FirstIsDue
  /\ LET q == Head(s_defer_evt_list) IN
       /\ Deliver(req[q].evt, req[q].broadcast)
       /\ s_defer_pool_free_list' = Freed(q)
       /\ req' = [req EXCEPT ![q] = NoReq]
  /\ s_defer_evt_list' = Tail(s_defer_evt_list)
  /\ UNCHANGED <<s_isr_fifo, tickVars, wakeVars, s_sleep_lock, pc>>

PublishEnds ==
  /\ pc = "publish" /\ ~FirstIsDue
  /\ s_defer_earliest_tick' = MaxTick
  /\ Goto("drain")
  /\ UNCHANGED <<evVars, s_isr_fifo, deferVars, s_event_tick_base, s_event_tick_diff,
                 arm_tick, wakeVars, s_sleep_lock>>

-----------------------------------------------------------------------------
(* Interrupts. *)

\* They wake the processor, unless they come after the decision to sleep and
\* before the processor does.
WakeUp == pc' \in IF Asleep THEN {pc, "woke"} ELSE {pc}

\* ek_evoke_event_publish_from_isr, _broadcast_from_isr and _defer_from_isr; on
\* a full FIFO they return EK_ERR_FULL and leave everything as it was.
IsrRequest(e, d, broadcast) ==
  /\ pc # "init" /\ Room
  /\ Len(s_isr_fifo) < IsrCap - 1
  /\ s_isr_fifo' = Append(s_isr_fifo, [evt |-> e, broadcast |-> broadcast, delay |-> d])
  /\ WakeUp
  /\ UNCHANGED <<evVars, deferVars, tickVars, wakeVars, s_sleep_lock>>

\* ek_evoke_delay_timer_callback.
TimerFires ==
  /\ timer = 0
  /\ timer' = NoTimer
  /\ s_defer_evt_wakeup' = TRUE
  /\ s_event_tick_base' = (s_event_tick_base + s_event_tick_diff) % TickMod
  /\ s_event_tick_diff' = 0
  /\ WakeUp
  /\ UNCHANGED <<evVars, s_isr_fifo, deferVars, s_defer_earliest_tick, arm_tick, s_sleep_lock>>

\* A tick passes; an expired timer fires before the next.
Tick ==
  /\ timer > 0
  /\ timer' = timer - 1
  /\ UNCHANGED <<evVars, s_isr_fifo, deferVars, tickVars, s_defer_evt_wakeup,
                 s_sleep_lock, pc>>

-----------------------------------------------------------------------------
\* ek_evoke_init; the timer is off.
EvokeInit ==
  /\ EvTasksInit
  /\ s_isr_fifo = <<>> /\ s_defer_evt_list = <<>>
  /\ s_defer_pool_free_list = SetToSeq(Req)
  /\ req = [q \in Req |-> NoReq]
  /\ s_event_tick_base = 0 /\ s_event_tick_diff = 0
  /\ s_defer_earliest_tick = MaxTick /\ arm_tick = 0
  /\ s_defer_evt_wakeup = FALSE /\ timer = NoTimer
  /\ s_sleep_lock = 0
  /\ pc = "init"

Loop ==
  \/ Start \/ DrainOne \/ DrainEnds \/ RunOne \/ ReadyEnds
  \/ ArmDecides \/ ArmComputes \/ ArmTimer \/ ArmDiff
  \/ Sleeps \/ Woke \/ PublishDue \/ PublishEnds

Calls == CallObjects \/ CallSend \/ CallLock

Requests ==
  \E e \in events, d \in IsrDelays, broadcast \in BOOLEAN : IsrRequest(e, d, broadcast)

EvokeNext ==
  Loop \/ CallbackEnds \/ Wakes \/ Calls \/ Requests \/ TimerFires \/ Tick

EvokeSpec == EvokeInit /\ [][EvokeNext]_evokeVars

-----------------------------------------------------------------------------
EvokeTypeOK ==
  /\ EvTasksTypeOK
  /\ s_isr_fifo \in Seq([evt : Event, broadcast : BOOLEAN, delay : 0 .. MaxTick])
  /\ s_defer_evt_list \in Seq(Req) /\ s_defer_pool_free_list \in Seq(Req)
  /\ req \in [Req -> [evt : Event \cup {NoEvent}, broadcast : BOOLEAN,
                      wakeup_tick : 0 .. MaxTick]]
  /\ {s_event_tick_base, s_event_tick_diff, s_defer_earliest_tick, arm_tick}
       \subseteq 0 .. MaxTick
  /\ timer \in {NoTimer} \cup 0 .. MaxTick
  /\ s_defer_evt_wakeup \in BOOLEAN /\ s_sleep_lock \in Nat
  /\ pc \in {"init", "drain", "ready", "arm", "set", "timer", "diff", "sleep",
             "deep", "light", "woke", "publish"}

\* Every request of the pool is free or deferred, never both or neither, and
\* what is deferred names an event that exists.
PoolConserved ==
  /\ IsInjective(s_defer_evt_list) /\ IsInjective(s_defer_pool_free_list)
  /\ ToSet(s_defer_pool_free_list) = Req \ ToSet(s_defer_evt_list)
  /\ \A q \in ToSet(s_defer_evt_list) : req[q].evt \in events

\* The deferred events are sorted: the loop arms the timer for the first, and
\* stops publishing at the first that is not due.
DeferSorted ==
  \A i, j \in DOMAIN s_defer_evt_list : i < j =>
    req[s_defer_evt_list[i]].wakeup_tick <= req[s_defer_evt_list[j]].wakeup_tick

\* Whenever the loop sleeps over deferred events the timer is armed, or has
\* fired and left the flag that makes the loop publish.  The exception is an
\* event due at UINT32_MAX, which is also the value of s_defer_earliest_tick when
\* no timer is armed.
ArmedWhenAsleep ==
  Asleep /\ s_defer_evt_list # <<>> /\ FirstTick # MaxTick =>
    timer # NoTimer \/ s_defer_evt_wakeup

\* No task waits for an event that is counted: an awaited event with a count
\* makes the task ready (ek_evoke.c:217-219).
NoEventSleptOver ==
  \A e \in events : wait_list[e] # <<>> => count[e] = 0
=============================================================================
