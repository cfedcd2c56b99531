----------------------------- MODULE EvokeTimed -----------------------------
(***************************************************************************)
(* Evoke with a history of the time that really passes, to compare it with *)
(* the loop's own count of it, s_event_tick_base.                          *)
(***************************************************************************)
EXTENDS Evoke

VARIABLE left   \* ticks until each deferred event is due
timedVars == <<evokeVars, left>>

Deferred(q) == q \in ToSet(s_defer_evt_list)

\* An event is deferred for as long as the call says, or is not deferred.
Follows ==
  left' = [q \in Req |->
    IF ~Deferred(q)' THEN 0
    ELSE IF Deferred(q) THEN left[q]
    ELSE (req'[q].wakeup_tick - s_event_tick_base) % TickMod]

\* A tick passes, whether the timer is armed or not.
TimePasses ==
  /\ timer # 0
  /\ left' = [q \in Req |-> IF left[q] > 0 THEN left[q] - 1 ELSE 0]
  /\ \/ Tick
     \/ timer = NoTimer /\ UNCHANGED evokeVars

\* An expired timer fires before anything else happens.
TimedNext ==
  \/ TimePasses
  \/ TimerFires /\ Follows
  \/ timer # 0 /\ (Loop \/ CallbackEnds \/ Wakes \/ Calls \/ Requests) /\ Follows

TimedSpec == EvokeInit /\ left = [q \in Req |-> 0] /\ [][TimedNext]_timedVars

\* A deferred event is published "delay" ticks after the call (ek_evoke.h:189),
\* or at most one, the tick that had begun, before.
NotEarly == [][\A q \in Req : Deferred(q) /\ ~Deferred(q)' => left[q] <= 1]_timedVars
=============================================================================
