----------------------------- MODULE EvokeLive ------------------------------
(***************************************************************************)
(* Evoke with fairness: what the loop gets to once senders stop.  Tasks    *)
(* and events are set up before the loop, and interrupts and callbacks     *)
(* send MaxSent events: without the bound two callbacks that wake each     *)
(* other keep the loop from its FIFO, and a FIFO that never runs empty     *)
(* keeps it from its tasks.                                                *)
(***************************************************************************)
EXTENDS Evoke

CONSTANT MaxSent   \* bound of the model on events sent

VARIABLE sent
liveVars == <<evokeVars, sent>>

Sending == sent < MaxSent /\ sent' = sent + 1 /\ (CallSend \/ Requests)

Others ==
  \/ Loop \/ CallbackEnds \/ Wakes \/ CallLock \/ TimerFires \/ Tick
  \/ pc = "init" /\ CallObjects

LiveInit == EvokeInit /\ sent = 0
LiveNext == Sending \/ (Others /\ UNCHANGED sent)

\* The loop runs, callbacks return (an event loop needs them to), time passes and an
\* expired timer interrupts.  Nothing makes a sleep function return but an interrupt
\* that finds the processor asleep: the program's own are to execute __WFI().
Fairness ==
  /\ WF_liveVars(Loop /\ UNCHANGED sent)
  /\ WF_liveVars(CallbackEnds /\ UNCHANGED sent)
  /\ WF_liveVars(Tick /\ UNCHANGED sent)
  /\ WF_liveVars(TimerFires /\ UNCHANGED sent)

LiveSpec == LiveInit /\ [][LiveNext]_liveVars /\ Fairness

-----------------------------------------------------------------------------
IsDeferred(q) == q \in ToSet(s_defer_evt_list)

\* The loop decided to sleep, or had decided, when an interrupt queued a request or
\* raised the flag, and was not woken: it never looks again before it sleeps
\* (ek_evoke.c:425-426).
Oversleeps == Asleep /\ (s_isr_fifo # <<>> \/ s_defer_evt_wakeup)

\* Every deferred event is published, also one that a later call overtakes or whose
\* tick wraps (ek_evoke.c:411-448), unless the loop sleeps for good over an interrupt
\* it missed: no other order of calls, interrupts and timer loses one.  An event due
\* at UINT32_MAX is the exception that ArmedWhenAsleep names.
DeferredPublished ==
  <>[]Oversleeps \/
  \A q \in Req : (IsDeferred(q) /\ req[q].wakeup_tick # MaxTick) ~> ~IsDeferred(q)

=============================================================================
