------------------------------ MODULE EvTasks -------------------------------
(***************************************************************************)
(* ek_evoke: tasks, events and what moves a task between them              *)
(* (src/src/ek_evoke.c).  A task waits on the event it subscribed to, a    *)
(* publish or a broadcast makes it ready, the loop runs it and puts it     *)
(* back on the event's wait list.                                          *)
(*                                                                         *)
(* Only the main loop and the callbacks it runs touch this state; what     *)
(* interrupts do reaches it through module Evoke.                          *)
(***************************************************************************)
EXTENDS EkList, FiniteSetsExt

CONSTANTS
  Task,    \* the ek_evoke_task_t objects
  Event,   \* the ek_evoke_event_t objects
  NoTask, NoEvent   \* NULL

ASSUME EvTasksAssumption ==
  NoTask \notin Task /\ NoEvent \notin Event /\ IsFiniteSet(Task)

VARIABLES
  s_ready_task_list,
  s_running,    \* the task whose callback the loop runs
  tstate,       \* ek_evoke_task.state; "NONE" while the object does not exist
  wait_event,   \* ek_evoke_task.wait_event
  events,       \* events that exist
  wait_list,    \* ek_evoke_event.wait_list
  count,        \* ek_evoke_event.count
  credit        \* history: initial count and events sent, less those a task ran
                \* for or was destroyed with
taskVars == <<s_ready_task_list, s_running, tstate, wait_event>>
eventVars == <<events, wait_list, count, credit>>
evVars == <<taskVars, eventVars>>

-----------------------------------------------------------------------------
\* ek_evoke_task_create and ek_evoke_task_init_static.
TaskCreate(t) ==
  /\ tstate[t] = "NONE"
  /\ tstate' = [tstate EXCEPT ![t] = "IDLE"]
  /\ wait_event' = [wait_event EXCEPT ![t] = NoEvent]
  /\ UNCHANGED <<s_ready_task_list, s_running, eventVars>>

Unlink_WaitingMutant(t) ==
  /\ UNCHANGED s_ready_task_list
  /\ wait_list' = IF tstate[t] = "WAITTING"
                    THEN [wait_list EXCEPT ![wait_event[t]] = ListRemove(@, t)]
                    ELSE wait_list

\* ek_list_remove of a task's node, whatever list it is on.
Unlink(t) ==
  /\ s_ready_task_list' = IF tstate[t] = "READY" THEN ListRemove(s_ready_task_list, t)
                                                 ELSE s_ready_task_list
  /\ wait_list' = IF tstate[t] = "WAITTING"
                    THEN [wait_list EXCEPT ![wait_event[t]] = ListRemove(@, t)]
                    ELSE wait_list

\* ek_evoke_task_destroy and ek_evoke_task_deinit_static.  A callback that
\* destroys its own task unlinks a node that is on no list, and the loop then
\* uses the freed task: it is taken not to do it.
TaskDestroy(t) ==
  /\ tstate[t] \notin {"NONE", "RUNNING"}
  /\ Unlink(t)
  /\ tstate' = [tstate EXCEPT ![t] = "NONE"]
  /\ wait_event' = [wait_event EXCEPT ![t] = NoEvent]
  /\ credit' = IF tstate[t] = "READY" THEN [credit EXCEPT ![wait_event[t]] = @ - 1]
                                      ELSE credit
  /\ UNCHANGED <<s_running, events, count>>

\* ek_evoke_event_create and ek_evoke_event_init_static.
EventCreate(e, init) ==
  /\ e \notin events
  /\ events' = events \cup {e}
  /\ count' = [count EXCEPT ![e] = init]
  /\ credit' = [credit EXCEPT ![e] = init]
  /\ UNCHANGED <<taskVars, wait_list>>

\* ek_evoke_event_destroy and ek_evoke_event_deinit_static.  A task made ready
\* by the event keeps a wait_event that dangles, and the loop would link the
\* task there: the program is taken not to do it.
EventDestroy(e) ==
  /\ e \in events
  /\ \A t \in Task : tstate[t] \in {"READY", "RUNNING"} => wait_event[t] # e
  /\ LET released == ToSet(wait_list[e]) IN
       /\ tstate' = [t \in Task |-> IF t \in released THEN "IDLE" ELSE tstate[t]]
       /\ wait_event' = [t \in Task |-> IF t \in released THEN NoEvent ELSE wait_event[t]]
  /\ wait_list' = [wait_list EXCEPT ![e] = <<>>]
  /\ events' = events \ {e}
  /\ count' = [count EXCEPT ![e] = 0] /\ credit' = [credit EXCEPT ![e] = 0]
  /\ UNCHANGED <<s_ready_task_list, s_running>>

Immediate_UncountedMutant(e) == wait_list[e] = <<>>
Immediate(e) == count[e] > 0 /\ wait_list[e] = <<>>

CountAfterTake_KeepMutant(e) == count
CountAfterTake(e) == [count EXCEPT ![e] = @ - 1]

\* ek_evoke_event_subscribe.  A task that is on a list already would be linked
\* twice: only idle tasks subscribe.
Subscribe(t, e) ==
  /\ tstate[t] = "IDLE" /\ e \in events
  /\ wait_event' = [wait_event EXCEPT ![t] = e]
  /\ \/ /\ Immediate(e)
        /\ count' = CountAfterTake(e)
        /\ s_ready_task_list' = Append(s_ready_task_list, t)
        /\ tstate' = [tstate EXCEPT ![t] = "READY"]
        /\ UNCHANGED wait_list
     \/ /\ ~Immediate(e)
        /\ wait_list' = [wait_list EXCEPT ![e] = Append(@, t)]
        /\ tstate' = [tstate EXCEPT ![t] = "WAITTING"]
        /\ UNCHANGED <<s_ready_task_list, count>>
  /\ UNCHANGED <<s_running, events, credit>>

\* The first n waiters of e become ready; nobody to wake counts as one.
Send(e, n) ==
  /\ \/ /\ wait_list[e] = <<>>
        /\ count' = [count EXCEPT ![e] = @ + 1]
        /\ credit' = [credit EXCEPT ![e] = @ + 1]
        /\ UNCHANGED <<s_ready_task_list, tstate, wait_list>>
     \/ /\ wait_list[e] # <<>>
        /\ LET woken == SubSeq(wait_list[e], 1, n) IN
             /\ s_ready_task_list' = s_ready_task_list \o woken
             /\ tstate' = [t \in Task |-> IF t \in ToSet(woken) THEN "READY" ELSE tstate[t]]
        /\ wait_list' = [wait_list EXCEPT ![e] = SubSeq(@, n + 1, Len(@))]
        /\ credit' = [credit EXCEPT ![e] = @ + n]
        /\ UNCHANGED count
  /\ UNCHANGED <<s_running, wait_event, events>>

\* ek_evoke_event_publish and ek_evoke_event_broadcast.
Publish(e) == e \in events /\ Send(e, 1)
Broadcast(e) == e \in events /\ Send(e, Len(wait_list[e]))

-----------------------------------------------------------------------------
(* The loop's part. *)

\* The first ready task runs.
Dispatch ==
  /\ s_running = NoTask /\ s_ready_task_list # <<>>
  /\ LET t == Head(s_ready_task_list) IN
       /\ s_running' = t
       /\ tstate' = [tstate EXCEPT ![t] = "RUNNING"]
       /\ credit' = [credit EXCEPT ![wait_event[t]] = @ - 1]
  /\ s_ready_task_list' = Tail(s_ready_task_list)
  /\ UNCHANGED <<wait_event, events, wait_list, count>>

\* Its callback returned: back to the end of the event's wait list, whatever the
\* count has become.
CallbackReturns ==
  /\ s_running # NoTask
  /\ wait_list' = [wait_list EXCEPT ![wait_event[s_running]] = Append(@, s_running)]
  /\ tstate' = [tstate EXCEPT ![s_running] = "WAITTING"]
  /\ s_running' = NoTask
  /\ UNCHANGED <<s_ready_task_list, wait_event, events, count, credit>>

-----------------------------------------------------------------------------
\* ek_evoke_init.
EvTasksInit ==
  /\ s_ready_task_list = <<>> /\ s_running = NoTask
  /\ tstate = [t \in Task |-> "NONE"]
  /\ wait_event = [t \in Task |-> NoEvent]
  /\ events = {}
  /\ wait_list = [e \in Event |-> <<>>]
  /\ count = [e \in Event |-> 0] /\ credit = [e \in Event |-> 0]

\* Calls of the initialisation or of the callback that runs; publish, broadcast
\* and defer are in Evoke.
OnObjects(Counts) ==
  \/ \E t \in Task : TaskCreate(t) \/ TaskDestroy(t)
  \/ \E t \in Task, e \in Event : Subscribe(t, e)
  \/ \E e \in Event : EventDestroy(e) \/ \E n \in Counts : EventCreate(e, n)

EvTasksTypeOK ==
  /\ s_ready_task_list \in Seq(Task)
  /\ s_running \in Task \cup {NoTask}
  /\ tstate \in [Task -> {"NONE", "IDLE", "WAITTING", "READY", "RUNNING"}]
  /\ wait_event \in [Task -> Event \cup {NoEvent}]
  /\ events \subseteq Event
  /\ wait_list \in [Event -> Seq(Task)]
  /\ count \in [Event -> Nat] /\ credit \in [Event -> Nat]

\* The tasks that e made ready.
ReadyFor(e) == {t \in Task : tstate[t] = "READY" /\ wait_event[t] = e}

\* The state of a task names the one list it is on: the ready list, the wait list
\* of its wait_event, or none.  A task that is on a list or runs has an event
\* that exists.
EvConsistent ==
  /\ IsInjective(s_ready_task_list)
  /\ ToSet(s_ready_task_list) = {t \in Task : tstate[t] = "READY"}
  /\ \A e \in Event :
       /\ IsInjective(wait_list[e])
       /\ ToSet(wait_list[e]) = {t \in Task : tstate[t] = "WAITTING" /\ wait_event[t] = e}
  /\ {t \in Task : tstate[t] = "RUNNING"} = {s_running} \ {NoTask}
  /\ \A t \in Task :
       tstate[t] \in {"WAITTING", "READY", "RUNNING"} => wait_event[t] \in events

\* Every event sent is counted or has made one task ready, until that task runs:
\* none is lost or made up, whatever the order of publish, broadcast, subscribe
\* and destroy.
EventsConserved ==
  \A e \in events : count[e] + Cardinality(ReadyFor(e)) = credit[e]
=============================================================================
