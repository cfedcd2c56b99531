---------------------------- MODULE Evoke_proofs ----------------------------
(***************************************************************************)
(* What holds of ek_evoke for any tasks, events, requests, delays and tick *)
(* width: tasks are linked where their state says, the requests of the     *)
(* pool are conserved and sorted, the loop never sleeps over a deferred    *)
(* event without a timer, and every event sent is accounted for.           *)
(*                                                                         *)
(* Each is inductive with the types of the variables it is about.  The     *)
(* timer needs to know in addition what the loop has done since it last    *)
(* changed the list (ArmInv), the account which tasks are ready (TaskInv). *)
(***************************************************************************)
EXTENDS Evoke, EkList_proofs, FiniteSetTheorems

-----------------------------------------------------------------------------
(* Tasks and events. *)

TaskTypes ==
  /\ s_ready_task_list \in Seq(Task) /\ s_running \in Task \cup {NoTask}
  /\ tstate \in [Task -> {"NONE", "IDLE", "WAITTING", "READY", "RUNNING"}]
  /\ wait_event \in [Task -> Event \cup {NoEvent}]
  /\ events \subseteq Event /\ wait_list \in [Event -> Seq(Task)]
TaskInv == TaskTypes /\ EvConsistent

LEMMA ReadyTasks ==
  ASSUME TaskInv
  PROVE  /\ s_ready_task_list \in List(Task)
         /\ ToSet(s_ready_task_list) = {t \in Task : tstate[t] = "READY"}
BY DEF TaskInv, TaskTypes, EvConsistent, List

LEMMA WaitingTasks ==
  ASSUME TaskInv, NEW e \in Event
  PROVE  /\ wait_list[e] \in List(Task)
         /\ ToSet(wait_list[e]) = {t \in Task : tstate[t] = "WAITTING" /\ wait_event[t] = e}
BY DEF TaskInv, TaskTypes, EvConsistent, List

\* To show TaskInv after a step it is enough to know the lists as sets.
LEMMA TaskInvAfter ==
  ASSUME s_running' \in Task \cup {NoTask},
         tstate' \in [Task -> {"NONE", "IDLE", "WAITTING", "READY", "RUNNING"}],
         wait_event' \in [Task -> Event \cup {NoEvent}],
         events' \subseteq Event,
         s_ready_task_list' \in List(Task),
         ToSet(s_ready_task_list') = {t \in Task : tstate'[t] = "READY"},
         wait_list' \in [Event -> List(Task)],
         \A e \in Event : ToSet(wait_list'[e]) =
           {t \in Task : tstate'[t] = "WAITTING" /\ wait_event'[t] = e},
         {t \in Task : tstate'[t] = "RUNNING"} = {s_running'} \ {NoTask},
         \A t \in Task : tstate'[t] \in {"WAITTING", "READY", "RUNNING"} =>
           wait_event'[t] \in events'
  PROVE  TaskInv'
<1>1. \A e \in Event : wait_list'[e] \in Seq(Task) /\ IsInjective(wait_list'[e])
  BY DEF List
<1>2. TaskTypes'
  BY <1>1 DEF TaskTypes, List
<1>3. EvConsistent'
  BY <1>1 DEF EvConsistent, List
<1> QED BY <1>2, <1>3 DEF TaskInv

LEMMA TaskInvBefore ==
  ASSUME TaskInv
  PROVE  /\ s_running \in Task \cup {NoTask}
         /\ tstate \in [Task -> {"NONE", "IDLE", "WAITTING", "READY", "RUNNING"}]
         /\ wait_event \in [Task -> Event \cup {NoEvent}]
         /\ events \subseteq Event
         /\ wait_list \in [Event -> List(Task)]
         /\ {t \in Task : tstate[t] = "RUNNING"} = {s_running} \ {NoTask}
         /\ \A t \in Task : tstate[t] \in {"WAITTING", "READY", "RUNNING"} =>
              wait_event[t] \in events
BY DEF TaskInv, TaskTypes, EvConsistent, List

LEMMA TaskCreateKeeps ==
  ASSUME TaskInv, NEW t \in Task, TaskCreate(t)
  PROVE  TaskInv'
<1>1. /\ tstate[t] = "NONE" /\ tstate' = [tstate EXCEPT ![t] = "IDLE"]
      /\ wait_event' = [wait_event EXCEPT ![t] = NoEvent]
      /\ UNCHANGED <<s_ready_task_list, s_running, events, wait_list>>
  BY DEF TaskCreate, eventVars
<1>2. \A u \in Task : /\ tstate'[u] = IF u = t THEN "IDLE" ELSE tstate[u]
                      /\ u # t => wait_event'[u] = wait_event[u]
  BY <1>1, TaskInvBefore
<1>3. \A u \in Task : \A s \in {"READY", "WAITTING", "RUNNING"} :
        tstate'[u] = s <=> tstate[u] = s
  BY <1>1, <1>2
<1>4. /\ tstate' \in [Task -> {"NONE", "IDLE", "WAITTING", "READY", "RUNNING"}]
      /\ wait_event' \in [Task -> Event \cup {NoEvent}]
  BY <1>1, TaskInvBefore
<1>5. ToSet(s_ready_task_list') = {u \in Task : tstate'[u] = "READY"}
  BY <1>1, <1>3, ReadyTasks
<1>6. ASSUME NEW e \in Event
      PROVE  ToSet(wait_list'[e]) =
               {u \in Task : tstate'[u] = "WAITTING" /\ wait_event'[u] = e}
  BY <1>1, <1>2, <1>3, WaitingTasks
<1>7. {u \in Task : tstate'[u] = "RUNNING"} = {s_running'} \ {NoTask}
  BY <1>1, <1>3, TaskInvBefore
<1>8. \A u \in Task : tstate'[u] \in {"WAITTING", "READY", "RUNNING"} =>
        wait_event'[u] \in events'
  BY <1>1, <1>2, TaskInvBefore
<1> QED BY <1>1, <1>4, <1>5, <1>6, <1>7, <1>8, TaskInvBefore, TaskInvAfter, ReadyTasks

LEMMA TaskDestroyKeeps ==
  ASSUME TaskInv, NEW t \in Task, TaskDestroy(t)
  PROVE  TaskInv'
<1> DEFINE e0 == wait_event[t]
<1>1. /\ tstate[t] \notin {"NONE", "RUNNING"} /\ Unlink(t)
      /\ tstate' = [tstate EXCEPT ![t] = "NONE"]
      /\ wait_event' = [wait_event EXCEPT ![t] = NoEvent]
      /\ UNCHANGED <<s_running, events>>
  BY DEF TaskDestroy
<1>2. \A u \in Task : /\ tstate'[u] = IF u = t THEN "NONE" ELSE tstate[u]
                      /\ u # t => wait_event'[u] = wait_event[u]
  BY <1>1, TaskInvBefore
<1>3. /\ s_ready_task_list' \in List(Task)
      /\ ToSet(s_ready_task_list') = {u \in Task : tstate'[u] = "READY"}
  <2>1. CASE tstate[t] = "READY"
    <3>1. /\ s_ready_task_list' \in List(Task)
          /\ ToSet(s_ready_task_list') = ToSet(s_ready_task_list) \ {t}
      BY <1>1, <2>1, ReadyTasks, RemoveList DEF Unlink
    <3> QED BY <1>2, <3>1, ReadyTasks
  <2>2. CASE tstate[t] # "READY"
    <3>1. s_ready_task_list' = s_ready_task_list
      BY <1>1, <2>2 DEF Unlink
    <3> QED BY <1>2, <2>2, <3>1, ReadyTasks
  <2> QED BY <2>1, <2>2
<1>4. /\ wait_list' \in [Event -> List(Task)]
      /\ \A e \in Event : ToSet(wait_list'[e]) =
           {u \in Task : tstate'[u] = "WAITTING" /\ wait_event'[u] = e}
  <2>1. CASE tstate[t] = "WAITTING"
    <3> DEFINE l == ListRemove(wait_list[e0], t)
    <3>1. e0 \in Event /\ t \in ToSet(wait_list[e0])
      BY <2>1, TaskInvBefore, WaitingTasks
    <3>2. l \in List(Task) /\ ToSet(l) = ToSet(wait_list[e0]) \ {t}
      BY <3>1, WaitingTasks, RemoveList
    <3>3. wait_list' = [wait_list EXCEPT ![e0] = l]
      BY <1>1, <2>1 DEF Unlink
    <3> HIDE DEF l
    <3>4. \A e \in Event : wait_list'[e] = IF e = e0 THEN l ELSE wait_list[e]
      BY <3>1, <3>3, TaskInvBefore
    <3>5. ASSUME NEW e \in Event
          PROVE  ToSet(wait_list'[e]) =
                   {u \in Task : tstate'[u] = "WAITTING" /\ wait_event'[u] = e}
      <4>1. ToSet(wait_list[e]) =
              {u \in Task : tstate[u] = "WAITTING" /\ wait_event[u] = e}
        BY WaitingTasks
      <4>2. CASE e = e0
        BY <1>2, <3>2, <3>4, <4>1, <4>2
      <4>3. CASE e # e0
        BY <1>2, <3>4, <4>1, <4>3
      <4> QED BY <4>2, <4>3
    <3>6. wait_list' \in [Event -> List(Task)]
      BY <3>1, <3>2, <3>3, TaskInvBefore
    <3> QED BY <3>5, <3>6
  <2>2. CASE tstate[t] # "WAITTING"
    <3>1. wait_list' = wait_list
      BY <1>1, <2>2 DEF Unlink
    <3> QED BY <1>2, <2>2, <3>1, WaitingTasks, TaskInvBefore
  <2> QED BY <2>1, <2>2
<1>5. /\ tstate' \in [Task -> {"NONE", "IDLE", "WAITTING", "READY", "RUNNING"}]
      /\ wait_event' \in [Task -> Event \cup {NoEvent}]
  BY <1>1, TaskInvBefore
<1>6. {u \in Task : tstate'[u] = "RUNNING"} = {s_running'} \ {NoTask}
  BY <1>1, <1>2, TaskInvBefore
<1>7. \A u \in Task : tstate'[u] \in {"WAITTING", "READY", "RUNNING"} =>
        wait_event'[u] \in events'
  BY <1>1, <1>2, TaskInvBefore
<1> QED BY <1>1, <1>3, <1>4, <1>5, <1>6, <1>7, TaskInvBefore, TaskInvAfter

LEMMA EventCreateKeeps ==
  ASSUME TaskInv, NEW e \in Event, NEW n, EventCreate(e, n)
  PROVE  TaskInv'
BY DEF TaskInv, TaskTypes, EvConsistent, EventCreate, taskVars

LEMMA EventDestroyKeeps ==
  ASSUME TaskInv, NEW e \in Event, EventDestroy(e)
  PROVE  TaskInv'
<1> DEFINE released == ToSet(wait_list[e])
<1>1. /\ \A u \in Task : tstate[u] \in {"READY", "RUNNING"} => wait_event[u] # e
      /\ tstate' = [u \in Task |-> IF u \in released THEN "IDLE" ELSE tstate[u]]
      /\ wait_event' = [u \in Task |-> IF u \in released THEN NoEvent ELSE wait_event[u]]
      /\ wait_list' = [wait_list EXCEPT ![e] = <<>>]
      /\ events' = events \ {e}
      /\ UNCHANGED <<s_ready_task_list, s_running>>
  BY DEF EventDestroy
<1>2. released = {u \in Task : tstate[u] = "WAITTING" /\ wait_event[u] = e}
  BY WaitingTasks
<1> HIDE DEF released
<1>3. \A u \in Task :
        /\ tstate'[u] = IF u \in released THEN "IDLE" ELSE tstate[u]
        /\ wait_event'[u] = IF u \in released THEN NoEvent ELSE wait_event[u]
  BY <1>1
<1>4. /\ tstate' \in [Task -> {"NONE", "IDLE", "WAITTING", "READY", "RUNNING"}]
      /\ wait_event' \in [Task -> Event \cup {NoEvent}]
  BY <1>1, TaskInvBefore
<1>5. ToSet(s_ready_task_list') = {u \in Task : tstate'[u] = "READY"}
  BY <1>1, <1>2, <1>3, ReadyTasks
<1>6. \A f \in Event : wait_list'[f] = IF f = e THEN <<>> ELSE wait_list[f]
  BY <1>1, TaskInvBefore
<1>7. wait_list[e] \in List(Task)
  BY WaitingTasks
<1>8. <<>> \in List(Task) /\ ToSet(<<>>) = {}
  BY <1>7, EmptyList
<1>9. ASSUME NEW f \in Event
      PROVE  ToSet(wait_list'[f]) =
               {u \in Task : tstate'[u] = "WAITTING" /\ wait_event'[u] = f}
  <2>1. ToSet(wait_list[f]) =
          {u \in Task : tstate[u] = "WAITTING" /\ wait_event[u] = f}
    BY WaitingTasks
  <2>2. CASE f = e
    <3>1. \A u \in Task : ~(tstate'[u] = "WAITTING" /\ wait_event'[u] = e)
      BY <1>2, <1>3
    <3> QED BY <1>6, <1>8, <2>2, <3>1
  <2>3. CASE f # e
    <3>1. \A u \in Task : tstate'[u] = "WAITTING" /\ wait_event'[u] = f <=>
                          tstate[u] = "WAITTING" /\ wait_event[u] = f
      BY <1>2, <1>3, <2>3
    <3> QED BY <1>6, <2>1, <2>3, <3>1
  <2> QED BY <2>2, <2>3
<1>10. {u \in Task : tstate'[u] = "RUNNING"} = {s_running'} \ {NoTask}
  BY <1>1, <1>2, <1>3, TaskInvBefore
<1>11. \A u \in Task : tstate'[u] \in {"WAITTING", "READY", "RUNNING"} =>
         wait_event'[u] \in events'
  BY <1>1, <1>2, <1>3, TaskInvBefore
<1>12. events' \subseteq Event /\ wait_list' \in [Event -> List(Task)]
  BY <1>1, <1>8, TaskInvBefore
<1> QED BY <1>1, <1>4, <1>5, <1>9, <1>10, <1>11, <1>12, TaskInvBefore, TaskInvAfter, ReadyTasks

LEMMA SubscribeKeeps ==
  ASSUME TaskInv, NEW t \in Task, NEW e \in Event, Subscribe(t, e)
  PROVE  TaskInv'
<1>1. /\ tstate[t] = "IDLE" /\ e \in events
      /\ wait_event' = [wait_event EXCEPT ![t] = e]
      /\ UNCHANGED <<s_running, events>>
  BY DEF Subscribe
<1>2. \/ /\ s_ready_task_list' = Append(s_ready_task_list, t)
         /\ tstate' = [tstate EXCEPT ![t] = "READY"]
         /\ UNCHANGED wait_list
      \/ /\ wait_list' = [wait_list EXCEPT ![e] = Append(@, t)]
         /\ tstate' = [tstate EXCEPT ![t] = "WAITTING"]
         /\ UNCHANGED s_ready_task_list
  BY DEF Subscribe
<1>3. \A u \in Task : /\ wait_event'[u] = IF u = t THEN e ELSE wait_event[u]
                      /\ u # t => tstate'[u] = tstate[u]
  BY <1>1, <1>2, TaskInvBefore
<1>4. tstate'[t] \in {"READY", "WAITTING"}
  BY <1>2, TaskInvBefore
<1>5. /\ tstate' \in [Task -> {"NONE", "IDLE", "WAITTING", "READY", "RUNNING"}]
      /\ wait_event' \in [Task -> Event \cup {NoEvent}]
  BY <1>1, <1>2, TaskInvBefore
<1>6. {u \in Task : tstate'[u] = "RUNNING"} = {s_running'} \ {NoTask}
  BY <1>1, <1>3, <1>4, TaskInvBefore
<1>7. \A u \in Task : tstate'[u] \in {"WAITTING", "READY", "RUNNING"} =>
        wait_event'[u] \in events'
  BY <1>1, <1>3, TaskInvBefore
<1>8. CASE s_ready_task_list' = Append(s_ready_task_list, t) /\ tstate'[t] = "READY"
           /\ UNCHANGED wait_list
  <2>1. /\ s_ready_task_list' \in List(Task)
        /\ ToSet(s_ready_task_list') = ToSet(s_ready_task_list) \cup {t}
    BY <1>1, <1>8, ReadyTasks, AppendList
  <2>2. ToSet(s_ready_task_list') = {u \in Task : tstate'[u] = "READY"}
    BY <1>3, <1>8, <2>1, ReadyTasks
  <2>3. ASSUME NEW f \in Event
        PROVE  ToSet(wait_list'[f]) =
                 {u \in Task : tstate'[u] = "WAITTING" /\ wait_event'[u] = f}
    BY <1>1, <1>3, <1>8, WaitingTasks
  <2> QED BY <1>1, <1>5, <1>6, <1>7, <1>8, <2>1, <2>2, <2>3, TaskInvBefore, TaskInvAfter
<1>9. CASE wait_list' = [wait_list EXCEPT ![e] = Append(@, t)] /\ tstate'[t] = "WAITTING"
           /\ UNCHANGED s_ready_task_list
  <2> DEFINE l == Append(wait_list[e], t)
  <2>1. l \in List(Task) /\ ToSet(l) = ToSet(wait_list[e]) \cup {t}
    BY <1>1, WaitingTasks, AppendList
  <2>2. wait_list' = [wait_list EXCEPT ![e] = l]
    BY <1>9
  <2> HIDE DEF l
  <2>3. \A f \in Event : wait_list'[f] = IF f = e THEN l ELSE wait_list[f]
    BY <2>2, TaskInvBefore
  <2>4. wait_list' \in [Event -> List(Task)]
    BY <2>1, <2>2, TaskInvBefore
  <2>5. ASSUME NEW f \in Event
        PROVE  ToSet(wait_list'[f]) =
                 {u \in Task : tstate'[u] = "WAITTING" /\ wait_event'[u] = f}
    <3>1. ToSet(wait_list[f]) =
            {u \in Task : tstate[u] = "WAITTING" /\ wait_event[u] = f}
      BY WaitingTasks
    <3>2. CASE f = e
      BY <1>1, <1>3, <1>9, <2>1, <2>3, <3>1, <3>2
    <3>3. CASE f # e
      BY <1>1, <1>3, <1>9, <2>3, <3>1, <3>3
    <3> QED BY <3>2, <3>3
  <2>6. ToSet(s_ready_task_list') = {u \in Task : tstate'[u] = "READY"}
    BY <1>1, <1>3, <1>9, ReadyTasks
  <2> QED BY <1>1, <1>5, <1>6, <1>7, <1>9, <2>4, <2>5, <2>6, TaskInvBefore, TaskInvAfter, ReadyTasks
<1> QED BY <1>2, <1>8, <1>9, TaskInvBefore

\* The first n waiters go from the wait list to the ready list.
LEMMA SendKeeps ==
  ASSUME TaskInv, NEW e \in events, NEW n \in Nat,
         wait_list[e] # <<>> => n \in 1 .. Len(wait_list[e]), Send(e, n)
  PROVE  TaskInv'
<1> DEFINE w == wait_list[e]
           woken == SubSeq(w, 1, n)
           rest == SubSeq(w, n + 1, Len(w))
<1>0. e \in Event /\ UNCHANGED <<s_running, wait_event, events>>
  BY TaskInvBefore DEF Send
<1>1. CASE w = <<>>
  <2>1. UNCHANGED <<s_ready_task_list, tstate, wait_list>>
    BY <1>1 DEF Send
  <2> QED BY <1>0, <2>1 DEF TaskInv, TaskTypes, EvConsistent
<1>2. CASE w # <<>>
  <2>1. /\ s_ready_task_list' = s_ready_task_list \o woken
        /\ tstate' = [u \in Task |-> IF u \in ToSet(woken) THEN "READY" ELSE tstate[u]]
        /\ wait_list' = [wait_list EXCEPT ![e] = rest]
    BY <1>2 DEF Send
  <2>2. w \in List(Task) /\ ToSet(w) = {u \in Task : tstate[u] = "WAITTING" /\ wait_event[u] = e}
    BY <1>0, WaitingTasks
  <2>3. /\ woken \in List(Task) /\ rest \in List(Task)
        /\ ToSet(woken) \subseteq ToSet(w) /\ ToSet(rest) = ToSet(w) \ ToSet(woken)
    <3>1. n \in 0 .. Len(w)
      BY <1>2
    <3> QED BY <2>2, <3>1, SplitList
  <2> HIDE DEF w, woken, rest
  <2>4. \A u \in Task : tstate'[u] = IF u \in ToSet(woken) THEN "READY" ELSE tstate[u]
    BY <2>1
  <2>5. tstate' \in [Task -> {"NONE", "IDLE", "WAITTING", "READY", "RUNNING"}]
    BY <2>1, TaskInvBefore
  <2>6. /\ s_ready_task_list' \in List(Task)
        /\ ToSet(s_ready_task_list') = ToSet(s_ready_task_list) \cup ToSet(woken)
    <3>1. ToSet(s_ready_task_list) \cap ToSet(woken) = {}
      BY <2>2, <2>3, ReadyTasks
    <3> QED BY <2>1, <2>3, <3>1, ReadyTasks, ConcatList
  <2>7. ToSet(s_ready_task_list') = {u \in Task : tstate'[u] = "READY"}
    BY <2>2, <2>3, <2>4, <2>6, ReadyTasks
  <2>8. \A f \in Event : wait_list'[f] = IF f = e THEN rest ELSE wait_list[f]
    BY <1>0, <2>1, TaskInvBefore
  <2>9. wait_list' \in [Event -> List(Task)]
    BY <1>0, <2>1, <2>3, TaskInvBefore
  <2>10. ASSUME NEW f \in Event
         PROVE  ToSet(wait_list'[f]) =
                  {u \in Task : tstate'[u] = "WAITTING" /\ wait_event'[u] = f}
    <3>1. ToSet(wait_list[f]) =
            {u \in Task : tstate[u] = "WAITTING" /\ wait_event[u] = f}
      BY WaitingTasks
    <3>2. CASE f = e
      BY <1>0, <2>2, <2>3, <2>4, <2>8, <3>2
    <3>3. CASE f # e
      <4>1. \A u \in ToSet(woken) : wait_event[u] # f
        BY <2>2, <2>3, <3>3
      <4> QED BY <1>0, <2>4, <2>8, <3>1, <3>3, <4>1
    <3> QED BY <3>2, <3>3
  <2>11. {u \in Task : tstate'[u] = "RUNNING"} = {s_running'} \ {NoTask}
    BY <1>0, <2>2, <2>3, <2>4, TaskInvBefore
  <2>12. \A u \in Task : tstate'[u] \in {"WAITTING", "READY", "RUNNING"} =>
           wait_event'[u] \in events'
    BY <1>0, <2>2, <2>3, <2>4, TaskInvBefore
  <2> QED BY <1>0, <2>5, <2>6, <2>7, <2>9, <2>10, <2>11, <2>12, TaskInvBefore, TaskInvAfter
<1> QED BY <1>1, <1>2

LEMMA DeliverKeeps ==
  ASSUME TaskInv, NEW e, NEW b, Deliver(e, b)
  PROVE  TaskInv'
<1>1. e \in events /\ (Send(e, 1) \/ Send(e, Len(wait_list[e])))
  BY DEF Deliver, Publish, Broadcast
<1>2. e \in Event /\ wait_list[e] \in Seq(Task)
  BY <1>1, TaskInvBefore, WaitingTasks DEF List
<1>3. /\ Len(wait_list[e]) \in Nat
      /\ wait_list[e] # <<>> => Len(wait_list[e]) >= 1
  BY <1>2
<1>4. CASE Send(e, 1)
  BY <1>1, <1>3, <1>4, SendKeeps
<1>5. CASE Send(e, Len(wait_list[e]))
  BY <1>1, <1>3, <1>5, SendKeeps
<1> QED BY <1>1, <1>4, <1>5

LEMMA DispatchKeeps ==
  ASSUME TaskInv, Dispatch
  PROVE  TaskInv'
<1> DEFINE t == Head(s_ready_task_list)
<1>1. /\ s_running = NoTask /\ s_ready_task_list # <<>>
      /\ s_running' = t /\ tstate' = [tstate EXCEPT ![t] = "RUNNING"]
      /\ s_ready_task_list' = Tail(s_ready_task_list)
      /\ UNCHANGED <<wait_event, events, wait_list>>
  BY DEF Dispatch
<1>2. /\ t \in ToSet(s_ready_task_list) /\ s_ready_task_list' \in List(Task)
      /\ ToSet(s_ready_task_list') = ToSet(s_ready_task_list) \ {t}
  BY <1>1, ReadyTasks, HeadTailList
<1>3. t \in Task /\ tstate[t] = "READY" /\ t # NoTask
  BY <1>2, ReadyTasks, EvTasksAssumption
<1> HIDE DEF t
<1>4. \A u \in Task : tstate'[u] = IF u = t THEN "RUNNING" ELSE tstate[u]
  BY <1>1, TaskInvBefore
<1>5. tstate' \in [Task -> {"NONE", "IDLE", "WAITTING", "READY", "RUNNING"}]
  BY <1>1, TaskInvBefore
<1>6. ToSet(s_ready_task_list') = {u \in Task : tstate'[u] = "READY"}
  BY <1>2, <1>4, ReadyTasks
<1>7. ASSUME NEW e \in Event
      PROVE  ToSet(wait_list'[e]) =
               {u \in Task : tstate'[u] = "WAITTING" /\ wait_event'[u] = e}
  BY <1>1, <1>3, <1>4, WaitingTasks
<1>8. {u \in Task : tstate'[u] = "RUNNING"} = {s_running'} \ {NoTask}
  BY <1>1, <1>3, <1>4, TaskInvBefore
<1>9. \A u \in Task : tstate'[u] \in {"WAITTING", "READY", "RUNNING"} =>
        wait_event'[u] \in events'
  BY <1>1, <1>3, <1>4, TaskInvBefore
<1> QED BY <1>1, <1>2, <1>3, <1>5, <1>6, <1>7, <1>8, <1>9, TaskInvBefore, TaskInvAfter

LEMMA CallbackReturnsKeeps ==
  ASSUME TaskInv, CallbackReturns
  PROVE  TaskInv'
<1> DEFINE t == s_running
           f == wait_event[t]
           l == Append(wait_list[f], t)
<1>1. /\ t # NoTask /\ wait_list' = [wait_list EXCEPT ![f] = l]
      /\ tstate' = [tstate EXCEPT ![t] = "WAITTING"]
      /\ s_running' = NoTask
      /\ UNCHANGED <<s_ready_task_list, wait_event, events>>
  BY DEF CallbackReturns
<1>2. /\ t \in Task /\ tstate[t] = "RUNNING"
      /\ \A u \in Task : tstate[u] = "RUNNING" => u = t
  BY <1>1, TaskInvBefore
<1>3. f \in events /\ f \in Event
  BY <1>2, TaskInvBefore
<1>4. t \notin ToSet(wait_list[f])
  BY <1>2, <1>3, WaitingTasks
<1>5. l \in List(Task) /\ ToSet(l) = ToSet(wait_list[f]) \cup {t}
  BY <1>2, <1>3, <1>4, WaitingTasks, AppendList
<1> HIDE DEF l
<1>6. \A e \in Event : wait_list'[e] = IF e = f THEN l ELSE wait_list[e]
  BY <1>1, <1>3, TaskInvBefore
<1>7. wait_list' \in [Event -> List(Task)]
  BY <1>1, <1>5, TaskInvBefore
<1>8. \A u \in Task : tstate'[u] = IF u = t THEN "WAITTING" ELSE tstate[u]
  BY <1>1, TaskInvBefore
<1>9. tstate' \in [Task -> {"NONE", "IDLE", "WAITTING", "READY", "RUNNING"}]
  BY <1>1, TaskInvBefore
<1>10. ToSet(s_ready_task_list') = {u \in Task : tstate'[u] = "READY"}
  BY <1>1, <1>2, <1>8, ReadyTasks
<1>11. ASSUME NEW e \in Event
       PROVE  ToSet(wait_list'[e]) =
                {u \in Task : tstate'[u] = "WAITTING" /\ wait_event'[u] = e}
  <2>1. ToSet(wait_list[e]) =
          {u \in Task : tstate[u] = "WAITTING" /\ wait_event[u] = e}
    BY WaitingTasks
  <2>2. CASE e = f
    BY <1>1, <1>2, <1>5, <1>6, <1>8, <2>1, <2>2
  <2>3. CASE e # f
    BY <1>1, <1>2, <1>6, <1>8, <2>1, <2>3
  <2> QED BY <2>2, <2>3
<1>12. {u \in Task : tstate'[u] = "RUNNING"} = {s_running'} \ {NoTask}
  BY <1>1, <1>2, <1>8
<1>13. \A u \in Task : tstate'[u] \in {"WAITTING", "READY", "RUNNING"} =>
         wait_event'[u] \in events'
  BY <1>1, <1>3, <1>8, TaskInvBefore
<1> QED BY <1>1, <1>7, <1>9, <1>10, <1>11, <1>12, <1>13, TaskInvBefore, TaskInvAfter, ReadyTasks

\* The steps of Evoke that leave tasks and events alone.
LEMMA TasksUntouched ==
  ASSUME TaskInv, UNCHANGED evVars
  PROVE  TaskInv'
BY DEF TaskInv, TaskTypes, EvConsistent, evVars, taskVars, eventVars

LEMMA TaskStep ==
  ASSUME TaskInv, [EvokeNext]_evokeVars
  PROVE  TaskInv'
<1>1. CASE UNCHANGED evokeVars
  BY <1>1, TasksUntouched DEF evokeVars
<1>2. CASE CallObjects
  BY <1>2, TaskCreateKeeps, TaskDestroyKeeps, SubscribeKeeps, EventDestroyKeeps,
    EventCreateKeeps DEF CallObjects, OnObjects
<1>3. CASE CallSend
  BY <1>3, DeliverKeeps, TasksUntouched DEF CallSend
<1>4. CASE DrainOne
  BY <1>4, DeliverKeeps, TasksUntouched DEF DrainOne
<1>5. CASE PublishDue
  BY <1>5, DeliverKeeps DEF PublishDue
<1>6. CASE RunOne \/ CallbackEnds
  BY <1>6, DispatchKeeps, CallbackReturnsKeeps DEF RunOne, CallbackEnds
<1>7. CASE CallLock \/ Start \/ DrainEnds \/ ReadyEnds \/ ArmDecides \/ ArmComputes
           \/ ArmTimer \/ ArmDiff \/ Sleeps \/ Wakes \/ Woke \/ PublishEnds
           \/ Requests \/ TimerFires \/ Tick
  BY <1>7, TasksUntouched DEF CallLock, Start, DrainEnds, ReadyEnds, ArmDecides,
    ArmComputes, ArmTimer, ArmDiff, Sleeps, Wakes, Woke, AfterWake, PublishEnds, Requests,
    IsrRequest, TimerFires, Tick
<1> QED BY <1>1, <1>2, <1>3, <1>4, <1>5, <1>6, <1>7 DEF EvokeNext, Loop, Calls

LEMMA TaskInit ==
  ASSUME EvTasksInit
  PROVE  TaskInv
<1>1. <<>> \in Seq(Task) /\ IsInjective(<<>>) /\ ToSet(<<>>) = {}
  BY DEF IsInjective, ToSet
<1>2. TaskTypes
  BY <1>1 DEF EvTasksInit, TaskTypes
<1>3. EvConsistent
  BY <1>1, EvTasksAssumption DEF EvTasksInit, EvConsistent
<1> QED BY <1>2, <1>3 DEF TaskInv

-----------------------------------------------------------------------------
(* Deferred events. *)

Ticks == 0 .. MaxTick

DeferInv ==
  /\ s_defer_evt_list \in List(Req) /\ s_defer_pool_free_list \in List(Req)
  /\ ToSet(s_defer_pool_free_list) = Req \ ToSet(s_defer_evt_list)
  /\ req \in [Req -> [evt : Event \cup {NoEvent}, broadcast : BOOLEAN, wakeup_tick : Ticks]]
  /\ \A q \in ToSet(s_defer_evt_list) : req[q].evt \in events
  /\ DeferSorted
FifoInv ==
  /\ s_isr_fifo \in Seq([evt : Event, broadcast : BOOLEAN, delay : Ticks])
  /\ \A i \in DOMAIN s_isr_fifo : s_isr_fifo[i].evt \in events
TickInv ==
  /\ s_event_tick_base \in Ticks /\ s_event_tick_diff \in Ticks
  /\ s_defer_earliest_tick \in Ticks /\ arm_tick \in Ticks

LEMMA ModuloTicks ==
  ASSUME NEW n \in Int
  PROVE  n % TickMod \in Ticks
BY EvokeAssumption DEF Ticks, MaxTick

\* The pool holds every request once.
LEMMA FullPool == SetToSeq(Req) \in List(Req) /\ ToSet(SetToSeq(Req)) = Req
<1> DEFINE n == Cardinality(Req)
           f == SetToSeq(Req)
<1>1. /\ IsFiniteSet(Req) /\ n \in Nat
      /\ \E g \in [1 .. n -> Req] : IsInjective(g)
  BY EvokeAssumption, FS_CardinalityType DEF ExistsBijection, Bijection, Injection
<1>2. f \in [1 .. n -> Req] /\ IsInjective(f)
  BY <1>1 DEF SetToSeq
<1>3. Cardinality(1 .. n) = n
  BY <1>1, FS_Interval
<1> HIDE DEF n, f
<1>4. f \in Surjection(1 .. n, Req)
  <2>1. f \in Injection(1 .. n, Req)
    BY <1>2 DEF Injection
  <2> QED BY <1>1, <1>3, <2>1, FS_Injection DEF n
<1>5. f \in Seq(Req) /\ DOMAIN f = 1 .. n
  BY <1>1, <1>2
<1>6. ToSet(f) = Req
  <2>1. ASSUME NEW q \in Req PROVE q \in ToSet(f)
    BY <1>4, <1>5 DEF Surjection, ToSet
  <2> QED BY <1>2, <1>5, <2>1 DEF ToSet
<1> QED BY <1>2, <1>5, <1>6 DEF List, f

\* A new request is put where the list stays sorted.
LEMMA InsertedSorted ==
  ASSUME DeferInv, NEW q \in Req, q \notin ToSet(s_defer_evt_list), NEW w \in Ticks,
         s_defer_evt_list' = InsertByTick(q, w),
         req'[q].wakeup_tick = w,
         \A p \in Req \ {q} : req'[p] = req[p]
  PROVE  DeferSorted'
<1> DEFINE l == s_defer_evt_list
           r == s_defer_evt_list'
           later == {p \in Req : req[p].wakeup_tick >= w}
           tk(p) == req[p].wakeup_tick
<1>1. /\ l \in List(Req) /\ l \in Seq(Req) /\ Len(l) \in Nat /\ DOMAIN l = 1 .. Len(l)
  BY DEF DeferInv, List
<1>2. PICK k \in 1 .. Len(l) + 1 :
        /\ Inserted(r, Req, l, q, k)
        /\ \A i \in 1 .. k - 1 : l[i] \notin later
        /\ k <= Len(l) => l[k] \in later
  <2>1. r = InsertBefore(l, q, later)
    BY DEF InsertByTick
  <2> HIDE DEF l, later, r
  <2> QED BY <1>1, <2>1, InsertPosition
<1>3. \A i \in 1 .. Len(l) : l[i] \in Req /\ l[i] # q /\ req'[l[i]] = req[l[i]]
  BY <1>1 DEF ToSet
<1>4. \A p \in Req : tk(p) \in Int
  BY DEF DeferInv, Ticks
<1>5. \A i, j \in 1 .. Len(l) : i < j => tk(l[i]) <= tk(l[j])
  BY <1>1 DEF DeferInv, DeferSorted
<1>6. \A i \in 1 .. k - 1 : tk(l[i]) < w
  BY <1>1, <1>2, <1>3, <1>4 DEF Ticks
<1>7. \A i \in k .. Len(l) : tk(l[i]) >= w
  <2> SUFFICES ASSUME NEW i \in k .. Len(l) PROVE tk(l[i]) >= w
    OBVIOUS
  <2>1. k \in 1 .. Len(l) /\ tk(l[k]) >= w
    BY <1>1, <1>2
  <2>2. i \in 1 .. Len(l) /\ (i = k \/ k < i)
    BY <1>1
  <2>3. tk(l[k]) <= tk(l[i])
    BY <1>3, <1>4, <1>5, <2>1, <2>2
  <2> HIDE DEF tk
  <2> QED BY <1>3, <1>4, <2>1, <2>2, <2>3 DEF Ticks
<1>8. /\ DOMAIN r = 1 .. Len(l) + 1
      /\ \A i \in 1 .. Len(l) + 1 :
           r[i] = IF i < k THEN l[i] ELSE IF i = k THEN q ELSE l[i - 1]
  BY <1>1, <1>2 DEF Inserted
<1> DEFINE tn(i) == req'[r[i]].wakeup_tick
<1>9. \A i \in 1 .. Len(l) + 1 :
        tn(i) = IF i < k THEN tk(l[i]) ELSE IF i = k THEN w ELSE tk(l[i - 1])
  <2> SUFFICES ASSUME NEW i \in 1 .. Len(l) + 1
               PROVE tn(i) = IF i < k THEN tk(l[i]) ELSE IF i = k THEN w ELSE tk(l[i - 1])
    OBVIOUS
  <2>1. CASE i < k
    BY <1>1, <1>3, <1>8, <2>1
  <2>2. CASE i = k
    BY <1>8, <2>2
  <2>3. CASE i > k
    <3>1. i - 1 \in 1 .. Len(l) /\ r[i] = l[i - 1]
      BY <1>1, <1>8, <2>3
    <3> QED BY <1>3, <2>3, <3>1
  <2> QED BY <1>1, <2>1, <2>2, <2>3
<1>10. ASSUME NEW i \in 1 .. Len(l) + 1, NEW j \in 1 .. Len(l) + 1, i < j
       PROVE  tn(i) <= tn(j)
  <2> HIDE DEF tn, tk, r, l
  <2>1. CASE j < k
    BY <1>1, <1>5, <1>9, <1>10, <2>1
  <2>2. CASE j = k
    <3>1. i \in 1 .. k - 1
      BY <1>1, <1>10, <2>2
    <3>2. tk(l[i]) \in Int
      BY <1>1, <1>3, <1>4, <3>1
    <3> QED BY <1>6, <1>9, <1>10, <2>2, <3>1, <3>2 DEF Ticks
  <2>3. CASE k < j
    <3>1. j - 1 \in k .. Len(l) /\ j - 1 \in 1 .. Len(l) /\ tn(j) = tk(l[j - 1])
      BY <1>1, <1>9, <2>3
    <3>2. tk(l[j - 1]) >= w
      BY <1>7, <3>1
    <3>3. CASE i < k
      <4>1. i \in 1 .. k - 1 /\ tn(i) = tk(l[i]) /\ tk(l[i]) < w
        BY <1>1, <1>6, <1>9, <3>3
      <4>2. tk(l[i]) \in Int /\ tk(l[j - 1]) \in Int
        BY <1>1, <1>3, <1>4, <3>1, <4>1
      <4> QED BY <3>1, <3>2, <4>1, <4>2 DEF Ticks
    <3>4. CASE i = k
      BY <1>9, <3>1, <3>2, <3>4
    <3>5. CASE i > k
      <4>1. i - 1 \in 1 .. Len(l) /\ i - 1 < j - 1 /\ tn(i) = tk(l[i - 1])
        BY <1>1, <1>9, <1>10, <3>5
      <4> QED BY <1>5, <3>1, <4>1
    <3> QED BY <3>3, <3>4, <3>5
  <2> QED BY <1>1, <2>1, <2>2, <2>3
<1> QED BY <1>8, <1>10 DEF DeferSorted

LEMMA DeferKeeps ==
  ASSUME DeferInv, s_event_tick_base \in Ticks, events \subseteq Event,
         NEW e \in events, NEW d \in Ticks, NEW b \in BOOLEAN,
         Defer(e, d, b), UNCHANGED events
  PROVE  DeferInv'
<1> DEFINE q == Head(s_defer_pool_free_list)
           w == (d + s_event_tick_base) % TickMod
<1>1. CASE UNCHANGED deferVars
  BY <1>1 DEF deferVars, DeferInv, DeferSorted
<1>2. CASE /\ s_defer_pool_free_list # <<>>
           /\ s_defer_evt_list' = InsertByTick(q, w)
           /\ req' = [req EXCEPT ![q] = [evt |-> e, broadcast |-> b, wakeup_tick |-> w]]
           /\ s_defer_pool_free_list' = Tail(s_defer_pool_free_list)
  <2>1. w \in Ticks
    BY ModuloTicks DEF Ticks
  <2>2. /\ q \in ToSet(s_defer_pool_free_list)
        /\ Tail(s_defer_pool_free_list) \in List(Req)
        /\ ToSet(Tail(s_defer_pool_free_list)) = ToSet(s_defer_pool_free_list) \ {q}
    BY <1>2, HeadTailList DEF DeferInv
  <2>3. q \in Req /\ q \notin ToSet(s_defer_evt_list)
    BY <2>2 DEF DeferInv
  <2> HIDE DEF q, w
  <2>4. /\ s_defer_evt_list' \in List(Req)
        /\ ToSet(s_defer_evt_list') = ToSet(s_defer_evt_list) \cup {q}
    BY <1>2, <2>3, InsertList DEF InsertByTick, DeferInv
  <2>5. /\ req' \in [Req -> [evt : Event \cup {NoEvent}, broadcast : BOOLEAN,
                             wakeup_tick : Ticks]]
        /\ req'[q].evt = e /\ req'[q].wakeup_tick = w
        /\ \A p \in Req \ {q} : req'[p] = req[p]
    BY <1>2, <2>1, <2>3 DEF DeferInv
  <2>6. DeferSorted'
    BY <1>2, <2>1, <2>3, <2>5, InsertedSorted
  <2>7. ToSet(s_defer_pool_free_list') = Req \ ToSet(s_defer_evt_list')
    BY <1>2, <2>2, <2>4 DEF DeferInv
  <2>8. ASSUME NEW p \in ToSet(s_defer_evt_list') PROVE req'[p].evt \in events'
    <3>1. p \in Req
      BY <2>4, <2>8, EmptyList
    <3> QED BY <2>4, <2>5, <2>8, <3>1 DEF DeferInv
  <2> QED BY <1>2, <2>2, <2>4, <2>5, <2>6, <2>7, <2>8 DEF DeferInv
<1> QED BY <1>1, <1>2 DEF Defer

\* The first request goes back to the pool.
LEMMA PublishDueKeeps ==
  ASSUME DeferInv, PublishDue, UNCHANGED events
  PROVE  DeferInv'
<1> DEFINE l == s_defer_evt_list
           q == Head(s_defer_evt_list)
<1>1. /\ l # <<>> /\ s_defer_evt_list' = Tail(l)
      /\ s_defer_pool_free_list' = Append(s_defer_pool_free_list, q)
      /\ req' = [req EXCEPT ![q] = NoReq]
  BY DEF PublishDue, FirstIsDue, Freed
<1>2. /\ l \in List(Req) /\ q \in ToSet(l) /\ s_defer_evt_list' \in List(Req)
      /\ ToSet(s_defer_evt_list') = ToSet(l) \ {q}
  BY <1>1, HeadTailList DEF DeferInv
<1>3. q \in Req /\ q \notin ToSet(s_defer_pool_free_list)
  BY <1>2, EmptyList DEF DeferInv
<1>4. /\ s_defer_pool_free_list' \in List(Req)
      /\ ToSet(s_defer_pool_free_list') = ToSet(s_defer_pool_free_list) \cup {q}
  BY <1>1, <1>3, AppendList DEF DeferInv
<1>5. ToSet(s_defer_pool_free_list') = Req \ ToSet(s_defer_evt_list')
  BY <1>2, <1>3, <1>4 DEF DeferInv
<1>6. NoReq \in [evt : Event \cup {NoEvent}, broadcast : BOOLEAN, wakeup_tick : Ticks]
  BY EvokeAssumption DEF NoReq, Ticks, MaxTick
<1>7. /\ req' \in [Req -> [evt : Event \cup {NoEvent}, broadcast : BOOLEAN,
                           wakeup_tick : Ticks]]
      /\ \A p \in Req \ {q} : req'[p] = req[p]
  BY <1>1, <1>6 DEF DeferInv
<1>8. /\ DOMAIN l = 1 .. Len(l) /\ Len(l) \in Nat /\ Len(l) > 0 /\ q = l[1]
      /\ DOMAIN s_defer_evt_list' = 1 .. Len(l) - 1
      /\ \A i \in 1 .. Len(l) - 1 : s_defer_evt_list'[i] = l[i + 1]
  BY <1>1, <1>2, HeadTailProperties DEF List
<1>9. \A p \in ToSet(s_defer_evt_list') : p \in Req \ {q} /\ req'[p].evt \in events'
  BY <1>2, <1>7, EmptyList DEF DeferInv
<1>10. DeferSorted'
  <2> SUFFICES ASSUME NEW i \in 1 .. Len(l) - 1, NEW j \in 1 .. Len(l) - 1, i < j
               PROVE  req'[s_defer_evt_list'[i]].wakeup_tick
                        <= req'[s_defer_evt_list'[j]].wakeup_tick
    BY <1>8 DEF DeferSorted
  <2>1. /\ s_defer_evt_list'[i] = l[i + 1] /\ s_defer_evt_list'[j] = l[j + 1]
        /\ i + 1 \in DOMAIN l /\ j + 1 \in DOMAIN l /\ i + 1 < j + 1
    BY <1>8
  <2>2. req[l[i + 1]].wakeup_tick <= req[l[j + 1]].wakeup_tick
    BY <2>1 DEF DeferInv, DeferSorted
  <2>3. s_defer_evt_list'[i] \in Req \ {q} /\ s_defer_evt_list'[j] \in Req \ {q}
    BY <1>8, <1>9 DEF ToSet
  <2> QED BY <1>7, <2>1, <2>2, <2>3
<1> QED BY <1>2, <1>4, <1>5, <1>7, <1>9, <1>10 DEF DeferInv

\* A request read from the FIFO, and one an interrupt wrote.
LEMMA FifoKeeps ==
  ASSUME FifoInv, UNCHANGED events
  PROVE  /\ s_isr_fifo # <<>> =>
              /\ Head(s_isr_fifo) \in [evt : Event, broadcast : BOOLEAN, delay : Ticks]
              /\ Head(s_isr_fifo).evt \in events
              /\ s_isr_fifo' = Tail(s_isr_fifo) => FifoInv'
         /\ \A r \in [evt : Event, broadcast : BOOLEAN, delay : Ticks] :
              r.evt \in events /\ s_isr_fifo' = Append(s_isr_fifo, r) => FifoInv'
<1> DEFINE R == [evt : Event, broadcast : BOOLEAN, delay : Ticks]
           f == s_isr_fifo
<1>1. f \in Seq(R) /\ \A i \in DOMAIN f : f[i].evt \in events
  BY DEF FifoInv
<1>2. ASSUME f # <<>>
      PROVE  /\ Head(f) \in R /\ Head(f).evt \in events
             /\ s_isr_fifo' = Tail(f) => FifoInv'
  <2> HIDE DEF R
  <2>1. /\ Head(f) \in R /\ Head(f) = f[1] /\ 1 \in DOMAIN f
        /\ Tail(f) \in Seq(R)
        /\ \A i \in DOMAIN Tail(f) : i + 1 \in DOMAIN f /\ Tail(f)[i] = f[i + 1]
    BY <1>1, <1>2, HeadTailProperties
  <2> QED BY <1>1, <2>1 DEF FifoInv, R
<1>3. ASSUME NEW r \in R, r.evt \in events, s_isr_fifo' = Append(f, r)
      PROVE  FifoInv'
  <2> HIDE DEF R
  <2>1. /\ Append(f, r) \in Seq(R)
        /\ \A i \in DOMAIN Append(f, r) :
             \/ Append(f, r)[i] = r
             \/ i \in DOMAIN f /\ Append(f, r)[i] = f[i]
    BY <1>1, AppendProperties
  <2> QED BY <1>1, <1>3, <2>1 DEF FifoInv, R
<1> QED BY <1>2, <1>3

DeferFifoInv == DeferInv /\ FifoInv /\ TickInv

LEMMA DeliverFrame ==
  ASSUME NEW e, NEW b, Deliver(e, b)
  PROVE  UNCHANGED <<events, s_running>>
BY DEF Deliver, Publish, Broadcast, Send

LEMMA DeferUntouched ==
  ASSUME DeferInv, UNCHANGED <<deferVars, events>>
  PROVE  DeferInv'
BY DEF DeferInv, DeferSorted, deferVars

LEMMA FifoUntouched ==
  ASSUME FifoInv, UNCHANGED <<s_isr_fifo, events>>
  PROVE  FifoInv'
BY DEF FifoInv

LEMMA TickUntouched ==
  ASSUME TickInv, UNCHANGED tickVars
  PROVE  TickInv'
BY DEF TickInv, tickVars

\* Creating and destroying tasks and events: what is on its way names events
\* that are still there.
LEMMA ObjectsKeepDefer ==
  ASSUME DeferFifoInv, CallObjects
  PROVE  DeferFifoInv'
<1>1. /\ UNCHANGED ownVars
      /\ \A e \in events \ events' : ~Awaited(e)
  BY DEF CallObjects
<1>2. UNCHANGED <<s_isr_fifo, deferVars, tickVars>>
  BY <1>1 DEF ownVars
<1>3. \A q \in ToSet(s_defer_evt_list) : req[q].evt \in events'
  BY <1>1 DEF Awaited, DeferFifoInv, DeferInv
<1>4. \A i \in DOMAIN s_isr_fifo : s_isr_fifo[i].evt \in events'
  BY <1>1 DEF Awaited, DeferFifoInv, FifoInv
<1>5. DeferInv'
  BY <1>2, <1>3 DEF deferVars, DeferFifoInv, DeferInv, DeferSorted
<1>6. FifoInv'
  BY <1>2, <1>4 DEF DeferFifoInv, FifoInv
<1> QED BY <1>2, <1>5, <1>6, TickUntouched DEF DeferFifoInv

LEMMA DelaysAreTicks ==
  Delays \subseteq Ticks /\ IsrDelays \subseteq Ticks
BY EvokeAssumption DEF Ticks, MaxTick

LEMMA DeferStep ==
  ASSUME TaskInv, DeferFifoInv, [EvokeNext]_evokeVars
  PROVE  DeferFifoInv'
<1>1. events \subseteq Event
  BY TaskInvBefore
<1>2. CASE UNCHANGED evokeVars
  BY <1>2, DeferUntouched, FifoUntouched, TickUntouched
    DEF evokeVars, evVars, eventVars, ownVars, DeferFifoInv
<1>3. CASE CallObjects
  BY <1>3, ObjectsKeepDefer
<1>4. CASE CallSend
  <2>1. UNCHANGED <<s_isr_fifo, tickVars>>
    BY <1>4 DEF CallSend
  <2>2. PICK e \in events, b \in BOOLEAN :
          \/ Deliver(e, b) /\ UNCHANGED deferVars
          \/ \E d \in Delays : Defer(e, d, b) /\ UNCHANGED evVars
    BY <1>4 DEF CallSend
  <2>3. UNCHANGED events
    BY <2>2, DeliverFrame DEF evVars, eventVars
  <2>4. DeferInv'
    <3>1. CASE UNCHANGED deferVars
      BY <2>3, <3>1, DeferUntouched DEF DeferFifoInv
    <3>2. CASE \E d \in Delays : Defer(e, d, b)
      BY <1>1, <2>3, <3>2, DelaysAreTicks, DeferKeeps DEF DeferFifoInv, TickInv
    <3> QED BY <2>2, <3>1, <3>2
  <2> QED BY <2>1, <2>3, <2>4, FifoUntouched, TickUntouched DEF DeferFifoInv
<1>5. CASE DrainOne
  <2> DEFINE r == Head(s_isr_fifo)
  <2>1. /\ s_isr_fifo # <<>> /\ s_isr_fifo' = Tail(s_isr_fifo) /\ UNCHANGED tickVars
        /\ \/ Deliver(r.evt, r.broadcast) /\ UNCHANGED deferVars
           \/ Defer(r.evt, r.delay, r.broadcast) /\ UNCHANGED evVars
    BY <1>5 DEF DrainOne
  <2>2. UNCHANGED events
    BY <2>1, DeliverFrame DEF evVars, eventVars
  <2>3. /\ r.evt \in events /\ r.broadcast \in BOOLEAN /\ r.delay \in Ticks
        /\ FifoInv'
    BY <2>1, <2>2, FifoKeeps DEF DeferFifoInv
  <2> HIDE DEF r
  <2>4. DeferInv'
    <3>1. CASE UNCHANGED deferVars
      BY <2>2, <3>1, DeferUntouched DEF DeferFifoInv
    <3>2. CASE Defer(r.evt, r.delay, r.broadcast)
      BY <1>1, <2>2, <2>3, <3>2, DeferKeeps DEF DeferFifoInv, TickInv
    <3> QED BY <2>1, <3>1, <3>2
  <2> QED BY <2>1, <2>3, <2>4, TickUntouched DEF DeferFifoInv
<1>6. CASE PublishDue
  <2>1. UNCHANGED <<s_isr_fifo, tickVars, events>>
    BY <1>6, DeliverFrame DEF PublishDue
  <2> QED BY <1>6, <2>1, PublishDueKeeps, FifoUntouched, TickUntouched DEF DeferFifoInv
<1>7. CASE Requests
  <2>1. PICK e \in events, d \in IsrDelays, b \in BOOLEAN : IsrRequest(e, d, b)
    BY <1>7 DEF Requests
  <2> DEFINE r == [evt |-> e, broadcast |-> b, delay |-> d]
  <2>2. /\ s_isr_fifo' = Append(s_isr_fifo, r)
        /\ UNCHANGED <<deferVars, tickVars, events>>
    BY <2>1 DEF IsrRequest, evVars, eventVars
  <2>3. r \in [evt : Event, broadcast : BOOLEAN, delay : Ticks] /\ r.evt \in events
    BY <1>1, DelaysAreTicks
  <2> HIDE DEF r
  <2> QED BY <2>2, <2>3, FifoKeeps, DeferUntouched, TickUntouched DEF DeferFifoInv
<1>8. CASE \/ ArmDecides \/ ArmComputes \/ ArmDiff \/ PublishEnds \/ TimerFires
  <2>1. UNCHANGED <<s_isr_fifo, deferVars, events>>
    BY <1>8 DEF ArmDecides, ArmComputes, ArmDiff, PublishEnds, TimerFires, evVars, eventVars
  <2>2. TickInv'
    <3>1. TickInv /\ 0 \in Ticks /\ MaxTick \in Ticks
      BY EvokeAssumption DEF Ticks, MaxTick, DeferFifoInv
    <3>2. CASE ArmDecides
      <4>1. NeedsArming => FirstTick \in Ticks
        <5>1. ASSUME s_defer_evt_list # <<>> PROVE Head(s_defer_evt_list) \in Req
          BY <5>1, HeadTailList, EmptyList DEF DeferFifoInv, DeferInv
        <5> QED BY <5>1 DEF NeedsArming, FirstTick, DeferFifoInv, DeferInv
      <4> QED BY <3>1, <3>2, <4>1 DEF TickInv, ArmDecides
    <3>3. CASE ArmComputes
      <4>1. Idle \in Ticks
        BY <3>1, ModuloTicks DEF Idle, TickInv, Ticks
      <4> QED BY <3>1, <3>3, <4>1 DEF TickInv, ArmComputes
    <3>4. CASE ArmDiff
      BY <3>1, <3>4 DEF TickInv, ArmDiff
    <3>5. CASE PublishEnds
      BY <3>1, <3>5 DEF TickInv, PublishEnds
    <3>6. CASE TimerFires
      <4>1. (s_event_tick_base + s_event_tick_diff) % TickMod \in Ticks
        BY <3>1, ModuloTicks DEF TickInv, Ticks
      <4> QED BY <3>1, <3>6, <4>1 DEF TickInv, TimerFires
    <3> QED BY <1>8, <3>2, <3>3, <3>4, <3>5, <3>6
  <2> QED BY <2>1, <2>2, DeferUntouched, FifoUntouched DEF DeferFifoInv
<1>9. CASE CallLock \/ Start \/ DrainEnds \/ RunOne \/ CallbackEnds \/ ReadyEnds
           \/ ArmTimer \/ Sleeps \/ Wakes \/ Woke \/ Tick
  <2>1. UNCHANGED <<s_isr_fifo, deferVars, tickVars, events>>
    BY <1>9 DEF CallLock, Start, DrainEnds, RunOne, Dispatch, CallbackEnds,
      CallbackReturns, ReadyEnds, ArmTimer, Sleeps, Wakes, Woke, AfterWake, Tick,
      evVars, eventVars, ownVars
  <2> QED BY <2>1, DeferUntouched, FifoUntouched, TickUntouched DEF DeferFifoInv
<1> QED BY <1>2, <1>3, <1>4, <1>5, <1>6, <1>7, <1>8, <1>9 DEF EvokeNext, Loop, Calls

-----------------------------------------------------------------------------
(* The timer. *)

\* s_defer_earliest_tick says that a timer is armed, has fired, or is about to
\* be armed; and from the moment it was compared with the first deferred event
\* until the loop goes on, no event is deferred.
ArmInv ==
  /\ timer \in {NoTimer} \cup Nat
  /\ s_running # NoTask => pc = "ready"
  /\ s_defer_earliest_tick # MaxTick =>
       timer # NoTimer \/ s_defer_evt_wakeup \/ pc \in {"set", "timer", "publish"}
  /\ pc \in {"set", "timer", "diff", "sleep", "deep", "light"} /\ s_defer_evt_list # <<>>
       => FirstTick = s_defer_earliest_tick

LEMMA ArmStep ==
  ASSUME TickInv, ArmInv, [EvokeNext]_evokeVars
  PROVE  ArmInv'
<1> USE DEF ArmInv, FirstTick
<1>1. CASE UNCHANGED evokeVars
  BY <1>1 DEF evokeVars, evVars, taskVars, ownVars, deferVars, tickVars, wakeVars
<1>2. CASE CallObjects
  BY <1>2 DEF CallObjects, OnObjects, TaskCreate, TaskDestroy, EventCreate,
    EventDestroy, Subscribe, taskVars, ownVars, deferVars, tickVars, wakeVars
<1>3. CASE CallSend
  <2>1. UNCHANGED <<s_running, tickVars, wakeVars, pc>>
    BY <1>3, DeliverFrame DEF CallSend, evVars, taskVars
  <2>2. pc \in {"init", "ready"}
    BY <1>3 DEF CallSend, Calling
  <2> QED BY <2>1, <2>2 DEF tickVars, wakeVars
<1>4. CASE CallLock
  BY <1>4 DEF CallLock, evVars, taskVars, deferVars, tickVars, wakeVars
<1>5. CASE DrainOne
  <2>1. pc = "drain" /\ UNCHANGED <<s_running, tickVars, wakeVars, pc>>
    BY <1>5, DeliverFrame DEF DrainOne, evVars, taskVars
  <2> QED BY <2>1 DEF tickVars, wakeVars
<1>6. CASE PublishDue
  <2>1. pc = "publish" /\ UNCHANGED <<s_running, tickVars, wakeVars, pc>>
    BY <1>6, DeliverFrame DEF PublishDue
  <2> QED BY <2>1 DEF tickVars, wakeVars
<1>7. CASE RunOne \/ CallbackEnds
  <2>1. UNCHANGED ownVars /\ (pc = "ready" \/ s_running' = NoTask)
    BY <1>7 DEF RunOne, CallbackEnds, CallbackReturns
  <2> QED BY <2>1 DEF ownVars, deferVars, tickVars, wakeVars
<1>8. CASE Start \/ DrainEnds \/ ReadyEnds
  BY <1>8 DEF Start, DrainEnds, ReadyEnds, Goto, evVars, taskVars, deferVars,
    tickVars, wakeVars
<1>9. CASE ArmDecides
  BY <1>9 DEF ArmDecides, NeedsArming, Goto, evVars, taskVars, deferVars, wakeVars
<1>10. CASE ArmComputes \/ ArmDiff
  BY <1>10 DEF ArmComputes, ArmDiff, Goto, evVars, taskVars, deferVars, wakeVars
<1>11. CASE ArmTimer
  <2>1. arm_tick \in Nat /\ arm_tick # NoTimer
    BY EvokeAssumption DEF TickInv, Ticks, MaxTick, NoTimer
  <2> QED BY <1>11, <2>1 DEF ArmTimer, Goto, evVars, taskVars, deferVars, tickVars
<1>12. CASE Sleeps \/ Wakes
  BY <1>12 DEF Sleeps, Wakes, Asleep, Goto, evVars, taskVars, deferVars, tickVars, wakeVars
<1>13. CASE Woke \/ PublishEnds
  BY <1>13 DEF Woke, AfterWake, PublishEnds, Goto, evVars, taskVars, deferVars, tickVars, wakeVars
<1>14. CASE Requests
  BY <1>14 DEF Requests, IsrRequest, WakeUp, Asleep, evVars, taskVars, deferVars,
    tickVars, wakeVars
<1>15. CASE TimerFires
  BY <1>15 DEF TimerFires, WakeUp, Asleep, evVars, taskVars, deferVars
<1>16. CASE Tick
  <2>1. timer' \in Nat /\ timer' # NoTimer
    BY <1>16 DEF Tick, NoTimer
  <2> QED BY <1>16, <2>1 DEF Tick, evVars, taskVars, deferVars, tickVars
<1> QED BY <1>1, <1>2, <1>3, <1>4, <1>5, <1>6, <1>7, <1>8, <1>9, <1>10, <1>11, <1>12,
  <1>13, <1>14, <1>15, <1>16 DEF EvokeNext, Loop, Calls

-----------------------------------------------------------------------------
EvokeInv == TaskInv /\ DeferFifoInv /\ ArmInv

\* The invariant of the event loop, for any tasks, events, requests, delays and
\* tick width.
THEOREM EvokeInvariant == EvokeSpec => []EvokeInv
<1>1. EvokeInit => EvokeInv
  <2> SUFFICES ASSUME EvokeInit PROVE EvokeInv
    OBVIOUS
  <2>1. TaskInv
    BY TaskInit DEF EvokeInit
  <2>2. DeferInv
    <3>1. <<>> \in List(Req) /\ ToSet(<<>>) = {}
      BY FullPool, EmptyList
    <3>2. NoReq \in [evt : Event \cup {NoEvent}, broadcast : BOOLEAN, wakeup_tick : Ticks]
      BY EvokeAssumption DEF NoReq, Ticks, MaxTick
    <3>3. DeferSorted
      BY DEF EvokeInit, DeferSorted
    <3>4. req \in [Req -> [evt : Event \cup {NoEvent}, broadcast : BOOLEAN,
                           wakeup_tick : Ticks]]
      BY <3>2 DEF EvokeInit
    <3> QED BY <3>1, <3>3, <3>4, FullPool DEF EvokeInit, DeferInv
  <2>3. FifoInv /\ TickInv
    BY EvokeAssumption DEF EvokeInit, FifoInv, TickInv, Ticks, MaxTick
  <2>4. ArmInv
    BY DEF EvokeInit, EvTasksInit, ArmInv
  <2> QED BY <2>1, <2>2, <2>3, <2>4 DEF EvokeInv, DeferFifoInv
<1>2. EvokeInv /\ [EvokeNext]_evokeVars => EvokeInv'
  BY TaskStep, DeferStep, ArmStep DEF EvokeInv, DeferFifoInv
<1> QED BY <1>1, <1>2, PTL DEF EvokeSpec

\* Whatever the callbacks, the loop and the interrupts do, a task is on the one
\* list its state and its event name, or on none.
THEOREM EvokeTasksConsistent == EvokeSpec => []EvConsistent
<1>1. EvokeInv => EvConsistent
  BY DEF EvokeInv, TaskInv
<1> QED BY <1>1, EvokeInvariant, PTL

\* No request of the pool is lost or used twice, and none outlives its event.
THEOREM EvokePoolConserved == EvokeSpec => []PoolConserved
<1>1. EvokeInv => PoolConserved
  BY DEF EvokeInv, DeferFifoInv, DeferInv, PoolConserved, List
<1> QED BY <1>1, EvokeInvariant, PTL

\* The deferred events stay in the order of their ticks.
THEOREM EvokeDeferSorted == EvokeSpec => []DeferSorted
<1>1. EvokeInv => DeferSorted
  BY DEF EvokeInv, DeferFifoInv, DeferInv
<1> QED BY <1>1, EvokeInvariant, PTL

\* The loop never sleeps over a deferred event without a timer, at whatever
\* point between its reads of the timer's variables the interrupts come.
THEOREM EvokeArmed == EvokeSpec => []ArmedWhenAsleep
<1>1. EvokeInv => ArmedWhenAsleep
  BY DEF EvokeInv, ArmInv, ArmedWhenAsleep, Asleep
<1> QED BY <1>1, EvokeInvariant, PTL

-----------------------------------------------------------------------------
(* Events sent: counts, ready tasks and the history. *)

\* A list has as many nodes as it has members.
LEMMA ListCardinality ==
  ASSUME NEW S, NEW l \in List(S)
  PROVE  IsFiniteSet(ToSet(l)) /\ Cardinality(ToSet(l)) = Len(l)
<1>1. /\ l \in Seq(S) /\ Len(l) \in Nat /\ DOMAIN l = 1 .. Len(l)
      /\ l \in [1 .. Len(l) -> ToSet(l)] /\ IsInjective(l)
  BY DEF List, ToSet
<1>2. l \in Bijection(1 .. Len(l), ToSet(l))
  BY <1>1 DEF Bijection, Injection, Surjection, IsInjective, ToSet
<1>3. IsFiniteSet(1 .. Len(l)) /\ Cardinality(1 .. Len(l)) = Len(l)
  BY <1>1, FS_Interval
<1> QED BY <1>2, <1>3, FS_Bijection DEF ExistsBijection

CountTypes == count \in [Event -> Nat] /\ credit \in [Event -> Nat]
CreditInv == CountTypes /\ EventsConserved

LEMMA ReadyForIsFinite ==
  ASSUME NEW e
  PROVE  IsFiniteSet(ReadyFor(e)) /\ Cardinality(ReadyFor(e)) \in Nat
<1>1. ReadyFor(e) \in SUBSET Task
  BY DEF ReadyFor
<1> QED BY <1>1, EvTasksAssumption, FS_Subset, FS_CardinalityType

\* An event that does not exist has made no task ready.
LEMMA NobodyReady ==
  ASSUME TaskInv, NEW e, e \notin events
  PROVE  ReadyFor(e) = {} /\ Cardinality(ReadyFor(e)) = 0
<1>1. ReadyFor(e) = {}
  BY TaskInvBefore DEF ReadyFor
<1> QED BY <1>1, FS_EmptySet

\* The same tasks are ready, the same counts.
LEMMA SameReady ==
  ASSUME CreditInv, UNCHANGED <<events, count, credit>>,
         \A t \in Task : tstate'[t] = "READY" <=> tstate[t] = "READY",
         \A t \in Task : tstate[t] = "READY" => wait_event'[t] = wait_event[t]
  PROVE  CreditInv'
<1>1. \A e : ReadyFor(e)' = ReadyFor(e)
  BY DEF ReadyFor
<1> QED BY <1>1 DEF CreditInv, CountTypes, EventsConserved

\* A ready task leaves, with its credit.
LEMMA ReadyTaskLeaves ==
  ASSUME TaskInv, CreditInv, NEW t \in Task, tstate[t] = "READY",
         tstate'[t] # "READY",
         \A u \in Task \ {t} : tstate'[u] = tstate[u] /\ wait_event'[u] = wait_event[u],
         UNCHANGED <<events, count>>,
         credit' = [credit EXCEPT ![wait_event[t]] = @ - 1]
  PROVE  CreditInv'
<1> DEFINE e0 == wait_event[t]
<1>1. e0 \in events /\ e0 \in Event
  BY TaskInvBefore
<1>2. \A e : ReadyFor(e)' = IF e = e0 THEN ReadyFor(e) \ {t} ELSE ReadyFor(e)
  BY DEF ReadyFor
<1>3. t \in ReadyFor(e0)
  BY DEF ReadyFor
<1>4. Cardinality(ReadyFor(e0) \ {t}) = Cardinality(ReadyFor(e0)) - 1
      /\ Cardinality(ReadyFor(e0) \ {t}) \in Nat
  BY <1>3, ReadyForIsFinite, FS_RemoveElement, FS_CardinalityType
<1>5. count[e0] \in Nat /\ credit[e0] \in Nat
      /\ count[e0] + Cardinality(ReadyFor(e0)) = credit[e0]
  BY <1>1 DEF CreditInv, CountTypes, EventsConserved
<1>6. credit[e0] - 1 \in Nat
  BY <1>4, <1>5, ReadyForIsFinite
<1>7. CountTypes'
  BY <1>1, <1>6 DEF CreditInv, CountTypes
<1>8. EventsConserved'
  <2> SUFFICES ASSUME NEW e \in events
               PROVE  count[e] + Cardinality(ReadyFor(e)') = credit'[e]
    BY DEF EventsConserved
  <2>1. e \in Event
    BY TaskInvBefore
  <2>2. CASE e = e0
    <3>1. credit'[e] = credit[e] - 1
      BY <1>1, <2>2 DEF CreditInv, CountTypes
    <3>2. Cardinality(ReadyFor(e)') = Cardinality(ReadyFor(e0)) - 1
      BY <1>2, <1>4, <2>2
    <3>3. Cardinality(ReadyFor(e0)) \in Nat
      BY ReadyForIsFinite
    <3> HIDE DEF e0
    <3> QED BY <1>5, <2>2, <3>1, <3>2, <3>3
  <2>3. CASE e # e0
    <3>1. credit'[e] = credit[e]
      BY <2>1, <2>3 DEF CreditInv, CountTypes
    <3> QED BY <1>2, <2>3, <3>1 DEF CreditInv, EventsConserved
  <2> QED BY <2>2, <2>3
<1> QED BY <1>7, <1>8 DEF CreditInv

\* Tasks W become ready for e, against d more events and k fewer in the count.
LEMMA TasksBecomeReady ==
  ASSUME TaskInv, CreditInv, NEW e \in events,
         NEW W \in SUBSET Task, W \cap ReadyFor(e) = {},
         \A u \in Task : tstate'[u] = IF u \in W THEN "READY" ELSE tstate[u],
         \A u \in Task : wait_event'[u] = IF u \in W THEN e ELSE wait_event[u],
         \A u \in W : tstate[u] # "READY",
         events' = events, CountTypes',
         \A f \in Event \ {e} : count'[f] = count[f] /\ credit'[f] = credit[f],
         count'[e] + Cardinality(W) - count[e] = credit'[e] - credit[e]
  PROVE  CreditInv'
<1>1. e \in Event
  BY TaskInvBefore
<1>2. \A f : ReadyFor(f)' = IF f = e THEN ReadyFor(f) \cup W ELSE ReadyFor(f)
  BY DEF ReadyFor
<1>3. IsFiniteSet(W) /\ Cardinality(W) \in Nat
  BY EvTasksAssumption, FS_Subset, FS_CardinalityType
<1>4. Cardinality(ReadyFor(e) \cup W) = Cardinality(ReadyFor(e)) + Cardinality(W)
  <2>1. ReadyFor(e) \cap W = {}
    OBVIOUS
  <2>2. Cardinality(ReadyFor(e) \cap W) = 0
    BY <2>1, FS_EmptySet
  <2>3. IsFiniteSet(ReadyFor(e)) /\ Cardinality(ReadyFor(e)) \in Nat
    BY ReadyForIsFinite
  <2>4. Cardinality(ReadyFor(e) \cup W)
          = Cardinality(ReadyFor(e)) + Cardinality(W) - Cardinality(ReadyFor(e) \cap W)
    BY <1>3, <2>3, FS_Union
  <2> QED BY <1>3, <2>2, <2>3, <2>4
<1>5. EventsConserved'
  <2> SUFFICES ASSUME NEW f \in events
               PROVE  count'[f] + Cardinality(ReadyFor(f)') = credit'[f]
    BY DEF EventsConserved
  <2>1. f \in Event
    BY TaskInvBefore
  <2>2. CASE f = e
    <3>1. /\ count[e] \in Nat /\ credit[e] \in Nat /\ count'[e] \in Nat /\ credit'[e] \in Nat
          /\ count[e] + Cardinality(ReadyFor(e)) = credit[e]
      BY <1>1 DEF CreditInv, CountTypes, EventsConserved
    <3>2. Cardinality(ReadyFor(f)') = Cardinality(ReadyFor(e)) + Cardinality(W)
      BY <1>2, <1>4, <2>2
    <3>3. Cardinality(ReadyFor(e)) \in Nat
      BY ReadyForIsFinite
    <3> QED BY <1>3, <2>2, <3>1, <3>2, <3>3
  <2>3. CASE f # e
    BY <1>2, <2>1, <2>3 DEF CreditInv, EventsConserved
  <2> QED BY <2>2, <2>3
<1> QED BY <1>5 DEF CreditInv

\* The steps of tasks and events.  A step that only moves events between the
\* count and the history is left to its lemma.
LEMMA ObjectsKeepCredit ==
  ASSUME TaskInv, CreditInv, OnObjects(0 .. MaxEvents)
  PROVE  CreditInv'
<1>1. ASSUME NEW t \in Task, TaskCreate(t) PROVE CreditInv'
  <2>1. /\ tstate[t] = "NONE" /\ UNCHANGED <<events, count, credit>>
        /\ \A u \in Task : tstate'[u] = IF u = t THEN "IDLE" ELSE tstate[u]
        /\ \A u \in Task : u # t => wait_event'[u] = wait_event[u]
    BY <1>1, TaskInvBefore DEF TaskCreate, eventVars
  <2> QED BY <2>1, SameReady
<1>2. ASSUME NEW t \in Task, TaskDestroy(t) PROVE CreditInv'
  <2>1. /\ UNCHANGED <<events, count>>
        /\ tstate'[t] = "NONE"
        /\ \A u \in Task \ {t} : tstate'[u] = tstate[u] /\ wait_event'[u] = wait_event[u]
        /\ credit' = IF tstate[t] = "READY" THEN [credit EXCEPT ![wait_event[t]] = @ - 1]
                                            ELSE credit
    BY <1>2, TaskInvBefore DEF TaskDestroy
  <2>2. CASE tstate[t] = "READY"
    BY <2>1, <2>2, ReadyTaskLeaves
  <2>3. CASE tstate[t] # "READY"
    BY <2>1, <2>3, SameReady
  <2> QED BY <2>2, <2>3
<1>3. ASSUME NEW t \in Task, NEW e \in Event, Subscribe(t, e) PROVE CreditInv'
  <2>1. /\ tstate[t] = "IDLE" /\ e \in events /\ UNCHANGED <<events, credit>>
        /\ \A u \in Task : wait_event'[u] = IF u = t THEN e ELSE wait_event[u]
    BY <1>3, TaskInvBefore DEF Subscribe
  <2>2. CASE Immediate(e)
    <3>1. /\ count[e] > 0 /\ count' = [count EXCEPT ![e] = @ - 1]
          /\ \A u \in Task : tstate'[u] = IF u = t THEN "READY" ELSE tstate[u]
      BY <1>3, <2>2, TaskInvBefore DEF Subscribe, Immediate, CountAfterTake
    <3>2. /\ CountTypes' /\ count'[e] = count[e] - 1 /\ count[e] \in Nat /\ credit[e] \in Nat
          /\ \A f \in Event \ {e} : count'[f] = count[f] /\ credit'[f] = credit[f]
      BY <2>1, <3>1 DEF CreditInv, CountTypes
    <3>3. Cardinality({t}) = 1
      BY FS_Singleton
    <3>4. {t} \cap ReadyFor(e) = {}
      BY <2>1 DEF ReadyFor
    <3>5. count'[e] + Cardinality({t}) - count[e] = credit'[e] - credit[e]
      BY <2>1, <3>2, <3>3
    <3> QED BY <2>1, <3>1, <3>2, <3>4, <3>5, TasksBecomeReady
  <2>3. CASE ~Immediate(e)
    <3>1. /\ UNCHANGED count
          /\ \A u \in Task : tstate'[u] = IF u = t THEN "WAITTING" ELSE tstate[u]
      BY <1>3, <2>3, TaskInvBefore DEF Subscribe
    <3> QED BY <2>1, <3>1, SameReady
  <2> QED BY <2>2, <2>3
<1>4. ASSUME NEW e \in Event, EventDestroy(e) PROVE CreditInv'
  <2>1. /\ \A u \in Task : tstate[u] = "READY" => wait_event[u] # e
        /\ events' = events \ {e}
        /\ count' = [count EXCEPT ![e] = 0] /\ credit' = [credit EXCEPT ![e] = 0]
        /\ \A u \in Task : tstate'[u] = IF u \in ToSet(wait_list[e]) THEN "IDLE" ELSE tstate[u]
        /\ \A u \in Task :
             wait_event'[u] = IF u \in ToSet(wait_list[e]) THEN NoEvent ELSE wait_event[u]
    BY <1>4 DEF EventDestroy
  <2>2. \A u \in ToSet(wait_list[e]) : tstate[u] = "WAITTING"
    BY WaitingTasks
  <2>3. \A f \in events' : ReadyFor(f)' = ReadyFor(f)
    BY <2>1, <2>2 DEF ReadyFor
  <2>4. CountTypes' /\ \A f \in events' : count'[f] = count[f] /\ credit'[f] = credit[f]
    BY <2>1, TaskInvBefore DEF CreditInv, CountTypes
  <2> QED BY <2>1, <2>3, <2>4 DEF CreditInv, EventsConserved
<1>5. ASSUME NEW e \in Event, NEW n \in 0 .. MaxEvents, EventCreate(e, n) PROVE CreditInv'
  <2>1. /\ e \notin events /\ events' = events \cup {e}
        /\ count' = [count EXCEPT ![e] = n] /\ credit' = [credit EXCEPT ![e] = n]
        /\ \A f : ReadyFor(f)' = ReadyFor(f)
    BY <1>5 DEF EventCreate, taskVars, ReadyFor
  <2>2. n \in Nat
    BY EvokeAssumption
  <2>3. /\ CountTypes' /\ count'[e] = n /\ credit'[e] = n
        /\ \A f \in events : count'[f] = count[f] /\ credit'[f] = credit[f]
    BY <2>1, <2>2, TaskInvBefore DEF CreditInv, CountTypes
  <2>4. ReadyFor(e)' = {} /\ Cardinality(ReadyFor(e)') = 0
    BY <2>1, NobodyReady
  <2>5. count'[e] + Cardinality(ReadyFor(e)') = credit'[e]
    BY <2>2, <2>3, <2>4
  <2>6. \A f \in events : count'[f] + Cardinality(ReadyFor(f)') = credit'[f]
    BY <2>1, <2>3 DEF CreditInv, EventsConserved
  <2> QED BY <2>1, <2>3, <2>5, <2>6 DEF CreditInv, EventsConserved
<1> QED BY <1>1, <1>2, <1>3, <1>4, <1>5 DEF OnObjects

LEMMA SendKeepsCredit ==
  ASSUME TaskInv, CreditInv, NEW e \in events, NEW n \in Nat,
         wait_list[e] # <<>> => n \in 1 .. Len(wait_list[e]), Send(e, n)
  PROVE  CreditInv'
<1> DEFINE w == wait_list[e]
           woken == SubSeq(w, 1, n)
<1>1. e \in Event /\ UNCHANGED <<wait_event, events>>
  BY TaskInvBefore DEF Send
<1>2. CASE w = <<>>
  <2>1. /\ UNCHANGED tstate
        /\ count' = [count EXCEPT ![e] = @ + 1] /\ credit' = [credit EXCEPT ![e] = @ + 1]
    BY <1>2 DEF Send
  <2>2. \A f : ReadyFor(f)' = ReadyFor(f)
    BY <1>1, <2>1 DEF ReadyFor
  <2>3. /\ CountTypes' /\ count'[e] = count[e] + 1 /\ credit'[e] = credit[e] + 1
        /\ count[e] \in Nat /\ credit[e] \in Nat
        /\ \A f \in events \ {e} : count'[f] = count[f] /\ credit'[f] = credit[f]
    BY <1>1, <2>1, TaskInvBefore DEF CreditInv, CountTypes
  <2>4. Cardinality(ReadyFor(e)) \in Nat /\ count[e] + Cardinality(ReadyFor(e)) = credit[e]
    BY ReadyForIsFinite DEF CreditInv, EventsConserved
  <2>5. count'[e] + Cardinality(ReadyFor(e)) = credit'[e]
    BY <2>3, <2>4
  <2> QED BY <1>1, <2>2, <2>3, <2>5 DEF CreditInv, EventsConserved
<1>3. CASE w # <<>>
  <2>1. /\ \A u \in Task : tstate'[u] = IF u \in ToSet(woken) THEN "READY" ELSE tstate[u]
        /\ credit' = [credit EXCEPT ![e] = @ + n] /\ UNCHANGED count
    BY <1>3 DEF Send
  <2>2. w \in List(Task) /\ ToSet(w) = {u \in Task : tstate[u] = "WAITTING" /\ wait_event[u] = e}
    BY <1>1, WaitingTasks
  <2>3. n \in 0 .. Len(w) /\ n \in 1 .. Len(w)
    BY <1>3
  <2>4. woken \in List(Task) /\ ToSet(woken) \subseteq ToSet(w)
    BY <2>2, <2>3, SplitList
  <2>5. Len(woken) = n
    BY <2>2, <2>3 DEF List
  <2>6. Cardinality(ToSet(woken)) = n
    BY <2>4, <2>5, ListCardinality
  <2> HIDE DEF w, woken
  <2>7. /\ ToSet(woken) \in SUBSET Task /\ ToSet(woken) \cap ReadyFor(e) = {}
        /\ \A u \in ToSet(woken) : tstate[u] # "READY"
        /\ \A u \in Task : wait_event'[u] = IF u \in ToSet(woken) THEN e ELSE wait_event[u]
    BY <1>1, <2>2, <2>4 DEF ReadyFor
  <2>8. /\ CountTypes' /\ count'[e] = count[e] /\ credit'[e] = credit[e] + n
        /\ count[e] \in Nat /\ credit[e] \in Nat
        /\ \A f \in Event \ {e} : count'[f] = count[f] /\ credit'[f] = credit[f]
    BY <1>1, <2>1 DEF CreditInv, CountTypes
  <2>9. count'[e] + Cardinality(ToSet(woken)) - count[e] = credit'[e] - credit[e]
    BY <2>6, <2>8
  <2> QED BY <1>1, <2>1, <2>7, <2>8, <2>9, TasksBecomeReady
<1> QED BY <1>2, <1>3

LEMMA DeliverKeepsCredit ==
  ASSUME TaskInv, CreditInv, NEW e, NEW b, Deliver(e, b)
  PROVE  CreditInv'
<1>1. e \in events /\ (Send(e, 1) \/ Send(e, Len(wait_list[e])))
  BY DEF Deliver, Publish, Broadcast
<1>2. e \in Event /\ wait_list[e] \in Seq(Task)
  BY <1>1, TaskInvBefore, WaitingTasks DEF List
<1>3. /\ Len(wait_list[e]) \in Nat
      /\ wait_list[e] # <<>> => Len(wait_list[e]) >= 1
  BY <1>2
<1>4. CASE Send(e, 1)
  BY <1>1, <1>3, <1>4, SendKeepsCredit
<1>5. CASE Send(e, Len(wait_list[e]))
  BY <1>1, <1>3, <1>5, SendKeepsCredit
<1> QED BY <1>1, <1>4, <1>5

LEMMA LoopKeepsCredit ==
  ASSUME TaskInv, CreditInv, Dispatch \/ CallbackReturns
  PROVE  CreditInv'
<1>1. CASE Dispatch
  <2> DEFINE t == Head(s_ready_task_list)
  <2>1. /\ s_ready_task_list # <<>> /\ UNCHANGED <<wait_event, events, count>>
        /\ tstate' = [tstate EXCEPT ![t] = "RUNNING"]
        /\ credit' = [credit EXCEPT ![wait_event[t]] = @ - 1]
    BY <1>1 DEF Dispatch
  <2>2. t \in Task /\ tstate[t] = "READY"
    BY <2>1, ReadyTasks, HeadTailList
  <2> HIDE DEF t
  <2>3. \A u \in Task : tstate'[u] = IF u = t THEN "RUNNING" ELSE tstate[u]
    BY <2>1, TaskInvBefore
  <2>4. /\ tstate'[t] # "READY"
        /\ \A u \in Task \ {t} : tstate'[u] = tstate[u] /\ wait_event'[u] = wait_event[u]
        /\ events' = events /\ count' = count
    BY <2>1, <2>2, <2>3
  <2> QED BY <2>1, <2>2, <2>4, ReadyTaskLeaves
<1>2. CASE CallbackReturns
  <2>1. /\ UNCHANGED <<wait_event, events, count, credit>>
        /\ s_running # NoTask /\ tstate' = [tstate EXCEPT ![s_running] = "WAITTING"]
    BY <1>2 DEF CallbackReturns
  <2>2. \A u \in Task : tstate'[u] = IF u = s_running THEN "WAITTING" ELSE tstate[u]
    BY <2>1, TaskInvBefore
  <2>3. s_running \in Task /\ tstate[s_running] = "RUNNING"
    BY <2>1, TaskInvBefore
  <2> QED BY <2>1, <2>2, <2>3, SameReady
<1> QED BY <1>1, <1>2

LEMMA CreditUntouched ==
  ASSUME CreditInv, UNCHANGED evVars
  PROVE  CreditInv'
BY DEF CreditInv, CountTypes, EventsConserved, ReadyFor, evVars, taskVars, eventVars

LEMMA CreditStep ==
  ASSUME TaskInv, CreditInv, [EvokeNext]_evokeVars
  PROVE  CreditInv'
<1>1. CASE UNCHANGED evokeVars
  BY <1>1, CreditUntouched DEF evokeVars
<1>2. CASE CallObjects
  BY <1>2, ObjectsKeepCredit DEF CallObjects
<1>3. CASE CallSend
  BY <1>3, DeliverKeepsCredit, CreditUntouched DEF CallSend
<1>4. CASE DrainOne
  BY <1>4, DeliverKeepsCredit, CreditUntouched DEF DrainOne
<1>5. CASE PublishDue
  BY <1>5, DeliverKeepsCredit DEF PublishDue
<1>6. CASE RunOne \/ CallbackEnds
  BY <1>6, LoopKeepsCredit DEF RunOne, CallbackEnds
<1>7. CASE CallLock \/ Start \/ DrainEnds \/ ReadyEnds \/ ArmDecides \/ ArmComputes
           \/ ArmTimer \/ ArmDiff \/ Sleeps \/ Wakes \/ Woke \/ PublishEnds
           \/ Requests \/ TimerFires \/ Tick
  BY <1>7, CreditUntouched DEF CallLock, Start, DrainEnds, ReadyEnds, ArmDecides,
    ArmComputes, ArmTimer, ArmDiff, Sleeps, Wakes, Woke, AfterWake, PublishEnds, Requests,
    IsrRequest, TimerFires, Tick
<1> QED BY <1>1, <1>2, <1>3, <1>4, <1>5, <1>6, <1>7 DEF EvokeNext, Loop, Calls

LEMMA CreditInvariant == EvokeSpec => []CreditInv
<1>1. EvokeInit => CreditInv
  <2> SUFFICES ASSUME EvokeInit PROVE CreditInv
    OBVIOUS
  <2>1. CountTypes /\ events = {}
    BY DEF EvokeInit, EvTasksInit, CountTypes
  <2> QED BY <2>1 DEF CreditInv, EventsConserved
<1>2. EvokeInv /\ CreditInv /\ [EvokeNext]_evokeVars => CreditInv'
  BY CreditStep DEF EvokeInv
<1> QED BY <1>1, <1>2, EvokeInvariant, PTL DEF EvokeSpec

\* Every event sent is counted or has made a task ready that has not run yet, for
\* any tasks, any events and any interleaving with interrupts.
THEOREM EvokeEventsConserved == EvokeSpec => []EventsConserved
<1>1. CreditInv => EventsConserved
  BY DEF CreditInv
<1> QED BY <1>1, CreditInvariant, PTL

-----------------------------------------------------------------------------
(* Types of what no other part is about. *)

RestTypes ==
  /\ timer \in {NoTimer} \cup Ticks
  /\ s_defer_evt_wakeup \in BOOLEAN /\ s_sleep_lock \in Nat
  /\ pc \in {"init", "drain", "ready", "arm", "set", "timer", "diff", "sleep",
             "deep", "light", "woke", "publish"}

LEMMA RestStep ==
  ASSUME TickInv, RestTypes, [EvokeNext]_evokeVars
  PROVE  RestTypes'
<1> USE DEF RestTypes
<1>1. CASE UNCHANGED evokeVars
  BY <1>1 DEF evokeVars, ownVars, wakeVars
<1>2. CASE CallObjects \/ CallSend \/ DrainOne \/ RunOne \/ CallbackEnds \/ PublishDue
  BY <1>2 DEF CallObjects, CallSend, DrainOne, RunOne, CallbackEnds, PublishDue,
    ownVars, wakeVars
<1>3. CASE CallLock
  BY <1>3 DEF CallLock, wakeVars
<1>4. CASE Start \/ DrainEnds \/ ReadyEnds \/ ArmDecides \/ ArmComputes \/ ArmDiff
           \/ Sleeps \/ Wakes \/ PublishEnds
  BY <1>4 DEF Start, DrainEnds, ReadyEnds, ArmDecides, ArmComputes, ArmDiff, Sleeps,
    Wakes, PublishEnds, Goto, wakeVars
<1>5. CASE ArmTimer
  BY <1>5 DEF ArmTimer, Goto, TickInv
<1>6. CASE Woke
  BY <1>6 DEF Woke, AfterWake, Goto
<1>7. CASE Requests \/ TimerFires
  BY <1>7 DEF Requests, IsrRequest, TimerFires, WakeUp, Asleep, wakeVars
<1>8. CASE Tick
  <2>1. timer \in Ticks /\ timer > 0
    BY <1>8 DEF Tick, NoTimer
  <2>2. timer - 1 \in Ticks
    BY <2>1, EvokeAssumption DEF Ticks, MaxTick
  <2> QED BY <1>8, <2>2 DEF Tick
<1> QED BY <1>1, <1>2, <1>3, <1>4, <1>5, <1>6, <1>7, <1>8 DEF EvokeNext, Loop, Calls

\* Type correctness; that the history of events sent is a natural number is the
\* part that needs EventsConserved.
THEOREM EvokeTypeCorrect == EvokeSpec => []EvokeTypeOK
<1>1. EvokeInit => RestTypes
  <2> SUFFICES ASSUME EvokeInit PROVE RestTypes
    OBVIOUS
  <2>1. timer = NoTimer /\ s_defer_evt_wakeup = FALSE /\ s_sleep_lock = 0 /\ pc = "init"
    BY DEF EvokeInit
  <2> QED BY <2>1 DEF RestTypes
<1>2. EvokeInv /\ RestTypes /\ [EvokeNext]_evokeVars => RestTypes'
  BY RestStep DEF EvokeInv, DeferFifoInv
<1>3. EvokeInv /\ CreditInv /\ RestTypes => EvokeTypeOK
  BY DEF EvokeInv, CreditInv, CountTypes, RestTypes, TaskInv, TaskTypes, DeferFifoInv,
    DeferInv, FifoInv, TickInv, List, Ticks, EvokeTypeOK, EvTasksTypeOK
<1> QED BY <1>1, <1>2, <1>3, EvokeInvariant, CreditInvariant, PTL DEF EvokeSpec
=============================================================================
