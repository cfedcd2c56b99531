------------------------------- MODULE PtWait -------------------------------
(***************************************************************************)
(* ek_picothread: what semaphores and message queues share, over the       *)
(* scheduler of PtSched.                                                   *)
(*                                                                         *)
(* A wait object is an ordered list of tasks: the wait_list of a semaphore *)
(* or the recv_wait or send_wait of a message queue.  A task waits inside  *)
(* the loop of EK_PT_SEM_TAKE, EK_PT_MSG_SEND or EK_PT_MSG_RECV:           *)
(*                                                                         *)
(*   while (!call(o)) { block(tick); yield; if (wait_result != OK) break; } *)
(*                                                                         *)
(* in_call is the object whose macro the task yielded in, that is, its     *)
(* saved line: when it runs again it first leaves or repeats that loop.    *)
(* Otherwise a callback is any sequence of calls.                          *)
(***************************************************************************)
EXTENDS PtSched

CONSTANTS
  WaitObj,  \* the wait objects
  NoObj     \* the NULL of wait_sem and wait_msg

ASSUME WaitAssumption == NoObj \notin WaitObj

VARIABLES
  wait_list,    \* the tasks that wait on each object
  wait_on,      \* ek_pt.wait_sem, ek_pt.wait_msg
  wait_result,  \* ek_pt.wait_result
  in_call,      \* object whose macro the task yielded in
  closing       \* objects whose waiters a destroy has yet to release, in order
waitVars == <<wait_list, wait_on, wait_result, in_call, closing>>

-----------------------------------------------------------------------------
(* Wait lists. *)

\* _insert_event_by_prio: behind the waiters of the same or a higher priority.
InsertByPrio_HeadMutant(list, t) == <<t>> \o list
InsertByPrio_BeforeEqualsMutant(list, t) ==
  InsertBefore(list, t, {u \in Task : Prio[u] >= Prio[t]})
InsertByPrio(list, t) ==
  InsertBefore(list, t, {u \in Task : Prio[u] > Prio[t]})

Leave_StaleMutant(t, result) ==
  /\ wait_list' = IF wait_on[t] = NoObj THEN wait_list
                  ELSE [wait_list EXCEPT ![wait_on[t]] = ListRemove(@, t)]
  /\ wait_result' = [wait_result EXCEPT ![t] = result]
  /\ UNCHANGED wait_on

\* Take t off the object it waits on, with the result the macro will see.
Leave(t, result) ==
  /\ wait_list' = IF wait_on[t] = NoObj THEN wait_list
                  ELSE [wait_list EXCEPT ![wait_on[t]] = ListRemove(@, t)]
  /\ wait_on' = [wait_on EXCEPT ![t] = NoObj]
  /\ wait_result' = [wait_result EXCEPT ![t] = result]

HasWaiter_NeverMutant(o) == FALSE
HasWaiter(o) == wait_list[o] # <<>>

Release_LastMutant(o, result) ==
  Wake(Last(wait_list[o])) /\ Leave(Last(wait_list[o]), result)

\* Move the first waiter to the ready list.
Release(o, result) ==
  Wake(Head(wait_list[o])) /\ Leave(Head(wait_list[o]), result)

\* t was woken with EK_OK and has yet to repeat its call.
Woken(t, o) == in_call[t] = o /\ wait_on[t] = NoObj /\ wait_result[t] = "OK"

\* main or a callback is free to call: no destroy is in its loop and the running
\* task is not inside a macro.
Free ==
  /\ closing = <<>>
  /\ mode = "run" => in_call[s_cur_pt] = NoObj

-----------------------------------------------------------------------------
(* The scheduler's operations with their part on the wait lists. *)

TaskStart(t) ==
  /\ Create(t) \/ InitStatic(t)
  /\ wait_result' = [wait_result EXCEPT ![t] = "OK"]
  /\ wait_on' = [wait_on EXCEPT ![t] = NoObj]
  /\ in_call' = [in_call EXCEPT ![t] = NoObj]
  /\ UNCHANGED <<wait_list, closing>>

TaskDestroy(t) ==
  /\ Destroy(t)
  /\ Leave(t, "ABORTED")
  /\ in_call' = [in_call EXCEPT ![t] = NoObj]
  /\ UNCHANGED closing

\* A deinitialised task keeps its line.
TaskDeinit(t) == DeinitStatic(t) /\ Leave(t, "ABORTED") /\ UNCHANGED <<in_call, closing>>

\* Operations that know nothing of wait lists.  Suspending a waiter leaves it on
\* its list with a state_node that is NULL, which the next wake-up would
\* dereference: main and the callbacks are taken not to do it.
TaskPlain(t) ==
  /\ \/ wait_on[t] = NoObj /\ Suspend(t)
     \/ Resume(t)
     \/ \E x \in Delays : Block(t, x)
  /\ UNCHANGED waitVars

OnWaitTask(t) == TaskStart(t) \/ TaskDestroy(t) \/ TaskDeinit(t) \/ TaskPlain(t)

\* The expire loop cleans up the wait list.
WaitExpire ==
  /\ ExpireOne
  /\ LET t == Head(s_block_list) IN
       IF wait_on[t] = NoObj THEN UNCHANGED <<wait_list, wait_on, wait_result>>
                             ELSE Leave(t, "TIMEOUT")
  /\ UNCHANGED <<in_call, closing>>

WaitSchedule == Schedule /\ closing = <<>> /\ UNCHANGED waitVars
WaitPick == (NothingReady \/ Dispatch) /\ UNCHANGED waitVars
WaitCallbackEnds == Free /\ CallbackEnds /\ UNCHANGED waitVars
WaitHardware == Hardware /\ UNCHANGED waitVars

WaitKernel ==
  WaitExpire \/ WaitSchedule \/ WaitPick \/ WaitCallbackEnds \/ WaitHardware

-----------------------------------------------------------------------------
(* The macros' loop around a call on o by the running task. *)

\* It is about to call: for the first time, or again after a wake-up.
AtCall(o) ==
  /\ mode = "run" /\ closing = <<>>
  /\ in_call[s_cur_pt] = NoObj \/ Woken(s_cur_pt, o)

\* The call returned true; the macro leaves wait_result, whatever it is, in err.
Returns == in_call' = [in_call EXCEPT ![s_cur_pt] = NoObj] /\ UNCHANGED closing

\* The call queued the task and returned false; the macro blocks and yields.
WaitOn(o, x) ==
  /\ s_cur_pt \in Waitable
  /\ Delay(x)
  /\ wait_on' = [wait_on EXCEPT ![s_cur_pt] = o]
  /\ wait_list' = [wait_list EXCEPT ![o] = InsertByPrio(@, s_cur_pt)]
  /\ in_call' = [in_call EXCEPT ![s_cur_pt] = o]
  /\ UNCHANGED <<wait_result, closing>>

\* The macro's break: woken by the timeout or by a destroy.
Breaks ==
  /\ mode = "run" /\ closing = <<>>
  /\ in_call[s_cur_pt] # NoObj /\ wait_result[s_cur_pt] # "OK"
  /\ Returns
  /\ UNCHANGED <<vars, wait_list, wait_on, wait_result>>

-----------------------------------------------------------------------------
(* Destroying what owns the objects objs releases their waiters one by one. *)

\* A woken task will still call: destroying the object under it is a use after
\* free the program is taken to avoid.
Close(objs) ==
  /\ Executing
  /\ \A o \in ToSet(objs) : \A t \in Task : ~Woken(t, o)
  /\ closing' = objs
  /\ UNCHANGED <<vars, wait_list, wait_on, wait_result, in_call>>

CloseRelease ==
  /\ closing # <<>> /\ HasWaiter(Head(closing))
  /\ Release(Head(closing), "ABORTED")
  /\ UNCHANGED <<in_call, closing>>

CloseNext ==
  /\ closing # <<>> /\ ~HasWaiter(Head(closing))
  /\ closing' = Tail(closing)
  /\ UNCHANGED <<vars, wait_list, wait_on, wait_result, in_call>>

-----------------------------------------------------------------------------
WaitInit ==
  /\ Init
  /\ wait_list = [o \in WaitObj |-> <<>>]
  /\ wait_on = [t \in Task |-> NoObj]
  /\ wait_result = [t \in Task |-> "OK"]
  /\ in_call = [t \in Task |-> NoObj]
  /\ closing = <<>>

WaitTypeOK ==
  /\ wait_list \in [WaitObj -> Seq(Task)]
  /\ wait_on \in [Task -> WaitObj \cup {NoObj}]
  /\ wait_result \in [Task -> {"OK", "TIMEOUT", "ABORTED"}]
  /\ in_call \in [Task -> WaitObj \cup {NoObj}]
  /\ closing \in Seq(WaitObj)

\* The list of a wait object holds exactly the tasks whose wait_sem or wait_msg
\* names it, once each, all of them BLOCKed: the state_node that a wake-up
\* unlinks is on the block list.
WaitListsMatch ==
  \A o \in WaitObj :
    /\ IsInjective(wait_list[o])
    /\ ToSet(wait_list[o]) = {t \in Task : wait_on[t] = o}
    /\ \A t \in ToSet(wait_list[o]) : state[t] = "BLOCK"

\* The step wakes the waiter t of o with EK_OK.
Served(t, o) ==
  /\ wait_on[t] = o /\ wait_on'[t] = NoObj
  /\ state'[t] = "READY" /\ wait_result'[t] = "OK"

\* A wake-up with EK_OK goes to a waiter of the highest priority the object has
\* (ek_picothread.h:340-341).
BestFirst ==
  \A o \in WaitObj : \A t, u \in Task :
    Served(t, o) /\ wait_on[u] = o => Prio[t] <= Prio[u]
BestWaiterFirst == [][BestFirst]_<<vars, waitVars>>

\* A task that keeps waiting is not overtaken: whoever queues up behind it, or
\* later with the same or a lower priority, stays behind it and is not served
\* before it, whichever waiters are served, time out or are destroyed meanwhile.
\* Among waiters of one priority the lists are FIFOs (ek_picothread.c:556 goes
\* past the equals).
WaitersKept ==
  \A o \in WaitObj : \A t, u \in Task :
    /\ wait_on[t] = o /\ wait_on'[t] = o
    /\ IF wait_on[u] = o THEN Precedes(wait_list[o], t, u) ELSE Prio[t] <= Prio[u]
    => /\ wait_on'[u] = o => Precedes(wait_list'[o], t, u)
       /\ ~Served(u, o)
WaitersInTurn == [][WaitersKept]_<<vars, waitVars>>
=============================================================================
