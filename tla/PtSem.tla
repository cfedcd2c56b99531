------------------------------- MODULE PtSem --------------------------------
(***************************************************************************)
(* ek_picothread with EKCFG_PICOTHREAD_SEM: counting semaphores and the    *)
(* EK_PT_SEM_TAKE macro.  A semaphore is a wait object with a count.       *)
(***************************************************************************)
EXTENDS PtWait

CONSTANTS
  CountMod,   \* count is counted modulo this (a uint8_t: 256 in the code)
  MaxTokens   \* bound of the model on tokens given and not taken

ASSUME SemAssumption == CountMod \in Nat \ {0} /\ MaxTokens \in Nat

VARIABLES
  sems,    \* semaphores that exist
  count,   \* ek_pt_sem.count
  credit   \* history: initial count + gives - takes of each semaphore
objects == <<sems, count, credit>>
semVars == <<vars, waitVars, objects>>

-----------------------------------------------------------------------------
\* ek_pt_sem_create and ek_pt_sem_init_static.
SemCreate(s, n) ==
  /\ Executing /\ s \notin sems /\ n < CountMod
  /\ sems' = sems \cup {s}
  /\ count' = [count EXCEPT ![s] = n]
  /\ credit' = [credit EXCEPT ![s] = n]
  /\ UNCHANGED <<vars, waitVars>>

SemGive(s) ==
  /\ Executing /\ s \in sems /\ credit[s] < MaxTokens
  /\ credit' = [credit EXCEPT ![s] = @ + 1]
  /\ \/ /\ HasWaiter(s)
        /\ Release(s, "OK")
        /\ UNCHANGED <<sems, count, in_call, closing>>
     \/ /\ ~HasWaiter(s)
        /\ count' = [count EXCEPT ![s] = (@ + 1) % CountMod]
        /\ UNCHANGED <<vars, waitVars, sems>>

CanTake_AlwaysMutant(s) == TRUE
CanTake(s) == count[s] > 0
CountAfterTake_KeepMutant(s) == count
CountAfterTake(s) == [count EXCEPT ![s] = @ - 1]

\* ek_pt_sem_take returns true.
TakeNow(s) ==
  /\ AtCall(s) /\ s \in sems /\ CanTake(s)
  /\ count' = CountAfterTake(s)
  /\ credit' = [credit EXCEPT ![s] = @ - 1]
  /\ Returns
  /\ UNCHANGED <<vars, wait_list, wait_on, wait_result, sems>>

\* ek_pt_sem_take returns false.
TakeWait(s, x) ==
  /\ AtCall(s) /\ s \in sems /\ ~CanTake(s)
  /\ WaitOn(s, x)
  /\ UNCHANGED objects

SemDestroy(s) == s \in sems /\ Close(<<s>>) /\ UNCHANGED objects

SemDestroyEnds ==
  /\ CloseNext
  /\ sems' = sems \ {Head(closing)}
  /\ count' = [count EXCEPT ![Head(closing)] = 0]
  /\ credit' = [credit EXCEPT ![Head(closing)] = 0]

-----------------------------------------------------------------------------
SemInit ==
  /\ WaitInit
  /\ sems = {}
  /\ count = [s \in WaitObj |-> 0] /\ credit = [s \in WaitObj |-> 0]

OnSem(s) ==
  \/ SemGive(s) \/ SemDestroy(s)
  \/ \E n \in 0 .. MaxTokens : SemCreate(s, n)

SemNext ==
  \/ WaitKernel /\ UNCHANGED objects
  \/ Free /\ (\E t \in Task : OnWaitTask(t)) /\ UNCHANGED objects
  \/ Free /\ \E s \in WaitObj : OnSem(s)
  \/ \E s \in WaitObj : TakeNow(s) \/ \E x \in Delays : TakeWait(s, x)
  \/ (Breaks \/ CloseRelease) /\ UNCHANGED objects
  \/ SemDestroyEnds

SemSpec == SemInit /\ [][SemNext]_semVars

-----------------------------------------------------------------------------
SemTypeOK ==
  /\ WaitTypeOK
  /\ sems \subseteq WaitObj
  /\ count \in [WaitObj -> 0 .. CountMod - 1] /\ credit \in [WaitObj -> Nat]

\* Nobody waits while the semaphore can be taken.
WaitOnlyAtZero == \A s \in sems : wait_list[s] # <<>> => count[s] = 0

\* No token is made up: what can be taken was given and not yet taken.
NoTokenInvented == \A s \in sems : count[s] <= credit[s]

\* A task that a give woke leaves EK_PT_SEM_TAKE, it does not wait again
\* ("woken by EK_PT_SEM_GIVE or by the timeout ... EK_OK = success",
\* ek_picothread.h:353-356).
WokenTakes ==
  [][\A t \in Task : \A s \in WaitObj :
       mode = "run" /\ s_cur_pt = t /\ Woken(t, s) => wait_on'[t] = NoObj]_semVars
=============================================================================
