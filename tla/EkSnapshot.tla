----------------------------- MODULE EkSnapshot -----------------------------
(***************************************************************************)
(* The snapshot ek_snapshot_t (src/src/ek_snapshot.c): producers overwrite *)
(* the one slot under an id, consumers copy it out.  set compares the id   *)
(* before it takes the lock, and get returns EK_ERR_NODATA with the lock   *)
(* still taken.                                                            *)
(***************************************************************************)
EXTENDS EkLocked

CONSTANTS
  Producer,   \* the threads that set; the header speaks of one
  IdOf        \* the ids each of them uses; the code compares them with the stored
              \* id and nothing else, so it takes a 0 as well

ASSUME SnapshotAssumption ==
  Producer \subseteq Thread /\ IdOf \in [Producer -> SUBSET Nat]

Id == UNION {IdOf[t] : t \in Producer}

VARIABLES
  sn_data, sn_unique,
  sn_id,    \* the `unique` argument of each thread
  sn_got    \* what the last get returned
snVars == <<sn_data, sn_unique, sn_id, sn_got>>
snAllVars == <<lockVars, snVars>>

\* ek_snapshot_set gets past the comparison with the current id.
SnCheck(t, v, id) ==
  /\ t \in Producer /\ id \in IdOf[t]
  /\ pc[t] = "idle" /\ id # sn_unique
  /\ Goto(t, "checked")
  /\ call' = [call EXCEPT ![t] = "set"]
  /\ item' = [item EXCEPT ![t] = v]
  /\ sn_id' = [sn_id EXCEPT ![t] = id]
  /\ UNCHANGED <<lock, sn_data, sn_unique, sn_got>>

SnSetLocks(t) ==
  /\ pc[t] = "checked"
  /\ TryLock(t) /\ Goto(t, "locked")
  /\ UNCHANGED <<call, item, snVars>>

\* EK_ERR_BUSY.
SnSetBusy(t) ==
  /\ pc[t] = "checked" /\ lock # NoThread
  /\ Return(t)
  /\ UNCHANGED <<lock, snVars>>

SnGetLocks(t) == Enter(t, "get", Torn) /\ UNCHANGED snVars

\* EK_ERR_NODATA: return without EK_LOCK_RELEASE.
SnNoData(t) ==
  /\ pc[t] = "locked" /\ call[t] = "get" /\ sn_unique = 0
  /\ sn_got' = "NODATA"
  /\ Return(t)
  /\ UNCHANGED <<lock, sn_data, sn_unique, sn_id>>

SnCopyBegins(t) ==
  /\ pc[t] = "locked"
  /\ Goto(t, "copy")
  /\ \/ call[t] = "set" /\ sn_data' = Torn /\ UNCHANGED item
     \/ /\ call[t] = "get" /\ sn_unique # 0
        /\ item' = [item EXCEPT ![t] = sn_data] /\ UNCHANGED sn_data
  /\ UNCHANGED <<lock, call, sn_unique, sn_id, sn_got>>

SnCopyEnds(t) ==
  /\ pc[t] = "copy"
  /\ Goto(t, "publish")
  /\ IF call[t] = "set" THEN sn_data' = item[t] /\ UNCHANGED item
                        ELSE /\ item' = [item EXCEPT ![t] = Copied(@, sn_data)]
                             /\ UNCHANGED sn_data
  /\ UNCHANGED <<lock, call, sn_unique, sn_id, sn_got>>

SnPublish(t) ==
  /\ pc[t] = "publish"
  /\ IF call[t] = "set" THEN sn_unique' = sn_id[t] /\ UNCHANGED sn_got
                        ELSE sn_got' = item[t] /\ UNCHANGED sn_unique
  /\ Leave(t)
  /\ UNCHANGED <<sn_data, sn_id>>

\* ek_snapshot_deinit_static and init_static, or destroy and create.
SnReinit ==
  /\ LockReinit
  /\ sn_data' = "ZERO" /\ sn_unique' = 0 /\ sn_got' = "NEW"
  /\ UNCHANGED sn_id

SnInit ==
  /\ LockInit
  /\ sn_data = "ZERO" /\ sn_unique = 0 /\ sn_got = "NEW"
  /\ sn_id = [t \in Thread |-> 0]

SnNextStep ==
  \/ \E t \in Thread :
       \/ \E v \in Item, id \in Id : SnCheck(t, v, id)
       \/ SnSetLocks(t) \/ SnSetBusy(t)
       \/ SnGetLocks(t) \/ SnNoData(t)
       \/ SnCopyBegins(t) \/ SnCopyEnds(t) \/ SnPublish(t)
  \/ SnReinit

SnSpec == SnInit /\ [][SnNextStep]_snAllVars

-----------------------------------------------------------------------------
SnTypeOK ==
  /\ sn_data \in Item \cup {Torn, "ZERO"}
  /\ sn_unique \in Id \cup {0}
  /\ sn_id \in [Thread -> Id \cup {0}]
  /\ sn_got \in Item \cup {"NODATA", "NEW"}

\* A set takes effect when its copy begins: get, which could tell, is locked out.
SnSetting(t) == call[t] = "set" /\ pc[t] \in {"copy", "publish"}
SnValue == IF \E t \in Thread : SnSetting(t) THEN item[lock] ELSE sn_data
SnUnique == IF \E t \in Thread : SnSetting(t) THEN sn_id[lock] ELSE sn_unique

SnRegister == INSTANCE VersionedRegister WITH
  value <- SnValue, id <- SnUnique, got <- sn_got

\* One producer, or several of which no two use the same id.
OwnIds == \A p, q \in Producer : p # q => IdOf[p] \cap IdOf[q] = {}

\* What ek_snapshot.h:120 asks of the caller of set; the call itself refuses a 0
\* only while there is no data.
NeverZero == 0 \notin Id

\* When each producer has ids of its own, 0 not among them, a snapshot is an atomic
\* register: get returns the latest complete data, never a mixture of two writes,
\* every set brings a new id although it is compared before the lock is taken, and
\* NODATA means that nothing was set (ek_snapshot.h:6).
SnapshotIsRegister == SnRegister!RegisterSpec

\* A lock that nobody is about to release was leaked by a get that found no data
\* (ek_snapshot.c:93-96); no other path of a container forgets it.
LockLeaksOnlyOnNoData ==
  lock # NoThread /\ pc[lock] = "idle" => sn_got = "NODATA"
=============================================================================
