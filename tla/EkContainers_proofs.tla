------------------------- MODULE EkContainers_proofs ------------------------
(***************************************************************************)
(* The containers under their locks, for any threads, items and            *)
(* capacities: the stack implements BoundedLifo, the generic ring buffer   *)
(* BoundedFifo and the snapshot, whose producers share no id and use no    *)
(* 0, VersionedRegister.  A thread past EK_LOCK_TRY is the only one        *)
(* there, so the invariant of a container says what the one call under     *)
(* way has done so far.  The vector has no lock: its calls leave what      *)
(* they would leave of a list.  Nor has the ring buffer of one writer and  *)
(* one reader, which implements BoundedFifo.                               *)
(***************************************************************************)
EXTENDS SpscRing, EkRingbuf, EkStack, EkSnapshot, EkVec, SequenceTheorems, TLAPS

-----------------------------------------------------------------------------
(* The lock. *)

Past == {"locked", "copy", "publish"}

\* C is the calls of the container.  Exactly the thread that has the lock is in a call.
LockedOK(C) ==
  /\ lock \in Thread \cup {NoThread}
  /\ pc \in [Thread -> {"idle"} \cup Past]
  /\ call \in [Thread -> C \cup {"none"}]
  /\ item \in [Thread -> Item \cup {Torn}]
  /\ \A t \in Thread : /\ pc[t] # "idle" <=> lock = t
                       /\ pc[t] = "idle" <=> call[t] = "none"

LEMMA LockInitOK ==
  ASSUME NEW C, "none" \notin C, LockInit
  PROVE  LockedOK(C)
BY LockedAssumption DEF LockInit, LockedOK, Past

LEMMA EnterOK ==
  ASSUME NEW C, "none" \notin C, LockedOK(C), NEW t \in Thread, NEW c \in C,
         NEW v \in Item \cup {Torn}, Enter(t, c, v)
  PROVE  /\ LockedOK(C)' /\ lock' = t
         /\ pc' = [u \in Thread |-> IF u = t THEN "locked" ELSE "idle"]
         /\ call' = [u \in Thread |-> IF u = t THEN c ELSE "none"]
         /\ item' = [item EXCEPT ![t] = v]
         /\ \A u \in Thread : call[u] = "none" /\ pc[u] = "idle"
<1>1. /\ lock = NoThread /\ lock' = t
      /\ pc' = [pc EXCEPT ![t] = "locked"]
      /\ call' = [call EXCEPT ![t] = c]
      /\ item' = [item EXCEPT ![t] = v]
  BY DEF Enter, TryLock, Goto
<1>2. \A u \in Thread : lock # u
  BY <1>1, LockedAssumption
<1>3. \A u \in Thread : pc[u] = "idle" /\ call[u] = "none"
  BY <1>2 DEF LockedOK
<1>4. /\ pc' = [u \in Thread |-> IF u = t THEN "locked" ELSE "idle"]
      /\ call' = [u \in Thread |-> IF u = t THEN c ELSE "none"]
  BY <1>1, <1>3 DEF LockedOK
<1>5. LockedOK(C)'
  BY <1>1, <1>4 DEF LockedOK, Past
<1> QED BY <1>1, <1>3, <1>4, <1>5

\* While t is in a call, the others are not.
LEMMA Alone ==
  ASSUME NEW C, LockedOK(C), NEW t \in Thread, pc[t] # "idle"
  PROVE  /\ lock = t /\ call[t] \in C
         /\ \A u \in Thread : u # t => pc[u] = "idle" /\ call[u] = "none"
<1>1. lock = t /\ call[t] # "none"
  BY DEF LockedOK
<1>2. call[t] \in C
  BY <1>1 DEF LockedOK
<1>3. \A u \in Thread : u # t => pc[u] = "idle" /\ call[u] = "none"
  BY <1>1 DEF LockedOK
<1> QED BY <1>1, <1>2, <1>3

LEMMA GotoOK ==
  ASSUME NEW C, LockedOK(C), NEW t \in Thread, pc[t] # "idle",
         NEW p \in Past, Goto(t, p), UNCHANGED <<lock, call>>,
         item' \in [Thread -> Item \cup {Torn}]
  PROVE  LockedOK(C)' /\ pc'[t] = p
<1>1. pc' = [pc EXCEPT ![t] = p] /\ pc \in [Thread -> {"idle"} \cup Past]
  BY DEF Goto, LockedOK
<1>2. \A u \in Thread : pc'[u] = "idle" <=> pc[u] = "idle"
  BY <1>1 DEF Past
<1> QED BY <1>1, <1>2 DEF LockedOK

LEMMA LeaveOK ==
  ASSUME NEW C, "none" \notin C, LockedOK(C), NEW t \in Thread, pc[t] # "idle", Leave(t)
  PROVE  /\ LockedOK(C)' /\ lock' = NoThread
         /\ \A u \in Thread : pc'[u] = "idle" /\ call'[u] = "none"
<1>1. /\ lock' = NoThread
      /\ pc' = [pc EXCEPT ![t] = "idle"]
      /\ call' = [call EXCEPT ![t] = "none"]
      /\ item' = [item EXCEPT ![t] = Torn]
  BY DEF Leave, Return, Goto
<1>2. \A u \in Thread : u # t => pc[u] = "idle" /\ call[u] = "none"
  BY Alone
<1>3. \A u \in Thread : pc'[u] = "idle" /\ call'[u] = "none"
  BY <1>1, <1>2 DEF LockedOK
<1>4. \A u \in Thread : lock' # u
  BY <1>1, LockedAssumption
<1> QED BY <1>1, <1>3, <1>4 DEF LockedOK

LEMMA LockReinitOK ==
  ASSUME NEW C, LockedOK(C), LockReinit
  PROVE  /\ LockedOK(C)'
         /\ \A u \in Thread : pc'[u] = "idle" /\ call'[u] = "none"
<1>1. /\ \A u \in Thread : pc[u] = "idle" /\ call[u] = "none"
      /\ lock' = NoThread /\ UNCHANGED <<pc, call, item>>
  BY DEF LockReinit, AllIdle, LockedOK
<1>2. \A u \in Thread : lock' # u
  BY <1>1, LockedAssumption
<1> QED BY <1>1, <1>2 DEF LockedOK

-----------------------------------------------------------------------------
(* The stack. *)

StCalls == {"push", "pop"}

\* What the thread under way has done: a push writes above sp, a pop has taken sp
\* down and holds the item that is still in the slot.
StCallOK(t) ==
  /\ call[t] = "push" => /\ item[t] \in Item
                         /\ pc[t] \in {"copy", "publish"} => st_sp < st_cap
                         /\ pc[t] = "publish" => st_data[st_sp] = item[t]
  /\ call[t] = "pop" /\ pc[t] \in {"copy", "publish"} =>
       st_sp < st_cap /\ item[t] = st_data[st_sp]

StHeight == IF StPopping THEN st_sp + 1 ELSE st_sp

StInv ==
  /\ LockedOK(StCalls)
  /\ st_data \in [0 .. st_cap - 1 -> Item \cup {Torn}] /\ st_sp \in 0 .. st_cap
  /\ st_pushed \in {"OK", "FULL", "NEW"} /\ st_popped \in Item \cup {"EMPTY", "NEW"}
  /\ \A i \in 0 .. StHeight - 1 : st_data[i] \in Item
  /\ \A t \in Thread : StCallOK(t)

LEMMA StContentsIs ==
  ASSUME StInv
  PROVE  /\ StHeight \in 0 .. st_cap
         /\ StContents = [i \in 1 .. StHeight |-> st_data[i - 1]]
         /\ StContents \in Seq(Item) /\ Len(StContents) = StHeight
         /\ StContents = <<>> <=> StHeight = 0
<1>1. st_cap \in Nat \ {0} /\ st_sp \in 0 .. st_cap
  BY StAssumption DEF StInv
<1>2. StHeight \in 0 .. st_cap
  <2>1. CASE StPopping
    <3>1. st_sp < st_cap
      BY <2>1 DEF StPopping, StInv, StCallOK
    <3> QED BY <1>1, <2>1, <3>1 DEF StHeight
  <2>2. CASE ~StPopping
    BY <1>1, <2>2 DEF StHeight
  <2> QED BY <2>1, <2>2
<1>3. StContents = [i \in 1 .. StHeight |-> st_data[i - 1]]
  BY DEF StContents, StHeight
<1>4. \A i \in 1 .. StHeight : st_data[i - 1] \in Item
  <2> SUFFICES ASSUME NEW i \in 1 .. StHeight PROVE st_data[i - 1] \in Item
    OBVIOUS
  <2>1. i - 1 \in 0 .. StHeight - 1
    BY <1>2
  <2> QED BY <2>1 DEF StInv
<1>5. StContents \in [1 .. StHeight -> Item]
  BY <1>3, <1>4
<1> QED BY <1>2, <1>3, <1>5

\* A step that leaves the height and the slots below it alone.
LEMMA StSameContents ==
  ASSUME StInv, StHeight' = StHeight,
         \A i \in 0 .. StHeight - 1 : st_data'[i] = st_data[i]
  PROVE  /\ StContents' = StContents
         /\ \A i \in 0 .. StHeight' - 1 : st_data'[i] \in Item
<1>1. StHeight \in Nat
  BY StContentsIs, StAssumption
<1>2. \A i \in 1 .. StHeight : st_data'[i - 1] = st_data[i - 1]
  <2> SUFFICES ASSUME NEW i \in 1 .. StHeight PROVE st_data'[i - 1] = st_data[i - 1]
    OBVIOUS
  <2>1. i - 1 \in 0 .. StHeight - 1
    BY <1>1
  <2> QED BY <2>1
<1>3. StContents' = [i \in 1 .. StHeight' |-> st_data'[i - 1]]
  BY DEF StContents, StHeight
<1>4. StContents = [i \in 1 .. StHeight |-> st_data[i - 1]]
  BY DEF StContents, StHeight
<1> QED BY <1>2, <1>3, <1>4 DEF StInv

LEMMA StInitStep == StInit => StInv /\ StLifo!LifoInit
<1> SUFFICES ASSUME StInit PROVE StInv /\ StLifo!LifoInit
  OBVIOUS
<1>1. LockedOK(StCalls)
  BY LockInitOK DEF StInit, StCalls
<1>2. /\ \A t \in Thread : pc[t] = "idle" /\ call[t] = "none"
      /\ st_sp = 0 /\ st_pushed = "NEW" /\ st_popped = "NEW"
      /\ st_data = [i \in 0 .. st_cap - 1 |-> Torn]
  BY DEF StInit, LockInit
<1>3. ~StPopping
  BY <1>2 DEF StPopping
<1>4. StHeight = 0 /\ StContents = [i \in 1 .. 0 |-> st_data[i - 1]]
  BY <1>2, <1>3 DEF StHeight, StContents
<1>5. StInv
  BY <1>1, <1>2, <1>4, StAssumption DEF StInv, StCallOK
<1>6. StContents = <<>>
  BY <1>4
<1> QED BY <1>2, <1>5, <1>6 DEF StLifo!LifoInit

LEMMA StEnterStep ==
  ASSUME StInv, NEW t \in Thread, StEnter(t)
  PROVE  StInv' /\ UNCHANGED (StLifo!lifoVars)
<1>1. PICK c \in StCalls, v \in Item \cup {Torn} :
        Enter(t, c, v) /\ (c = "push" => v \in Item)
  BY DEF StEnter, StCalls
<1>0. LockedOK(StCalls) /\ "none" \notin StCalls /\ UNCHANGED stVars
  BY DEF StInv, StCalls, StEnter
<1>2. /\ LockedOK(StCalls)'
      /\ pc' = [u \in Thread |-> IF u = t THEN "locked" ELSE "idle"]
      /\ call' = [u \in Thread |-> IF u = t THEN c ELSE "none"]
      /\ item' = [item EXCEPT ![t] = v]
      /\ \A u \in Thread : call[u] = "none" /\ pc[u] = "idle"
  BY <1>0, <1>1, EnterOK
<1>3. ~StPopping /\ ~StPopping'
  BY <1>2 DEF StPopping
<1>4. StHeight' = StHeight /\ \A i \in 0 .. StHeight - 1 : st_data'[i] = st_data[i]
  BY <1>0, <1>3 DEF StHeight, stVars
<1>5. StContents' = StContents /\ \A i \in 0 .. StHeight' - 1 : st_data'[i] \in Item
  BY <1>4, StSameContents
<1>6. \A u \in Thread : StCallOK(u)'
  <2>1. item \in [Thread -> Item \cup {Torn}]
    BY DEF StInv, LockedOK
  <2>2. item'[t] = v
    BY <1>2, <2>1
  <2> QED BY <1>1, <1>2, <2>2 DEF StCallOK, StCalls
<1> QED BY <1>0, <1>2, <1>5, <1>6 DEF StInv, stVars, StLifo!lifoVars

LEMMA StRefuseStep ==
  ASSUME StInv, NEW t \in Thread, StRefuse(t)
  PROVE  StInv' /\ [StLifo!LifoNext]_(StLifo!lifoVars)
<1>1. /\ pc[t] = "locked" /\ StRefused(t) /\ Leave(t) /\ UNCHANGED <<st_data, st_sp>>
      /\ IF call[t] = "push" THEN st_pushed' = "FULL" /\ UNCHANGED st_popped
                             ELSE st_popped' = "EMPTY" /\ UNCHANGED st_pushed
  BY DEF StRefuse
<1>2. /\ LockedOK(StCalls)'
      /\ \A u \in Thread : pc'[u] = "idle" /\ call'[u] = "none"
  BY <1>1, LeaveOK DEF StInv, StCalls
<1>3. \A u \in Thread : u # t => pc[u] = "idle"
  BY <1>1, Alone DEF StInv
<1>4. ~StPopping /\ ~StPopping'
  BY <1>1, <1>2, <1>3 DEF StPopping
<1>5. StHeight = st_sp /\ StHeight' = StHeight
      /\ \A i \in 0 .. StHeight - 1 : st_data'[i] = st_data[i]
  BY <1>1, <1>4 DEF StHeight
<1>6. StContents' = StContents /\ \A i \in 0 .. StHeight' - 1 : st_data'[i] \in Item
  BY <1>5, StSameContents
<1>7. StInv'
  BY <1>1, <1>2, <1>6 DEF StInv, StCallOK
<1>8. Len(StContents) = st_sp /\ (StContents = <<>> <=> st_sp = 0) /\ st_sp <= st_cap
  BY <1>5, StContentsIs, StAssumption DEF StInv
<1>9. CASE call[t] = "push"
  <2>1. st_sp = st_cap
    BY <1>1, <1>8, <1>9, StAssumption DEF StRefused, StFull, StInv
  <2>2. StLifo!PushFull
    BY <1>1, <1>6, <1>8, <1>9, <2>1 DEF StLifo!PushFull
  <2> QED BY <1>7, <2>2 DEF StLifo!LifoNext
<1>10. CASE call[t] # "push"
  <2>1. st_sp = 0
    BY <1>1, <1>10 DEF StRefused, StEmpty
  <2>2. StLifo!PopEmpty
    BY <1>1, <1>6, <1>8, <1>10, <2>1 DEF StLifo!PopEmpty
  <2> QED BY <1>7, <2>2 DEF StLifo!LifoNext
<1> QED BY <1>9, <1>10

LEMMA StCopyBeginsStep ==
  ASSUME StInv, NEW t \in Thread, StCopyBegins(t)
  PROVE  StInv' /\ UNCHANGED (StLifo!lifoVars)
<1>1. /\ pc[t] = "locked" /\ ~StRefused(t) /\ Goto(t, "copy")
      /\ UNCHANGED <<lock, call, st_pushed, st_popped>>
  BY DEF StCopyBegins
<1>2. call[t] \in StCalls /\ \A u \in Thread : u # t => pc[u] = "idle" /\ call[u] = "none"
  BY <1>1, Alone DEF StInv
<1>3. /\ st_cap \in Nat /\ st_sp \in 0 .. st_cap /\ pc \in [Thread -> {"idle"} \cup Past]
      /\ item \in [Thread -> Item \cup {Torn}]
      /\ st_data \in [0 .. st_cap - 1 -> Item \cup {Torn}]
  BY StAssumption DEF StInv, LockedOK
<1>4. ~StPopping /\ StHeight = st_sp
  <2>1. ~StPopping
    BY <1>1, <1>2 DEF StPopping
  <2> QED BY <2>1 DEF StHeight
<1>5. pc' = [pc EXCEPT ![t] = "copy"] /\ pc'[t] = "copy"
  BY <1>1, <1>3 DEF Goto
<1>6. CASE call[t] = "push"
  <2>1. /\ st_sp < st_cap /\ UNCHANGED <<item, st_sp>>
        /\ st_data' = [st_data EXCEPT ![st_sp] = Torn]
    BY <1>1, <1>3, <1>6 DEF StRefused, StFull, StCopyBegins
  <2>2. LockedOK(StCalls)'
    BY <1>1, <1>3, <2>1, GotoOK DEF StInv, Past
  <2>3. ~StPopping'
    BY <1>1, <1>2, <1>6 DEF StPopping
  <2>4. StHeight' = StHeight /\ \A i \in 0 .. StHeight - 1 : st_data'[i] = st_data[i]
    BY <1>3, <1>4, <2>1, <2>3 DEF StHeight
  <2>5. StContents' = StContents /\ \A i \in 0 .. StHeight' - 1 : st_data'[i] \in Item
    BY <2>4, StSameContents
  <2>6. \A u \in Thread : StCallOK(u)'
    BY <1>1, <1>2, <1>5, <1>6, <2>1 DEF StInv, StCallOK
  <2>7. st_data' \in [0 .. st_cap - 1 -> Item \cup {Torn}]
    BY <1>3, <2>1
  <2>8. StInv'
    BY <1>1, <1>3, <2>1, <2>2, <2>5, <2>6, <2>7 DEF StInv
  <2> QED BY <1>1, <2>5, <2>8 DEF StLifo!lifoVars
<1>7. CASE call[t] = "pop"
  <2>1. /\ st_sp # 0 /\ st_sp' = st_sp - 1 /\ UNCHANGED st_data
        /\ item' = [item EXCEPT ![t] = st_data[st_sp - 1]]
    BY <1>1, <1>7 DEF StRefused, StEmpty, StCopyBegins, StTop
  <2>2. st_sp' \in 0 .. st_cap /\ st_sp' < st_cap /\ st_sp' \in 0 .. st_cap - 1
    BY <1>3, <2>1
  <2>3. item' \in [Thread -> Item \cup {Torn}] /\ item'[t] = st_data'[st_sp']
    BY <1>3, <2>1, <2>2
  <2>4. LockedOK(StCalls)'
    BY <1>1, <2>3, GotoOK DEF StInv, Past
  <2>5. StPopping'
    BY <1>1, <1>5, <1>7 DEF StPopping
  <2>6. StHeight' = StHeight /\ \A i \in 0 .. StHeight - 1 : st_data'[i] = st_data[i]
    BY <1>3, <1>4, <2>1, <2>5 DEF StHeight
  <2>7. StContents' = StContents /\ \A i \in 0 .. StHeight' - 1 : st_data'[i] \in Item
    BY <2>6, StSameContents
  <2>8. \A u \in Thread : StCallOK(u)'
    BY <1>1, <1>2, <1>7, <2>2, <2>3 DEF StInv, StCallOK
  <2>9. StInv'
    BY <1>1, <1>3, <2>1, <2>2, <2>4, <2>7, <2>8 DEF StInv
  <2> QED BY <1>1, <2>7, <2>9 DEF StLifo!lifoVars
<1> QED BY <1>2, <1>6, <1>7 DEF StCalls

LEMMA StCopyEndsStep ==
  ASSUME StInv, NEW t \in Thread, StCopyEnds(t)
  PROVE  StInv' /\ UNCHANGED (StLifo!lifoVars)
<1>1. /\ pc[t] = "copy" /\ Goto(t, "publish")
      /\ UNCHANGED <<lock, call, st_sp, st_pushed, st_popped>>
  BY DEF StCopyEnds
<1>2. call[t] \in StCalls /\ \A u \in Thread : u # t => pc[u] = "idle" /\ call[u] = "none"
  BY <1>1, Alone DEF StInv
<1>3. /\ st_cap \in Nat /\ st_sp \in 0 .. st_cap /\ pc \in [Thread -> {"idle"} \cup Past]
      /\ item \in [Thread -> Item \cup {Torn}]
      /\ st_data \in [0 .. st_cap - 1 -> Item \cup {Torn}]
      /\ StCallOK(t)
  BY StAssumption DEF StInv, LockedOK
<1>4. pc' = [pc EXCEPT ![t] = "publish"] /\ pc'[t] = "publish"
  BY <1>1, <1>3 DEF Goto
<1>5. CASE call[t] = "push"
  <2>1. /\ st_sp < st_cap /\ UNCHANGED item /\ item[t] \in Item
        /\ st_data' = [st_data EXCEPT ![st_sp] = item[t]]
    BY <1>1, <1>3, <1>5 DEF StCallOK, StCopyEnds
  <2>2. LockedOK(StCalls)'
    BY <1>1, <1>3, <2>1, GotoOK DEF StInv, Past
  <2>3. ~StPopping /\ ~StPopping'
    BY <1>1, <1>2, <1>5 DEF StPopping
  <2>4. StHeight' = StHeight /\ \A i \in 0 .. StHeight - 1 : st_data'[i] = st_data[i]
    BY <1>1, <1>3, <2>1, <2>3 DEF StHeight
  <2>5. StContents' = StContents /\ \A i \in 0 .. StHeight' - 1 : st_data'[i] \in Item
    BY <2>4, StSameContents
  <2>6. st_data' \in [0 .. st_cap - 1 -> Item \cup {Torn}] /\ st_data'[st_sp] = item[t]
    BY <1>3, <2>1
  <2>7. \A u \in Thread : StCallOK(u)'
    BY <1>1, <1>2, <1>5, <2>1, <2>6 DEF StCallOK
  <2>8. StInv'
    BY <1>1, <1>3, <2>2, <2>5, <2>6, <2>7 DEF StInv
  <2> QED BY <1>1, <2>5, <2>8 DEF StLifo!lifoVars
<1>6. CASE call[t] = "pop"
  <2>1. /\ UNCHANGED st_data /\ st_sp < st_cap /\ item[t] = st_data[st_sp]
        /\ item' = [item EXCEPT ![t] = st_data[st_sp]]
    BY <1>1, <1>3, <1>6 DEF StCallOK, StCopyEnds, Copied
  <2>2. item' = item
    BY <1>3, <2>1
  <2>3. LockedOK(StCalls)'
    BY <1>1, <1>3, <2>2, GotoOK DEF StInv, Past
  <2>4. StPopping /\ StPopping'
    BY <1>1, <1>4, <1>6 DEF StPopping
  <2>5. StHeight' = StHeight /\ \A i \in 0 .. StHeight - 1 : st_data'[i] = st_data[i]
    BY <1>1, <2>1, <2>4 DEF StHeight
  <2>6. StContents' = StContents /\ \A i \in 0 .. StHeight' - 1 : st_data'[i] \in Item
    BY <2>5, StSameContents
  <2>7. \A u \in Thread : StCallOK(u)'
    BY <1>1, <1>2, <1>6, <2>1, <2>2 DEF StCallOK
  <2>8. StInv'
    BY <1>1, <1>3, <2>1, <2>3, <2>6, <2>7 DEF StInv
  <2> QED BY <1>1, <2>6, <2>8 DEF StLifo!lifoVars
<1> QED BY <1>2, <1>5, <1>6 DEF StCalls

LEMMA StPushEndsStep ==
  ASSUME StInv, NEW t \in Thread, StPushEnds(t)
  PROVE  StInv' /\ [StLifo!LifoNext]_(StLifo!lifoVars)
<1>1. /\ pc[t] = "publish" /\ call[t] = "push" /\ Leave(t)
      /\ st_sp' = st_sp + 1 /\ st_pushed' = "OK" /\ UNCHANGED <<st_data, st_popped>>
  BY DEF StPushEnds
<1>2. /\ LockedOK(StCalls)'
      /\ \A u \in Thread : pc'[u] = "idle" /\ call'[u] = "none"
  BY <1>1, LeaveOK DEF StInv, StCalls
<1>3. \A u \in Thread : u # t => pc[u] = "idle"
  BY <1>1, Alone DEF StInv
<1>4. ~StPopping /\ ~StPopping'
  BY <1>1, <1>2, <1>3 DEF StPopping
<1>5. /\ st_cap \in Nat /\ st_sp \in 0 .. st_cap /\ st_sp < st_cap
      /\ item[t] \in Item /\ st_data[st_sp] = item[t]
  BY <1>1, StAssumption DEF StInv, StCallOK
<1>6. StHeight = st_sp /\ StHeight' = st_sp + 1
  BY <1>1, <1>4 DEF StHeight
<1>7. /\ StContents \in Seq(Item) /\ Len(StContents) = st_sp
      /\ \A i \in 1 .. st_sp : StContents[i] = st_data[i - 1]
  BY <1>6, StContentsIs
<1>8. StContents' = [i \in 1 .. st_sp + 1 |-> st_data[i - 1]]
  BY <1>1, <1>6 DEF StContents, StHeight
<1>9. \A i \in 0 .. st_sp : st_data[i] \in Item
  <2> SUFFICES ASSUME NEW i \in 0 .. st_sp, i # st_sp PROVE st_data[i] \in Item
    BY <1>5
  <2>1. i \in 0 .. StHeight - 1
    BY <1>5, <1>6
  <2> QED BY <2>1 DEF StInv
<1>10. StInv'
  BY <1>1, <1>2, <1>5, <1>6, <1>9 DEF StInv, StCallOK
<1>11. StContents' = Append(StContents, item[t])
  BY <1>5, <1>7, <1>8
<1>12. StLifo!Push(item[t])
  BY <1>1, <1>5, <1>7, <1>11 DEF StLifo!Push
<1> QED BY <1>5, <1>10, <1>12 DEF StLifo!LifoNext

LEMMA StPopEndsStep ==
  ASSUME StInv, NEW t \in Thread, StPopEnds(t)
  PROVE  StInv' /\ [StLifo!LifoNext]_(StLifo!lifoVars)
<1>1. /\ pc[t] = "publish" /\ call[t] = "pop" /\ Leave(t)
      /\ st_popped' = item[t] /\ UNCHANGED <<st_data, st_sp, st_pushed>>
  BY DEF StPopEnds
<1>2. /\ LockedOK(StCalls)'
      /\ \A u \in Thread : pc'[u] = "idle" /\ call'[u] = "none"
  BY <1>1, LeaveOK DEF StInv, StCalls
<1>3. StPopping /\ ~StPopping'
  BY <1>1, <1>2 DEF StPopping
<1>4. st_sp \in Nat /\ item[t] = st_data[st_sp] /\ st_cap \in Nat
  BY <1>1, StAssumption DEF StInv, StCallOK
<1>5. StHeight = st_sp + 1 /\ StHeight' = st_sp
  BY <1>1, <1>3 DEF StHeight
<1>6. /\ StContents \in Seq(Item) /\ Len(StContents) = st_sp + 1 /\ StContents # <<>>
      /\ \A i \in 1 .. st_sp + 1 : StContents[i] = st_data[i - 1]
  BY <1>4, <1>5, StContentsIs
<1>7. StContents' = [i \in 1 .. st_sp |-> st_data[i - 1]]
  BY <1>1, <1>5 DEF StContents, StHeight
<1>8. /\ st_data[st_sp] \in Item
      /\ \A i \in 0 .. st_sp - 1 : st_data[i] \in Item
  BY <1>4, <1>5 DEF StInv
<1>9. StInv'
  BY <1>1, <1>2, <1>4, <1>5, <1>8 DEF StInv, StCallOK
<1>10. StContents' = StLifo!Front(StContents)
  BY <1>4, <1>6, <1>7 DEF StLifo!Front
<1>11. StLifo!Last(StContents) = item[t]
  BY <1>4, <1>6 DEF StLifo!Last
<1>12. StLifo!Pop
  BY <1>1, <1>6, <1>10, <1>11 DEF StLifo!Pop
<1> QED BY <1>9, <1>12 DEF StLifo!LifoNext

LEMMA StReinitStep ==
  ASSUME StInv, StReinit
  PROVE  StInv' /\ StLifo!LifoNext
<1>1. /\ LockReinit /\ st_sp' = 0 /\ st_pushed' = "NEW" /\ st_popped' = "NEW"
      /\ UNCHANGED st_data
  BY DEF StReinit
<1>2. /\ LockedOK(StCalls)'
      /\ \A u \in Thread : pc'[u] = "idle" /\ call'[u] = "none"
  BY <1>1, LockReinitOK DEF StInv
<1>3. ~StPopping'
  BY <1>2 DEF StPopping
<1>4. StHeight' = 0 /\ StContents' = [i \in 1 .. 0 |-> st_data[i - 1]]
  BY <1>1, <1>3 DEF StHeight, StContents
<1>5. StContents' = <<>>
  BY <1>4
<1>6. StInv'
  BY <1>1, <1>2, <1>4, StAssumption DEF StInv, StCallOK
<1> QED BY <1>1, <1>5, <1>6 DEF StLifo!LifoNext, StLifo!Clear, StLifo!LifoInit

LEMMA StStep ==
  ASSUME StInv, [StNextStep]_stAllVars
  PROVE  StInv' /\ [StLifo!LifoNext]_(StLifo!lifoVars)
<1>1. CASE UNCHANGED stAllVars
  <2>1. StInv' /\ UNCHANGED <<StContents, st_pushed, st_popped>>
    BY <1>1 DEF stAllVars, stVars, lockVars, StInv, LockedOK, StHeight, StPopping, StCallOK,
      StContents
  <2> QED BY <2>1 DEF StLifo!lifoVars
<1> QED BY <1>1, StEnterStep, StRefuseStep, StCopyBeginsStep, StCopyEndsStep, StPushEndsStep,
          StPopEndsStep, StReinitStep DEF StNextStep

\* The type of the stack, and what each call under way has done.
THEOREM StackInvariant == StSpec => []StInv
<1>1. StInv /\ [StNextStep]_stAllVars => StInv'
  BY StStep
<1> QED BY <1>1, StInitStep, PTL DEF StSpec

\* For any threads and capacity the stack is last in, first out, no push overwriting
\* the item a pop is copying out, and FULL and EMPTY are true when they are returned.
THEOREM StackImplementsLifo == StSpec => StackIsLifo
<1>1. StInv /\ [StNextStep]_stAllVars => [StLifo!LifoNext]_(StLifo!lifoVars)
  BY StStep
<1> QED BY <1>1, StInitStep, StackInvariant, PTL DEF StSpec, StackIsLifo, StLifo!LifoSpec

-----------------------------------------------------------------------------
(* The ring buffer. *)

RbCalls == {"write"} \cup RbReads

\* What the thread under way has done: a write fills the slot at write_idx, which is
\* not in use; a read holds what is still in the slot at read_idx.
RbCallOK(t) ==
  /\ call[t] = "write" =>
       /\ item[t] \in Item
       /\ pc[t] \in {"copy", "publish"} => rb_item_amount < rb_cap
       /\ pc[t] = "publish" => rb_data[rb_write_idx] = item[t]
  /\ call[t] \in RbReads /\ pc[t] \in {"copy", "publish"} =>
       rb_item_amount > 0 /\ item[t] = rb_data[rb_read_idx]

RbWrapped(k) == IF k < rb_cap THEN k ELSE k - rb_cap

RbIndexOK ==
  /\ rb_write_idx \in 0 .. rb_cap - 1 /\ rb_read_idx \in 0 .. rb_cap - 1
  /\ rb_item_amount \in 0 .. rb_cap
  /\ rb_write_idx = RbWrapped(rb_read_idx + rb_item_amount)

RbInv ==
  /\ LockedOK(RbCalls)
  /\ rb_data \in [0 .. rb_cap - 1 -> Item \cup {Torn}]
  /\ RbIndexOK
  /\ \A i \in 1 .. rb_item_amount : rb_data[RbAt(i)] \in Item
  /\ \A t \in Thread : RbCallOK(t)

\* The modulo of the code is a wrap at cap.
LEMMA RbWraps ==
  ASSUME NEW k \in 0 .. 2 * rb_cap - 1
  PROVE  k % rb_cap = RbWrapped(k)
<1>1. rb_cap \in Nat \ {0}
  BY RbAssumption
<1>2. CASE k < rb_cap
  BY <1>1, <1>2 DEF RbWrapped
<1>3. CASE k >= rb_cap
  <2> DEFINE j == k - rb_cap
  <2>1. j \in 0 .. rb_cap - 1 /\ k = j + rb_cap
    BY <1>1, <1>3
  <2> HIDE DEF j
  <2>2. (j + rb_cap) % rb_cap = j
    BY <1>1, <2>1
  <2>3. k - rb_cap = j
    BY <1>1, <2>1
  <2> QED BY <1>1, <1>3, <2>1, <2>2, <2>3 DEF RbWrapped
<1> QED BY <1>1, <1>2, <1>3

LEMMA RbIndices ==
  ASSUME RbIndexOK
  PROVE  /\ rb_cap \in Nat \ {0}
         /\ \A i \in 0 .. rb_cap - 1 : RbNext(i) = IF i + 1 = rb_cap THEN 0 ELSE i + 1
         /\ \A i \in 1 .. rb_cap : /\ RbAt(i) = RbWrapped(rb_read_idx + i - 1)
                                  /\ RbAt(i) \in 0 .. rb_cap - 1
         /\ \A i \in 1 .. rb_item_amount : rb_item_amount < rb_cap => RbAt(i) # rb_write_idx
         /\ RbAt(1) = rb_read_idx
         /\ rb_item_amount < rb_cap => RbAt(rb_item_amount + 1) = rb_write_idx
<1>1. /\ rb_cap \in Nat \ {0} /\ rb_read_idx \in 0 .. rb_cap - 1
      /\ rb_item_amount \in 0 .. rb_cap
      /\ rb_write_idx = RbWrapped(rb_read_idx + rb_item_amount)
  BY RbAssumption DEF RbIndexOK
<1>2. ASSUME NEW i \in 0 .. rb_cap - 1
      PROVE  RbNext(i) = IF i + 1 = rb_cap THEN 0 ELSE i + 1
  <2>1. i + 1 \in 0 .. 2 * rb_cap - 1
    BY <1>1
  <2>2. RbNext(i) = RbWrapped(i + 1)
    BY <2>1, RbWraps DEF RbNext
  <2> QED BY <1>1, <2>2 DEF RbWrapped
<1>3. ASSUME NEW i \in 1 .. rb_cap
      PROVE  RbAt(i) = RbWrapped(rb_read_idx + i - 1) /\ RbAt(i) \in 0 .. rb_cap - 1
  <2>1. rb_read_idx + i - 1 \in 0 .. 2 * rb_cap - 1
    BY <1>1
  <2>2. RbAt(i) = RbWrapped(rb_read_idx + i - 1)
    BY <2>1, RbWraps DEF RbAt
  <2> QED BY <1>1, <2>2 DEF RbWrapped
<1>4. ASSUME NEW i \in 1 .. rb_item_amount, rb_item_amount < rb_cap
      PROVE  RbAt(i) # rb_write_idx
  <2>1. RbAt(i) = RbWrapped(rb_read_idx + i - 1)
    BY <1>1, <1>3
  <2> QED BY <1>1, <1>4, <2>1 DEF RbWrapped
<1>5. RbAt(1) = rb_read_idx
  <2>1. RbAt(1) = RbWrapped(rb_read_idx + 1 - 1)
    BY <1>1, <1>3
  <2> QED BY <1>1, <2>1 DEF RbWrapped
<1>6. ASSUME rb_item_amount < rb_cap
      PROVE  RbAt(rb_item_amount + 1) = rb_write_idx
  <2>1. rb_item_amount + 1 \in 1 .. rb_cap
    BY <1>1, <1>6
  <2>2. RbAt(rb_item_amount + 1) = RbWrapped(rb_read_idx + (rb_item_amount + 1) - 1)
    BY <1>3, <2>1
  <2> QED BY <1>1, <2>2
<1> QED BY <1>1, <1>2, <1>3, <1>4, <1>5, <1>6

LEMMA RbContentsIs ==
  ASSUME RbInv
  PROVE  /\ RbContents \in Seq(Item) /\ Len(RbContents) = rb_item_amount
         /\ \A i \in 1 .. rb_item_amount : RbContents[i] = rb_data[RbAt(i)]
         /\ RbContents = <<>> <=> rb_item_amount = 0
<1>1. rb_item_amount \in Nat
  BY RbAssumption DEF RbInv, RbIndexOK
<1>2. RbContents \in [1 .. rb_item_amount -> Item]
  BY DEF RbContents, RbInv
<1> QED BY <1>1, <1>2 DEF RbContents

\* A step that leaves the indices and the slots in use alone.
LEMMA RbSameContents ==
  ASSUME RbInv, UNCHANGED <<rb_write_idx, rb_read_idx, rb_item_amount>>,
         \A i \in 1 .. rb_item_amount : rb_data'[RbAt(i)] = rb_data[RbAt(i)]
  PROVE  /\ RbContents' = RbContents /\ RbIndexOK'
         /\ \A i \in 1 .. rb_item_amount' : rb_data'[RbAt(i)'] \in Item
<1>1. \A i : RbAt(i)' = RbAt(i)
  BY DEF RbAt
<1>2. RbContents' = RbContents
  BY <1>1 DEF RbContents
<1> QED BY <1>1, <1>2 DEF RbInv, RbIndexOK

LEMMA RbInitStep == RbInit => RbInv /\ RbFifo!FifoInit
<1> SUFFICES ASSUME RbInit PROVE RbInv /\ RbFifo!FifoInit
  OBVIOUS
<1>1. LockedOK(RbCalls)
  BY LockInitOK DEF RbInit, RbCalls, RbReads
<1>2. /\ \A t \in Thread : pc[t] = "idle" /\ call[t] = "none"
      /\ rb_write_idx = 0 /\ rb_read_idx = 0 /\ rb_item_amount = 0
      /\ rb_wrote = "NEW" /\ rb_got = RbNewGot
      /\ rb_data = [i \in 0 .. rb_cap - 1 |-> Torn]
  BY DEF RbInit, LockInit
<1>3. RbIndexOK
  BY <1>2, RbAssumption DEF RbIndexOK, RbWrapped
<1>4. RbContents = [i \in 1 .. 0 |-> rb_data[RbAt(i)]]
  BY <1>2 DEF RbContents
<1>5. RbInv
  BY <1>1, <1>2, <1>3 DEF RbInv, RbCallOK, RbReads
<1>6. RbContents = <<>>
  BY <1>4
<1> QED BY <1>2, <1>5, <1>6 DEF RbFifo!FifoInit, RbNewGot

LEMMA RbEnterStep ==
  ASSUME RbInv, NEW t \in Thread, RbEnter(t)
  PROVE  RbInv' /\ UNCHANGED (RbFifo!fifoVars)
<1>0. LockedOK(RbCalls) /\ "none" \notin RbCalls /\ UNCHANGED rbVars
  BY DEF RbInv, RbCalls, RbReads, RbEnter
<1>1. PICK c \in RbCalls, v \in Item \cup {Torn} :
        Enter(t, c, v) /\ (c = "write" => v \in Item)
  BY DEF RbEnter, RbCalls, RbReads
<1>2. /\ LockedOK(RbCalls)'
      /\ pc' = [u \in Thread |-> IF u = t THEN "locked" ELSE "idle"]
      /\ call' = [u \in Thread |-> IF u = t THEN c ELSE "none"]
      /\ item' = [item EXCEPT ![t] = v]
      /\ \A u \in Thread : call[u] = "none" /\ pc[u] = "idle"
  BY <1>0, <1>1, EnterOK
<1>3. /\ RbContents' = RbContents /\ RbIndexOK'
      /\ \A i \in 1 .. rb_item_amount' : rb_data'[RbAt(i)'] \in Item
  BY <1>0, RbSameContents DEF rbVars
<1>4. \A u \in Thread : RbCallOK(u)'
  <2>1. item \in [Thread -> Item \cup {Torn}]
    BY DEF RbInv, LockedOK
  <2>2. item'[t] = v
    BY <1>2, <2>1
  <2> QED BY <1>1, <1>2, <2>2 DEF RbCallOK, RbReads
<1> QED BY <1>0, <1>2, <1>3, <1>4 DEF RbInv, rbVars, RbFifo!fifoVars

LEMMA RbRefuseStep ==
  ASSUME RbInv, NEW t \in Thread, RbRefuse(t)
  PROVE  RbInv' /\ [RbFifo!FifoNext]_(RbFifo!fifoVars)
<1>1. /\ pc[t] = "locked" /\ RbRefused(t) /\ Leave(t)
      /\ UNCHANGED <<rb_data, rb_write_idx, rb_read_idx, rb_item_amount>>
      /\ IF call[t] = "write"
           THEN rb_wrote' = "FULL" /\ UNCHANGED rb_got
           ELSE rb_got' = [call |-> call[t], value |-> "EMPTY"] /\ UNCHANGED rb_wrote
  BY DEF RbRefuse
<1>2. /\ LockedOK(RbCalls)' /\ call[t] \in RbCalls
      /\ \A u \in Thread : pc'[u] = "idle" /\ call'[u] = "none"
  BY <1>1, LeaveOK, Alone DEF RbInv, RbCalls, RbReads
<1>3. /\ RbContents' = RbContents /\ RbIndexOK'
      /\ \A i \in 1 .. rb_item_amount' : rb_data'[RbAt(i)'] \in Item
  BY <1>1, RbSameContents
<1>4. RbInv'
  BY <1>1, <1>2, <1>3 DEF RbInv, RbCallOK, RbReads
<1>5. /\ Len(RbContents) = rb_item_amount
      /\ RbContents = <<>> <=> rb_item_amount = 0
  BY RbContentsIs
<1>6. CASE call[t] = "write"
  <2>1. RbFifo!WriteFull
    BY <1>1, <1>3, <1>5, <1>6 DEF RbRefused, RbFull, RbFifo!WriteFull
  <2> QED BY <1>4, <2>1 DEF RbFifo!FifoNext
<1>7. CASE call[t] \in RbReads
  <2>1. RbFifo!ReadEmpty(call[t])
    BY <1>1, <1>3, <1>5, <1>7 DEF RbRefused, RbEmpty, RbReads, RbFifo!ReadEmpty
  <2> QED BY <1>4, <1>7, <2>1 DEF RbReads, RbFifo!FifoNext
<1> QED BY <1>2, <1>6, <1>7 DEF RbCalls

LEMMA RbCopyBeginsStep ==
  ASSUME RbInv, NEW t \in Thread, RbCopyBegins(t)
  PROVE  RbInv' /\ UNCHANGED (RbFifo!fifoVars)
<1>1. /\ pc[t] = "locked" /\ ~RbRefused(t)
      /\ Goto(t, IF call[t] = "skip" THEN "publish" ELSE "copy")
      /\ UNCHANGED <<lock, call, rb_write_idx, rb_read_idx, rb_item_amount, rb_wrote, rb_got>>
  BY DEF RbCopyBegins
<1>2. call[t] \in RbCalls /\ \A u \in Thread : u # t => pc[u] = "idle" /\ call[u] = "none"
  BY <1>1, Alone DEF RbInv
<1>3. /\ rb_item_amount \in 0 .. rb_cap /\ rb_cap \in Nat \ {0}
      /\ rb_write_idx \in 0 .. rb_cap - 1 /\ rb_read_idx \in 0 .. rb_cap - 1
      /\ item \in [Thread -> Item \cup {Torn}]
      /\ rb_data \in [0 .. rb_cap - 1 -> Item \cup {Torn}]
      /\ pc \in [Thread -> {"idle"} \cup Past] /\ RbCallOK(t)
  BY RbAssumption DEF RbInv, RbIndexOK, LockedOK
<1>4. /\ \A u \in Thread : u # t => pc'[u] = "idle" /\ call'[u] = "none"
      /\ pc'[t] = IF call[t] = "skip" THEN "publish" ELSE "copy"
  BY <1>1, <1>2, <1>3 DEF Goto
<1>5. CASE call[t] = "write"
  <2>1. /\ rb_item_amount < rb_cap /\ UNCHANGED item
        /\ rb_data' = [rb_data EXCEPT ![rb_write_idx] = Torn]
    BY <1>1, <1>3, <1>5 DEF RbRefused, RbFull, RbCopyBegins
  <2>2. LockedOK(RbCalls)'
    BY <1>1, <1>3, <2>1, GotoOK DEF RbInv, Past
  <2>3. \A i \in 1 .. rb_item_amount : rb_data'[RbAt(i)] = rb_data[RbAt(i)]
    BY <1>3, <2>1, RbIndices DEF RbInv
  <2>4. /\ RbContents' = RbContents /\ RbIndexOK'
        /\ \A i \in 1 .. rb_item_amount' : rb_data'[RbAt(i)'] \in Item
    BY <1>1, <2>3, RbSameContents
  <2>5. \A u \in Thread : RbCallOK(u)'
    BY <1>1, <1>3, <1>4, <1>5, <2>1 DEF RbCallOK, RbReads
  <2>6. rb_data' \in [0 .. rb_cap - 1 -> Item \cup {Torn}]
    BY <1>3, <2>1
  <2> QED BY <1>1, <2>2, <2>4, <2>5, <2>6 DEF RbInv, RbFifo!fifoVars
<1>6. CASE call[t] \in RbReads
  <2>1. /\ rb_item_amount > 0 /\ UNCHANGED rb_data
        /\ item' = [item EXCEPT ![t] = rb_data[rb_read_idx]]
    BY <1>1, <1>3, <1>6 DEF RbRefused, RbEmpty, RbReads, RbCopyBegins
  <2>2. item' \in [Thread -> Item \cup {Torn}] /\ item'[t] = rb_data[rb_read_idx]
    BY <1>3, <2>1
  <2>3. LockedOK(RbCalls)'
    BY <1>1, <2>2, GotoOK DEF RbInv, Past
  <2>4. /\ RbContents' = RbContents /\ RbIndexOK'
        /\ \A i \in 1 .. rb_item_amount' : rb_data'[RbAt(i)'] \in Item
    BY <1>1, <2>1, RbSameContents
  <2>5. \A u \in Thread : RbCallOK(u)'
    BY <1>1, <1>3, <1>4, <1>6, <2>1, <2>2 DEF RbCallOK, RbReads
  <2> QED BY <1>1, <1>3, <2>1, <2>3, <2>4, <2>5 DEF RbInv, RbFifo!fifoVars
<1> QED BY <1>2, <1>5, <1>6 DEF RbCalls

LEMMA RbCopyEndsStep ==
  ASSUME RbInv, NEW t \in Thread, RbCopyEnds(t)
  PROVE  RbInv' /\ UNCHANGED (RbFifo!fifoVars)
<1>1. /\ pc[t] = "copy" /\ Goto(t, "publish")
      /\ UNCHANGED <<lock, call, rb_write_idx, rb_read_idx, rb_item_amount, rb_wrote, rb_got>>
  BY DEF RbCopyEnds
<1>2. call[t] \in RbCalls /\ \A u \in Thread : u # t => pc[u] = "idle" /\ call[u] = "none"
  BY <1>1, Alone DEF RbInv
<1>3. /\ rb_item_amount \in 0 .. rb_cap /\ rb_cap \in Nat \ {0}
      /\ rb_write_idx \in 0 .. rb_cap - 1 /\ rb_read_idx \in 0 .. rb_cap - 1
      /\ item \in [Thread -> Item \cup {Torn}]
      /\ rb_data \in [0 .. rb_cap - 1 -> Item \cup {Torn}]
      /\ pc \in [Thread -> {"idle"} \cup Past] /\ RbCallOK(t)
  BY RbAssumption DEF RbInv, RbIndexOK, LockedOK
<1>4. /\ \A u \in Thread : u # t => pc'[u] = "idle" /\ call'[u] = "none"
      /\ pc'[t] = "publish"
  BY <1>1, <1>2, <1>3 DEF Goto
<1>5. CASE call[t] = "write"
  <2>1. /\ rb_item_amount < rb_cap /\ UNCHANGED item /\ item[t] \in Item
        /\ rb_data' = [rb_data EXCEPT ![rb_write_idx] = item[t]]
    BY <1>1, <1>3, <1>5 DEF RbCallOK, RbCopyEnds
  <2>2. LockedOK(RbCalls)'
    BY <1>1, <1>3, <2>1, GotoOK DEF RbInv, Past
  <2>3. \A i \in 1 .. rb_item_amount : rb_data'[RbAt(i)] = rb_data[RbAt(i)]
    BY <1>3, <2>1, RbIndices DEF RbInv
  <2>4. /\ RbContents' = RbContents /\ RbIndexOK'
        /\ \A i \in 1 .. rb_item_amount' : rb_data'[RbAt(i)'] \in Item
    BY <1>1, <2>3, RbSameContents
  <2>5. rb_data' \in [0 .. rb_cap - 1 -> Item \cup {Torn}] /\ rb_data'[rb_write_idx] = item[t]
    BY <1>3, <2>1
  <2>6. \A u \in Thread : RbCallOK(u)'
    BY <1>1, <1>4, <1>5, <2>1, <2>5 DEF RbCallOK, RbReads
  <2> QED BY <1>1, <2>2, <2>4, <2>5, <2>6 DEF RbInv, RbFifo!fifoVars
<1>6. CASE call[t] \in RbReads
  <2>1. /\ UNCHANGED rb_data /\ rb_item_amount > 0 /\ item[t] = rb_data[rb_read_idx]
        /\ item' = [item EXCEPT ![t] = rb_data[rb_read_idx]]
    BY <1>1, <1>3, <1>6 DEF RbCallOK, RbReads, RbCopyEnds, Copied
  <2>2. item' = item
    BY <1>3, <2>1
  <2>3. LockedOK(RbCalls)'
    BY <1>1, <1>3, <2>2, GotoOK DEF RbInv, Past
  <2>4. /\ RbContents' = RbContents /\ RbIndexOK'
        /\ \A i \in 1 .. rb_item_amount' : rb_data'[RbAt(i)'] \in Item
    BY <1>1, <2>1, RbSameContents
  <2>5. \A u \in Thread : RbCallOK(u)'
    BY <1>1, <1>4, <1>6, <2>1, <2>2 DEF RbCallOK, RbReads
  <2> QED BY <1>1, <1>3, <2>1, <2>3, <2>4, <2>5 DEF RbInv, RbFifo!fifoVars
<1> QED BY <1>2, <1>5, <1>6 DEF RbCalls

LEMMA RbWriteEndsStep ==
  ASSUME RbInv, NEW t \in Thread, RbWriteEnds(t)
  PROVE  RbInv' /\ [RbFifo!FifoNext]_(RbFifo!fifoVars)
<1>1. /\ pc[t] = "publish" /\ call[t] = "write" /\ Leave(t)
      /\ rb_write_idx' = RbNext(rb_write_idx) /\ rb_item_amount' = rb_item_amount + 1
      /\ rb_wrote' = "OK" /\ UNCHANGED <<rb_data, rb_read_idx, rb_got>>
  BY DEF RbWriteEnds
<1>2. /\ LockedOK(RbCalls)'
      /\ \A u \in Thread : pc'[u] = "idle" /\ call'[u] = "none"
  BY <1>1, LeaveOK DEF RbInv, RbCalls, RbReads
<1>3. /\ rb_item_amount \in 0 .. rb_cap /\ rb_cap \in Nat \ {0}
      /\ rb_write_idx \in 0 .. rb_cap - 1 /\ rb_read_idx \in 0 .. rb_cap - 1
      /\ rb_item_amount < rb_cap /\ item[t] \in Item /\ rb_data[rb_write_idx] = item[t]
      /\ rb_write_idx = RbWrapped(rb_read_idx + rb_item_amount)
      /\ RbNext(rb_write_idx) = IF rb_write_idx + 1 = rb_cap THEN 0 ELSE rb_write_idx + 1
      /\ RbAt(rb_item_amount + 1) = rb_write_idx
  BY <1>1, RbAssumption, RbIndices DEF RbInv, RbIndexOK, RbCallOK
<1>4. RbIndexOK'
  BY <1>1, <1>3 DEF RbIndexOK, RbWrapped
<1>5. \A i : RbAt(i)' = RbAt(i)
  BY <1>1 DEF RbAt
<1>6. \A i \in 1 .. rb_item_amount + 1 : rb_data[RbAt(i)] \in Item
  <2>1. \A i \in 1 .. rb_item_amount : rb_data[RbAt(i)] \in Item
    BY DEF RbInv
  <2> QED BY <1>3, <2>1
<1>7. RbInv'
  BY <1>1, <1>2, <1>4, <1>5, <1>6 DEF RbInv, RbCallOK, RbReads
<1>8. /\ RbContents \in Seq(Item) /\ Len(RbContents) = rb_item_amount
      /\ \A i \in 1 .. rb_item_amount : RbContents[i] = rb_data[RbAt(i)]
  BY RbContentsIs
<1>9. RbContents' = [i \in 1 .. rb_item_amount + 1 |-> rb_data[RbAt(i)]]
  BY <1>1, <1>5 DEF RbContents
<1>10. RbContents' = Append(RbContents, item[t])
  BY <1>3, <1>8, <1>9
<1>11. RbFifo!Write(item[t])
  BY <1>1, <1>3, <1>8, <1>10 DEF RbFifo!Write
<1> QED BY <1>3, <1>7, <1>11 DEF RbFifo!FifoNext

LEMMA RbReadEndsStep ==
  ASSUME RbInv, NEW t \in Thread, RbReadEnds(t)
  PROVE  RbInv' /\ [RbFifo!FifoNext]_(RbFifo!fifoVars)
<1>1. /\ pc[t] = "publish" /\ call[t] \in RbReads /\ Leave(t)
      /\ IF call[t] = "peek"
           THEN UNCHANGED <<rb_read_idx, rb_item_amount>>
           ELSE /\ rb_read_idx' = RbNext(rb_read_idx)
                /\ rb_item_amount' = rb_item_amount - 1
      /\ rb_got' = [call |-> call[t],
                    value |-> IF call[t] = "skip" THEN "NONE" ELSE item[t]]
      /\ UNCHANGED <<rb_data, rb_write_idx, rb_wrote>>
  BY DEF RbReadEnds
<1>2. /\ LockedOK(RbCalls)'
      /\ \A u \in Thread : pc'[u] = "idle" /\ call'[u] = "none"
  BY <1>1, LeaveOK DEF RbInv, RbCalls, RbReads
<1>3. /\ rb_item_amount \in 0 .. rb_cap /\ rb_cap \in Nat \ {0}
      /\ rb_write_idx \in 0 .. rb_cap - 1 /\ rb_read_idx \in 0 .. rb_cap - 1
      /\ rb_item_amount > 0 /\ item[t] = rb_data[rb_read_idx]
      /\ rb_write_idx = RbWrapped(rb_read_idx + rb_item_amount)
      /\ RbNext(rb_read_idx) = IF rb_read_idx + 1 = rb_cap THEN 0 ELSE rb_read_idx + 1
      /\ RbAt(1) = rb_read_idx
  BY <1>1, RbAssumption, RbIndices DEF RbInv, RbIndexOK, RbCallOK
<1>4. /\ RbContents \in Seq(Item) /\ Len(RbContents) = rb_item_amount
      /\ \A i \in 1 .. rb_item_amount : RbContents[i] = rb_data[RbAt(i)]
      /\ RbContents # <<>>
  BY <1>3, RbContentsIs
<1>5. Head(RbContents) = item[t]
  BY <1>3, <1>4
<1>6. CASE call[t] = "peek"
  <2>1. /\ RbContents' = RbContents /\ RbIndexOK'
        /\ \A i \in 1 .. rb_item_amount' : rb_data'[RbAt(i)'] \in Item
    BY <1>1, <1>6, RbSameContents
  <2>2. RbInv'
    BY <1>1, <1>2, <2>1 DEF RbInv, RbCallOK, RbReads
  <2>3. RbFifo!Read(call[t])
    BY <1>1, <1>4, <1>5, <1>6, <2>1 DEF RbFifo!Read
  <2> QED BY <1>1, <2>2, <2>3 DEF RbReads, RbFifo!FifoNext
<1>7. CASE call[t] # "peek"
  <2>1. rb_read_idx' = RbNext(rb_read_idx) /\ rb_item_amount' = rb_item_amount - 1
    BY <1>1, <1>7
  <2>2. RbIndexOK'
    BY <1>1, <1>3, <2>1 DEF RbIndexOK, RbWrapped
  <2>3. \A i \in 1 .. rb_cap : RbAt(i) = RbWrapped(rb_read_idx + i - 1)
    BY RbIndices DEF RbInv
  <2>4. \A i \in 1 .. rb_cap : RbAt(i)' = RbWrapped(rb_read_idx' + i - 1)
    <3> SUFFICES ASSUME NEW i \in 1 .. rb_cap
                 PROVE  (rb_read_idx' + i - 1) % rb_cap = RbWrapped(rb_read_idx' + i - 1)
      BY DEF RbAt
    <3>1. rb_read_idx' \in 0 .. rb_cap - 1
      BY <2>2 DEF RbIndexOK
    <3> DEFINE r == rb_read_idx'
    <3>2. r \in 0 .. rb_cap - 1 /\ rb_cap \in Nat
      BY <1>3, <3>1
    <3> HIDE DEF r
    <3>3. r + i - 1 \in 0 .. 2 * rb_cap - 1
      BY <3>2
    <3>4. (r + i - 1) % rb_cap = RbWrapped(r + i - 1)
      BY <3>3, RbWraps
    <3> QED BY <3>4 DEF r
  <2>5. \A i \in 1 .. rb_item_amount - 1 : RbAt(i)' = RbAt(i + 1)
    BY <1>3, <2>1, <2>3, <2>4 DEF RbWrapped
  <2>6. \A i \in 1 .. rb_item_amount - 1 :
          rb_data[RbAt(i + 1)] \in Item /\ RbContents[i + 1] = rb_data[RbAt(i + 1)]
    BY <1>3, <1>4 DEF RbInv
  <2>7. RbInv'
    BY <1>1, <1>2, <2>1, <2>2, <2>5, <2>6 DEF RbInv, RbCallOK, RbReads
  <2>8. RbContents' = [i \in 1 .. rb_item_amount - 1 |-> rb_data[RbAt(i + 1)]]
    BY <1>1, <2>1, <2>5 DEF RbContents
  <2>9. RbContents' = Tail(RbContents)
    <3> DEFINE n == rb_item_amount - 1
    <3>1. n \in Nat /\ Tail(RbContents) \in Seq(Item) /\ Len(Tail(RbContents)) = n
          /\ \A i \in 1 .. n : Tail(RbContents)[i] = RbContents[i + 1]
      BY <1>3, <1>4
    <3>2. RbContents' = [i \in 1 .. n |-> rb_data[RbAt(i + 1)]]
      BY <2>8
    <3>3. \A i \in 1 .. n : rb_data[RbAt(i + 1)] = Tail(RbContents)[i]
      BY <2>6, <3>1
    <3> HIDE DEF n
    <3>4. RbContents' = [i \in 1 .. n |-> Tail(RbContents)[i]]
      BY <3>2, <3>3
    <3>5. ASSUME NEW q \in Seq(Item), Len(q) = n
          PROVE  q = [i \in 1 .. n |-> q[i]]
      BY <3>5
    <3> QED BY <3>1, <3>4, <3>5
  <2>10. RbFifo!Read(call[t])
    BY <1>1, <1>4, <1>5, <1>7, <2>9 DEF RbFifo!Read
  <2> QED BY <1>1, <2>7, <2>10 DEF RbReads, RbFifo!FifoNext
<1> QED BY <1>6, <1>7

LEMMA RbReinitStep ==
  ASSUME RbInv, RbReinit
  PROVE  RbInv' /\ RbFifo!FifoNext
<1>1. /\ LockReinit /\ rb_write_idx' = 0 /\ rb_read_idx' = 0 /\ rb_item_amount' = 0
      /\ rb_wrote' = "NEW" /\ rb_got' = RbNewGot /\ UNCHANGED rb_data
  BY DEF RbReinit
<1>2. /\ LockedOK(RbCalls)'
      /\ \A u \in Thread : pc'[u] = "idle" /\ call'[u] = "none"
  BY <1>1, LockReinitOK DEF RbInv
<1>3. RbIndexOK'
  BY <1>1, RbAssumption DEF RbIndexOK, RbWrapped
<1>4. RbInv'
  BY <1>1, <1>2, <1>3 DEF RbInv, RbCallOK, RbReads
<1>5. RbContents' = [i \in 1 .. 0 |-> rb_data[RbAt(i)']]
  BY <1>1 DEF RbContents
<1>6. RbContents' = <<>>
  BY <1>5
<1> QED BY <1>1, <1>4, <1>6 DEF RbFifo!FifoNext, RbFifo!Clear, RbFifo!FifoInit, RbNewGot

LEMMA RbStep ==
  ASSUME RbInv, [RbNextStep]_rbAllVars
  PROVE  RbInv' /\ [RbFifo!FifoNext]_(RbFifo!fifoVars)
<1>1. CASE UNCHANGED rbAllVars
  <2>1. RbContents' = RbContents /\ RbIndexOK'
        /\ \A i \in 1 .. rb_item_amount' : rb_data'[RbAt(i)'] \in Item
    BY <1>1, RbSameContents DEF rbAllVars, rbVars
  <2>2. RbInv'
    BY <1>1, <2>1 DEF rbAllVars, rbVars, lockVars, RbInv, LockedOK, RbCallOK
  <2> QED BY <1>1, <2>1, <2>2 DEF rbAllVars, rbVars, RbFifo!fifoVars
<1> QED BY <1>1, RbEnterStep, RbRefuseStep, RbCopyBeginsStep, RbCopyEndsStep, RbWriteEndsStep,
          RbReadEndsStep, RbReinitStep DEF RbNextStep

\* The type of the ring buffer, and what each call under way has done.
THEOREM RingbufInvariant == RbSpec => []RbInv
<1>1. RbInv /\ [RbNextStep]_rbAllVars => RbInv'
  BY RbStep
<1> QED BY <1>1, RbInitStep, PTL DEF RbSpec

\* For any threads and capacity the ring buffer is a FIFO: index, count and slots
\* stay in step, and FULL and EMPTY are true when they are returned.
THEOREM RingbufImplementsFifo == RbSpec => RingbufIsFifo
<1>1. RbInv /\ [RbNextStep]_rbAllVars => [RbFifo!FifoNext]_(RbFifo!fifoVars)
  BY RbStep
<1> QED BY <1>1, RbInitStep, RingbufInvariant, PTL DEF RbSpec, RingbufIsFifo, RbFifo!FifoSpec

-----------------------------------------------------------------------------
(* The snapshot. *)

\* What the thread under way has done.  A set in progress keeps its id fresh: another
\* producer's set may take effect after the comparison, but under an id of its own;
\* nobody else moves what a get copies.
SnCallOK(t) ==
  /\ pc[t] \in Past => lock = t
  /\ pc[t] = "idle" <=> call[t] = "none"
  /\ pc[t] = "checked" => call[t] = "set"
  /\ call[t] = "set" => /\ t \in Producer /\ item[t] \in Item
                        /\ sn_id[t] \in IdOf[t]
                        /\ OwnIds => sn_id[t] # sn_unique
                        /\ pc[t] = "publish" => sn_data = item[t]
  /\ call[t] = "get" /\ pc[t] \in {"copy", "publish"} =>
       item[t] = sn_data /\ sn_unique # 0

SnLeakOK ==
  lock \in Thread /\ pc[lock] \in {"idle", "checked"} => sn_got = "NODATA"

SnVarsOK ==
  /\ lock \in Thread \cup {NoThread}
  /\ pc \in [Thread -> {"idle", "checked"} \cup Past]
  /\ call \in [Thread -> {"none", "set", "get"}]
  /\ item \in [Thread -> Item \cup {Torn, "ZERO"}]
  /\ sn_id \in [Thread -> Id \cup {0}]
  /\ sn_data \in Item \cup {Torn, "ZERO"}

SnInv == SnVarsOK /\ (\A t \in Thread : SnCallOK(t)) /\ SnLeakOK

\* What the register holds, said without the lock.
SnMapOK ==
  /\ \A t \in Thread : SnSetting(t) => SnValue = item[t] /\ SnUnique = sn_id[t]
  /\ (\A t \in Thread : ~SnSetting(t)) => SnValue = sn_data /\ SnUnique = sn_unique

LEMMA SnMaps == SnInv => SnMapOK
<1>1. ASSUME SnInv, NEW t \in Thread, SnSetting(t)
      PROVE  lock = t
  BY <1>1 DEF SnInv, SnCallOK, SnSetting, Past
<1> QED BY <1>1 DEF SnMapOK, SnValue, SnUnique

LEMMA SnMapsNext == SnInv' => SnMapOK'
BY SnMaps, PTL

LEMMA SnInitStep == SnInit => SnInv /\ SnRegister!RegisterInit
<1> SUFFICES ASSUME SnInit PROVE SnInv /\ SnRegister!RegisterInit
  OBVIOUS
<1>1. /\ lock = NoThread /\ pc = [t \in Thread |-> "idle"]
      /\ call = [t \in Thread |-> "none"] /\ item = [t \in Thread |-> Torn]
      /\ sn_data = "ZERO" /\ sn_unique = 0 /\ sn_got = "NEW"
      /\ sn_id = [t \in Thread |-> 0]
  BY DEF SnInit, LockInit
<1>2. SnVarsOK /\ SnLeakOK /\ \A t \in Thread : SnCallOK(t)
  BY <1>1, LockedAssumption DEF SnVarsOK, SnLeakOK, SnCallOK, Past
<1>3. \A t \in Thread : ~SnSetting(t)
  BY <1>1 DEF SnSetting
<1>4. SnValue = sn_data /\ SnUnique = sn_unique
  BY <1>3 DEF SnValue, SnUnique
<1> QED BY <1>1, <1>2, <1>4 DEF SnInv, SnRegister!RegisterInit

\* A step of t that changes neither the slot nor its id and starts or ends no set.
LEMMA SnQuiet ==
  ASSUME SnInv, SnInv', UNCHANGED <<sn_data, sn_unique>>,
         \A t \in Thread : SnSetting(t)' <=> SnSetting(t),
         \A t \in Thread : SnSetting(t) => item'[t] = item[t] /\ sn_id'[t] = sn_id[t]
  PROVE  SnValue' = SnValue /\ SnUnique' = SnUnique
<1>1. SnMapOK /\ SnMapOK'
  BY SnMaps, SnMapsNext
<1>2. CASE \E t \in Thread : SnSetting(t)
  <2>1. PICK t \in Thread : SnSetting(t)
    BY <1>2
  <2>2. SnValue' = item'[t] /\ SnUnique' = sn_id'[t]
    BY <1>1, <2>1 DEF SnMapOK
  <2>3. SnValue = item[t] /\ SnUnique = sn_id[t]
    BY <1>1, <2>1 DEF SnMapOK
  <2> QED BY <2>1, <2>2, <2>3
<1>3. CASE ~(\E t \in Thread : SnSetting(t))
  <2>1. SnValue = sn_data /\ SnUnique = sn_unique
    BY <1>1, <1>3 DEF SnMapOK
  <2>2. SnValue' = sn_data' /\ SnUnique' = sn_unique'
    BY <1>1, <1>3 DEF SnMapOK
  <2> QED BY <2>1, <2>2
<1> QED BY <1>2, <1>3

\* What SnInv and a step of t leave to show: the part of t, and that the others,
\* none of them past the lock, are as they were.
LEMMA SnOthers ==
  ASSUME SnInv, NEW t \in Thread, SnVarsOK', SnCallOK(t)', SnLeakOK',
         \A u \in Thread \ {t} :
           /\ pc'[u] = pc[u] /\ call'[u] = call[u]
           /\ item'[u] = item[u] /\ sn_id'[u] = sn_id[u]
           /\ pc[u] \in Past => lock' = u /\ sn_data' = sn_data
           /\ \/ pc[u] = "idle" \/ sn_unique' = sn_unique
              \/ pc[u] = "checked" /\ (OwnIds => sn_unique' # sn_id[u])
  PROVE  SnInv'
<1> SUFFICES ASSUME NEW u \in Thread \ {t} PROVE SnCallOK(u)'
  BY DEF SnInv
<1>1. SnCallOK(u)
  BY DEF SnInv
<1>2. call[u] # "none" => pc[u] # "idle"
  BY <1>1 DEF SnCallOK
<1>3. (pc[u] = "publish" => pc[u] \in Past) /\ (pc[u] = "copy" => pc[u] \in Past)
  BY DEF Past
<1> QED BY <1>1, <1>2, <1>3 DEF SnCallOK, Past

LEMMA SnCheckStep ==
  ASSUME SnInv, NEW t \in Thread, NEW v \in Item, NEW id \in Id, SnCheck(t, v, id)
  PROVE  SnInv' /\ UNCHANGED (SnRegister!registerVars)
<1>1. /\ t \in Producer /\ id \in IdOf[t] /\ pc[t] = "idle" /\ id # sn_unique
      /\ pc' = [pc EXCEPT ![t] = "checked"] /\ call' = [call EXCEPT ![t] = "set"]
      /\ item' = [item EXCEPT ![t] = v] /\ sn_id' = [sn_id EXCEPT ![t] = id]
      /\ UNCHANGED <<lock, sn_data, sn_unique, sn_got>>
  BY DEF SnCheck, Goto
<1>2. SnVarsOK' /\ SnCallOK(t)' /\ SnLeakOK'
  BY <1>1 DEF SnInv, SnVarsOK, SnCallOK, SnLeakOK, Past
<1>3. SnInv'
  BY <1>1, <1>2, SnOthers DEF SnInv, SnVarsOK, SnCallOK
<1>4. /\ \A u \in Thread : SnSetting(u)' <=> SnSetting(u)
      /\ \A u \in Thread : SnSetting(u) => item'[u] = item[u] /\ sn_id'[u] = sn_id[u]
  BY <1>1 DEF SnInv, SnVarsOK, SnSetting
<1>5. SnValue' = SnValue /\ SnUnique' = SnUnique
  BY <1>1, <1>3, <1>4, SnQuiet
<1> QED BY <1>1, <1>3, <1>5 DEF SnRegister!registerVars

LEMMA SnLocksStep ==
  ASSUME SnInv, NEW t \in Thread, SnSetLocks(t) \/ SnGetLocks(t) \/ SnSetBusy(t)
  PROVE  SnInv' /\ UNCHANGED (SnRegister!registerVars)
<1>0. ASSUME SnInv', UNCHANGED <<sn_data, sn_unique, sn_got>>,
             \A u \in Thread : SnSetting(u)' <=> SnSetting(u),
             \A u \in Thread : SnSetting(u) => item'[u] = item[u] /\ sn_id'[u] = sn_id[u]
      PROVE  SnInv' /\ UNCHANGED (SnRegister!registerVars)
  BY <1>0, SnQuiet DEF SnRegister!registerVars
<1>1. CASE SnSetLocks(t)
  <2>1. /\ pc[t] = "checked" /\ lock = NoThread /\ lock' = t
        /\ pc' = [pc EXCEPT ![t] = "locked"]
        /\ UNCHANGED <<call, item, sn_data, sn_unique, sn_id, sn_got>>
    BY <1>1 DEF SnSetLocks, TryLock, Goto, snVars
  <2>2. SnVarsOK' /\ SnCallOK(t)' /\ SnLeakOK'
    BY <2>1 DEF SnInv, SnVarsOK, SnCallOK, SnLeakOK, Past
  <2>3. \A u \in Thread : pc[u] \notin Past
    BY <2>1, LockedAssumption DEF SnInv, SnCallOK
  <2>4. SnInv'
    BY <2>1, <2>2, <2>3, SnOthers DEF SnInv, SnVarsOK, SnCallOK
  <2>5. \A u \in Thread : SnSetting(u)' <=> SnSetting(u)
    BY <2>1 DEF SnInv, SnVarsOK, SnSetting
  <2> QED BY <1>0, <2>1, <2>4, <2>5
<1>2. CASE SnGetLocks(t)
  <2>1. /\ pc[t] = "idle" /\ lock = NoThread /\ lock' = t
        /\ pc' = [pc EXCEPT ![t] = "locked"] /\ call' = [call EXCEPT ![t] = "get"]
        /\ item' = [item EXCEPT ![t] = Torn]
        /\ UNCHANGED <<sn_data, sn_unique, sn_id, sn_got>>
    BY <1>2 DEF SnGetLocks, Enter, TryLock, Goto, snVars
  <2>2. SnVarsOK' /\ SnCallOK(t)' /\ SnLeakOK'
    BY <2>1 DEF SnInv, SnVarsOK, SnCallOK, SnLeakOK, Past
  <2>3. \A u \in Thread : pc[u] \notin Past
    BY <2>1, LockedAssumption DEF SnInv, SnCallOK
  <2>4. SnInv'
    BY <2>1, <2>2, <2>3, SnOthers DEF SnInv, SnVarsOK, SnCallOK
  <2>5. /\ \A u \in Thread : SnSetting(u)' <=> SnSetting(u)
        /\ \A u \in Thread : SnSetting(u) => item'[u] = item[u]
    BY <2>1 DEF SnInv, SnVarsOK, SnSetting
  <2> QED BY <1>0, <2>1, <2>4, <2>5
<1>3. CASE SnSetBusy(t)
  <2>1. /\ pc[t] = "checked" /\ lock # NoThread /\ UNCHANGED lock
        /\ pc' = [pc EXCEPT ![t] = "idle"] /\ call' = [call EXCEPT ![t] = "none"]
        /\ item' = [item EXCEPT ![t] = Torn]
        /\ UNCHANGED <<sn_data, sn_unique, sn_id, sn_got>>
    BY <1>3 DEF SnSetBusy, Return, Goto, snVars
  <2>2. SnVarsOK' /\ SnCallOK(t)' /\ SnLeakOK'
    BY <2>1 DEF SnInv, SnVarsOK, SnCallOK, SnLeakOK, Past
  <2>3. SnInv'
    BY <2>1, <2>2, SnOthers DEF SnInv, SnVarsOK, SnCallOK
  <2>4. /\ \A u \in Thread : SnSetting(u)' <=> SnSetting(u)
        /\ \A u \in Thread : SnSetting(u) => item'[u] = item[u]
    BY <2>1 DEF SnInv, SnVarsOK, SnSetting
  <2> QED BY <1>0, <2>1, <2>3, <2>4
<1> QED BY <1>1, <1>2, <1>3

\* Only one thread is past the lock.
LEMMA SnAlone ==
  ASSUME SnInv, NEW t \in Thread, pc[t] \in Past
  PROVE  lock = t /\ \A u \in Thread \ {t} : pc[u] \notin Past /\ ~SnSetting(u)
BY DEF SnInv, SnCallOK, SnSetting, Past

LEMMA SnNoDataStep ==
  ASSUME SnInv, NEW t \in Thread, SnNoData(t)
  PROVE  SnInv' /\ SnRegister!GetNothing
<1>1. /\ pc[t] = "locked" /\ call[t] = "get" /\ sn_unique = 0 /\ sn_got' = "NODATA"
      /\ pc' = [pc EXCEPT ![t] = "idle"] /\ call' = [call EXCEPT ![t] = "none"]
      /\ item' = [item EXCEPT ![t] = Torn]
      /\ UNCHANGED <<lock, sn_data, sn_unique, sn_id>>
  BY DEF SnNoData, Return, Goto
<1>2. SnVarsOK' /\ SnCallOK(t)' /\ SnLeakOK'
  BY <1>1 DEF SnInv, SnVarsOK, SnCallOK, SnLeakOK, Past
<1>3. SnInv'
  BY <1>1, <1>2, SnOthers DEF SnInv, SnVarsOK, SnCallOK
<1>4. \A u \in Thread : ~SnSetting(u) /\ ~SnSetting(u)'
  BY <1>1, SnAlone DEF SnInv, SnVarsOK, SnSetting, Past
<1>5. SnValue' = SnValue /\ SnUnique' = SnUnique
  BY <1>1, <1>3, <1>4, SnQuiet
<1>6. SnUnique = 0
  BY <1>1, <1>4, SnMaps DEF SnMapOK
<1> QED BY <1>1, <1>3, <1>5, <1>6 DEF SnRegister!GetNothing

LEMMA SnCopyBeginsStep ==
  ASSUME SnInv, NEW t \in Thread, SnCopyBegins(t)
  PROVE  SnInv' /\ (OwnIds /\ NeverZero => [SnRegister!RegisterNext]_(SnRegister!registerVars))
<1>1. /\ pc[t] = "locked" /\ pc' = [pc EXCEPT ![t] = "copy"]
      /\ UNCHANGED <<lock, call, sn_unique, sn_id, sn_got>>
  BY DEF SnCopyBegins, Goto
<1>2. lock = t /\ \A u \in Thread \ {t} : pc[u] \notin Past /\ ~SnSetting(u)
  BY <1>1, SnAlone DEF Past
<1>3. \A u \in Thread : ~SnSetting(u)
  BY <1>1, <1>2 DEF SnSetting
<1>4. SnValue = sn_data /\ SnUnique = sn_unique
  BY <1>3, SnMaps DEF SnMapOK
<1>5. CASE call[t] = "set"
  <2>1. sn_data' = Torn /\ UNCHANGED item
    BY <1>5 DEF SnCopyBegins
  <2>2. SnVarsOK' /\ SnCallOK(t)' /\ SnLeakOK'
    BY <1>1, <1>5, <2>1 DEF SnInv, SnVarsOK, SnCallOK, SnLeakOK, Past
  <2>3. SnInv'
    BY <1>1, <1>2, <2>1, <2>2, SnOthers DEF SnInv, SnVarsOK
  <2>4. SnSetting(t)'
    BY <1>1, <1>5 DEF SnSetting, SnInv, SnVarsOK
  <2>5. SnValue' = item[t] /\ SnUnique' = sn_id[t]
    BY <1>1, <2>1, <2>3, <2>4, SnMapsNext DEF SnMapOK
  <2>6. item[t] \in Item /\ sn_id[t] \in Id /\ (OwnIds => sn_id[t] # sn_unique)
    BY <1>5 DEF SnInv, SnCallOK, Id
  <2>7. OwnIds /\ NeverZero => SnRegister!Set(item[t], sn_id[t])
    BY <1>1, <1>4, <2>5, <2>6 DEF SnRegister!Set, NeverZero
  <2> QED BY <2>3, <2>6, <2>7 DEF SnRegister!RegisterNext
<1>6. CASE call[t] = "get"
  <2>1. sn_unique # 0 /\ item' = [item EXCEPT ![t] = sn_data] /\ UNCHANGED sn_data
    BY <1>6 DEF SnCopyBegins
  <2>2. SnVarsOK' /\ SnCallOK(t)' /\ SnLeakOK'
    BY <1>1, <1>6, <2>1 DEF SnInv, SnVarsOK, SnCallOK, SnLeakOK, Past
  <2>3. SnInv'
    BY <1>1, <1>2, <2>1, <2>2, SnOthers DEF SnInv, SnVarsOK
  <2>4. \A u \in Thread : ~SnSetting(u)'
    BY <1>1, <1>3, <1>6 DEF SnSetting, SnInv, SnVarsOK
  <2>5. SnValue' = SnValue /\ SnUnique' = SnUnique
    BY <1>1, <1>3, <2>1, <2>3, <2>4, SnQuiet
  <2> QED BY <1>1, <2>3, <2>5 DEF SnRegister!registerVars
<1> QED BY <1>5, <1>6 DEF SnCopyBegins

LEMMA SnCopyEndsStep ==
  ASSUME SnInv, NEW t \in Thread, SnCopyEnds(t)
  PROVE  SnInv' /\ UNCHANGED (SnRegister!registerVars)
<1>1. /\ pc[t] = "copy" /\ pc' = [pc EXCEPT ![t] = "publish"]
      /\ UNCHANGED <<lock, call, sn_unique, sn_id, sn_got>>
  BY DEF SnCopyEnds, Goto
<1>2. lock = t /\ \A u \in Thread \ {t} : pc[u] \notin Past /\ ~SnSetting(u)
  BY <1>1, SnAlone DEF Past
<1>3. SnCallOK(t)
  BY DEF SnInv
<1>4. CASE call[t] = "set"
  <2>1. sn_data' = item[t] /\ UNCHANGED item
    BY <1>4 DEF SnCopyEnds
  <2>2. SnVarsOK' /\ SnCallOK(t)' /\ SnLeakOK'
    BY <1>1, <1>3, <1>4, <2>1 DEF SnInv, SnVarsOK, SnCallOK, SnLeakOK, Past
  <2>3. SnInv'
    BY <1>1, <1>2, <2>1, <2>2, SnOthers DEF SnInv, SnVarsOK
  <2>4. SnSetting(t) /\ SnSetting(t)'
    BY <1>1, <1>4 DEF SnSetting, SnInv, SnVarsOK
  <2>5. SnValue' = item[t] /\ SnUnique' = sn_id[t]
    BY <1>1, <2>1, <2>3, <2>4, SnMapsNext DEF SnMapOK
  <2>6. SnValue = item[t] /\ SnUnique = sn_id[t]
    BY <2>4, SnMaps DEF SnMapOK
  <2> QED BY <1>1, <2>3, <2>5, <2>6 DEF SnRegister!registerVars
<1>5. CASE call[t] # "set"
  <2>1. call[t] = "get" /\ item[t] = sn_data /\ sn_unique # 0
    BY <1>1, <1>3, <1>5 DEF SnCallOK, SnInv, SnVarsOK
  <2>2. item' = [item EXCEPT ![t] = sn_data] /\ UNCHANGED sn_data
    BY <1>5, <2>1 DEF SnCopyEnds, Copied
  <2>3. SnVarsOK' /\ SnCallOK(t)' /\ SnLeakOK'
    BY <1>1, <2>1, <2>2 DEF SnInv, SnVarsOK, SnCallOK, SnLeakOK, Past
  <2>4. SnInv'
    BY <1>1, <1>2, <2>2, <2>3, SnOthers DEF SnInv, SnVarsOK
  <2>5. \A u \in Thread : ~SnSetting(u) /\ ~SnSetting(u)'
    BY <1>1, <1>2, <1>5 DEF SnSetting, SnInv, SnVarsOK
  <2>6. SnValue' = SnValue /\ SnUnique' = SnUnique
    BY <1>1, <2>2, <2>4, <2>5, SnQuiet
  <2> QED BY <1>1, <2>4, <2>6 DEF SnRegister!registerVars
<1> QED BY <1>4, <1>5

LEMMA SnPublishStep ==
  ASSUME SnInv, NEW t \in Thread, SnPublish(t)
  PROVE  SnInv' /\ [SnRegister!RegisterNext]_(SnRegister!registerVars)
<1>1. /\ pc[t] = "publish" /\ lock' = NoThread
      /\ pc' = [pc EXCEPT ![t] = "idle"] /\ call' = [call EXCEPT ![t] = "none"]
      /\ item' = [item EXCEPT ![t] = Torn] /\ UNCHANGED <<sn_data, sn_id>>
      /\ IF call[t] = "set" THEN sn_unique' = sn_id[t] /\ UNCHANGED sn_got
                            ELSE sn_got' = item[t] /\ UNCHANGED sn_unique
  BY DEF SnPublish, Leave, Return, Goto
<1>2. lock = t /\ \A u \in Thread \ {t} : pc[u] \notin Past /\ ~SnSetting(u)
  BY <1>1, SnAlone DEF Past
<1>3. SnCallOK(t)
  BY DEF SnInv
<1>4. SnVarsOK' /\ SnCallOK(t)' /\ SnLeakOK'
  BY <1>1, LockedAssumption DEF SnInv, SnVarsOK, SnCallOK, SnLeakOK, Past
<1>5. ASSUME NEW u \in Thread \ {t}, pc[u] # "idle"
      PROVE  \/ sn_unique' = sn_unique
             \/ pc[u] = "checked" /\ (OwnIds => sn_unique' # sn_id[u])
  <2>1. CASE call[t] = "set"
    <3>1. pc[u] = "checked"
      BY <1>2, <1>5 DEF SnInv, SnVarsOK
    <3>2. /\ u \in Producer /\ sn_id[u] \in IdOf[u]
          /\ t \in Producer /\ sn_id[t] \in IdOf[t]
      BY <1>3, <2>1, <3>1 DEF SnInv, SnCallOK
    <3>3. OwnIds => sn_id[u] # sn_id[t]
      BY <3>2 DEF OwnIds
    <3> QED BY <1>1, <2>1, <3>1, <3>3
  <2>2. CASE call[t] # "set"
    BY <1>1, <2>2
  <2> QED BY <2>1, <2>2
<1>6. SnInv'
  BY <1>1, <1>2, <1>4, <1>5, SnOthers DEF SnInv, SnVarsOK
<1>7. \A u \in Thread : ~SnSetting(u)'
  BY <1>1, <1>2 DEF SnSetting, SnInv, SnVarsOK
<1>8. SnValue' = sn_data /\ SnUnique' = sn_unique'
  BY <1>1, <1>6, <1>7, SnMapsNext DEF SnMapOK
<1>9. CASE call[t] = "set"
  <2>1. SnSetting(t) /\ sn_data = item[t]
    BY <1>1, <1>3, <1>9 DEF SnSetting, SnCallOK
  <2>2. SnValue = item[t] /\ SnUnique = sn_id[t]
    BY <2>1, SnMaps DEF SnMapOK
  <2> QED BY <1>1, <1>6, <1>8, <1>9, <2>1, <2>2 DEF SnRegister!registerVars
<1>10. CASE call[t] # "set"
  <2>1. call[t] = "get" /\ item[t] = sn_data /\ sn_unique # 0
    BY <1>1, <1>3, <1>10 DEF SnCallOK, SnInv, SnVarsOK
  <2>2. \A u \in Thread : ~SnSetting(u)
    BY <1>2, <1>10 DEF SnSetting
  <2>3. SnValue = sn_data /\ SnUnique = sn_unique
    BY <2>2, SnMaps DEF SnMapOK
  <2>4. SnRegister!Get
    BY <1>1, <1>8, <1>10, <2>1, <2>3 DEF SnRegister!Get
  <2> QED BY <1>6, <2>4 DEF SnRegister!RegisterNext
<1> QED BY <1>9, <1>10

LEMMA SnReinitStep ==
  ASSUME SnInv, SnReinit
  PROVE  SnInv' /\ SnRegister!RegisterNext
<1>1. /\ \A t \in Thread : pc[t] = "idle" /\ call[t] = "none"
      /\ lock' = NoThread /\ UNCHANGED <<pc, call, item, sn_id>>
      /\ sn_data' = "ZERO" /\ sn_unique' = 0 /\ sn_got' = "NEW"
  BY DEF SnReinit, LockReinit, AllIdle, SnInv, SnCallOK
<1>2. SnInv'
  BY <1>1, LockedAssumption DEF SnInv, SnVarsOK, SnCallOK, SnLeakOK, Past
<1>3. \A t \in Thread : ~SnSetting(t)'
  BY <1>1 DEF SnSetting
<1>4. SnValue' = "ZERO" /\ SnUnique' = 0
  BY <1>1, <1>2, <1>3, SnMapsNext DEF SnMapOK
<1> QED BY <1>1, <1>2, <1>4 DEF SnRegister!RegisterNext, SnRegister!Clear,
          SnRegister!RegisterInit

LEMMA SnStep ==
  ASSUME SnInv, [SnNextStep]_snAllVars
  PROVE  SnInv' /\ (OwnIds /\ NeverZero => [SnRegister!RegisterNext]_(SnRegister!registerVars))
<1>1. CASE UNCHANGED snAllVars
  <2>1. SnInv' /\ UNCHANGED <<SnValue, SnUnique, sn_got>>
    BY <1>1 DEF snAllVars, snVars, lockVars, SnInv, SnVarsOK, SnCallOK, SnLeakOK, SnValue,
      SnUnique, SnSetting
  <2> QED BY <2>1 DEF SnRegister!registerVars
<1>2. ASSUME NEW t \in Thread, SnNoData(t)
      PROVE  SnInv' /\ [SnRegister!RegisterNext]_(SnRegister!registerVars)
  BY <1>2, SnNoDataStep DEF SnRegister!RegisterNext
<1> QED BY <1>1, <1>2, SnCheckStep, SnLocksStep, SnCopyBeginsStep, SnCopyEndsStep,
          SnPublishStep, SnReinitStep DEF SnNextStep

\* What each call under way has done, and who may have leaked the lock.
THEOREM SnapshotInvariant == SnSpec => []SnInv
<1>1. SnInv /\ [SnNextStep]_snAllVars => SnInv'
  BY SnStep
<1> QED BY <1>1, SnInitStep, PTL DEF SnSpec

\* When no two producers share an id and none uses 0 a snapshot is an atomic register:
\* never half a write, every set under a new id, NODATA only before the first set
\* (ek_snapshot.h:6).
THEOREM SnapshotImplementsRegister ==
  ASSUME OwnIds, NeverZero
  PROVE  SnSpec => SnapshotIsRegister
<1>1. SnInv /\ [SnNextStep]_snAllVars =>
        [SnRegister!RegisterNext]_(SnRegister!registerVars)
  BY SnStep, OwnIds, NeverZero
<1> QED BY <1>1, SnInitStep, SnapshotInvariant, PTL
        DEF SnSpec, SnapshotIsRegister, SnRegister!RegisterSpec

\* Only a get that finds no data forgets the lock (ek_snapshot.c:93-96).
THEOREM SnapshotLeak == SnSpec => []LockLeaksOnlyOnNoData
<1>1. SnInv => LockLeaksOnlyOnNoData
  BY DEF SnInv, SnVarsOK, SnLeakOK, LockLeaksOnlyOnNoData
<1> QED BY <1>1, SnapshotInvariant, PTL

-----------------------------------------------------------------------------
(* The vector. *)

\* The block is as long as the capacity says, and its used part has been written.
VecInv ==
  /\ ve_cap \in Nat /\ ve_amount \in 0 .. ve_cap
  /\ ve_items \in Seq(Item \cup {Torn}) /\ Len(ve_items) = ve_cap
  /\ \A i \in 1 .. ve_amount : ve_items[i] \in Item

\* The used part of a block.
LEMMA PrefixIs ==
  ASSUME NEW S, NEW mem, NEW n \in Nat, \A i \in 1 .. n : mem[i] \in S
  PROVE  /\ SubSeq(mem, 1, n) \in Seq(S)
         /\ Len(SubSeq(mem, 1, n)) = n
         /\ \A i \in 1 .. n : SubSeq(mem, 1, n)[i] = mem[i]
<1> DEFINE l == SubSeq(mem, 1, n)
<1>1. /\ l \in Seq(S) /\ Len(l) = IF 1 <= n THEN n - 1 + 1 ELSE 0
      /\ \A i \in 1 .. n - 1 + 1 : l[i] = mem[1 + i - 1]
  BY SubSeqProperties
<1> QED BY <1>1

LEMMA VecOld ==
  ASSUME VecInv
  PROVE  /\ VeContents \in Seq(Item) /\ Len(VeContents) = ve_amount
         /\ DOMAIN VeContents = 1 .. ve_amount
         /\ \A i \in 1 .. ve_amount : VeContents[i] = ve_items[i]
BY PrefixIs, LenProperties DEF VecInv, VeContents

\* A list l is what a call leaves when the block agrees with it.
LEMMA VecNew ==
  ASSUME NEW l \in Seq(Item), ve_amount' = Len(l),
         \A i \in 1 .. Len(l) : ve_items'[i] = l[i]
  PROVE  VeContents' = l /\ \A i \in 1 .. ve_amount' : ve_items'[i] \in Item
<1>1. \A i \in 1 .. Len(l) : l[i] \in Item
  BY ElementOfSeq
<1> DEFINE k == SubSeq(ve_items', 1, ve_amount')
<1>2. /\ k \in Seq(Item) /\ Len(k) = Len(l)
      /\ \A i \in 1 .. Len(l) : k[i] = ve_items'[i]
  <2>1. Len(l) \in Nat /\ \A i \in 1 .. Len(l) : ve_items'[i] \in Item
    BY <1>1
  <2> HIDE DEF k
  <2>2. QED BY <2>1, PrefixIs DEF k
<1> HIDE DEF k
<1>3. k = l
  BY <1>2, SeqEqual
<1> QED BY <1>1, <1>3 DEF VeContents, k

LEMMA ReallocIs ==
  ASSUME VecInv, NEW n \in Nat, ve_amount <= n
  PROVE  /\ Realloc(n) \in Seq(Item \cup {Torn}) /\ Len(Realloc(n)) = n
         /\ \A i \in 1 .. ve_amount : Realloc(n)[i] = ve_items[i]
<1>1. \A i \in 1 .. Len(ve_items) : ve_items[i] \in Item \cup {Torn}
  BY ElementOfSeq DEF VecInv
<1>2. Realloc(n) \in [1 .. n -> Item \cup {Torn}]
  BY <1>1 DEF Realloc, VecInv
<1>3. Realloc(n) \in Seq(Item \cup {Torn}) /\ Len(Realloc(n)) = n
  BY <1>2, IsASeq
<1>4. \A i \in 1 .. ve_amount : Realloc(n)[i] = ve_items[i]
  BY DEF Realloc, VecInv
<1> QED BY <1>3, <1>4

\* Growing makes room: by half only from a threshold of at least two.
LEMMA GrownIsMore ==
  ASSUME VecInv
  PROVE  Grown \in Nat /\ Grown > ve_cap
<1>1. CASE ve_cap = 0
  BY <1>1, VecAssumption DEF Grown, VecInv
<1>2. CASE ve_cap # 0 /\ ve_cap < Threshold
  BY <1>2 DEF Grown, VecInv
<1>3. CASE ve_cap # 0 /\ ~(ve_cap < Threshold)
  <2>1. Grown = ve_cap + ve_cap \div 2
    BY <1>3 DEF Grown
  <2>2. ve_cap \in Nat /\ ve_cap >= 2
    BY <1>3, VecAssumption DEF VecInv
  <2> QED BY <2>1, <2>2
<1> QED BY <1>1, <1>2, <1>3 DEF VecInv

\* The element is put behind the used part of a block with room for it.
LEMMA PutAppends ==
  ASSUME VecInv, NEW v \in Item, NEW mem \in Seq(Item \cup {Torn}),
         Len(mem) > ve_amount, \A i \in 1 .. ve_amount : mem[i] = ve_items[i],
         ve_items' = Put(mem, v), ve_amount' = ve_amount + 1, ve_cap' = Len(mem)
  PROVE  VecInv' /\ VecCall
<1>1. Len(mem) \in Nat /\ DOMAIN mem = 1 .. Len(mem)
  BY LenProperties
<1>2. /\ ve_items' \in Seq(Item \cup {Torn}) /\ Len(ve_items') = Len(mem)
      /\ ve_items'[ve_amount + 1] = v
      /\ \A i \in 1 .. ve_amount : ve_items'[i] = ve_items[i]
  BY <1>1 DEF Put, VecInv
<1> DEFINE l == Append(VeContents, v)
<1>3. /\ l \in Seq(Item) /\ Len(l) = ve_amount + 1
      /\ \A i \in 1 .. ve_amount : l[i] = ve_items[i]
      /\ l[ve_amount + 1] = v
  BY VecOld, AppendProperties
<1> HIDE DEF l
<1>4. \A i \in 1 .. Len(l) : ve_items'[i] = l[i]
  BY <1>2, <1>3 DEF VecInv
<1>5. VeContents' = l /\ \A i \in 1 .. ve_amount' : ve_items'[i] \in Item
  BY <1>3, <1>4, VecNew
<1>6. ve_amount' <= ve_cap' /\ ve_cap' = Len(ve_items')
  BY <1>1, <1>2 DEF VecInv
<1> QED BY <1>1, <1>2, <1>5, <1>6 DEF VecInv, VecCall, l

LEMMA VeAppendStep ==
  ASSUME VecInv, NEW v \in Item, VeAppend(v) \/ VeAppendGrows(v)
  PROVE  VecInv' /\ VecCall
<1>1. CASE VeAppend(v)
  BY <1>1, PutAppends DEF VeAppend, VecInv
<1>2. CASE VeAppendGrows(v)
  <2>1. Grown \in Nat /\ Grown > ve_amount
    BY GrownIsMore DEF VecInv
  <2>2. /\ Realloc(Grown) \in Seq(Item \cup {Torn}) /\ Len(Realloc(Grown)) = Grown
        /\ \A i \in 1 .. ve_amount : Realloc(Grown)[i] = ve_items[i]
    BY <2>1, ReallocIs DEF VecInv
  <2> QED BY <1>2, <2>1, <2>2, PutAppends DEF VeAppendGrows
<1> QED BY <1>1, <1>2

LEMMA VeRemoveStep ==
  ASSUME VecInv, NEW i \in 1 .. ve_amount, VeRemove(i)
  PROVE  VecInv' /\ VecCall
<1> DEFINE old == VeContents
           n == ve_amount
           a == SubSeq(old, 1, i - 1)
           b == SubSeq(old, i + 1, Len(old))
<1>1. /\ old \in Seq(Item) /\ Len(old) = n /\ DOMAIN old = 1 .. n
      /\ \A j \in 1 .. n : old[j] = ve_items[j] /\ old[j] \in Item
  BY VecOld DEF VecInv
<1>2. n \in Nat /\ i \in 1 .. n
  BY DEF VecInv
<1> HIDE DEF old, n
<1>3. /\ a \in Seq(Item) /\ Len(a) = i - 1
      /\ \A j \in 1 .. i - 1 : a[j] = old[j]
  BY <1>1, <1>2, PrefixIs
<1>4. /\ b \in Seq(Item) /\ Len(b) = n - i
      /\ \A j \in 1 .. n - i : b[j] = old[i + j]
  <2>1. \A j \in i + 1 .. n : old[j] \in Item
    BY <1>1, <1>2
  <2>2. /\ SubSeq(old, i + 1, n) \in Seq(Item)
        /\ Len(SubSeq(old, i + 1, n)) = IF i + 1 <= n THEN n - (i + 1) + 1 ELSE 0
        /\ \A j \in 1 .. n - (i + 1) + 1 :
             SubSeq(old, i + 1, n)[j] = old[(i + 1) + j - 1]
    BY <1>2, <2>1, SubSeqProperties
  <2> QED BY <1>1, <1>2, <2>2
<1> HIDE DEF a, b
<1>5. /\ a \o b \in Seq(Item) /\ Len(a \o b) = n - 1
      /\ \A j \in 1 .. n - 1 : (a \o b)[j] = IF j < i THEN old[j] ELSE old[j + 1]
  <2>1. /\ a \o b \in Seq(Item) /\ Len(a \o b) = (i - 1) + (n - i)
        /\ \A j \in 1 .. (i - 1) + (n - i) :
             (a \o b)[j] = IF j <= i - 1 THEN a[j] ELSE b[j - (i - 1)]
    <3>1. /\ a \o b \in Seq(Item) /\ Len(a \o b) = Len(a) + Len(b)
          /\ \A j \in 1 .. Len(a) + Len(b) :
               (a \o b)[j] = IF j <= Len(a) THEN a[j] ELSE b[j - Len(a)]
      <4>1. a \in Seq(Item) /\ b \in Seq(Item)
        BY <1>3, <1>4
      <4> QED BY <4>1, ConcatProperties
    <3> QED BY <1>3, <1>4, <3>1
  <2>2. ASSUME NEW j \in 1 .. n - 1
        PROVE  (a \o b)[j] = IF j < i THEN old[j] ELSE old[j + 1]
    <3>1. CASE j < i
      BY <1>2, <1>3, <2>1, <3>1
    <3>2. CASE ~(j < i)
      BY <1>2, <1>4, <2>1, <3>2
    <3> QED BY <3>1, <3>2
  <2> QED BY <1>2, <2>1, <2>2
<1>6. ve_items \in Seq(Item \cup {Torn}) /\ Len(ve_items) = ve_cap
      /\ DOMAIN ve_items = 1 .. ve_cap /\ ve_cap \in Nat /\ n <= ve_cap
      /\ \A j \in 1 .. ve_cap : ve_items[j] \in Item \cup {Torn}
  BY LenProperties, ElementOfSeq DEF VecInv, n
<1>7. /\ ve_items' = [j \in 1 .. ve_cap |->
                        IF j \in i .. n - 1 THEN ve_items[j + 1] ELSE ve_items[j]]
      /\ ve_amount' = n - 1 /\ ve_cap' = ve_cap
  BY <1>6 DEF VeRemove, n
<1>8. ve_items' \in Seq(Item \cup {Torn}) /\ Len(ve_items') = ve_cap
  <2>1. ve_items' \in [1 .. ve_cap -> Item \cup {Torn}]
    BY <1>2, <1>6, <1>7
  <2> QED BY <1>6, <2>1, IsASeq
<1>9. \A j \in 1 .. n - 1 : ve_items'[j] = (a \o b)[j]
  BY <1>1, <1>2, <1>5, <1>6, <1>7
<1>10. VeContents' = a \o b /\ \A j \in 1 .. ve_amount' : ve_items'[j] \in Item
  <2> DEFINE l == a \o b
  <2> HIDE DEF l
  <2>1. /\ l \in Seq(Item) /\ ve_amount' = Len(l)
        /\ \A j \in 1 .. Len(l) : ve_items'[j] = l[j]
    BY <1>5, <1>7, <1>9 DEF l
  <2> QED BY <2>1, VecNew DEF l
<1>11. VeContents' = RemoveAt(VeContents, i) /\ i \in DOMAIN VeContents
  BY <1>1, <1>2, <1>10 DEF RemoveAt, a, b, old
<1>12. VecInv'
  <2>1. ve_cap' \in Nat /\ ve_amount' \in 0 .. ve_cap'
    BY <1>2, <1>6, <1>7
  <2> QED BY <1>7, <1>8, <1>10, <2>1 DEF VecInv
<1> QED BY <1>2, <1>6, <1>7, <1>8, <1>11, <1>12 DEF VecCall

LEMMA VeRemoveUnorderStep ==
  ASSUME VecInv, NEW i \in 1 .. ve_amount, VeRemoveUnorder(i)
  PROVE  VecInv' /\ VecCall
<1> DEFINE n == ve_amount
           r == ReplaceAt(VeContents, i, Last(VeContents))
<1>1. /\ VeContents \in Seq(Item) /\ Len(VeContents) = n /\ DOMAIN VeContents = 1 .. n
      /\ \A j \in 1 .. n : VeContents[j] = ve_items[j] /\ VeContents[j] \in Item
  BY VecOld DEF VecInv
<1>2. n \in Nat /\ i \in 1 .. n
  BY DEF VecInv
<1>3. /\ r \in Seq(Item) /\ Len(r) = n
      /\ \A j \in 1 .. n : r[j] = IF j = i THEN ve_items[n] ELSE ve_items[j]
  BY <1>1, <1>2 DEF ReplaceAt, Last
<1> HIDE DEF r, n
<1>4. /\ Front(r) \in Seq(Item) /\ Len(Front(r)) = n - 1
      /\ \A j \in 1 .. n - 1 : Front(r)[j] = r[j]
  <2>1. \A j \in 1 .. n - 1 : r[j] \in Item
    BY <1>2, <1>3, ElementOfSeq
  <2> QED BY <1>2, <1>3, <2>1, PrefixIs DEF Front
<1>5. /\ ve_items \in Seq(Item \cup {Torn}) /\ Len(ve_items) = ve_cap
      /\ ve_cap \in Nat /\ n <= ve_cap /\ ve_items[n] \in Item
  BY <1>2 DEF VecInv, n
<1>6. ve_items' = [ve_items EXCEPT ![i] = ve_items[n]] /\ ve_amount' = n - 1 /\ ve_cap' = ve_cap
  BY DEF VeRemoveUnorder, n
<1>7. /\ ve_items' \in Seq(Item \cup {Torn}) /\ Len(ve_items') = ve_cap
      /\ \A j \in 1 .. n - 1 : ve_items'[j] = Front(r)[j]
  BY <1>2, <1>3, <1>4, <1>5, <1>6
<1>8. VeContents' = Front(r) /\ \A j \in 1 .. ve_amount' : ve_items'[j] \in Item
  BY <1>4, <1>6, <1>7, VecNew
<1> QED BY <1>1, <1>2, <1>5, <1>6, <1>7, <1>8 DEF VecInv, VecCall, r

LEMMA VeResizeStep ==
  ASSUME VecInv, VeClear \/ VeShrink \/ VeShrinkEmpty \/ VeDestroy
  PROVE  VecInv' /\ VecCall
<1>1. ASSUME ve_amount' = 0, ve_items' \in Seq(Item \cup {Torn}),
             ve_cap' \in Nat, Len(ve_items') = ve_cap'
      PROVE  VecInv' /\ VecCall
  <2>1. VeContents' = <<>>
    BY <1>1, SubSeqEmpty DEF VeContents
  <2> QED BY <1>1, <2>1 DEF VecInv, VecCall
<1>2. CASE VeClear
  BY <1>1, <1>2 DEF VeClear, VecInv
<1>3. CASE VeShrinkEmpty \/ VeDestroy
  <2>1. ve_amount' = 0 /\ ve_items' = <<>> /\ ve_cap' = 0
    BY <1>3 DEF VeShrinkEmpty, VeDestroy
  <2> QED BY <1>1, <2>1, EmptySeq
<1>4. CASE VeShrink
  <2>1. /\ ve_items' \in Seq(Item \cup {Torn}) /\ Len(ve_items') = ve_amount
        /\ \A i \in 1 .. ve_amount : ve_items'[i] = ve_items[i]
        /\ ve_amount' = ve_amount /\ ve_cap' = ve_amount
    BY <1>4, ReallocIs DEF VeShrink, VecInv
  <2>2. VeContents' = VeContents /\ \A i \in 1 .. ve_amount' : ve_items'[i] \in Item
    BY <2>1, VecOld, VecNew
  <2> QED BY <2>1, <2>2 DEF VecInv, VecCall
<1> QED BY <1>2, <1>3, <1>4

LEMMA VeStep ==
  ASSUME VecInv, [VeNext]_veVars
  PROVE  VecInv' /\ [VecCall]_veVars
<1>1. CASE UNCHANGED veVars
  BY <1>1 DEF veVars, VecInv
<1> QED BY <1>1, VeAppendStep, VeRemoveStep, VeRemoveUnorderStep, VeResizeStep DEF VeNext

LEMMA VeInitOK == VeInit => VecInv
BY EmptySeq DEF VeInit, VecInv

\* Whatever appends, removals, clears and shrinks came before, a call finds the elements
\* of a list in a block of the length its capacity says (ek_vec.h:118).
THEOREM VectorIsList == VeSpec => VecIsList
<1>1. VeSpec => []VecInv
  BY VeInitOK, VeStep, PTL DEF VeSpec
<1>2. VecInv /\ [VeNext]_veVars => [VecCall]_veVars
  BY VeStep
<1> QED BY <1>1, <1>2, PTL DEF VeSpec, VecIsList

-----------------------------------------------------------------------------
(* The lock-free ring buffer.  The writer owns the slot at write_idx, which is never one *)
(* of the used slots, and the reader the first used slot, which keeps its item.          *)

\* The writer is past its check: there is room, and its slot is not in use.
WriterOK ==
  /\ w_pc # "idle" => w_item \in Item /\ Used < cap - 1
  /\ w_pc = "publish" => data[write_idx] = w_item

\* The reader is past its check: there is an item, and its copy is good.
ReaderOK ==
  /\ r_pc # "idle" => Used > 0
  /\ r_pc = "copy" => r_call # "skip"
  /\ r_pc # "idle" => r_item = data[read_idx]

\* Used slots hold whole items.
SlotsOK == \A i \in 1 .. Used : data[At(i)] \in Item

RingInv == RingTypeOK /\ WriterOK /\ ReaderOK /\ SlotsOK

-----------------------------------------------------------------------------
(* Arithmetic of the indices. *)

\* The modulo of the code is a wrap at cap.
LEMMA NextIdxWraps ==
  ASSUME NEW i \in Slot
  PROVE  NextIdx(i) = IF i + 1 = cap THEN 0 ELSE i + 1
<1>1. cap \in Nat /\ cap > 1
  BY RingAssumption
<1>2. CASE i + 1 = cap
  <2>1. cap % cap = 0
    BY <1>1
  <2> QED BY <1>2, <2>1 DEF NextIdx
<1>3. CASE i + 1 # cap
  <2>1. i + 1 \in 0 .. cap - 1
    BY <1>1, <1>3 DEF Slot
  <2>2. \A j \in 0 .. cap - 1 : j % cap = j
    BY <1>1
  <2> QED BY <1>3, <2>1, <2>2 DEF NextIdx
<1> QED BY <1>2, <1>3

LEMMA SlotArithmetic ==
  ASSUME write_idx \in Slot, read_idx \in Slot
  PROVE  /\ Used \in 0 .. cap - 1
         /\ \A i \in 1 .. Used + 1 : At(i) \in Slot
         /\ \A i \in 1 .. Used : At(i) # write_idx
         /\ At(1) = read_idx
         /\ At(Used + 1) = write_idx
         /\ Used = 0 <=> read_idx = write_idx
         /\ Used = cap - 1 <=> NextIdx(write_idx) = read_idx
         /\ NextIdx(write_idx) \in Slot /\ NextIdx(read_idx) \in Slot
<1>1. cap \in Nat /\ cap > 1
  BY RingAssumption
<1>2. /\ NextIdx(write_idx) = IF write_idx + 1 = cap THEN 0 ELSE write_idx + 1
      /\ NextIdx(read_idx) = IF read_idx + 1 = cap THEN 0 ELSE read_idx + 1
  BY NextIdxWraps
<1> QED BY <1>1, <1>2 DEF Used, At, Slot

\* Contents is a sequence whose length and elements are those of the used slots.
LEMMA ContentsIsSeq ==
  ASSUME RingTypeOK, SlotsOK
  PROVE  /\ Contents \in Seq(Item)
         /\ Len(Contents) = Used
         /\ \A i \in 1 .. Used : Contents[i] = data[At(i)]
         /\ Contents = <<>> <=> Used = 0
<1>1. Used \in Nat
  BY SlotArithmetic DEF RingTypeOK
<1>2. Contents \in [1 .. Used -> Item]
  BY DEF Contents, SlotsOK
<1> QED BY <1>1, <1>2 DEF Contents

\* A write to the writer's slot leaves the contents alone.
LEMMA WriterSlotIsFree ==
  ASSUME RingTypeOK, NEW v,
         data' = [data EXCEPT ![write_idx] = v],
         UNCHANGED <<write_idx, read_idx>>
  PROVE  /\ Used' = Used /\ Contents' = Contents
         /\ SlotsOK => SlotsOK'
         /\ write_idx # read_idx => data'[read_idx] = data[read_idx]
         /\ data'[write_idx] = v
<1>1. /\ write_idx \in Slot /\ read_idx \in Slot
      /\ data \in [Slot -> Item \cup {Torn}]
  BY DEF RingTypeOK
<1>2. Used' = Used /\ \A i : At(i)' = At(i)
  BY DEF Used, At
<1>3. \A i \in 1 .. Used : data'[At(i)] = data[At(i)]
  BY <1>1, SlotArithmetic
<1>4. Contents' = Contents
  BY <1>2, <1>3 DEF Contents
<1> QED BY <1>1, <1>2, <1>3, <1>4 DEF SlotsOK

-----------------------------------------------------------------------------
(* Publishing an index. *)

LEMMA PublishWrite ==
  ASSUME RingInv, w_pc = "publish",
         write_idx' = NextIdx(write_idx), UNCHANGED <<data, read_idx>>
  PROVE  /\ write_idx' \in Slot /\ Used' = Used + 1
         /\ Contents' = Append(Contents, w_item)
         /\ SlotsOK'
<1>1. /\ write_idx \in Slot /\ read_idx \in Slot /\ cap \in Nat /\ cap > 1
      /\ Used < cap - 1 /\ w_item \in Item /\ data[write_idx] = w_item
  BY RingAssumption DEF RingInv, RingTypeOK, WriterOK
<1>2. write_idx' = IF write_idx + 1 = cap THEN 0 ELSE write_idx + 1
  BY <1>1, NextIdxWraps
<1>3. write_idx' \in Slot /\ Used' = Used + 1 /\ Used \in Nat
  BY <1>1, <1>2 DEF Used, Slot
<1>4. \A i : At(i)' = At(i)
  BY DEF At
<1>5. data'[At(Used + 1)] = w_item
  BY <1>1, SlotArithmetic
<1>6. Contents' = [i \in 1 .. Used + 1 |-> data[At(i)]]
  BY <1>3, <1>4 DEF Contents
<1>7. Contents \in Seq(Item) /\ Len(Contents) = Used
      /\ \A i \in 1 .. Used : Contents[i] = data[At(i)]
  BY ContentsIsSeq DEF RingInv
<1>8. \A i \in 1 .. Used + 1 : data[At(i)] \in Item
  <2>1. \A i \in 1 .. Used : data[At(i)] \in Item
    BY DEF RingInv, SlotsOK
  <2> QED BY <1>1, <1>3, <1>5, <2>1
<1>9. Contents' \in Seq(Item) /\ Len(Contents') = Used + 1
      /\ \A i \in 1 .. Used + 1 : Contents'[i] = data[At(i)]
  BY <1>3, <1>6, <1>8
<1>10. Contents' = Append(Contents, w_item)
  <2> DEFINE c == Append(Contents, w_item)
  <2>1. c \in Seq(Item) /\ Len(c) = Used + 1
        /\ (\A i \in 1 .. Used : c[i] = Contents[i]) /\ c[Used + 1] = w_item
    BY <1>1, <1>7, AppendProperties
  <2> HIDE DEF c
  <2>2. \A i \in 1 .. Used + 1 : Contents'[i] = c[i]
    BY <1>3, <1>5, <1>7, <1>9, <2>1
  <2>3. Contents' = c
    BY <1>9, <2>1, <2>2, SeqEqual
  <2> QED BY <2>3 DEF c
<1>11. SlotsOK'
  BY <1>3, <1>4, <1>8 DEF SlotsOK
<1> QED BY <1>3, <1>10, <1>11

LEMMA PublishRead ==
  ASSUME RingInv, r_pc = "publish",
         read_idx' = NextIdx(read_idx), UNCHANGED <<data, write_idx>>
  PROVE  /\ read_idx' \in Slot /\ Used' = Used - 1
         /\ Contents' = Tail(Contents)
         /\ SlotsOK'
<1>1. /\ write_idx \in Slot /\ read_idx \in Slot /\ cap \in Nat /\ cap > 1
      /\ Used > 0
  BY RingAssumption DEF RingInv, RingTypeOK, ReaderOK
<1>2. read_idx' = IF read_idx + 1 = cap THEN 0 ELSE read_idx + 1
  BY <1>1, NextIdxWraps
<1>3. read_idx' \in Slot /\ Used' = Used - 1 /\ Used \in Nat
  BY <1>1, <1>2 DEF Used, Slot
<1>4. ASSUME NEW i \in 1 .. Used - 1
      PROVE  At(i)' = At(i + 1)
  <2>1. i \in Nat /\ 0 < i /\ i < cap
    BY <1>1, <1>3, SlotArithmetic
  <2>2. CASE read_idx + 1 = cap
    BY <1>1, <1>2, <2>1, <2>2 DEF At, Slot
  <2>3. CASE read_idx + 1 # cap
    BY <1>1, <1>2, <2>1, <2>3 DEF At, Slot
  <2> QED BY <2>2, <2>3
<1>5. Contents' = [i \in 1 .. Used - 1 |-> data[At(i + 1)]]
  BY <1>3, <1>4 DEF Contents
<1>6. Contents \in Seq(Item) /\ Len(Contents) = Used /\ Contents # <<>>
      /\ \A i \in 1 .. Used : Contents[i] = data[At(i)] /\ data[At(i)] \in Item
  BY <1>1, ContentsIsSeq DEF RingInv, SlotsOK
<1>7. \A i \in 1 .. Used - 1 : i + 1 \in 1 .. Used
  BY <1>3
<1>8. Contents' \in Seq(Item) /\ Len(Contents') = Used - 1
      /\ \A i \in 1 .. Used - 1 : Contents'[i] = data[At(i + 1)]
  BY <1>1, <1>3, <1>5, <1>6, <1>7
<1>9. Contents' = Tail(Contents)
  <2> DEFINE c == Tail(Contents)
  <2>1. c \in Seq(Item) /\ Len(c) = Used - 1
        /\ \A i \in 1 .. Used - 1 : c[i] = Contents[i + 1]
    BY <1>6, HeadTailProperties
  <2> HIDE DEF c
  <2>2. \A i \in 1 .. Used - 1 : Contents'[i] = c[i]
    BY <1>6, <1>7, <1>8, <2>1
  <2>3. Contents' = c
    BY <1>8, <2>1, <2>2, SeqEqual
  <2> QED BY <2>3 DEF c
<1>10. SlotsOK'
  BY <1>3, <1>4, <1>6, <1>7 DEF SlotsOK
<1> QED BY <1>3, <1>9, <1>10

-----------------------------------------------------------------------------
(* The steps. *)

LEMMA InitStep == RingInit => RingInv /\ Fifo!FifoInit
<1> SUFFICES ASSUME RingInit PROVE RingInv /\ Fifo!FifoInit
  OBVIOUS
<1>1. cap \in Nat /\ cap > 1
  BY RingAssumption
<1>2. Used = 0 /\ RingTypeOK
  BY <1>1 DEF RingInit, RingTypeOK, Used, Slot, Call, NewGot
<1>3. RingInv
  BY <1>2 DEF RingInit, RingInv, WriterOK, ReaderOK, SlotsOK
<1>4. Contents = <<>>
  BY <1>2, <1>3, ContentsIsSeq DEF RingInv
<1> QED BY <1>3, <1>4 DEF RingInit, Fifo!FifoInit, NewGot

\* What a step of one side that leaves indices and slots alone keeps.
LEMMA ShapeKept ==
  ASSUME UNCHANGED <<data, write_idx, read_idx>>
  PROVE  /\ Contents' = Contents /\ Used' = Used
         /\ SlotsOK => SlotsOK'
<1>1. Used' = Used /\ \A i : At(i)' = At(i)
  BY DEF Used, At
<1> QED BY <1>1 DEF Contents, SlotsOK

LEMMA WriterStep ==
  ASSUME RingInv, Writer
  PROVE  RingInv' /\ [Fifo!FifoNext]_(Fifo!fifoVars)
<1> USE DEF RingInv
<1>1. /\ Used \in 0 .. cap - 1 /\ cap \in Nat /\ cap > 1
      /\ Used = 0 <=> read_idx = write_idx
      /\ Used = cap - 1 <=> Full
      /\ Len(Contents) = Used
  BY RingAssumption, SlotArithmetic, ContentsIsSeq DEF RingTypeOK, Full
<1>2. CASE WriteFails
  <2>1. UNCHANGED <<data, write_idx, read_idx, w_pc, w_item, reader>> /\ wrote' = "FULL"
        /\ Used = cap - 1
    BY <1>1, <1>2 DEF WriteFails
  <2>2. Contents' = Contents /\ Used' = Used /\ SlotsOK'
    BY <2>1, ShapeKept
  <2>3. RingInv'
    BY <2>1, <2>2 DEF RingTypeOK, WriterOK, ReaderOK, reader
  <2>4. Fifo!WriteFull
    BY <1>1, <2>1, <2>2 DEF Fifo!WriteFull, reader
  <2> QED BY <2>3, <2>4 DEF Fifo!FifoNext
<1>3. ASSUME NEW v \in Item, WriteBegins(v)
      PROVE  RingInv' /\ [Fifo!FifoNext]_(Fifo!fifoVars)
  <2>1. /\ w_pc = "idle" /\ Used < cap - 1
        /\ w_item' = v /\ w_pc' = "copy"
        /\ data' = [data EXCEPT ![write_idx] = Torn]
        /\ UNCHANGED <<write_idx, read_idx, wrote, reader>>
    BY <1>1, <1>3 DEF WriteBegins
  <2>2. /\ Used' = Used /\ Contents' = Contents /\ SlotsOK'
        /\ Used > 0 => data'[read_idx] = data[read_idx]
    <3>1. /\ RingTypeOK /\ SlotsOK
          /\ UNCHANGED <<write_idx, read_idx>>
          /\ data' = [data EXCEPT ![write_idx] = Torn]
      BY <2>1
    <3>2. /\ Used' = Used /\ Contents' = Contents /\ SlotsOK'
          /\ write_idx # read_idx => data'[read_idx] = data[read_idx]
      BY <3>1, WriterSlotIsFree
    <3> QED BY <1>1, <3>2
  <2>3. RingTypeOK'
    BY <2>1 DEF RingTypeOK, reader
  <2>4. WriterOK' /\ ReaderOK'
    BY <2>1, <2>2 DEF WriterOK, ReaderOK, reader
  <2> QED BY <2>1, <2>2, <2>3, <2>4 DEF Fifo!fifoVars, reader
<1>4. CASE WriteCopies
  <2>1. /\ w_pc = "copy" /\ w_pc' = "publish"
        /\ data' = [data EXCEPT ![write_idx] = w_item]
        /\ UNCHANGED <<write_idx, read_idx, w_item, wrote, reader>>
    BY <1>4 DEF WriteCopies
  <2>2. /\ Used' = Used /\ Contents' = Contents /\ SlotsOK'
        /\ Used > 0 => data'[read_idx] = data[read_idx]
        /\ data'[write_idx] = w_item
    <3>1. /\ RingTypeOK /\ SlotsOK
          /\ UNCHANGED <<write_idx, read_idx>>
          /\ data' = [data EXCEPT ![write_idx] = w_item]
      BY <2>1
    <3>2. /\ Used' = Used /\ Contents' = Contents /\ SlotsOK'
          /\ write_idx # read_idx => data'[read_idx] = data[read_idx]
          /\ data'[write_idx] = w_item
      BY <3>1, WriterSlotIsFree
    <3> QED BY <1>1, <3>2
  <2>3. RingTypeOK'
    BY <2>1 DEF RingTypeOK, reader
  <2>4. WriterOK' /\ ReaderOK'
    BY <2>1, <2>2 DEF WriterOK, ReaderOK, reader
  <2> QED BY <2>1, <2>2, <2>3, <2>4 DEF Fifo!fifoVars, reader
<1>5. CASE WritePublishes
  <2>1. /\ w_pc = "publish" /\ w_pc' = "idle" /\ wrote' = "OK"
        /\ write_idx' = NextIdx(write_idx)
        /\ UNCHANGED <<data, read_idx, w_item, reader>>
    BY <1>5 DEF WritePublishes
  <2>2. /\ write_idx' \in Slot /\ Used' = Used + 1
        /\ Contents' = Append(Contents, w_item) /\ SlotsOK'
    BY <2>1, PublishWrite
  <2>3. RingTypeOK'
    BY <2>1, <2>2 DEF RingTypeOK, reader
  <2>4. WriterOK' /\ ReaderOK'
    BY <1>1, <2>1, <2>2 DEF WriterOK, ReaderOK, reader
  <2>5. w_item \in Item /\ Used < cap - 1
    BY <2>1 DEF WriterOK
  <2>6. Fifo!Write(w_item)
    BY <1>1, <2>1, <2>2, <2>5 DEF Fifo!Write, reader
  <2> QED BY <2>2, <2>3, <2>4, <2>5, <2>6 DEF Fifo!FifoNext
<1> QED BY <1>2, <1>3, <1>4, <1>5 DEF Writer

LEMMA ReaderStep ==
  ASSUME RingInv, Reader
  PROVE  RingInv' /\ [Fifo!FifoNext]_(Fifo!fifoVars)
<1> USE DEF RingInv
<1>1. /\ Used \in 0 .. cap - 1 /\ cap \in Nat /\ cap > 1
      /\ Used = 0 <=> Empty
      /\ Contents = <<>> <=> Used = 0
      /\ Used > 0 => data[read_idx] \in Item /\ Head(Contents) = data[read_idx]
  <2>1. /\ Used \in 0 .. cap - 1 /\ cap \in Nat /\ cap > 1
        /\ Used = 0 <=> Empty
        /\ Contents = <<>> <=> Used = 0
        /\ Contents \in Seq(Item)
        /\ At(1) = read_idx
        /\ \A i \in 1 .. Used : Contents[i] = data[At(i)]
    BY RingAssumption, SlotArithmetic, ContentsIsSeq DEF RingTypeOK, Empty
  <2>2. ASSUME Used > 0
        PROVE  data[read_idx] \in Item /\ Head(Contents) = data[read_idx]
    <3>1. 1 \in 1 .. Used
      BY <2>1, <2>2
    <3>2. Head(Contents) = Contents[1]
      BY <2>1, <2>2
    <3> QED BY <2>1, <3>1, <3>2 DEF SlotsOK
  <2> QED BY <2>1, <2>2
<1>2. ASSUME NEW c \in Call, ReadFails(c)
      PROVE  RingInv' /\ [Fifo!FifoNext]_(Fifo!fifoVars)
  <2>1. /\ UNCHANGED <<data, write_idx, read_idx, r_pc, r_call, r_item, writer>>
        /\ got' = [call |-> c, value |-> "EMPTY"]
        /\ Contents = <<>>
    BY <1>1, <1>2 DEF ReadFails
  <2>2. Contents' = Contents /\ Used' = Used /\ SlotsOK'
    BY <2>1, ShapeKept
  <2>3. RingInv'
    BY <2>1, <2>2 DEF RingTypeOK, WriterOK, ReaderOK, writer
  <2>4. Fifo!ReadEmpty(c)
    BY <2>1, <2>2 DEF Fifo!ReadEmpty, writer
  <2> QED BY <2>3, <2>4 DEF Fifo!FifoNext, Call
<1>3. ASSUME NEW c \in Call, ReadBegins(c)
      PROVE  RingInv' /\ [Fifo!FifoNext]_(Fifo!fifoVars)
  <2>1. /\ Used > 0 /\ r_call' = c
        /\ r_pc' = IF c = "skip" THEN "publish" ELSE "copy"
        /\ r_item' = data[read_idx]
        /\ UNCHANGED <<data, write_idx, read_idx, got, writer>>
    BY <1>1, <1>3 DEF ReadBegins
  <2>2. Contents' = Contents /\ Used' = Used /\ SlotsOK'
    BY <2>1, ShapeKept
  <2>3. RingInv'
    BY <1>1, <2>1, <2>2 DEF RingTypeOK, WriterOK, ReaderOK, writer
  <2> QED BY <2>1, <2>2, <2>3 DEF Fifo!fifoVars, writer
<1>4. CASE ReadCopies
  <2>1. /\ r_pc = "copy" /\ r_pc' = "publish" /\ r_item' = r_item
        /\ UNCHANGED <<data, write_idx, read_idx, r_call, got, writer>>
    BY <1>4 DEF ReadCopies, Copied, ReaderOK
  <2>2. Contents' = Contents /\ Used' = Used /\ SlotsOK'
    BY <2>1, ShapeKept
  <2>3. RingInv'
    BY <2>1, <2>2 DEF RingTypeOK, WriterOK, ReaderOK, writer
  <2> QED BY <2>1, <2>2, <2>3 DEF Fifo!fifoVars, writer
<1>5. CASE ReadPublishes
  <2>1. /\ r_pc = "publish" /\ r_pc' = "idle"
        /\ read_idx' = Advanced
        /\ got' = [call |-> r_call, value |-> IF r_call = "skip" THEN "NONE" ELSE r_item]
        /\ UNCHANGED <<data, write_idx, r_call, r_item, writer>>
    BY <1>5 DEF ReadPublishes
  <2>2. Used > 0 /\ r_item \in Item /\ Head(Contents) = r_item /\ r_call \in Call
    BY <1>1, <2>1 DEF ReaderOK, RingTypeOK
  <2>3. /\ read_idx' \in Slot /\ SlotsOK'
        /\ Contents' = IF r_call = "peek" THEN Contents ELSE Tail(Contents)
        /\ Used' <= Used
    <3>1. CASE r_call = "peek"
      BY <1>1, <2>1, <3>1, ShapeKept DEF Advanced, RingTypeOK
    <3>2. CASE r_call # "peek"
      BY <1>1, <2>1, <3>2, PublishRead DEF Advanced
    <3> QED BY <3>1, <3>2
  <2>4. Used' \in 0 .. cap - 1
    <3>1. CASE r_call = "peek"
      BY <1>1, <2>1, <3>1, ShapeKept DEF Advanced
    <3>2. CASE r_call # "peek"
      BY <1>1, <2>1, <2>2, <3>2, PublishRead DEF Advanced
    <3> QED BY <3>1, <3>2
  <2>5. RingTypeOK'
    BY <2>1, <2>2, <2>3 DEF RingTypeOK, writer
  <2>6. WriterOK' /\ ReaderOK'
    BY <1>1, <2>1, <2>3, <2>4 DEF WriterOK, ReaderOK, writer
  <2>7. Fifo!Read(r_call)
    BY <1>1, <2>1, <2>2, <2>3 DEF Fifo!Read, writer
  <2> QED BY <2>2, <2>3, <2>5, <2>6, <2>7 DEF Fifo!FifoNext, Call
<1> QED BY <1>2, <1>3, <1>4, <1>5 DEF Reader

LEMMA ReinitStep ==
  ASSUME RingInv, Reinit
  PROVE  RingInv' /\ [Fifo!FifoNext]_(Fifo!fifoVars)
<1>1. /\ w_pc = "idle" /\ r_pc = "idle" /\ write_idx' = 0 /\ read_idx' = 0
      /\ wrote' = "NEW" /\ got' = NewGot
      /\ UNCHANGED <<data, w_pc, w_item, r_pc, r_call, r_item>>
  BY DEF Reinit
<1>2. cap \in Nat /\ cap > 1
  BY RingAssumption
<1>3. Used' = 0 /\ RingTypeOK'
  BY <1>1, <1>2 DEF RingInv, RingTypeOK, Used, Slot, Call, NewGot
<1>4. RingInv'
  BY <1>1, <1>3 DEF RingInv, WriterOK, ReaderOK, SlotsOK
<1>5. Contents' = [i \in 1 .. 0 |-> data[At(i)']]
  BY <1>1, <1>3 DEF Contents
<1>6. Contents' = <<>>
  BY <1>5
<1> QED BY <1>1, <1>4, <1>6 DEF Fifo!FifoNext, Fifo!Clear, Fifo!FifoInit, NewGot

LEMMA RingStep ==
  ASSUME RingInv, [RingNext]_ringVars
  PROVE  RingInv' /\ [Fifo!FifoNext]_(Fifo!fifoVars)
<1>1. CASE RingNext
  BY <1>1, WriterStep, ReaderStep, ReinitStep DEF RingNext
<1>2. CASE UNCHANGED ringVars
  <2>1. Contents' = Contents /\ Used' = Used /\ (SlotsOK => SlotsOK')
    BY <1>2, ShapeKept DEF ringVars
  <2>2. RingInv'
    BY <1>2, <2>1 DEF ringVars, writer, reader, RingInv, RingTypeOK, WriterOK, ReaderOK
  <2> QED BY <1>2, <2>1, <2>2 DEF ringVars, writer, reader, Fifo!fifoVars
<1> QED BY <1>1, <1>2

-----------------------------------------------------------------------------
\* The invariant of writer and reader, for any number of slots.
THEOREM RingInvariant == RingSpec => []RingInv
<1>1. RingInit => RingInv
  BY InitStep
<1>2. RingInv /\ [RingNext]_ringVars => RingInv'
  BY RingStep
<1> QED BY <1>1, <1>2, PTL DEF RingSpec

\* Type correctness; a call never returns half an item.
THEOREM RingTypeCorrect == RingSpec => []RingTypeOK
<1>1. RingInv => RingTypeOK
  BY DEF RingInv
<1> QED BY <1>1, RingInvariant, PTL

\* Writer and reader never copy in the same slot at the same time.
THEOREM RingExclusive == RingSpec => []NoSharedSlot
<1>1. RingInv => NoSharedSlot
  <2> SUFFICES ASSUME RingInv, r_pc # "idle" PROVE write_idx # read_idx
    BY DEF NoSharedSlot
  <2>1. Used > 0
    BY DEF RingInv, ReaderOK
  <2>2. Used = 0 <=> read_idx = write_idx
    BY SlotArithmetic DEF RingInv, RingTypeOK
  <2> QED BY <2>1, <2>2
<1> QED BY <1>1, RingInvariant, PTL

\* The ring buffer implements the bounded FIFO: every step of its two sides is
\* one operation of the FIFO or none.
THEOREM RingImplementsFifo == RingSpec => IsFifo
<1>1. RingInit => Fifo!FifoInit
  BY InitStep
<1>2. RingInv /\ [RingNext]_ringVars => [Fifo!FifoNext]_(Fifo!fifoVars)
  BY RingStep
<1> QED BY <1>1, <1>2, RingInvariant, PTL DEF RingSpec, IsFifo, Fifo!FifoSpec
=============================================================================
