-------------------------- MODULE EkLibrary_proofs --------------------------
(***************************************************************************)
(* The string, start-up and the types of the library's passive parts.  The *)
(* growth loop of the string needs induction: a set of naturals that has 0 *)
(* and, with each number, the next one has them all, because the set of    *)
(* those it leaves out would have a least element.                         *)
(***************************************************************************)
EXTENDS EkContainers_proofs, MCLibrary, WellFoundedInduction

-----------------------------------------------------------------------------
(* Induction over the natural numbers, as a fact about sets. *)

LEMMA LeastElement ==
  ASSUME NEW S, S \subseteq Nat, S # {}
  PROVE  \E m \in S : \A k \in S : m <= k
<1> DEFINE R == OpToRel(<, Nat)
<1>1. IsWellFoundedOn(R, Nat)
  BY NatLessThanWellFounded
<1>2. \A k, m \in Nat : k < m => <<k, m>> \in R
  BY DEF OpToRel
<1> HIDE DEF R
<1>3. PICK m \in S : \A k \in S : ~(<<k, m>> \in R)
  BY <1>1, WFMin
<1>4. \A k \in S : ~(k < m)
  BY <1>2, <1>3
<1>5. \A k \in S : m <= k
  BY <1>4
<1> QED BY <1>5

LEMMA Induction ==
  ASSUME NEW S, 0 \in S, \A n \in Nat : n \in S => n + 1 \in S
  PROVE  \A n \in Nat : n \in S
<1> SUFFICES ASSUME Nat \ S # {} PROVE FALSE
  OBVIOUS
<1>1. PICK m \in Nat \ S : \A k \in Nat \ S : m <= k
  BY LeastElement
<1>2. m # 0 /\ m - 1 \in Nat /\ m - 1 \in S
  BY <1>1
<1> QED BY <1>1, <1>2

-----------------------------------------------------------------------------
(* The growth loop of the string. *)

\* f is c followed by n turns of the loop.
IsChain(f, c, n) == f = [k \in 0 .. n |-> IF k = 0 THEN c ELSE Half(f[k - 1])]

LEMMA HalfGrows ==
  ASSUME NEW c \in Nat \ {1}
  PROVE  Half(c) \in Nat /\ Half(c) > c /\ Half(c) >= 3
<1>1. CASE c = 0
  BY <1>1 DEF Half
<1>2. CASE c # 0
  BY <1>2 DEF Half
<1> QED BY <1>1, <1>2

\* Every number of turns has its chain, and each turn but the first gains one or more.
LEMMA ChainExists ==
  ASSUME NEW c \in Nat \ {1}, NEW n \in Nat
  PROVE  \E f : IsChain(f, c, n)
<1> DEFINE S == {m \in Nat : \E f : IsChain(f, c, m)}
<1>1. 0 \in S
  <2>1. IsChain([k \in 0 .. 0 |-> c], c, 0)
    BY DEF IsChain
  <2> QED BY <2>1
<1>2. ASSUME NEW m \in Nat, m \in S PROVE m + 1 \in S
  <2>1. PICK f : IsChain(f, c, m)
    BY <1>2
  <2> DEFINE g == [k \in 0 .. m + 1 |-> IF k = 0 THEN c ELSE Half(f[k - 1])]
  <2>2. \A k \in 0 .. m : g[k] = f[k]
    BY <2>1 DEF IsChain
  <2>3. g = [k \in 0 .. m + 1 |-> IF k = 0 THEN c ELSE Half(g[k - 1])]
    <3>1. \A k \in 0 .. m + 1 : k # 0 => k - 1 \in 0 .. m
      OBVIOUS
    <3> QED BY <2>2, <3>1
  <2>4. IsChain(g, c, m + 1)
    <3> HIDE DEF g
    <3> QED BY <2>3 DEF IsChain
  <2> QED BY <2>4
<1> HIDE DEF S
<1>3. n \in S
  BY <1>1, <1>2, Induction
<1> QED BY <1>3 DEF S

LEMMA ChainGrows ==
  ASSUME NEW c \in Nat \ {1}, NEW n \in Nat, NEW f, IsChain(f, c, n)
  PROVE  \A k \in 0 .. n : f[k] \in Nat \ {1} /\ f[k] >= k /\ (k # 0 => f[k] >= 3)
<1> DEFINE P(k) == f[k] \in Nat \ {1} /\ f[k] >= k /\ (k # 0 => f[k] >= 3)
           S == {k \in Nat : k <= n => P(k)}
<1>1. \A k \in 0 .. n : f[k] = IF k = 0 THEN c ELSE Half(f[k - 1])
  BY DEF IsChain
<1>2. 0 \in S
  BY <1>1
<1>3. ASSUME NEW k \in Nat, k \in S PROVE k + 1 \in S
  <2> SUFFICES ASSUME k + 1 <= n PROVE P(k + 1)
    OBVIOUS
  <2>1. f[k] \in Nat \ {1} /\ f[k] >= k
    BY <1>3
  <2>2. f[k + 1] = Half(f[k])
    BY <1>1
  <2>3. Half(f[k]) \in Nat /\ Half(f[k]) > f[k] /\ Half(f[k]) >= 3
    BY <2>1, HalfGrows
  <2> QED BY <2>1, <2>2, <2>3
<1>4. \A k \in Nat : k \in S
  <2> HIDE DEF S
  <2> QED BY <1>2, <1>3, Induction
<1>5. ASSUME NEW k \in 0 .. n PROVE P(k)
  BY <1>4
<1> QED BY <1>5

\* The loop ends with a capacity that is enough and is none that cannot grow.
LEMMA GrowIsEnough ==
  ASSUME str_cap \in Nat \ {1}, NEW need \in 1 .. MaxLen + 1
  PROVE  Grow(need) \in Nat /\ Grow(need) >= need /\ Grow(need) >= 3
<1> DEFINE n == MaxLen + 2
           turns == CHOOSE f : IsChain(f, str_cap, n)
           enough == {turns[k] : k \in 1 .. n} \ 0 .. need - 1
<1>1. Grow(need) = CHOOSE c \in enough : \A d \in enough : c <= d
  BY DEF Grow, IsChain
<1>2. n \in Nat
  BY StrAssumption
<1>3. IsChain(turns, str_cap, n)
  BY <1>2, ChainExists
<1> HIDE DEF turns
<1>4. \A k \in 0 .. n : turns[k] \in Nat \ {1} /\ turns[k] >= k /\ (k # 0 => turns[k] >= 3)
  BY <1>2, <1>3, ChainGrows
<1>5. enough \subseteq Nat /\ \A d \in enough : d >= need /\ d >= 3
  BY <1>2, <1>4, StrAssumption
<1>6. turns[n] \in enough
  BY <1>2, <1>4, StrAssumption
<1> HIDE DEF enough, n
<1>7. \E c \in enough : \A d \in enough : c <= d
  BY <1>5, <1>6, LeastElement
<1>8. Grow(need) \in enough
  BY <1>1, <1>7
<1> QED BY <1>5, <1>8

-----------------------------------------------------------------------------
(* The string. *)

\* Only the slice of one character has a capacity that cannot grow.
StrInv ==
  /\ StrTypeOK /\ StrSound
  /\ str_cap = 1 => str_block = "slice" /\ str_size = 2
  /\ str_state = "none" => str_cap = 0

LEMMA ExtendKeeps ==
  ASSUME StrInv, NEW n \in Nat, NEW need \in {str_len + n, str_len + n + 1}, Extend(n, need)
  PROVE  StrInv'
<1>1. /\ str_len \in Nat /\ str_cap \in Nat /\ str_size \in Nat /\ MaxLen \in Nat
      /\ str_len + n \in 0 .. MaxLen /\ need \in Nat
  BY StrAssumption DEF StrInv, StrTypeOK, Extend
<1>2. CASE Loops(need)
  BY <1>1, <1>2 DEF Extend, Loops, StrInv, StrTypeOK, StrSound
<1>3. CASE ~Loops(need)
  <2>1. /\ str_state = "live" /\ str_state' = "live"
        /\ str_len' = str_len + n /\ str_nul' = str_len + n
        /\ EnsureCap(need)
    BY <1>3 DEF Extend
  <2>2. CASE str_cap >= need
    BY <1>1, <2>1, <2>2 DEF EnsureCap, StrInv, StrTypeOK, StrSound
  <2>3. CASE ~(str_cap >= need)
    <3>1. str_cap \in Nat \ {1} /\ need \in 1 .. MaxLen + 1
      BY <1>1, <1>3, <2>3 DEF Loops
    <3>2. Grow(need) \in Nat /\ Grow(need) >= need /\ Grow(need) >= 3
      BY <3>1, GrowIsEnough
    <3>3. /\ str_cap' = Grow(need)
          /\ \/ str_size' = need /\ str_block' = "malloc"
             \/ str_size' = Grow(need) /\ str_block' = "realloc"
      BY <2>1, <2>3 DEF EnsureCap
    <3> QED BY <1>1, <2>1, <3>2, <3>3 DEF StrInv, StrTypeOK, StrSound
  <2> QED BY <2>2, <2>3
<1> QED BY <1>2, <1>3

LEMMA NewKeeps ==
  ASSUME StrInv,
         \/ CreateEmpty \/ FreeStr
         \/ \E n \in 1 .. MaxAdd : CreateFrom(n)
         \/ \E start, end \in -MaxLen - 1 .. MaxLen + 1 : Slice(start, end)
  PROVE  StrInv'
<1>1. CASE CreateEmpty \/ FreeStr
  BY <1>1, StrAssumption DEF CreateEmpty, FreeStr, New, StrInv, StrTypeOK, StrSound
<1>2. ASSUME NEW n \in 1 .. MaxAdd, CreateFrom(n) PROVE StrInv'
  <2>1. n \in 1 .. MaxLen /\ n + 1 \in 1 .. MaxLen + 1 /\ str_cap \in Nat \ {1}
    BY <1>2, StrAssumption DEF CreateFrom, StrInv
  <2>2. Grow(n + 1) \in Nat /\ Grow(n + 1) >= n + 1 /\ Grow(n + 1) >= 3
    BY <2>1, GrowIsEnough
  <2> QED BY <1>2, <2>1, <2>2 DEF CreateFrom, New, StrInv, StrTypeOK, StrSound
<1>3. ASSUME NEW start \in -MaxLen - 1 .. MaxLen + 1, NEW end \in -MaxLen - 1 .. MaxLen + 1,
             Slice(start, end)
      PROVE  StrInv'
  <2> DEFINE n == Clamp(end, str_len) - Clamp(start, str_len)
  <2>1. str_len \in 0 .. MaxLen /\ MaxLen \in Nat /\ start \in Int /\ end \in Int
    BY <1>3, StrAssumption DEF StrInv, StrTypeOK
  <2>2. \A i \in Int : Clamp(i, str_len) \in 0 .. str_len
    BY <2>1 DEF Clamp
  <2>3. n > 0 /\ New("live", n, n, n + 1, "slice")
    BY <1>3 DEF Slice
  <2>4. n \in 1 .. MaxLen
    BY <2>1, <2>2, <2>3
  <2> HIDE DEF n
  <2> QED BY <2>1, <2>3, <2>4 DEF New, StrInv, StrTypeOK, StrSound
<1> QED BY <1>1, <1>2, <1>3

LEMMA StrStep == StrInv /\ [StrNext]_strVars => StrInv'
<1> SUFFICES ASSUME StrInv, [StrNext]_strVars PROVE StrInv'
  OBVIOUS
<1>1. CASE UNCHANGED strVars \/ Hung \/ ClearStr
  BY <1>1, StrAssumption DEF strVars, Hung, ClearStr, StrInv, StrTypeOK, StrSound
<1>2. ASSUME NEW n \in 0 .. MaxAdd, AppendLen(n) \/ AppendFmt(n) PROVE StrInv'
  BY <1>2, ExtendKeeps, StrAssumption DEF AppendLen, AppendFmt
<1>3. \A n \in 1 .. MaxAdd : n \in 0 .. MaxAdd
  BY StrAssumption
<1> QED BY <1>1, <1>2, <1>3, NewKeeps DEF StrNext

LEMMA StrInitOK == StrInit => StrInv
BY StrAssumption DEF StrInit, StrInv, StrTypeOK, StrSound

LEMMA StrInvariant == StrSpec => []StrInv
BY StrInitOK, StrStep, PTL DEF StrSpec

\* Whatever was appended, sliced and cleared before, the text fits the capacity and ends
\* at its NUL, a block that was reallocated is as long as its capacity, and the growth
\* loop hangs for the slice of one character only (ek_str.c:211-214).
THEOREM StringSound == StrSpec => []StrSound
BY StrInvariant, PTL DEF StrInv

-----------------------------------------------------------------------------
(* Start-up. *)

\* The functions and the objects that start-up is done with.
Ran == Table \ bt_items
Tried == IF StaticAllocEntry \in bt_items THEN {} ELSE Object \ bt_objs

\* The first failure among the objects tried.
FirstError ==
  IF bt_bad \cap Tried = {}
    THEN bt_error = "OK"
    ELSE \E o \in FirstFailures : bt_error = o.err

\* What has run lies before what has not, whatever was run is up, and the error is the
\* first of those so far.
BootInv ==
  /\ bt_bad \subseteq Object /\ bt_items \subseteq Table /\ bt_objs \subseteq Object
  /\ \A i \in Ran, j \in bt_items : ~Before(j, i)
  /\ \A o \in Tried, p \in bt_objs : o.order <= p.order
  /\ StaticAllocEntry \in bt_items => bt_objs = {}
  /\ bt_up = {i.fn : i \in Ran} \cup {o.name : o \in Tried \ bt_bad}
  /\ FirstError

LEMMA AllocIs ==
  /\ StaticAllocEntry \in Table /\ StaticAllocEntry \in LibEntry
  /\ \A i \in Table : i.fn = "static_alloc" <=> i = StaticAllocEntry
BY BootAssumption DEF Table, LibEntry, HeapEntry, PtEntry, EvokeEntry, IoEntry,
  StaticAllocEntry, Earliest, Components, Entry

\* A function whose turn it is finds what it uses.
LEMMA FindsWhatItUses ==
  ASSUME BootInv, NEW i \in Table, \A j \in bt_items : ~Before(j, i), NEW uses, Behind(uses, i)
  PROVE  uses \subseteq bt_up
<1> SUFFICES ASSUME NEW f \in uses PROVE f \in bt_up
  OBVIOUS
<1>1. PICK j \in Table : j.fn = f /\ Before(j, i)
  BY DEF Behind
<1>2. j \in Ran
  BY <1>1 DEF Ran
<1> QED BY <1>1, <1>2 DEF BootInv

LEMMA BootStep ==
  ASSUME Ordered, BootInv, [BtNext]_btVars
  PROVE  BootInv'
<1> USE DEF Ran
<1>1. CASE UNCHANGED btVars
  BY <1>1 DEF btVars, BootInv, Tried, FirstError, FirstFailures
<1>2. CASE Reset
  <2>1. StaticAllocEntry \in Table
    BY AllocIs
  <2> QED BY <1>2, <2>1 DEF Reset, BootInv, Tried, FirstError
<1>3. ASSUME NEW i \in bt_items, RunExport(i) PROVE BootInv'
  <2>1. /\ i \in Table /\ bt_objs = {} /\ (\A j \in bt_items : ~Before(j, i))
        /\ bt_items' = bt_items \ {i} /\ UNCHANGED bt_bad
        /\ bt_bad \subseteq Object /\ bt_items \subseteq Table
    BY <1>3 DEF RunExport, BootInv
  <2>2. i.uses \subseteq bt_up
    BY <2>1, FindsWhatItUses DEF Ordered
  <2>3. bt_up' = bt_up \cup {i.fn}
    BY <1>3, <2>2 DEF RunExport, Works
  <2>4. \A k \in Ran', j \in bt_items' : ~Before(j, k)
    BY <2>1 DEF BootInv
  <2>5. CASE i = StaticAllocEntry
    <3>1. bt_objs' = Object /\ bt_error' = "OK"
      BY <1>3, <2>5 DEF RunExport, StaticAllocEntry, Components, Entry
    <3>2. Tried = {} /\ Tried' = {}
      BY <2>1, <2>5, <3>1 DEF Tried
    <3>3. bt_up' = {k.fn : k \in Ran'} \cup {o.name : o \in (Tried \ bt_bad)'}
      BY <2>1, <2>3, <3>2 DEF BootInv
    <3> QED BY <2>1, <2>4, <3>1, <3>2, <3>3, <2>5 DEF BootInv, FirstError
  <2>6. CASE i # StaticAllocEntry
    <3>1. UNCHANGED <<bt_objs, bt_error>>
      BY <1>3, <2>1, <2>6, AllocIs DEF RunExport
    <3>2. Tried' = Tried
      BY <2>1, <2>6, <3>1 DEF Tried
    <3>3. bt_up' = {k.fn : k \in Ran'} \cup {o.name : o \in (Tried \ bt_bad)'}
      BY <2>1, <2>3, <3>2 DEF BootInv
    <3> QED BY <2>1, <2>4, <3>1, <3>2, <3>3 DEF BootInv, FirstError, FirstFailures
  <2> QED BY <2>5, <2>6
<1>4. ASSUME NEW o \in bt_objs, InitObject(o) PROVE BootInv'
  <2>1. /\ o \in Object /\ StaticAllocEntry \in Table /\ StaticAllocEntry \notin bt_items
        /\ bt_objs' = bt_objs \ {o} /\ UNCHANGED <<bt_bad, bt_items>>
        /\ bt_bad \subseteq Object /\ bt_items \subseteq Table /\ bt_objs \subseteq Object
    BY <1>4, AllocIs DEF InitObject, BootInv
  <2>2. \A p \in Object : p.order \in Nat
    BY BootAssumption
  <2>3. \A p \in bt_objs : o.order <= p.order
    BY <1>4, <2>1, <2>2 DEF InitObject
  <2>4. o.uses \subseteq bt_up
    <3>1. \A j \in bt_items : ~Before(j, StaticAllocEntry)
      BY <2>1 DEF BootInv
    <3>2. Behind(o.uses, StaticAllocEntry)
      BY <2>1, AllocIs DEF Ordered
    <3> QED BY <2>1, <3>1, <3>2, FindsWhatItUses
  <2>5. InitError(o) = IF o \in bt_bad THEN o.err ELSE "OK"
    BY <2>4 DEF InitError, Works
  <2>6. Tried = Object \ bt_objs /\ Tried' = Tried \cup {o}
    BY <2>1 DEF Tried
  <2>7. \A q \in Tried', p \in bt_objs' : q.order <= p.order
    BY <2>1, <2>3, <2>6 DEF BootInv
  <2>8. bt_up' = {k.fn : k \in Ran'} \cup {p.name : p \in (Tried \ bt_bad)'}
    <3>1. bt_up' = IF o \in bt_bad THEN bt_up ELSE bt_up \cup {o.name}
      BY <1>4, <2>1, <2>5, BootAssumption DEF InitObject
    <3> QED BY <2>1, <2>6, <3>1 DEF BootInv
  <2>9. FirstError'
    <3>1. bt_error' = IF bt_error = "OK" /\ o \in bt_bad THEN o.err ELSE bt_error
      BY <1>4, <2>5 DEF InitObject, KeepFirst
    <3>2. UNCHANGED FirstFailures /\ \A p \in FirstFailures : p.err # "OK"
      BY <2>1, BootAssumption DEF FirstFailures
    <3>3. CASE bt_bad \cap Tried # {}
      <4>1. PICK p \in FirstFailures : bt_error = p.err
        BY <3>3 DEF BootInv, FirstError
      <4> QED BY <2>1, <2>6, <3>1, <3>2, <3>3, <4>1 DEF FirstError
    <3>4. CASE bt_bad \cap Tried = {} /\ o \in bt_bad
      <4>1. bt_error' = o.err
        BY <3>1, <3>4 DEF BootInv, FirstError
      <4>2. bt_bad \subseteq bt_objs
        BY <2>1, <2>6, <3>4
      <4>3. o \in FirstFailures
        BY <2>2, <2>3, <2>1, <3>4, <4>2 DEF FirstFailures
      <4> QED BY <2>1, <2>6, <3>2, <3>4, <4>1, <4>3 DEF FirstError
    <3>5. CASE bt_bad \cap Tried = {} /\ o \notin bt_bad
      BY <2>1, <2>6, <3>1, <3>5 DEF BootInv, FirstError
    <3> QED BY <3>3, <3>4, <3>5
  <2> QED BY <2>1, <2>7, <2>8, <2>9 DEF BootInv
<1> QED BY <1>1, <1>2, <1>3, <1>4 DEF BtNext

LEMMA BootInitOK == BtInit => BootInv
BY AllocIs DEF BtInit, BootInv, Ran, Tried, FirstError

\* What has run lies before what has not and has been set up, in every order that
\* qsort may choose.
THEOREM BootInvariant ==
  ASSUME Ordered
  PROVE  BtSpec => []BootInv
BY BootInitOK, BootStep, PTL DEF BtSpec

\* Whatever an application exports and registers, if each function comes behind those
\* it uses, start-up leaves everything set up that can be and reports the first failure
\* (ek_static_alloc.h:82).
THEOREM StartUpCompletes ==
  ASSUME Ordered
  PROVE  BtSpec => []BootComplete
<1>1. BootInv => BootComplete
  <2> SUFFICES ASSUME BootInv, bt_items = {}, bt_objs = {}
               PROVE  /\ bt_up = Functions \cup {o.name : o \in Object \ bt_bad}
                      /\ IF bt_bad = {} THEN bt_error = "OK"
                                        ELSE \E o \in FirstFailures : bt_error = o.err
    BY DEF BootComplete
  <2>1. Ran = Table /\ Tried = Object /\ bt_bad \cap Object = bt_bad
    BY DEF Ran, Tried, BootInv
  <2> QED BY <2>1 DEF BootInv, FirstError, Functions
<1> QED BY <1>1, BootInvariant, PTL

\* Type correctness of start-up, whatever is exported.
LEMMA BootTypes == BtSpec => []BtTypeOK
<1>1. BtInit => BtTypeOK
  BY DEF BtInit, BtTypeOK
<1>2. BtTypeOK /\ [BtNext]_btVars => BtTypeOK'
  <2> SUFFICES ASSUME BtTypeOK, [BtNext]_btVars PROVE BtTypeOK'
    OBVIOUS
  <2>1. CASE UNCHANGED btVars \/ Reset
    BY <2>1 DEF btVars, Reset, BtTypeOK
  <2>2. ASSUME NEW i \in bt_items, RunExport(i) PROVE BtTypeOK'
    <3>1. i.fn \in Functions
      BY DEF BtTypeOK, Functions
    <3> QED BY <2>2, <3>1 DEF RunExport, BtTypeOK
  <2>3. ASSUME NEW o \in bt_objs, InitObject(o) PROVE BtTypeOK'
    <3>1. o \in Object
      BY DEF BtTypeOK
    <3>2. bt_error' \in {"OK"} \cup {p.err : p \in Object}
      BY <2>3, <3>1 DEF InitObject, InitError, KeepFirst, BtTypeOK
    <3> QED BY <2>3, <3>1, <3>2 DEF InitObject, BtTypeOK
  <2> QED BY <2>1, <2>2, <2>3 DEF BtNext
<1> QED BY <1>1, <1>2, PTL DEF BtSpec

-----------------------------------------------------------------------------
(* The types of the containers. *)

LEMMA LockTypes ==
  ASSUME NEW C, LockedOK(C), C \subseteq {"write", "read", "skip", "peek", "push", "pop"}
  PROVE  LockTypeOK
BY DEF LockedOK, LockTypeOK, Past

\* The results of the ring buffer's calls.
RbResultOK ==
  /\ rb_wrote \in {"OK", "FULL", "NEW"}
  /\ rb_got \in [call : RbReads, value : Item \cup {"EMPTY", "NONE", "NEW"}]

LEMMA RbResultStep ==
  ASSUME RbInv, RbResultOK, [RbNextStep]_rbAllVars
  PROVE  RbResultOK'
<1> USE DEF RbResultOK
<1>1. CASE UNCHANGED rbAllVars \/ RbReinit
  BY <1>1 DEF rbAllVars, rbVars, RbReinit, RbNewGot, RbReads
<1>2. ASSUME NEW t \in Thread, RbRefuse(t) PROVE RbResultOK'
  <2>1. call[t] \in RbCalls
    BY <1>2 DEF RbRefuse, RbInv, LockedOK
  <2> QED BY <1>2, <2>1 DEF RbRefuse, RbCalls
<1>3. ASSUME NEW t \in Thread, RbReadEnds(t) PROVE RbResultOK'
  <2>1. rb_item_amount > 0 /\ item[t] = rb_data[rb_read_idx] /\ rb_item_amount \in Nat
    BY <1>3 DEF RbReadEnds, RbInv, RbCallOK, RbIndexOK
  <2>2. RbAt(1) = rb_read_idx
    BY <2>1, RbIndices DEF RbInv, RbIndexOK
  <2>3. item[t] \in Item
    BY <2>1, <2>2 DEF RbInv
  <2> QED BY <1>3, <2>3 DEF RbReadEnds
<1>4. ASSUME NEW t \in Thread,
             RbEnter(t) \/ RbCopyBegins(t) \/ RbCopyEnds(t) \/ RbWriteEnds(t)
      PROVE  RbResultOK'
  BY <1>4 DEF RbEnter, rbVars, RbCopyBegins, RbCopyEnds, RbWriteEnds
<1> QED BY <1>1, <1>2, <1>3, <1>4 DEF RbNextStep

\* Type correctness of the ring buffer; a call never returns half an item.
LEMMA RingbufTypes == RbSpec => [](RbTypeOK /\ LockTypeOK)
<1>1. RbInit => RbInv /\ RbResultOK
  BY RbInitStep DEF RbInit, RbResultOK, RbNewGot, RbReads
<1>2. RbInv /\ RbResultOK /\ [RbNextStep]_rbAllVars => RbInv' /\ RbResultOK'
  BY RbStep, RbResultStep
<1>3. RbInv /\ RbResultOK => RbTypeOK /\ LockTypeOK
  BY LockTypes DEF RbInv, RbIndexOK, RbResultOK, RbTypeOK, RbCalls, RbReads
<1> QED BY <1>1, <1>2, <1>3, PTL DEF RbSpec

\* Type correctness of the stack.
LEMMA StackTypes == StSpec => [](StTypeOK /\ LockTypeOK)
<1>1. StInv => StTypeOK /\ LockTypeOK
  BY LockTypes DEF StInv, StTypeOK, StCalls
<1> QED BY <1>1, StackInvariant, PTL

\* Outside a set's copy the slot has whole data, and data of a set once it has an id;
\* a get under way has copied it.
SnWriting(t) == call[t] = "set" /\ pc[t] = "copy"
SnTyped ==
  /\ sn_unique \in Id \cup {0}
  /\ sn_got \in Item \cup {"NODATA", "NEW"}
  /\ (\A t \in Thread : ~SnWriting(t)) =>
       sn_data \in Item \cup {"ZERO"} /\ (sn_unique # 0 => sn_data \in Item)
  /\ item \in [Thread -> Item \cup {Torn}]

LEMMA SnTypedStep ==
  ASSUME SnInv, SnInv', SnTyped, [SnNextStep]_snAllVars
  PROVE  SnTyped'
<1> DEFINE Whole == \A t \in Thread : ~SnWriting(t)
<1>0. /\ pc \in [Thread -> {"idle", "checked"} \cup Past]
      /\ call \in [Thread -> {"none", "set", "get"}]
      /\ item \in [Thread -> Item \cup {Torn}]
      /\ sn_id \in [Thread -> Id \cup {0}]
  BY DEF SnInv, SnVarsOK, SnTyped
<1>1. CASE UNCHANGED snAllVars
  BY <1>1 DEF snAllVars, snVars, lockVars, SnTyped, SnWriting
<1>2. CASE SnReinit
  BY <1>2 DEF SnReinit, LockReinit, SnTyped, SnWriting
<1>3. ASSUME NEW t \in Thread, NEW v \in Item, NEW id \in Id, SnCheck(t, v, id)
      PROVE  SnTyped'
  <2>1. Whole' => Whole
    BY <1>0, <1>3 DEF SnCheck, Goto, SnWriting
  <2> QED BY <1>0, <1>3, <2>1 DEF SnCheck, SnTyped
<1>4. ASSUME NEW t \in Thread, SnSetLocks(t) \/ SnSetBusy(t) \/ SnGetLocks(t) \/ SnNoData(t)
      PROVE  SnTyped'
  <2>1. /\ UNCHANGED <<sn_data, sn_unique>>
        /\ sn_got' \in {sn_got, "NODATA"}
        /\ item' \in {item, [item EXCEPT ![t] = Torn]}
    BY <1>4 DEF SnSetLocks, SnSetBusy, SnGetLocks, SnNoData, snVars, Enter, Return
  <2>2. Whole' => Whole
    BY <1>0, <1>4 DEF SnSetLocks, SnSetBusy, SnGetLocks, SnNoData, Enter, Return, Goto, SnWriting
  <2> QED BY <1>0, <2>1, <2>2 DEF SnTyped
<1>5. ASSUME NEW t \in Thread, SnCopyBegins(t) PROVE SnTyped'
  <2>1. /\ pc[t] = "locked" /\ pc' = [pc EXCEPT ![t] = "copy"]
        /\ UNCHANGED <<call, sn_unique, sn_got>>
    BY <1>5 DEF SnCopyBegins, Goto
  <2>2. CASE call[t] = "set"
    <3>1. SnWriting(t)' /\ UNCHANGED item
      BY <1>0, <1>5, <2>1, <2>2 DEF SnCopyBegins, SnWriting
    <3> QED BY <1>0, <2>1, <3>1 DEF SnTyped
  <2>3. CASE call[t] # "set"
    <3>1. Whole' = Whole
      BY <1>0, <2>1, <2>3 DEF SnWriting
    <3>2. Whole
      BY <2>1, SnAlone DEF SnWriting, Past
    <3>3. sn_unique # 0 /\ item' = [item EXCEPT ![t] = sn_data] /\ UNCHANGED sn_data
      BY <1>5, <2>3 DEF SnCopyBegins
    <3>4. sn_data \in Item
      BY <3>2, <3>3 DEF SnTyped
    <3> QED BY <1>0, <2>1, <3>1, <3>3, <3>4 DEF SnTyped
  <2> QED BY <2>2, <2>3
<1>6. ASSUME NEW t \in Thread, SnCopyEnds(t) PROVE SnTyped'
  <2>1. /\ pc[t] = "copy" /\ pc' = [pc EXCEPT ![t] = "publish"]
        /\ UNCHANGED <<call, sn_unique, sn_got>> /\ SnCallOK(t)
    BY <1>6 DEF SnCopyEnds, Goto, SnInv
  <2>2. CASE call[t] = "set"
    <3>1. sn_data' = item[t] /\ item[t] \in Item /\ UNCHANGED item
      BY <1>6, <2>1, <2>2 DEF SnCopyEnds, SnCallOK
    <3> QED BY <1>0, <2>1, <3>1 DEF SnTyped
  <2>3. CASE call[t] # "set"
    <3>1. Whole' = Whole
      BY <1>0, <2>1, <2>3 DEF SnWriting
    <3>2. item[t] = sn_data
      BY <1>0, <2>1, <2>3 DEF SnCallOK
    <3>3. item' = [item EXCEPT ![t] = item[t]] /\ UNCHANGED sn_data
      BY <1>6, <2>3, <3>2 DEF SnCopyEnds, Copied
    <3> QED BY <1>0, <2>1, <3>1, <3>3 DEF SnTyped
  <2> QED BY <2>2, <2>3
<1>7. ASSUME NEW t \in Thread, SnPublish(t) PROVE SnTyped'
  <2>1. /\ pc[t] = "publish" /\ call' = [call EXCEPT ![t] = "none"]
        /\ pc' = [pc EXCEPT ![t] = "idle"] /\ item' = [item EXCEPT ![t] = Torn]
        /\ UNCHANGED sn_data /\ SnCallOK(t)
        /\ IF call[t] = "set" THEN sn_unique' = sn_id[t] /\ UNCHANGED sn_got
                              ELSE sn_got' = item[t] /\ UNCHANGED sn_unique
    BY <1>7 DEF SnPublish, Leave, Return, Goto, SnInv
  <2>2. Whole
    BY <2>1, SnAlone DEF SnWriting, Past
  <2>3. CASE call[t] = "set"
    <3>1. sn_data \in Item
      BY <2>1, <2>3 DEF SnCallOK
    <3> QED BY <1>0, <2>1, <2>3, <3>1 DEF SnTyped
  <2>4. CASE call[t] # "set"
    <3>1. item[t] = sn_data /\ sn_unique # 0
      BY <1>0, <2>1, <2>4 DEF SnCallOK, Past
    <3>2. sn_data \in Item
      BY <2>2, <3>1 DEF SnTyped
    <3> QED BY <1>0, <2>1, <2>4, <3>1, <3>2 DEF SnTyped
  <2> QED BY <2>3, <2>4
<1> QED BY <1>1, <1>2, <1>3, <1>4, <1>5, <1>6, <1>7 DEF SnNextStep

\* Type correctness of the snapshot; a get never returns half a write.
LEMMA SnapshotTypes == SnSpec => [](SnTypeOK /\ LockTypeOK)
<1>1. SnInit => SnInv /\ SnTyped
  <2> SUFFICES ASSUME SnInit PROVE SnTyped
    BY SnInitStep
  <2> QED BY DEF SnInit, LockInit, SnTyped
<1>2. SnInv /\ SnTyped /\ [SnNextStep]_snAllVars => SnInv' /\ SnTyped'
  BY SnStep, SnTypedStep
<1>3. SnInv /\ SnTyped => SnTypeOK /\ LockTypeOK
  BY DEF SnInv, SnVarsOK, SnTyped, SnTypeOK, LockTypeOK, Past
<1> QED BY <1>1, <1>2, <1>3, PTL DEF SnSpec

\* Type correctness of the vector.
VecBounded == VecInv /\ ve_amount \in 0 .. MaxAmount

LEMMA VectorTypes == VeSpec => []VeTypeOK
<1>1. VeInit => VecBounded
  BY VeInitOK, VecAssumption DEF VeInit, VecBounded
<1>2. VecBounded /\ [VeNext]_veVars => VecBounded'
  <2> SUFFICES ASSUME VecBounded, [VeNext]_veVars
               PROVE  ve_amount' \in 0 .. MaxAmount
    BY VeStep DEF VecBounded
  <2> QED BY VecAssumption DEF VecBounded, VeNext, VeAppend, VeAppendGrows, VeRemove,
            VeRemoveUnorder, VeClear, VeShrink, VeShrinkEmpty, VeDestroy, veVars
<1>3. VecBounded => VeTypeOK
  BY DEF VecBounded, VecInv, VeTypeOK
<1> QED BY <1>1, <1>2, <1>3, PTL DEF VeSpec

-----------------------------------------------------------------------------
(* The library. *)

Locked == {"ringbuf", "stack", "snapshot"}

\* A behaviour stays with its subject.
LEMMA SubjectStays ==
  /\ LibrarySpec /\ subject = "ringbuf" => [](subject = "ringbuf")
  /\ LibrarySpec /\ subject = "stack" => [](subject = "stack")
  /\ LibrarySpec /\ subject = "snapshot" => [](subject = "snapshot")
  /\ LibrarySpec /\ subject \notin Locked => [](subject \notin Locked)
<1>1. [LibraryNext]_libraryVars => subject' = subject
  BY DEF LibraryNext, libraryVars
<1>2. subject = "ringbuf" /\ [LibraryNext]_libraryVars => (subject = "ringbuf")'
  BY <1>1
<1>3. subject = "stack" /\ [LibraryNext]_libraryVars => (subject = "stack")'
  BY <1>1
<1>4. subject = "snapshot" /\ [LibraryNext]_libraryVars => (subject = "snapshot")'
  BY <1>1
<1>5. subject \notin Locked /\ [LibraryNext]_libraryVars => (subject \notin Locked)'
  BY <1>1
<1> QED BY <1>2, <1>3, <1>4, <1>5, PTL DEF LibrarySpec

\* Side by side each part behaves as it does alone: the lock is that of the one
\* container whose calls a behaviour is about.
LEMMA LibraryComposes ==
  /\ LibrarySpec => RingSpec /\ BtSpec /\ VeSpec /\ StrSpec
  /\ LibrarySpec /\ subject = "ringbuf" => RbSpec
  /\ LibrarySpec /\ subject = "stack" => StSpec
  /\ LibrarySpec /\ subject = "snapshot" => SnSpec
<1> USE DEF libraryVars, lockVars, rbAllVars, stAllVars, snAllVars
<1>1. LibraryInit => RingInit /\ BtInit /\ VeInit /\ StrInit /\ RbInit /\ StInit /\ SnInit
  BY DEF LibraryInit
<1>2. [LibraryNext]_libraryVars =>
        [RingNext]_ringVars /\ [BtNext]_btVars /\ [VeNext]_veVars /\ [StrNext]_strVars
  BY DEF LibraryNext
<1>3. subject = "ringbuf" /\ [LibraryNext]_libraryVars => [RbNextStep]_rbAllVars
  BY DEF LibraryNext
<1>4. subject = "stack" /\ [LibraryNext]_libraryVars => [StNextStep]_stAllVars
  BY DEF LibraryNext
<1>5. subject = "snapshot" /\ [LibraryNext]_libraryVars => [SnNextStep]_snAllVars
  BY DEF LibraryNext
<1> QED BY <1>1, <1>2, <1>3, <1>4, <1>5, SubjectStays, PTL
        DEF LibrarySpec, RingSpec, BtSpec, VeSpec, StrSpec, RbSpec, StSpec, SnSpec

\* The variables of a container that a behaviour is not about stay as they were.
OthersOK ==
  /\ subject # "ringbuf" => RbTypeOK
  /\ subject # "stack" => StTypeOK
  /\ subject # "snapshot" => SnTypeOK
  /\ subject \notin Locked => LockTypeOK

LEMMA OthersKeep == LibrarySpec => []OthersOK
<1>1. LibraryInit => OthersOK
  <2>1. RbInit => RbTypeOK
    BY RbAssumption DEF RbInit, RbTypeOK, RbNewGot, RbReads
  <2>2. StInit => StTypeOK
    BY StAssumption DEF StInit, StTypeOK
  <2>3. SnInit => SnTypeOK /\ LockTypeOK
    BY DEF SnInit, SnTypeOK, LockInit, LockTypeOK
  <2> QED BY <2>1, <2>2, <2>3 DEF LibraryInit, OthersOK
<1>2. OthersOK /\ [LibraryNext]_libraryVars => OthersOK'
  <2> SUFFICES ASSUME OthersOK, [LibraryNext]_libraryVars PROVE OthersOK'
    OBVIOUS
  <2>1. /\ subject' = subject
        /\ subject # "ringbuf" => UNCHANGED rbVars
        /\ subject # "stack" => UNCHANGED stVars
        /\ subject # "snapshot" => UNCHANGED snVars
        /\ subject \notin Locked => UNCHANGED lockVars
    BY DEF LibraryNext, libraryVars, Locked
  <2>2. UNCHANGED rbVars /\ RbTypeOK => RbTypeOK'
    BY DEF rbVars, RbTypeOK
  <2>3. UNCHANGED stVars /\ StTypeOK => StTypeOK'
    BY DEF stVars, StTypeOK
  <2>4. UNCHANGED snVars /\ SnTypeOK => SnTypeOK'
    BY DEF snVars, SnTypeOK
  <2>5. UNCHANGED lockVars /\ LockTypeOK => LockTypeOK'
    BY DEF lockVars, LockTypeOK
  <2> QED BY <2>1, <2>2, <2>3, <2>4, <2>5 DEF OthersOK
<1> QED BY <1>1, <1>2, PTL DEF LibrarySpec

\* Type correctness of the library's passive parts, for all capacities, items, threads
\* and ids and whatever the application exports: no call returns half an item.
THEOREM LibraryTypeCorrect == LibrarySpec => []LibraryTypeOK
<1>1. LibrarySpec => [](RingTypeOK /\ BtTypeOK /\ VeTypeOK /\ StrTypeOK)
  <2>1. StrInv => StrTypeOK
    BY DEF StrInv
  <2> QED BY <2>1, LibraryComposes, RingTypeCorrect, BootTypes, VectorTypes, StrInvariant, PTL
<1>2. LibrarySpec => [](RbTypeOK /\ StTypeOK /\ SnTypeOK /\ LockTypeOK)
  <2>1. /\ OthersOK /\ subject = "ringbuf" => StTypeOK /\ SnTypeOK
        /\ OthersOK /\ subject = "stack" => RbTypeOK /\ SnTypeOK
        /\ OthersOK /\ subject = "snapshot" => RbTypeOK /\ StTypeOK
        /\ OthersOK /\ subject \notin Locked => RbTypeOK /\ StTypeOK /\ SnTypeOK /\ LockTypeOK
    BY DEF OthersOK, Locked
  <2>2. subject = "ringbuf" \/ subject = "stack" \/ subject = "snapshot" \/ subject \notin Locked
    BY DEF Locked
  <2> QED BY <2>1, <2>2, SubjectStays, LibraryComposes, OthersKeep, RingbufTypes, StackTypes,
            SnapshotTypes, PTL
<1>3. RingTypeOK /\ BtTypeOK /\ VeTypeOK /\ StrTypeOK
      /\ RbTypeOK /\ StTypeOK /\ SnTypeOK /\ LockTypeOK => LibraryTypeOK
  BY DEF LibraryTypeOK
<1> QED BY <1>1, <1>2, <1>3, PTL
=============================================================================
