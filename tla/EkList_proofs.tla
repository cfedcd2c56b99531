---------------------------- MODULE EkList_proofs ---------------------------
(***************************************************************************)
(* What the list operators keep and change: the set of the nodes on the    *)
(* list, and that each of them is on it once.                              *)
(***************************************************************************)
EXTENDS EkList, SequenceTheorems, WellFoundedInduction, TLAPS

\* A list of nodes of S, each of them once: what a chain of ek_list nodes is.
List(S) == {l \in Seq(S) : IsInjective(l)}

\* A set of positions has a least one.
LEMMA MinPosition ==
  ASSUME NEW I \in SUBSET Nat, I # {}
  PROVE  Min(I) \in I /\ \A j \in I : Min(I) <= j
<1>1. PICK x \in I : \A y \in I : <<y, x>> \notin OpToRel(<, Nat)
  BY NatLessThanWellFounded, WFMin, Zenon
<1>2. \A y \in I : x <= y
  <2> SUFFICES ASSUME NEW y \in I PROVE x <= y
    OBVIOUS
  <2>1. x \in Nat /\ y \in Nat
    OBVIOUS
  <2>2. ~(y < x)
    BY <1>1, <2>1 DEF OpToRel
  <2> QED BY <2>1, <2>2
<1> QED BY <1>2 DEF Min

LEMMA EmptyList ==
  ASSUME NEW S, NEW l \in List(S)
  PROVE  /\ <<>> \in List(S) /\ ToSet(<<>>) = {}
         /\ l = <<>> <=> ToSet(l) = {}
         /\ ToSet(l) \subseteq S
BY DEF List, ToSet, IsInjective

LEMMA AppendList ==
  ASSUME NEW S, NEW l \in List(S), NEW n \in S, n \notin ToSet(l)
  PROVE  /\ Append(l, n) \in List(S)
         /\ ToSet(Append(l, n)) = ToSet(l) \cup {n}
<1> DEFINE r == Append(l, n)
<1>1. /\ l \in Seq(S) /\ Len(l) \in Nat /\ DOMAIN l = 1 .. Len(l)
      /\ r \in Seq(S) /\ DOMAIN r = 1 .. Len(l) + 1
      /\ \A i \in 1 .. Len(l) : r[i] = l[i]
      /\ r[Len(l) + 1] = n
  BY AppendProperties DEF List
<1> HIDE DEF r
<1>2. \A i \in 1 .. Len(l) : l[i] # n
  BY <1>1 DEF ToSet
<1>3. IsInjective(r)
  BY <1>1, <1>2 DEF List, IsInjective
<1>4. ASSUME NEW x \in ToSet(r) PROVE x \in ToSet(l) \cup {n}
  <2>1. PICK i \in 1 .. Len(l) + 1 : x = r[i]
    BY <1>1, <1>4 DEF ToSet
  <2> QED BY <1>1, <2>1 DEF ToSet
<1>5. ASSUME NEW x \in ToSet(l) \cup {n} PROVE x \in ToSet(r)
  BY <1>1, <1>5 DEF ToSet
<1> QED BY <1>1, <1>3, <1>4, <1>5 DEF List, r

LEMMA HeadTailList ==
  ASSUME NEW S, NEW l \in List(S), l # <<>>
  PROVE  /\ Head(l) \in ToSet(l)
         /\ Tail(l) \in List(S)
         /\ ToSet(Tail(l)) = ToSet(l) \ {Head(l)}
<1>1. /\ Tail(l) \in Seq(S) /\ Len(Tail(l)) = Len(l) - 1 /\ Len(l) \in Nat
      /\ Len(l) > 0 /\ DOMAIN l = 1 .. Len(l) /\ Head(l) = l[1]
      /\ DOMAIN Tail(l) = 1 .. Len(l) - 1
      /\ \A i \in 1 .. Len(l) - 1 : Tail(l)[i] = l[i + 1]
  BY HeadTailProperties DEF List
<1>2. Head(l) \in ToSet(l)
  BY <1>1 DEF ToSet
<1>3. IsInjective(Tail(l))
  BY <1>1 DEF List, IsInjective
<1>4. \A i \in DOMAIN l : i # 1 => i - 1 \in DOMAIN Tail(l) /\ l[i] = Tail(l)[i - 1]
  BY <1>1
<1>5. ToSet(Tail(l)) = ToSet(l) \ {Head(l)}
  <2>1. ASSUME NEW x \in ToSet(Tail(l)) PROVE x \in ToSet(l) \ {Head(l)}
    <3>1. PICK i \in 1 .. Len(l) - 1 : x = l[i + 1]
      BY <1>1, <2>1 DEF ToSet
    <3>2. i + 1 \in DOMAIN l /\ 1 \in DOMAIN l /\ i + 1 # 1
      BY <1>1
    <3> QED BY <1>1, <3>1, <3>2 DEF List, IsInjective, ToSet
  <2>2. ASSUME NEW x \in ToSet(l), x # Head(l) PROVE x \in ToSet(Tail(l))
    <3>1. PICK i \in DOMAIN l : x = l[i]
      BY <2>2 DEF ToSet
    <3>2. i # 1
      BY <1>1, <2>2, <3>1
    <3> QED BY <1>4, <3>1, <3>2 DEF ToSet
  <2> QED BY <2>1, <2>2
<1> QED BY <1>1, <1>2, <1>3, <1>5 DEF List

LEMMA RemoveAtPositions ==
  ASSUME NEW S, NEW l \in List(S), NEW k \in DOMAIN l
  PROVE  /\ RemoveAt(l, k) \in Seq(S) /\ DOMAIN RemoveAt(l, k) = 1 .. Len(l) - 1
         /\ \A i \in 1 .. Len(l) - 1 :
              RemoveAt(l, k)[i] = IF i < k THEN l[i] ELSE l[i + 1]
<1> DEFINE r == RemoveAt(l, k)
<1>1. /\ l \in Seq(S) /\ Len(l) \in Nat /\ DOMAIN l = 1 .. Len(l)
      /\ k \in 1 .. Len(l)
  BY DEF List
<1>2. /\ SubSeq(l, 1, k - 1) \in Seq(S) /\ Len(SubSeq(l, 1, k - 1)) = k - 1
      /\ \A i \in 1 .. k - 1 : SubSeq(l, 1, k - 1)[i] = l[i]
  BY <1>1, SubSeqProperties
<1>3. /\ SubSeq(l, k + 1, Len(l)) \in Seq(S)
      /\ Len(SubSeq(l, k + 1, Len(l))) = Len(l) - k
      /\ \A i \in 1 .. Len(l) - k : SubSeq(l, k + 1, Len(l))[i] = l[k + i]
  BY <1>1, SubSeqProperties
<1>4. /\ r \in Seq(S) /\ DOMAIN r = 1 .. Len(l) - 1
      /\ \A i \in 1 .. Len(l) - 1 : r[i] = IF i < k THEN l[i] ELSE l[i + 1]
  <2> DEFINE p == SubSeq(l, 1, k - 1)
             q == SubSeq(l, k + 1, Len(l))
  <2>1. /\ r = p \o q /\ p \in Seq(S) /\ q \in Seq(S)
        /\ Len(p) = k - 1 /\ Len(q) = Len(l) - k
    BY <1>2, <1>3 DEF RemoveAt
  <2> HIDE DEF r, p, q
  <2>2. /\ r \in Seq(S) /\ Len(r) = Len(p) + Len(q)
        /\ \A i \in 1 .. Len(p) + Len(q) :
             r[i] = IF i <= Len(p) THEN p[i] ELSE q[i - Len(p)]
    BY <2>1, ConcatProperties, Zenon
  <2>3. Len(r) = Len(l) - 1
    BY <1>1, <2>1, <2>2
  <2>4. ASSUME NEW i \in 1 .. Len(l) - 1
        PROVE  r[i] = IF i < k THEN l[i] ELSE l[i + 1]
    <3>1. CASE i < k
      BY <1>1, <1>2, <2>1, <2>2, <3>1 DEF p
    <3>2. CASE i >= k
      <4>1. i - (k - 1) \in 1 .. Len(l) - k /\ k + (i - (k - 1)) = i + 1
        BY <1>1, <3>2
      <4>2. r[i] = q[i - (k - 1)]
        BY <1>1, <2>1, <2>2, <3>2
      <4> QED BY <1>1, <1>3, <3>2, <4>1, <4>2 DEF q
    <3> QED BY <1>1, <3>1, <3>2
  <2>5. DOMAIN r = 1 .. Len(l) - 1
    <3>1. DOMAIN r = 1 .. Len(r)
      BY <2>2, LenProperties
    <3> QED BY <2>3, <3>1
  <2>6. \A i \in 1 .. Len(l) - 1 : r[i] = IF i < k THEN l[i] ELSE l[i + 1]
    BY <2>4
  <2> QED BY <2>2, <2>5, <2>6
<1> QED BY <1>4

LEMMA RemoveAtList ==
  ASSUME NEW S, NEW l \in List(S), NEW k \in DOMAIN l
  PROVE  /\ RemoveAt(l, k) \in List(S)
         /\ ToSet(RemoveAt(l, k)) = ToSet(l) \ {l[k]}
<1> DEFINE r == RemoveAt(l, k)
<1>1. /\ l \in Seq(S) /\ Len(l) \in Nat /\ DOMAIN l = 1 .. Len(l)
      /\ k \in 1 .. Len(l)
  BY DEF List
<1>4. /\ r \in Seq(S) /\ DOMAIN r = 1 .. Len(l) - 1
      /\ \A i \in 1 .. Len(l) - 1 : r[i] = IF i < k THEN l[i] ELSE l[i + 1]
  BY RemoveAtPositions
<1> HIDE DEF r
<1>5. IsInjective(r)
  BY <1>1, <1>4 DEF List, IsInjective
<1>6. ASSUME NEW x \in ToSet(r) PROVE x \in ToSet(l) \ {l[k]}
  <2>1. PICK i \in 1 .. Len(l) - 1 : x = r[i]
    BY <1>4, <1>6 DEF ToSet
  <2>2. PICK j \in 1 .. Len(l) : x = l[j] /\ j # k
    BY <1>1, <1>4, <2>1
  <2> QED BY <1>1, <2>2 DEF List, IsInjective, ToSet
<1>7. ASSUME NEW x \in ToSet(l), x # l[k] PROVE x \in ToSet(r)
  <2>1. PICK i \in 1 .. Len(l) : x = l[i] /\ i # k
    BY <1>1, <1>7 DEF ToSet
  <2>2. PICK j \in 1 .. Len(l) - 1 : r[j] = x
    <3>1. CASE i < k BY <1>1, <1>4, <2>1, <3>1
    <3>2. CASE i > k
      <4>1. i - 1 \in 1 .. Len(l) - 1 /\ ~(i - 1 < k) /\ (i - 1) + 1 = i
        BY <1>1, <3>2
      <4> QED BY <1>4, <2>1, <4>1
    <3> QED BY <1>1, <2>1, <3>1, <3>2
  <2> QED BY <1>4, <2>2 DEF ToSet
<1> QED BY <1>4, <1>5, <1>6, <1>7 DEF List, r

LEMMA RemoveList ==
  ASSUME NEW S, NEW l \in List(S), NEW n \in ToSet(l)
  PROVE  /\ ListRemove(l, n) \in List(S)
         /\ ToSet(ListRemove(l, n)) = ToSet(l) \ {n}
<1> DEFINE k == CHOOSE i \in DOMAIN l : l[i] = n
<1>1. k \in DOMAIN l /\ l[k] = n
  BY DEF ToSet
<1> QED BY <1>1, RemoveAtList DEF ListRemove

\* r is l with n put at position k.
Inserted(r, S, l, n, k) ==
  /\ r \in Seq(S) /\ Len(r) = Len(l) + 1
  /\ \A i \in 1 .. Len(l) + 1 : r[i] =
       IF i < k THEN l[i] ELSE IF i = k THEN n ELSE l[i - 1]

\* The ordered insertion puts n in front of a position k: everything before k
\* is outside `later`, and the node at k, if there is one, is inside.
LEMMA InsertPosition ==
  ASSUME NEW S, NEW l \in List(S), NEW n \in S, NEW later
  PROVE  \E k \in 1 .. Len(l) + 1 :
           /\ Inserted(InsertBefore(l, n, later), S, l, n, k)
           /\ \A i \in 1 .. k - 1 : l[i] \notin later
           /\ k <= Len(l) => l[k] \in later
<1> DEFINE I == {i \in 1 .. Len(l) : l[i] \in later}
           r == InsertBefore(l, n, later)
<1>1. l \in Seq(S) /\ Len(l) \in Nat /\ DOMAIN l = 1 .. Len(l)
  BY DEF List
<1>2. r = IF (IF I # {} THEN Min(I) ELSE 0) = 0 THEN Append(l, n)
          ELSE InsertAt(l, (IF I # {} THEN Min(I) ELSE 0), n)
  BY Zenon DEF InsertBefore, SelectInSeq
<1>3. CASE I = {}
  <2>1. r = Append(l, n)
    BY <1>2, <1>3
  <2>2. /\ r \in Seq(S) /\ Len(r) = Len(l) + 1
        /\ \A i \in 1 .. Len(l) : r[i] = l[i]
        /\ r[Len(l) + 1] = n
    BY <1>1, <2>1, AppendProperties
  <2> WITNESS Len(l) + 1 \in 1 .. Len(l) + 1
  <2>3. Inserted(r, S, l, n, Len(l) + 1)
    <3> HIDE DEF r, I
    <3> QED BY <1>1, <2>2 DEF Inserted
  <2> QED BY <1>1, <1>3, <2>3
<1>4. CASE I # {}
  <2> DEFINE k == Min(I)
  <2>1. k \in I /\ \A j \in I : k <= j
    <3>1. I \in SUBSET Nat
      BY <1>1
    <3> HIDE DEF I
    <3> QED BY <1>4, <3>1, MinPosition
  <2>2. k \in 1 .. Len(l) /\ r = InsertAt(l, k, n)
    BY <1>1, <1>2, <1>4, <2>1
  <2> HIDE DEF k
  <2>3. /\ SubSeq(l, 1, k - 1) \in Seq(S) /\ Len(SubSeq(l, 1, k - 1)) = k - 1
        /\ \A i \in 1 .. k - 1 : SubSeq(l, 1, k - 1)[i] = l[i]
    BY <1>1, <2>2, SubSeqProperties
  <2>4. /\ SubSeq(l, k, Len(l)) \in Seq(S)
        /\ Len(SubSeq(l, k, Len(l))) = Len(l) - k + 1
        /\ \A i \in 1 .. Len(l) - k + 1 : SubSeq(l, k, Len(l))[i] = l[k + i - 1]
    BY <1>1, <2>2, SubSeqProperties
  <2>5. Inserted(r, S, l, n, k)
    <3> DEFINE p == SubSeq(l, 1, k - 1)
               q == SubSeq(l, k, Len(l))
               pn == p \o <<n>>
    <3>1. /\ r = pn \o q /\ p \in Seq(S) /\ q \in Seq(S) /\ <<n>> \in Seq(S)
          /\ Len(p) = k - 1 /\ Len(q) = Len(l) - k + 1
          /\ Len(<<n>>) = 1 /\ <<n>>[1] = n
      BY <2>2, <2>3, <2>4 DEF InsertAt
    <3>2. /\ pn \in Seq(S) /\ Len(pn) = k
          /\ \A i \in 1 .. k - 1 : pn[i] = l[i]
          /\ pn[k] = n
      <4> HIDE DEF p
      <4>1. /\ pn \in Seq(S) /\ Len(pn) = Len(p) + 1
            /\ \A i \in 1 .. Len(p) + 1 :
                 pn[i] = IF i <= Len(p) THEN p[i] ELSE <<n>>[i - Len(p)]
        BY <3>1, ConcatProperties
      <4> HIDE DEF pn, q
      <4>2. Len(p) = k - 1 /\ k \in Nat /\ Len(pn) = k
        BY <1>1, <2>2, <3>1, <4>1
      <4>3. \A i \in 1 .. k - 1 : p[i] = l[i]
        BY <2>3 DEF p
      <4>4. \A i \in 1 .. k - 1 : pn[i] = l[i]
        BY <4>1, <4>2, <4>3
      <4>5. pn[k] = n
        BY <3>1, <4>1, <4>2
      <4> QED BY <4>1, <4>2, <4>4, <4>5
    <3> HIDE DEF r, pn, q
    <3>3. /\ r \in Seq(S) /\ Len(r) = Len(pn) + Len(q)
          /\ \A i \in 1 .. Len(pn) + Len(q) :
               r[i] = IF i <= Len(pn) THEN pn[i] ELSE q[i - Len(pn)]
      <4>1. /\ pn \o q \in Seq(S) /\ Len(pn \o q) = Len(pn) + Len(q)
            /\ \A i \in 1 .. Len(pn) + Len(q) :
                 (pn \o q)[i] = IF i <= Len(pn) THEN pn[i] ELSE q[i - Len(pn)]
        BY <3>1, <3>2, ConcatProperties
      <4>2. r = pn \o q
        BY <3>1
      <4> QED BY <4>1, <4>2, Zenon
    <3>4. Len(r) = Len(l) + 1
      BY <1>1, <2>2, <3>1, <3>2, <3>3
    <3>5. ASSUME NEW i \in 1 .. Len(l) + 1
          PROVE  r[i] = IF i < k THEN l[i] ELSE IF i = k THEN n ELSE l[i - 1]
      <4>1. CASE i <= k
        BY <1>1, <2>2, <3>1, <3>2, <3>3, <4>1
      <4>2. CASE i > k
        <5>1. i - k \in 1 .. Len(l) - k + 1 /\ k + (i - k) - 1 = i - 1
          BY <1>1, <2>2, <4>2
        <5>2. r[i] = q[i - k]
          BY <1>1, <2>2, <3>1, <3>2, <3>3, <4>2
        <5> QED BY <1>1, <2>2, <2>4, <4>2, <5>1, <5>2 DEF q
      <4> QED BY <1>1, <2>2, <4>1, <4>2
    <3>6. \A i \in 1 .. Len(l) + 1 :
            r[i] = IF i < k THEN l[i] ELSE IF i = k THEN n ELSE l[i - 1]
      BY <3>5
    <3> QED BY <3>3, <3>4, <3>6 DEF Inserted
  <2>6. \A i \in 1 .. k - 1 : l[i] \notin later
    BY <1>1, <2>1, <2>2
  <2>7. k \in 1 .. Len(l) + 1 /\ (k <= Len(l) => l[k] \in later)
    BY <1>1, <2>1, <2>2
  <2> QED BY <2>5, <2>6, <2>7, Zenon
<1> QED BY <1>3, <1>4

LEMMA InsertList ==
  ASSUME NEW S, NEW l \in List(S), NEW n \in S, n \notin ToSet(l), NEW later
  PROVE  /\ InsertBefore(l, n, later) \in List(S)
         /\ ToSet(InsertBefore(l, n, later)) = ToSet(l) \cup {n}
<1> DEFINE r == InsertBefore(l, n, later)
<1>1. l \in Seq(S) /\ Len(l) \in Nat /\ DOMAIN l = 1 .. Len(l)
  BY DEF List
<1>0. PICK k \in 1 .. Len(l) + 1 : Inserted(r, S, l, n, k)
  BY InsertPosition
<1> HIDE DEF r
<1>2. /\ r \in Seq(S) /\ Len(r) = Len(l) + 1
      /\ \A i \in 1 .. Len(l) + 1 : r[i] =
           IF i < k THEN l[i] ELSE IF i = k THEN n ELSE l[i - 1]
  BY <1>0 DEF Inserted
<1>3. DOMAIN r = 1 .. Len(l) + 1
  BY <1>2
<1>4. \A i \in 1 .. Len(l) : l[i] # n
  BY <1>1 DEF ToSet
<1>5. IsInjective(r)
  <2> SUFFICES ASSUME NEW i \in 1 .. Len(l) + 1, NEW j \in 1 .. Len(l) + 1,
                      r[i] = r[j], i < j
               PROVE  FALSE
    <3>1. \A i, j \in 1 .. Len(l) + 1 : i < j \/ j < i \/ i = j
      BY <1>1
    <3> QED BY <1>3, <3>1 DEF IsInjective
  <2>1. \A a, b \in 1 .. Len(l) : l[a] = l[b] => a = b
    BY <1>1 DEF List, IsInjective
  <2>2. CASE j < k
    BY <1>1, <1>2, <2>1, <2>2
  <2>3. CASE j = k
    BY <1>1, <1>2, <1>4, <2>3
  <2>4. CASE k < j /\ i = k
    <3>1. j - 1 \in 1 .. Len(l)
      BY <1>1, <2>4
    <3> QED BY <1>1, <1>2, <1>4, <2>4, <3>1
  <2>5. CASE k < j /\ i # k
    <3>1. /\ j - 1 \in 1 .. Len(l) /\ r[j] = l[j - 1]
          /\ i < k => i \in 1 .. Len(l) /\ r[i] = l[i]
          /\ i > k => i - 1 \in 1 .. Len(l) /\ r[i] = l[i - 1]
      BY <1>1, <1>2, <2>5
    <3> QED BY <1>1, <2>1, <2>5, <3>1
  <2> QED BY <1>1, <2>2, <2>3, <2>4, <2>5
<1>6. ASSUME NEW x \in ToSet(r) PROVE x \in ToSet(l) \cup {n}
  <2>1. PICK i \in 1 .. Len(l) + 1 : x = r[i]
    BY <1>3, <1>6 DEF ToSet
  <2>2. i < k => i \in DOMAIN l /\ x = l[i]
    BY <1>1, <1>2, <2>1
  <2>3. i = k => x = n
    BY <1>2, <2>1
  <2>4. i > k => i - 1 \in DOMAIN l /\ x = l[i - 1]
    BY <1>1, <1>2, <2>1
  <2> QED BY <1>1, <2>2, <2>3, <2>4 DEF ToSet
<1>7. n \in ToSet(r)
  BY <1>1, <1>2, <1>3 DEF ToSet
<1>8. ASSUME NEW x \in ToSet(l) PROVE x \in ToSet(r)
  <2>1. PICK i \in 1 .. Len(l) : x = l[i]
    BY <1>1, <1>8 DEF ToSet
  <2>2. CASE i < k BY <1>1, <1>2, <1>3, <2>1, <2>2 DEF ToSet
  <2>3. CASE i >= k
    <3>1. i + 1 \in DOMAIN r /\ ~(i + 1 < k) /\ i + 1 # k /\ (i + 1) - 1 = i
      BY <1>1, <1>3, <2>3
    <3> QED BY <1>2, <1>3, <2>1, <3>1 DEF ToSet
  <2> QED BY <1>1, <2>2, <2>3
<1>9. ToSet(r) = ToSet(l) \cup {n}
  BY <1>6, <1>7, <1>8
<1> QED BY <1>2, <1>5, <1>9 DEF List, r

\* Two lists without a common node, one behind the other.
LEMMA ConcatList ==
  ASSUME NEW S, NEW l \in List(S), NEW m \in List(S), ToSet(l) \cap ToSet(m) = {}
  PROVE  /\ l \o m \in List(S)
         /\ ToSet(l \o m) = ToSet(l) \cup ToSet(m)
<1> DEFINE r == l \o m
<1>1. /\ l \in Seq(S) /\ Len(l) \in Nat /\ DOMAIN l = 1 .. Len(l)
      /\ m \in Seq(S) /\ Len(m) \in Nat /\ DOMAIN m = 1 .. Len(m)
  BY DEF List
<1>2. /\ r \in Seq(S) /\ Len(r) = Len(l) + Len(m)
      /\ \A i \in 1 .. Len(l) + Len(m) : r[i] =
           IF i <= Len(l) THEN l[i] ELSE m[i - Len(l)]
  BY <1>1, ConcatProperties, Zenon
<1>3. DOMAIN r = 1 .. Len(l) + Len(m)
  <2>1. DOMAIN r = 1 .. Len(r)
    BY <1>2, LenProperties
  <2> QED BY <1>2, <2>1
<1> HIDE DEF r
<1>4. ASSUME NEW i \in 1 .. Len(l) + Len(m)
      PROVE  \/ i \in 1 .. Len(l) /\ r[i] = l[i] /\ r[i] \in ToSet(l)
             \/ /\ i > Len(l) /\ i - Len(l) \in 1 .. Len(m)
                /\ r[i] = m[i - Len(l)] /\ r[i] \in ToSet(m)
  <2>1. CASE i <= Len(l)
    <3>1. i \in DOMAIN l /\ r[i] = l[i]
      BY <1>1, <1>2, <2>1
    <3> QED BY <1>1, <3>1 DEF ToSet
  <2>2. CASE i > Len(l)
    <3>1. i - Len(l) \in DOMAIN m /\ r[i] = m[i - Len(l)]
      BY <1>1, <1>2, <2>2
    <3> QED BY <1>1, <2>2, <3>1 DEF ToSet
  <2> QED BY <1>1, <2>1, <2>2
<1>5. ASSUME NEW i \in DOMAIN r, NEW j \in DOMAIN r, r[i] = r[j] PROVE i = j
  <2>1. CASE i \in 1 .. Len(l) /\ j \in 1 .. Len(l)
    BY <1>1, <1>3, <1>4, <1>5, <2>1 DEF List, IsInjective
  <2>2. CASE i > Len(l) /\ j > Len(l)
    <3>1. /\ i - Len(l) \in DOMAIN m /\ j - Len(l) \in DOMAIN m
          /\ m[i - Len(l)] = m[j - Len(l)]
      BY <1>1, <1>3, <1>4, <1>5, <2>2
    <3>2. i - Len(l) = j - Len(l)
      BY <3>1 DEF List, IsInjective
    <3> QED BY <1>1, <1>3, <3>2
  <2> QED BY <1>1, <1>3, <1>4, <1>5, <2>1, <2>2
<1>6. IsInjective(r)
  BY <1>5 DEF IsInjective
<1>7. ASSUME NEW x \in ToSet(r) PROVE x \in ToSet(l) \cup ToSet(m)
  BY <1>3, <1>4, <1>7 DEF ToSet
<1>8. ASSUME NEW x \in ToSet(l) PROVE x \in ToSet(r)
  BY <1>1, <1>2, <1>3, <1>8 DEF ToSet
<1>9. ASSUME NEW x \in ToSet(m) PROVE x \in ToSet(r)
  <2>1. PICK i \in 1 .. Len(m) : x = m[i]
    BY <1>1, <1>9 DEF ToSet
  <2>2. /\ i + Len(l) \in DOMAIN r /\ ~(i + Len(l) <= Len(l))
        /\ (i + Len(l)) - Len(l) = i
    BY <1>1, <1>3
  <2>3. r[i + Len(l)] = x
    BY <1>2, <1>3, <2>1, <2>2
  <2> QED BY <2>2, <2>3 DEF ToSet
<1> QED BY <1>2, <1>6, <1>7, <1>8, <1>9 DEF List, r

\* A list cut behind its first n nodes.
LEMMA SplitList ==
  ASSUME NEW S, NEW l \in List(S), NEW n \in 0 .. Len(l)
  PROVE  /\ SubSeq(l, 1, n) \in List(S) /\ SubSeq(l, n + 1, Len(l)) \in List(S)
         /\ ToSet(SubSeq(l, 1, n)) \subseteq ToSet(l)
         /\ ToSet(SubSeq(l, n + 1, Len(l))) = ToSet(l) \ ToSet(SubSeq(l, 1, n))
<1> DEFINE p == SubSeq(l, 1, n)
           q == SubSeq(l, n + 1, Len(l))
<1>1. /\ l \in Seq(S) /\ Len(l) \in Nat /\ DOMAIN l = 1 .. Len(l)
      /\ n \in Nat /\ n <= Len(l)
  BY DEF List
<1>2. /\ p \in Seq(S) /\ DOMAIN p = 1 .. n
      /\ \A i \in 1 .. n : p[i] = l[i]
  <2>1. /\ p \in Seq(S) /\ Len(p) = n
        /\ \A i \in 1 .. n : p[i] = l[i]
    BY <1>1, SubSeqProperties
  <2> QED BY <2>1
<1>3. /\ q \in Seq(S) /\ DOMAIN q = 1 .. Len(l) - n
      /\ \A i \in 1 .. Len(l) - n : q[i] = l[n + i]
  <2>1. n + 1 \in Int /\ Len(l) \in Int /\ \A i \in n + 1 .. Len(l) : l[i] \in S
    BY <1>1
  <2>2. /\ q \in Seq(S)
        /\ Len(q) = IF n + 1 <= Len(l) THEN Len(l) - (n + 1) + 1 ELSE 0
        /\ \A i \in 1 .. Len(l) - (n + 1) + 1 : q[i] = l[(n + 1) + i - 1]
    BY <2>1, SubSeqProperties DEF q
  <2> HIDE DEF p, q
  <2>3. Len(q) = Len(l) - n
    <3>1. Len(l) \in Nat /\ n \in Nat /\ n <= Len(l)
      BY <1>1
    <3>2. Len(q) = IF n + 1 <= Len(l) THEN Len(l) - (n + 1) + 1 ELSE 0
      BY <2>2
    <3> QED BY <3>1, <3>2
  <2>4. ASSUME NEW i \in 1 .. Len(l) - n PROVE q[i] = l[n + i]
    <3>1. i \in 1 .. Len(l) - (n + 1) + 1 /\ (n + 1) + i - 1 = n + i
      BY <1>1
    <3> QED BY <2>2, <3>1
  <2> QED BY <2>2, <2>3, <2>4
<1> HIDE DEF p, q
<1>4. IsInjective(p) /\ IsInjective(q)
  <2>1. IsInjective(p)
    BY <1>1, <1>2 DEF List, IsInjective
  <2>2. ASSUME NEW i \in DOMAIN q, NEW j \in DOMAIN q, q[i] = q[j] PROVE i = j
    <3>1. n + i \in DOMAIN l /\ n + j \in DOMAIN l /\ l[n + i] = l[n + j]
      BY <1>1, <1>3, <2>2
    <3>2. n + i = n + j
      BY <3>1 DEF List, IsInjective
    <3> QED BY <1>1, <1>3, <3>2
  <2> QED BY <2>1, <2>2 DEF IsInjective
<1>5. ToSet(p) \subseteq ToSet(l)
  BY <1>1, <1>2 DEF ToSet
<1>6. ASSUME NEW x \in ToSet(q) PROVE x \in ToSet(l) \ ToSet(p)
  <2>1. PICK i \in 1 .. Len(l) - n : x = l[n + i]
    BY <1>3, <1>6 DEF ToSet
  <2>2. n + i \in DOMAIN l
    BY <1>1
  <2>3. ASSUME NEW j \in 1 .. n PROVE l[j] # x
    <3>1. j \in DOMAIN l /\ j # n + i
      BY <1>1
    <3> QED BY <2>1, <2>2, <3>1 DEF List, IsInjective
  <2> QED BY <1>2, <2>1, <2>2, <2>3 DEF ToSet
<1>7. ASSUME NEW x \in ToSet(l), x \notin ToSet(p) PROVE x \in ToSet(q)
  <2>1. PICK i \in 1 .. Len(l) : x = l[i]
    BY <1>1, <1>7 DEF ToSet
  <2>2. i > n
    BY <1>1, <1>2, <1>7, <2>1 DEF ToSet
  <2>3. i - n \in DOMAIN q /\ q[i - n] = l[n + (i - n)] /\ n + (i - n) = i
    BY <1>1, <1>3, <2>2
  <2> QED BY <2>1, <2>3 DEF ToSet
<1> QED BY <1>2, <1>3, <1>4, <1>5, <1>6, <1>7 DEF List, p, q
-----------------------------------------------------------------------------
(* Lists kept in the order of a relation R, a set of pairs. *)

InOrder(l, R) == \A i, j \in DOMAIN l : i < j => <<l[i], l[j]>> \in R

\* Inserting n before the first of `later` keeps the order, when everything outside
\* `later` goes before n and everything in it after.
LEMMA InsertInOrder ==
  ASSUME NEW S, NEW l \in List(S), NEW n \in S, NEW later, NEW R, InOrder(l, R),
         \A u \in S \ {n} : u \notin later => <<u, n>> \in R,
         \A u \in S \ {n} : u \in later => <<n, u>> \in R,
         \A u, v \in S : <<n, u>> \in R /\ <<u, v>> \in R => <<n, v>> \in R,
         n \notin ToSet(l)
  PROVE  InOrder(InsertBefore(l, n, later), R)
<1> DEFINE r == InsertBefore(l, n, later)
<1>1. /\ l \in Seq(S) /\ Len(l) \in Nat /\ DOMAIN l = 1 .. Len(l)
      /\ \A i \in 1 .. Len(l) : l[i] \in S \ {n}
  BY DEF List, ToSet
<1>2. PICK k \in 1 .. Len(l) + 1 :
        /\ Inserted(r, S, l, n, k)
        /\ \A i \in 1 .. k - 1 : l[i] \notin later
        /\ k <= Len(l) => l[k] \in later
  BY InsertPosition
<1> HIDE DEF r
<1>3. /\ DOMAIN r = 1 .. Len(l) + 1
      /\ \A i \in 1 .. Len(l) + 1 :
           r[i] = IF i < k THEN l[i] ELSE IF i = k THEN n ELSE l[i - 1]
  BY <1>1, <1>2 DEF Inserted
<1>4. \A i, j \in 1 .. Len(l) : i < j => <<l[i], l[j]>> \in R
  BY <1>1 DEF InOrder
<1>5. \A i \in 1 .. k - 1 : <<l[i], n>> \in R
  <2> SUFFICES ASSUME NEW i \in 1 .. k - 1 PROVE <<l[i], n>> \in R
    OBVIOUS
  <2>1. i \in 1 .. Len(l)
    BY <1>1
  <2> QED BY <1>1, <1>2, <2>1
<1>6. \A i \in k .. Len(l) : <<n, l[i]>> \in R
  <2> SUFFICES ASSUME NEW i \in k .. Len(l) PROVE <<n, l[i]>> \in R
    OBVIOUS
  <2>1. k \in 1 .. Len(l) /\ i \in 1 .. Len(l) /\ (i = k \/ k < i)
    BY <1>1
  <2>2. l[k] \in S \ {n} /\ l[i] \in S /\ <<n, l[k]>> \in R
    BY <1>1, <1>2, <2>1
  <2> QED BY <1>4, <2>1, <2>2
<1>7. ASSUME NEW i \in 1 .. Len(l) + 1, NEW j \in 1 .. Len(l) + 1, i < j
      PROVE  <<r[i], r[j]>> \in R
  <2>1. CASE j < k
    <3>1. i \in 1 .. Len(l) /\ j \in 1 .. Len(l) /\ i < k
      BY <1>1, <1>7, <2>1
    <3> QED BY <1>3, <1>4, <1>7, <2>1, <3>1
  <2>2. CASE j = k
    <3>1. i \in 1 .. k - 1
      BY <1>1, <1>7, <2>2
    <3> QED BY <1>3, <1>5, <1>7, <2>2, <3>1
  <2>3. CASE k < j
    <3>1. j - 1 \in k .. Len(l) /\ j - 1 \in 1 .. Len(l) /\ r[j] = l[j - 1]
      BY <1>1, <1>3, <2>3
    <3>2. CASE i < k
      <4>1. i \in 1 .. Len(l) /\ i < j - 1 /\ r[i] = l[i]
        BY <1>1, <1>3, <2>3, <3>2
      <4> QED BY <1>4, <3>1, <4>1
    <3>3. CASE i = k
      BY <1>3, <1>6, <3>1, <3>3
    <3>4. CASE i > k
      <4>1. i - 1 \in 1 .. Len(l) /\ i - 1 < j - 1 /\ r[i] = l[i - 1]
        BY <1>1, <1>3, <1>7, <3>4
      <4> QED BY <1>4, <3>1, <4>1
    <3> QED BY <3>2, <3>3, <3>4
  <2> QED BY <1>1, <2>1, <2>2, <2>3
<1> QED BY <1>3, <1>7 DEF InOrder, r

LEMMA RemoveInOrder ==
  ASSUME NEW S, NEW l \in List(S), NEW n \in ToSet(l), NEW R, InOrder(l, R)
  PROVE  InOrder(ListRemove(l, n), R)
<1> DEFINE k == CHOOSE i \in DOMAIN l : l[i] = n
           r == ListRemove(l, n)
<1>1. l \in Seq(S) /\ Len(l) \in Nat /\ DOMAIN l = 1 .. Len(l)
  BY DEF List
<1>2. k \in 1 .. Len(l)
  BY <1>1 DEF ToSet
<1>3. /\ DOMAIN r = 1 .. Len(l) - 1
      /\ \A i \in 1 .. Len(l) - 1 : r[i] = IF i < k THEN l[i] ELSE l[i + 1]
  <2>1. r = RemoveAt(l, k) /\ k \in DOMAIN l
    BY <1>1, <1>2 DEF ListRemove
  <2> HIDE DEF k, r
  <2> QED BY <2>1, RemoveAtPositions
<1> HIDE DEF k, r
<1>4. \A i, j \in 1 .. Len(l) : i < j => <<l[i], l[j]>> \in R
  BY <1>1 DEF InOrder
<1>5. ASSUME NEW i \in 1 .. Len(l) - 1, NEW j \in 1 .. Len(l) - 1, i < j
      PROVE  <<r[i], r[j]>> \in R
  <2>1. PICK a \in 1 .. Len(l) : r[i] = l[a] /\ a = IF i < k THEN i ELSE i + 1
    BY <1>1, <1>2, <1>3
  <2>2. PICK b \in 1 .. Len(l) : r[j] = l[b] /\ b = IF j < k THEN j ELSE j + 1
    BY <1>1, <1>2, <1>3
  <2>3. a < b
    BY <1>2, <1>5, <2>1, <2>2
  <2> QED BY <1>4, <2>1, <2>2, <2>3
<1> QED BY <1>3, <1>5 DEF InOrder, r

LEMMA TailInOrder ==
  ASSUME NEW S, NEW l \in List(S), l # <<>>, NEW R, InOrder(l, R)
  PROVE  InOrder(Tail(l), R)
<1>1. /\ l \in Seq(S) /\ Len(l) \in Nat /\ DOMAIN l = 1 .. Len(l)
      /\ DOMAIN Tail(l) = 1 .. Len(l) - 1
      /\ \A i \in 1 .. Len(l) - 1 : Tail(l)[i] = l[i + 1]
  BY DEF List
<1>2. ASSUME NEW i \in 1 .. Len(l) - 1, NEW j \in 1 .. Len(l) - 1, i < j
      PROVE  <<Tail(l)[i], Tail(l)[j]>> \in R
  <2>1. i + 1 \in DOMAIN l /\ j + 1 \in DOMAIN l /\ i + 1 < j + 1
    BY <1>1, <1>2
  <2> QED BY <1>1, <2>1 DEF InOrder
<1> QED BY <1>1, <1>2 DEF InOrder

-----------------------------------------------------------------------------
(* One node before another. *)

LEMMA AppendPrecedes ==
  ASSUME NEW S, NEW l \in List(S), NEW n \in S
  PROVE  /\ \A u \in ToSet(l) : Precedes(Append(l, n), u, n)
         /\ \A u, v \in S : Precedes(l, u, v) => Precedes(Append(l, n), u, v)
<1> DEFINE r == Append(l, n)
<1>1. /\ Len(l) \in Nat /\ DOMAIN l = 1 .. Len(l) /\ DOMAIN r = 1 .. Len(l) + 1
      /\ \A i \in 1 .. Len(l) : r[i] = l[i]
      /\ r[Len(l) + 1] = n
  BY AppendProperties DEF List
<1> HIDE DEF r
<1>2. ASSUME NEW u \in ToSet(l) PROVE Precedes(r, u, n)
  <2>1. PICK i \in 1 .. Len(l) : l[i] = u
    BY <1>1, <1>2 DEF ToSet
  <2>2. i \in DOMAIN r /\ Len(l) + 1 \in DOMAIN r /\ i < Len(l) + 1 /\ r[i] = u
    BY <1>1, <2>1
  <2> QED BY <1>1, <2>2 DEF Precedes
<1>3. ASSUME NEW u \in S, NEW v \in S, Precedes(l, u, v) PROVE Precedes(r, u, v)
  BY <1>1, <1>3 DEF Precedes
<1> QED BY <1>2, <1>3 DEF r

LEMMA RemovePrecedes ==
  ASSUME NEW S, NEW l \in List(S), NEW n \in ToSet(l),
         NEW u \in S \ {n}, NEW v \in S \ {n}, Precedes(l, u, v)
  PROVE  Precedes(ListRemove(l, n), u, v)
<1> DEFINE k == CHOOSE i \in DOMAIN l : l[i] = n
           r == ListRemove(l, n)
<1>1. k \in DOMAIN l /\ l[k] = n
  BY DEF ToSet
<1>2. /\ Len(l) \in Nat /\ DOMAIN l = 1 .. Len(l) /\ DOMAIN r = 1 .. Len(l) - 1
      /\ \A i \in 1 .. Len(l) - 1 : r[i] = IF i < k THEN l[i] ELSE l[i + 1]
  BY <1>1, RemoveAtPositions DEF ListRemove, List
<1> HIDE DEF k, r
<1>3. PICK i \in 1 .. Len(l), j \in 1 .. Len(l) : i < j /\ l[i] = u /\ l[j] = v
  BY <1>2 DEF Precedes
<1>4. i # k /\ j # k
  BY <1>1, <1>3
<1> DEFINE at(h) == IF h < k THEN h ELSE h - 1
<1>5. /\ at(i) \in DOMAIN r /\ r[at(i)] = u
      /\ at(j) \in DOMAIN r /\ r[at(j)] = v
      /\ at(i) < at(j)
  BY <1>1, <1>2, <1>3, <1>4
<1> QED BY <1>5 DEF Precedes, r

\* Nothing is before the head.
LEMMA HeadPrecedes ==
  ASSUME NEW S, NEW l \in List(S), l # <<>>, NEW u \in S
  PROVE  ~Precedes(l, u, Head(l))
<1>1. /\ Len(l) \in Nat /\ DOMAIN l = 1 .. Len(l) /\ Len(l) > 0 /\ Head(l) = l[1]
      /\ \A i, j \in DOMAIN l : l[i] = l[j] => i = j
  BY HeadTailProperties DEF List, IsInjective
<1> QED BY <1>1 DEF Precedes

\* The ordered insertion keeps those before whom it finds, and puts n behind a
\* node when neither the node nor one before it is in `later`.
LEMMA InsertPrecedes ==
  ASSUME NEW S, NEW l \in List(S), NEW n \in S, NEW later
  PROVE  /\ \A u, v \in S : Precedes(l, u, v) => Precedes(InsertBefore(l, n, later), u, v)
         /\ \A u \in ToSet(l) :
              (\A m \in ToSet(l) : m \in later => m # u /\ ~Precedes(l, m, u)) =>
                Precedes(InsertBefore(l, n, later), u, n)
<1> DEFINE r == InsertBefore(l, n, later)
<1>1. Len(l) \in Nat /\ DOMAIN l = 1 .. Len(l)
  BY DEF List
<1>2. PICK k \in 1 .. Len(l) + 1 :
        /\ Inserted(r, S, l, n, k)
        /\ \A i \in 1 .. k - 1 : l[i] \notin later
        /\ k <= Len(l) => l[k] \in later
  BY InsertPosition
<1> HIDE DEF r
<1>3. /\ DOMAIN r = 1 .. Len(l) + 1
      /\ \A i \in 1 .. Len(l) + 1 :
           r[i] = IF i < k THEN l[i] ELSE IF i = k THEN n ELSE l[i - 1]
  BY <1>1, <1>2 DEF Inserted
<1>4. ASSUME NEW u \in S, NEW v \in S, Precedes(l, u, v) PROVE Precedes(r, u, v)
  <2>1. PICK i \in 1 .. Len(l), j \in 1 .. Len(l) : i < j /\ l[i] = u /\ l[j] = v
    BY <1>1, <1>4 DEF Precedes
  <2> DEFINE c == IF i < k THEN i ELSE i + 1
             d == IF j < k THEN j ELSE j + 1
  <2>2. c \in 1 .. Len(l) + 1 /\ d \in 1 .. Len(l) + 1 /\ c < d
    BY <1>1, <2>1
  <2>3. r[c] = u /\ r[d] = v
    BY <1>1, <1>3, <2>1
  <2> HIDE DEF c, d
  <2> QED BY <1>3, <2>2, <2>3 DEF Precedes
<1>5. ASSUME NEW u \in ToSet(l),
             \A m \in ToSet(l) : m \in later => m # u /\ ~Precedes(l, m, u)
      PROVE  Precedes(r, u, n)
  <2>1. PICK i \in 1 .. Len(l) : l[i] = u
    BY <1>1 DEF ToSet
  <2>2. i < k
    <3> SUFFICES ASSUME k <= i PROVE FALSE
      BY <1>1, <1>2, <2>1
    <3>1. k \in 1 .. Len(l) /\ l[k] \in later /\ l[k] \in ToSet(l)
      BY <1>1, <1>2, <2>1 DEF ToSet
    <3>2. CASE k = i
      BY <1>5, <2>1, <3>1, <3>2
    <3>3. CASE k < i
      <4>1. Precedes(l, l[k], u)
        BY <1>1, <2>1, <3>1, <3>3 DEF Precedes
      <4> QED BY <1>5, <3>1, <4>1
    <3> QED BY <1>1, <2>1, <3>1, <3>2, <3>3
  <2>3. r[i] = u /\ r[k] = n /\ i \in DOMAIN r /\ k \in DOMAIN r
    BY <1>1, <1>2, <1>3, <2>1, <2>2
  <2> QED BY <2>2, <2>3 DEF Precedes
<1> QED BY <1>4, <1>5 DEF r
=============================================================================
