----------------------------- MODULE TaskProofs -----------------------------
(***************************************************************************)
(* First what the operations of module Kernel do to its lists: to the      *)
(* sequences, the set of tasks that are queued, the set of tasks in the    *)
(* tick list, and the tasks that wait for an object.  Then the invariants  *)
(* of the scheduler, for any tasks, priorities, bounds and applications    *)
(* that use the task API as Spec says.                                     *)
(***************************************************************************)
EXTENDS TaskInv, TLAPS, FiniteSetTheorems

(* Induction over the natural numbers for a set W.                         *)
LEMMA NatInd ==
    ASSUME NEW W \in SUBSET Nat, 0 \in W, \A m \in W : m + 1 \in W
    PROVE  \A n \in Nat : n \in W
<1> SUFFICES ASSUME NEW n \in Nat, n \notin W PROVE FALSE
  OBVIOUS
<1> DEFINE V == {x \in 0 .. n : x \in W}
           f == [x \in V |-> x + 1]
<1>1. IsFiniteSet(V)
  BY FS_Interval, FS_Subset, n \in Int, 0 \in Int, V \subseteq 0 .. n
<1>2. 0 \in V
  OBVIOUS
<1>3. IsFiniteSet(V \ {0}) /\ Cardinality(V \ {0}) = Cardinality(V) - 1
  BY <1>1, <1>2, FS_RemoveElement
<1>4. Cardinality(V) \in Nat
  BY <1>1, FS_CardinalityType
<1>5. f \in [V -> V \ {0}]
  OBVIOUS
<1>6. Cardinality(V \ {0}) < Cardinality(V)
  BY <1>3, <1>4
<1>7. \E x, y \in V : x # y /\ f[x] = f[y]
  <2> HIDE DEF f, V
  <2> QED
    BY <1>1, <1>3, <1>5, <1>6, FS_PigeonHole
<1> QED
  BY <1>7

(* A non-empty set of natural numbers has a least element, ListMin(S).     *)
LEMMA ListMinLeast ==
    ASSUME NEW S \in SUBSET Nat, S # {}
    PROVE  /\ ListMin(S) \in S
           /\ \A y \in S : ListMin(S) <= y
<1> DEFINE W == {n \in Nat : \A x \in S : x >= n}
<1>1. \E x \in S : \A y \in S : x <= y
  <2> SUFFICES ASSUME \A x \in S : \E y \in S : y < x PROVE FALSE
    OBVIOUS
  <2>1. W \in SUBSET Nat /\ 0 \in W
    OBVIOUS
  <2>2. \A m \in W : m + 1 \in W
    <3> SUFFICES ASSUME NEW m \in W PROVE m + 1 \in W
      OBVIOUS
    <3>1. m \in Nat /\ \A x \in S : x >= m
      OBVIOUS
    <3>2. m \notin S
      BY <3>1
    <3> QED
      BY <3>1, <3>2
  <2>3. \A n \in Nat : n \in W
    <3> HIDE DEF W
    <3> QED BY <2>1, <2>2, NatInd
  <2>4. PICK x \in S : TRUE
    OBVIOUS
  <2>5. x + 1 \in W
    BY <2>3, <2>4
  <2> QED
    BY <2>5
<1> QED
  BY <1>1 DEF ListMin

LEMMA PosOfEntry ==
    ASSUME NEW S, NEW s \in Seq(S), NEW x \in ToSet(s)
    PROVE  PosOf(s, x) \in 1 .. Len(s) /\ s[PosOf(s, x)] = x
  BY DEF PosOf, ToSet

(* Two lists joined.                                                       *)
LEMMA JoinList ==
    ASSUME NEW S, NEW s \in Seq(S), NEW r \in Seq(S)
    PROVE  s \o r \in Seq(S) /\ Len(s \o r) = Len(s) + Len(r)
  OBVIOUS

LEMMA JoinEntry ==
    ASSUME NEW S, NEW s \in Seq(S), NEW r \in Seq(S), NEW i \in 1 .. Len(s) + Len(r)
    PROVE  (s \o r)[i] = IF i <= Len(s) THEN s[i] ELSE r[i - Len(s)]
  OBVIOUS

(* Removing the entry at position p.                                       *)
LEMMA RemoveEntry ==
    ASSUME NEW S, NEW s \in Seq(S), NEW p \in 1 .. Len(s)
    PROVE  /\ RemoveAt(s, p) \in Seq(S)
           /\ Len(RemoveAt(s, p)) = Len(s) - 1
           /\ \A i \in 1 .. Len(s) - 1 :
                 RemoveAt(s, p)[i] = IF i < p THEN s[i] ELSE s[i + 1]
<1> DEFINE a == SubSeq(s, 1, p - 1)
           b == SubSeq(s, p + 1, Len(s))
<1>1. RemoveAt(s, p) = a \o b
  BY DEF RemoveAt
<1>2. a \in Seq(S) /\ b \in Seq(S)
  OBVIOUS
<1>3. Len(a) = p - 1
  OBVIOUS
<1>4. Len(b) = Len(s) - p
  OBVIOUS
<1>5. \A i \in 1 .. p - 1 : a[i] = s[i]
  OBVIOUS
<1>6. \A i \in 1 .. Len(s) - p : b[i] = s[p + i]
  OBVIOUS
<1> HIDE DEF a, b
<1>7. RemoveAt(s, p) \in Seq(S)
  BY <1>1, <1>2, JoinList
<1>8. Len(RemoveAt(s, p)) = Len(a) + Len(b)
  BY <1>1, <1>2, JoinList
<1>9. ASSUME NEW i \in 1 .. Len(s) - 1
      PROVE  RemoveAt(s, p)[i] = IF i < p THEN s[i] ELSE s[i + 1]
  <2>1. i \in 1 .. Len(a) + Len(b)
    BY <1>3, <1>4
  <2>2. RemoveAt(s, p)[i] = IF i <= Len(a) THEN a[i] ELSE b[i - Len(a)]
    BY <1>1, <1>2, <2>1, JoinEntry
  <2>3. CASE i < p
    BY <2>2, <2>3, <1>3, <1>5
  <2>4. CASE i >= p
    <3>1. i - (p - 1) \in 1 .. Len(s) - p
      BY <2>4
    <3>2. b[i - (p - 1)] = s[p + (i - (p - 1))]
      BY <1>6, <3>1
    <3>3. RemoveAt(s, p)[i] = b[i - (p - 1)]
      BY <2>2, <2>4, <1>3
    <3> QED
      BY <3>2, <3>3, <2>4
  <2> QED
    BY <2>3, <2>4
<1> QED
  BY <1>3, <1>4, <1>7, <1>8, <1>9

(* Inserting an entry at position p.                                       *)
LEMMA InsertEntry ==
    ASSUME NEW S, NEW s \in Seq(S), NEW x \in S, NEW p \in 1 .. Len(s) + 1
    PROVE  /\ InsertAt(s, p, x) \in Seq(S)
           /\ Len(InsertAt(s, p, x)) = Len(s) + 1
           /\ \A i \in 1 .. p - 1 : InsertAt(s, p, x)[i] = s[i]
           /\ InsertAt(s, p, x)[p] = x
           /\ \A i \in p + 1 .. Len(s) + 1 : InsertAt(s, p, x)[i] = s[i - 1]
<1> DEFINE a == SubSeq(s, 1, p - 1)
           b == SubSeq(s, p, Len(s))
           c == <<x>>
           d == a \o c
<1>1. InsertAt(s, p, x) = d \o b
  BY DEF InsertAt
<1>2. a \in Seq(S) /\ b \in Seq(S)
  OBVIOUS
<1>3. Len(a) = p - 1
  OBVIOUS
<1>4. Len(b) = Len(s) - p + 1
  OBVIOUS
<1>5. \A i \in 1 .. p - 1 : a[i] = s[i]
  OBVIOUS
<1>6. \A i \in 1 .. Len(s) - p + 1 : b[i] = s[p + i - 1]
  OBVIOUS
<1>7. c \in Seq(S) /\ Len(c) = 1 /\ c[1] = x
  OBVIOUS
<1> HIDE DEF a, b, c
<1>8. d \in Seq(S) /\ Len(d) = Len(a) + Len(c)
  BY <1>2, <1>7, JoinList
<1>9. \A i \in 1 .. p : d[i] = IF i < p THEN s[i] ELSE x
  <2> SUFFICES ASSUME NEW i \in 1 .. p
               PROVE  d[i] = IF i < p THEN s[i] ELSE x
    OBVIOUS
  <2>1. i \in 1 .. Len(a) + Len(c)
    BY <1>3, <1>7
  <2>2. d[i] = IF i <= Len(a) THEN a[i] ELSE c[i - Len(a)]
    BY <1>2, <1>7, <2>1, JoinEntry
  <2>3. CASE i < p
    BY <2>2, <2>3, <1>3, <1>5
  <2>4. CASE i = p
    BY <2>2, <2>4, <1>3, <1>7
  <2>5. i < p \/ i = p
    OBVIOUS
  <2> QED
    BY <2>3, <2>4, <2>5, Zenon
<1>10. Len(d) = p
  BY <1>3, <1>7, <1>8
<1> HIDE DEF d
<1>11. InsertAt(s, p, x) \in Seq(S)
  BY <1>1, <1>2, <1>8, JoinList
<1>12. Len(InsertAt(s, p, x)) = Len(d) + Len(b)
  BY <1>1, <1>2, <1>8, JoinList
<1>13. ASSUME NEW i \in 1 .. Len(s) + 1
       PROVE  InsertAt(s, p, x)[i] = IF i < p THEN s[i] ELSE IF i = p THEN x ELSE s[i - 1]
  <2>1. i \in 1 .. Len(d) + Len(b)
    BY <1>4, <1>10
  <2>2. InsertAt(s, p, x)[i] = IF i <= Len(d) THEN d[i] ELSE b[i - Len(d)]
    BY <1>1, <1>2, <1>8, <2>1, JoinEntry
  <2>3. CASE i <= p
    BY <2>2, <2>3, <1>9, <1>10
  <2>4. CASE i > p
    <3>1. i - p \in 1 .. Len(s) - p + 1
      BY <2>4
    <3>2. b[i - p] = s[p + (i - p) - 1]
      BY <1>6, <3>1
    <3>3. InsertAt(s, p, x)[i] = b[i - p]
      BY <2>2, <2>4, <1>10
    <3> QED
      BY <3>2, <3>3, <2>4
  <2> QED
    BY <2>3, <2>4
<1> QED
  BY <1>4, <1>10, <1>11, <1>12, <1>13

(* Lists without repetition, and the set of their entries.                 *)
LEMMA InsertKeepsList ==
    ASSUME NEW S, NEW s \in Seq(S), NEW x \in S \ ToSet(s), NEW p \in 1 .. Len(s) + 1,
           IsInjective(s)
    PROVE  /\ InsertAt(s, p, x) \in Seq(S)
           /\ IsInjective(InsertAt(s, p, x))
           /\ ToSet(InsertAt(s, p, x)) = ToSet(s) \cup {x}
<1> DEFINE r == InsertAt(s, p, x)
<1>0. x \in S
  OBVIOUS
<1>1. r \in Seq(S) /\ Len(r) = Len(s) + 1
  BY InsertEntry
<1>2. /\ \A i \in 1 .. p - 1 : r[i] = s[i]
      /\ r[p] = x
      /\ \A i \in p + 1 .. Len(s) + 1 : r[i] = s[i - 1]
  BY <1>0, InsertEntry
<1> HIDE DEF r
<1>3. \A i \in 1 .. Len(s) : s[i] # x
  BY DEF ToSet
<1>4. \A i, j \in 1 .. Len(s) : s[i] = s[j] => i = j
  BY DEF IsInjective
<1>5. ASSUME NEW i \in 1 .. Len(s) + 1, NEW j \in 1 .. Len(s) + 1, r[i] = r[j]
      PROVE  i = j
  <2>1. \A h \in p + 1 .. Len(s) + 1 : h - 1 \in 1 .. Len(s)
    OBVIOUS
  <2>2. CASE i < p /\ j < p
    <3>1. s[i] = s[j] /\ i \in 1 .. Len(s) /\ j \in 1 .. Len(s)
      BY <1>2, <1>5, <2>2
    <3> QED
      BY <1>4, <3>1
  <2>3. CASE i < p /\ j > p
    <3>1. s[i] = s[j - 1]
      BY <1>2, <1>5, <2>3
    <3> QED
      BY <1>4, <2>1, <2>3, <3>1
  <2>4. CASE i > p /\ j < p
    <3>1. s[i - 1] = s[j]
      BY <1>2, <1>5, <2>4
    <3> QED
      BY <1>4, <2>1, <2>4, <3>1
  <2>5. CASE i > p /\ j > p
    <3>1. s[i - 1] = s[j - 1]
      BY <1>2, <1>5, <2>5
    <3>2. i - 1 = j - 1
      BY <1>4, <2>1, <2>5, <3>1
    <3> QED
      BY <3>2
  <2>6. CASE i = p /\ j # p
    <3>1. r[i] = x
      BY <1>2, <2>6
    <3>2. CASE j < p
      <4>1. r[j] = s[j] /\ j \in 1 .. Len(s)
        BY <1>2, <3>2
      <4> QED
        BY <1>3, <1>5, <3>1, <4>1
    <3>3. CASE j > p
      <4>1. r[j] = s[j - 1] /\ j - 1 \in 1 .. Len(s)
        BY <1>2, <2>1, <3>3
      <4> QED
        BY <1>3, <1>5, <3>1, <4>1
    <3> QED
      BY <2>6, <3>2, <3>3
  <2>7. CASE i # p /\ j = p
    <3>1. r[j] = x
      BY <1>2, <2>7
    <3>2. CASE i < p
      <4>1. r[i] = s[i] /\ i \in 1 .. Len(s)
        BY <1>2, <3>2
      <4> QED
        BY <1>3, <1>5, <3>1, <4>1
    <3>3. CASE i > p
      BY <1>2, <1>3, <1>5, <2>1, <3>1, <3>3
    <3> QED
      BY <2>7, <3>2, <3>3
  <2> QED
    BY <2>2, <2>3, <2>4, <2>5, <2>6, <2>7
<1>6. IsInjective(r)
  BY <1>1, <1>5 DEF IsInjective
<1>7. ASSUME NEW y \in ToSet(r) PROVE y \in ToSet(s) \cup {x}
  <2>1. PICK i \in 1 .. Len(s) + 1 : r[i] = y
    BY <1>1 DEF ToSet
  <2>2. i < p \/ i = p \/ (i > p /\ i - 1 \in 1 .. Len(s))
    OBVIOUS
  <2> QED
    BY <2>1, <2>2, <1>2 DEF ToSet
<1>8. ASSUME NEW y \in ToSet(s) PROVE y \in ToSet(r)
  <2>1. PICK i \in 1 .. Len(s) : s[i] = y
    BY DEF ToSet
  <2>2. CASE i < p
    <3>1. i \in 1 .. Len(s) + 1 /\ r[i] = s[i]
      BY <1>2, <2>2
    <3> QED
      BY <1>1, <2>1, <3>1 DEF ToSet
  <2>3. CASE i >= p
    <3>1. i + 1 \in 1 .. Len(s) + 1 /\ r[i + 1] = s[(i + 1) - 1]
      BY <1>2, <2>3
    <3> QED
      BY <1>1, <2>1, <3>1 DEF ToSet
  <2> QED
    BY <2>2, <2>3
<1>9. x \in ToSet(r)
  BY <1>1, <1>2 DEF ToSet
<1> QED
  BY <1>1, <1>6, <1>7, <1>8, <1>9 DEF r

LEMMA RemoveKeepsList ==
    ASSUME NEW S, NEW s \in Seq(S), NEW x \in ToSet(s), IsInjective(s)
    PROVE  /\ tos_list_del(s, x) \in Seq(S)
           /\ IsInjective(tos_list_del(s, x))
           /\ ToSet(tos_list_del(s, x)) = ToSet(s) \ {x}
<1> DEFINE p == PosOf(s, x)
           r == tos_list_del(s, x)
<1>1. p \in 1 .. Len(s) /\ s[p] = x
  BY PosOfEntry
<1> HIDE DEF p
<1>2. r = RemoveAt(s, p)
  BY DEF tos_list_del, p
<1> HIDE DEF r
<1>3. r \in Seq(S) /\ Len(r) = Len(s) - 1
  BY <1>1, <1>2, RemoveEntry
<1>4. \A i \in 1 .. Len(s) - 1 : r[i] = IF i < p THEN s[i] ELSE s[i + 1]
  BY <1>1, <1>2, RemoveEntry
<1>5. \A i, j \in 1 .. Len(s) : s[i] = s[j] => i = j
  BY DEF IsInjective
<1>6. ASSUME NEW i \in 1 .. Len(s) - 1, NEW j \in 1 .. Len(s) - 1, r[i] = r[j]
      PROVE  i = j
  <2> DEFINE f(h) == IF h < p THEN h ELSE h + 1
  <2>1. f(i) \in 1 .. Len(s) /\ f(j) \in 1 .. Len(s)
    BY <1>1
  <2>2. s[f(i)] = s[f(j)]
    BY <1>4, <1>6
  <2>3. f(i) = f(j)
    BY <1>5, <2>1, <2>2
  <2> QED
    BY <2>3, <1>1
<1>7. IsInjective(r)
  BY <1>3, <1>6 DEF IsInjective
<1>8. ASSUME NEW y \in ToSet(r) PROVE y \in ToSet(s) \ {x}
  <2>1. PICK i \in 1 .. Len(s) - 1 : r[i] = y
    BY <1>3 DEF ToSet
  <2>2. PICK j \in 1 .. Len(s) : s[j] = y /\ j # p
    <3>1. CASE i < p
      BY <1>4, <2>1, <3>1
    <3>2. CASE i >= p
      <4>1. i + 1 \in 1 .. Len(s) /\ s[i + 1] = y /\ i + 1 # p
        BY <1>4, <2>1, <3>2, <1>1
      <4> QED
        BY <4>1
    <3> QED
      BY <3>1, <3>2, <1>1
  <2> QED
    BY <2>2, <1>1, <1>5 DEF ToSet
<1>9. ASSUME NEW y \in ToSet(s) \ {x} PROVE y \in ToSet(r)
  <2>1. PICK i \in 1 .. Len(s) : s[i] = y /\ i # p
    BY <1>1 DEF ToSet
  <2>2. CASE i < p
    <3>1. i \in 1 .. Len(s) - 1 /\ r[i] = y
      BY <1>1, <1>4, <2>1, <2>2
    <3> QED
      BY <1>3, <3>1 DEF ToSet
  <2>3. CASE i > p
    <3>1. i - 1 \in 1 .. Len(s) - 1 /\ r[i - 1] = s[(i - 1) + 1]
      BY <1>1, <1>4, <2>3
    <3> QED
      BY <1>3, <2>1, <3>1 DEF ToSet
  <2> QED
    BY <2>1, <2>2, <2>3, <1>1
<1> QED
  BY <1>3, <1>7, <1>8, <1>9 DEF r

LEMMA AppendKeepsList ==
    ASSUME NEW S, NEW s \in Seq(S), NEW x \in S \ ToSet(s), IsInjective(s)
    PROVE  /\ Append(s, x) \in Seq(S) /\ Append(s, x) # << >>
           /\ IsInjective(Append(s, x))
           /\ ToSet(Append(s, x)) = ToSet(s) \cup {x}
<1> DEFINE r == Append(s, x)
<1>1. r \in Seq(S) /\ Len(r) = Len(s) + 1
  OBVIOUS
<1>2. \A i \in 1 .. Len(s) + 1 : r[i] = IF i <= Len(s) THEN s[i] ELSE x
  OBVIOUS
<1>3. r # << >>
  <2>1. Len(r) # 0
    BY <1>1
  <2> HIDE DEF r
  <2> QED
    BY <2>1
<1> HIDE DEF r
<1>4. \A i \in 1 .. Len(s) : s[i] # x
  BY DEF ToSet
<1>5. IsInjective(r)
  BY <1>1, <1>2, <1>4 DEF IsInjective
<1>6. Len(s) + 1 \in 1 .. Len(r) /\ r[Len(s) + 1] = x
  BY <1>1, <1>2
<1>7. ToSet(r) = ToSet(s) \cup {x}
  BY <1>1, <1>2, <1>6 DEF ToSet
<1> QED
  BY <1>1, <1>3, <1>5, <1>7 DEF r

LEMMA PrependKeepsList ==
    ASSUME NEW S, NEW s \in Seq(S), NEW x \in S \ ToSet(s), IsInjective(s)
    PROVE  /\ <<x>> \o s \in Seq(S) /\ <<x>> \o s # << >>
           /\ IsInjective(<<x>> \o s)
           /\ ToSet(<<x>> \o s) = ToSet(s) \cup {x}
<1> DEFINE r == <<x>> \o s
<1>1. r \in Seq(S) /\ Len(r) = Len(s) + 1
  OBVIOUS
<1>2. r[1] = x /\ \A i \in 2 .. Len(s) + 1 : i - 1 \in 1 .. Len(s) /\ r[i] = s[i - 1]
  OBVIOUS
<1>3. r # << >>
  <2>1. Len(r) # 0
    BY <1>1
  <2> HIDE DEF r
  <2> QED
    BY <2>1
<1> HIDE DEF r
<1>4. \A i \in 1 .. Len(s) : s[i] # x
  BY DEF ToSet
<1>5. IsInjective(r)
  BY <1>1, <1>2, <1>4 DEF IsInjective
<1>6. \A i \in 1 .. Len(s) : i + 1 \in 2 .. Len(r) /\ r[i + 1] = s[i]
  BY <1>1, <1>2
<1>7. ToSet(r) = ToSet(s) \cup {x}
  <2>1. ToSet(s) \subseteq ToSet(r)
    BY <1>1, <1>6 DEF ToSet
  <2>2. x \in ToSet(r)
    BY <1>1, <1>2 DEF ToSet
  <2>3. ASSUME NEW y \in ToSet(r) PROVE y \in ToSet(s) \cup {x}
    <3>1. PICK i \in 1 .. Len(s) + 1 : r[i] = y
      BY <1>1 DEF ToSet
    <3>2. i = 1 \/ i \in 2 .. Len(s) + 1
      OBVIOUS
    <3> QED
      BY <1>2, <3>1, <3>2 DEF ToSet
  <2> QED
    BY <2>1, <2>2, <2>3
<1> QED
  BY <1>1, <1>3, <1>5, <1>7 DEF r

LEMMA EmptyList ==
    ASSUME NEW S, NEW s \in Seq(S)
    PROVE  s = << >> <=> ToSet(s) = {}
  BY DEF ToSet

LEMMA HeadInList ==
    ASSUME NEW S, NEW s \in Seq(S), s # << >>
    PROVE  Head(s) \in ToSet(s) /\ Head(s) = s[1] /\ Head(s) \in S /\ 1 \in DOMAIN s
  BY DEF ToSet

(* Lists in the order of a function pr of their entries.                   *)
SortedBy(s, pr) == \A i, j \in DOMAIN s : i < j => pr[s[i]] <= pr[s[j]]

(* The order lasts when an entry leaves, whatever becomes of its rank.     *)
LEMMA RemoveKeepsOrder ==
    ASSUME NEW S, NEW s \in Seq(S), NEW x \in ToSet(s), IsInjective(s),
           NEW pr, SortedBy(s, pr), NEW pq, \A y \in ToSet(s) \ {x} : pq[y] = pr[y]
    PROVE  SortedBy(tos_list_del(s, x), pq)
<1> DEFINE p    == PosOf(s, x)
           r    == tos_list_del(s, x)
           g(i) == IF i < p THEN i ELSE i + 1
<1>1. p \in 1 .. Len(s) /\ s[p] = x
  BY PosOfEntry
<1>2. r = RemoveAt(s, p)
  BY DEF tos_list_del
<1> HIDE DEF p, r
<1>3. r \in Seq(S) /\ Len(r) = Len(s) - 1
  BY <1>1, <1>2, RemoveEntry
<1>4. \A i \in 1 .. Len(s) - 1 : r[i] = s[g(i)]
  BY <1>1, <1>2, RemoveEntry
<1>5. \A i \in 1 .. Len(s) - 1 : g(i) \in 1 .. Len(s) /\ g(i) # p
  BY <1>1
<1>6. \A i, j \in 1 .. Len(s) : s[i] = s[j] => i = j
  BY DEF IsInjective
<1>7. ASSUME NEW i \in 1 .. Len(s) - 1 PROVE pq[r[i]] = pr[s[g(i)]]
  <2>1. g(i) \in 1 .. Len(s) /\ g(i) # p
    BY <1>5
  <2>2. r[i] = s[g(i)]
    BY <1>4
  <2> HIDE DEF g
  <2>3. s[g(i)] # x
    BY <1>1, <1>6, <2>1
  <2>4. s[g(i)] \in ToSet(s) \ {x}
    BY <2>1, <2>3 DEF ToSet
  <2> QED
    BY <2>2, <2>4
<1>8. ASSUME NEW i \in 1 .. Len(s) - 1, NEW j \in 1 .. Len(s) - 1, i < j
      PROVE  pq[r[i]] <= pq[r[j]]
  <2>1. g(i) \in 1 .. Len(s) /\ g(j) \in 1 .. Len(s)
    BY <1>5
  <2>2. g(i) < g(j)
    BY <1>1, <1>8
  <2>3. pr[s[g(i)]] <= pr[s[g(j)]]
    <3> HIDE DEF g
    <3> QED
      BY <2>1, <2>2 DEF SortedBy
  <2> HIDE DEF g
  <2> QED
    BY <1>7, <2>3
<1>9. DOMAIN r = 1 .. Len(s) - 1
  BY <1>3
<1>10. SortedBy(r, pq)
  BY <1>8, <1>9 DEF SortedBy
<1> QED
  BY <1>10 DEF r

(* An entry is put behind those that do not rank after it.                 *)
LEMMA InsertKeepsOrder ==
    ASSUME NEW S, NEW s \in Seq(S), NEW x \in S, NEW pr \in [S -> Nat], SortedBy(s, pr),
           NEW p, p = ListMin({i \in DOMAIN s : pr[x] < pr[s[i]]} \cup {Len(s) + 1})
    PROVE  p \in 1 .. Len(s) + 1 /\ SortedBy(InsertAt(s, p, x), pr)
<1> DEFINE n == Len(s)
           P == {i \in DOMAIN s : pr[x] < pr[s[i]]} \cup {n + 1}
           r == InsertAt(s, p, x)
<1>1. n \in Nat /\ DOMAIN s = 1 .. n /\ \A i \in 1 .. n : s[i] \in S /\ pr[s[i]] \in Nat
  OBVIOUS
<1>2. pr[x] \in Nat
  OBVIOUS
<1>3. P \in SUBSET Nat /\ n + 1 \in P /\ P \subseteq 1 .. n + 1
  <2> HIDE DEF n
  <2> QED
    BY <1>1
<1>4. \A i \in 1 .. n : i \in P <=> pr[x] < pr[s[i]]
  <2> HIDE DEF n
  <2> QED
    BY <1>1
<1>5. p = ListMin(P)
  OBVIOUS
<1> HIDE DEF P
<1>6. p \in P /\ \A i \in P : p <= i
  <2>1. P # {}
    BY <1>3
  <2>2. ListMin(P) \in P /\ \A i \in P : ListMin(P) <= i
    BY <1>3, <2>1, ListMinLeast
  <2> QED
    BY <1>5, <2>2
<1>7. p \in 1 .. n + 1
  BY <1>3, <1>6
<1>8. /\ r \in Seq(S) /\ Len(r) = n + 1
      /\ \A i \in 1 .. p - 1 : r[i] = s[i]
      /\ r[p] = x
      /\ \A i \in p + 1 .. n + 1 : r[i] = s[i - 1]
  <2>1. p \in 1 .. Len(s) + 1
    BY <1>7
  <2> HIDE <1>5
  <2>2. r \in Seq(S) /\ Len(r) = Len(s) + 1
    BY <2>1, InsertEntry
  <2>3. \A i \in 1 .. p - 1 : r[i] = s[i]
    BY <2>1, InsertEntry
  <2>4. r[p] = x
    BY <2>1, InsertEntry
  <2>5. \A i \in p + 1 .. Len(s) + 1 : r[i] = s[i - 1]
    BY <2>1, InsertEntry
  <2> QED
    BY <2>2, <2>3, <2>4, <2>5
<1> HIDE DEF r, n
<1>9. \A i \in 1 .. p - 1 : i \in 1 .. n /\ pr[s[i]] <= pr[x]
  <2> SUFFICES ASSUME NEW i \in 1 .. p - 1 PROVE i \in 1 .. n /\ pr[s[i]] <= pr[x]
    OBVIOUS
  <2>1. i \in 1 .. n /\ i \notin P
    BY <1>1, <1>6, <1>7
  <2> QED
    BY <1>1, <1>2, <1>4, <2>1
<1>10. \A i, j \in 1 .. n : i < j => pr[s[i]] <= pr[s[j]]
  BY <1>1 DEF SortedBy
<1>11. \A j \in p .. n : j \in 1 .. n /\ pr[x] <= pr[s[j]]
  <2> SUFFICES ASSUME NEW j \in p .. n PROVE j \in 1 .. n /\ pr[x] <= pr[s[j]]
    OBVIOUS
  <2>1. j \in 1 .. n /\ p \in 1 .. n
    BY <1>1, <1>7
  <2>2. pr[x] < pr[s[p]]
    BY <1>4, <1>6, <2>1
  <2>3. pr[s[p]] <= pr[s[j]]
    BY <1>1, <1>10, <2>1
  <2> QED
    BY <1>1, <1>2, <2>1, <2>2, <2>3
<1>12. ASSUME NEW i \in 1 .. n + 1, NEW j \in 1 .. n + 1, i < j
       PROVE  pr[r[i]] <= pr[r[j]]
  <2>1. CASE j < p
    <3>1. i \in 1 .. p - 1 /\ j \in 1 .. p - 1
      BY <1>1, <1>7, <1>12, <2>1
    <3> QED
      BY <1>8, <1>9, <1>10, <1>12, <3>1
  <2>2. CASE j = p
    <3>1. i \in 1 .. p - 1
      BY <1>1, <1>7, <1>12, <2>2
    <3> QED
      BY <1>8, <1>9, <2>2, <3>1
  <2>3. CASE p < j
    <3>1. j \in p + 1 .. n + 1 /\ j - 1 \in p .. n
      BY <1>1, <1>7, <2>3
    <3>2. r[j] = s[j - 1] /\ pr[x] <= pr[s[j - 1]]
      BY <1>8, <1>11, <3>1
    <3>3. CASE i < p
      <4>1. i \in 1 .. p - 1
        BY <1>1, <1>7, <3>3
      <4>2. r[i] = s[i] /\ pr[s[i]] <= pr[x] /\ i \in 1 .. n /\ j - 1 \in 1 .. n
        BY <1>8, <1>9, <1>11, <3>1, <4>1
      <4>3. pr[s[i]] \in Nat /\ pr[s[j - 1]] \in Nat
        BY <1>1, <4>2
      <4> QED
        BY <1>2, <3>2, <4>2, <4>3
    <3>4. CASE i = p
      BY <1>8, <3>2, <3>4
    <3>5. CASE p < i
      <4>1. i \in p + 1 .. n + 1 /\ i - 1 \in 1 .. n /\ j - 1 \in 1 .. n /\ i - 1 < j - 1
        BY <1>1, <1>7, <1>12, <3>1, <3>5
      <4>2. r[i] = s[i - 1]
        BY <1>8, <4>1
      <4> QED
        BY <1>10, <3>2, <4>1, <4>2
    <3> QED
      BY <1>1, <1>7, <3>3, <3>4, <3>5
  <2> QED
    BY <1>1, <1>7, <2>1, <2>2, <2>3
<1>13. SortedBy(r, pr)
  <2>1. DOMAIN r = 1 .. n + 1
    BY <1>1, <1>8
  <2> QED
    BY <1>12, <2>1 DEF SortedBy
<1> QED
  BY <1>7, <1>13 DEF r, n

----------------------------------------------------------------------------
(* The ready queue of k holds exactly the tasks S.                         *)
Queued(k, S) ==
    /\ \A p \in Prio : /\ IsInjective(k.rdyq[p])
                       /\ ToSet(k.rdyq[p]) = {t \in S : k.prio[t] = p}
    /\ k.mask = {p \in Prio : k.rdyq[p] # << >>}
    /\ k.highest = ListMin(k.mask)

(* The tick list of k holds exactly the tasks S.                           *)
TickHolds(k, S) == IsInjective(k.tick) /\ ToSet(k.tick) = S

(* What the list operations leave alone.                                   *)
SameFrame(k, r) ==
    /\ r.obj = k.obj /\ r.curr = k.curr /\ r.next = k.next /\ r.pendsv = k.pendsv
    /\ r.irqNest = k.irqNest /\ r.schedLock = k.schedLock
    /\ r.own = k.own /\ r.prioPending = k.prioPending
    /\ r.owner = k.owner /\ r.nesting = k.nesting /\ r.ownerOrigPrio = k.ownerOrigPrio
SameControl(k, r) ==
    /\ r.obj = k.obj /\ r.curr = k.curr /\ r.next = k.next /\ r.pendsv = k.pendsv
    /\ r.irqNest = k.irqNest /\ r.schedLock = k.schedLock
    /\ r.own = k.own /\ r.prioPending = k.prioPending
    /\ r.owner = k.owner /\ r.nesting = k.nesting /\ r.ownerOrigPrio = k.ownerOrigPrio
    /\ r.pend = k.pend /\ r.pendingObj = k.pendingObj /\ r.pendState = k.pendState
SameTasks(k, r) == SameControl(k, r) /\ r.state = k.state /\ r.prio = k.prio
SameTick(k, r)  == r.tick = k.tick /\ r.expires = k.expires
SameQueue(k, r) == r.rdyq = k.rdyq /\ r.mask = k.mask /\ r.highest = k.highest

LEMMA ListMinIs ==
    ASSUME NEW S \in SUBSET Nat, NEW m \in S, \A y \in S : m <= y
    PROVE  ListMin(S) = m
<1>1. ListMin(S) \in S /\ \A y \in S : ListMin(S) <= y
  BY ListMinLeast
<1>2. ListMin(S) <= m /\ m <= ListMin(S)
  BY <1>1
<1>3. ListMin(S) \in Nat /\ m \in Nat
  BY <1>1
<1> QED
  BY <1>2, <1>3

(* The first task of the best queue.                                       *)
LEMMA BestQueued ==
    ASSUME NEW k \in KernelType, NEW S \in SUBSET Task, Queued(k, S), S # {}
    PROVE  /\ k.mask # {} /\ k.highest \in k.mask
           /\ \A p \in k.mask : k.highest <= p
           /\ readyqueue_highest_ready_task_get(k) \in S
<1>1. k.prio \in [Task -> Prio] /\ k.rdyq \in [Prio -> Seq(Task)]
  BY DEF KernelType
<1>2. PICK t \in S : t \in ToSet(k.rdyq[k.prio[t]])
  BY <1>1 DEF Queued
<1>3. k.rdyq[k.prio[t]] # << >>
  BY <1>1, <1>2, EmptyList
<1>4. k.mask # {}
  BY <1>1, <1>3 DEF Queued
<1>5. k.mask \in SUBSET Nat
  BY PrioAssumption DEF Queued, Prio
<1>6. k.highest \in k.mask /\ \A p \in k.mask : k.highest <= p
  <2>1. k.highest = ListMin(k.mask)
    BY DEF Queued
  <2> QED
    BY <1>4, <1>5, <2>1, ListMinLeast
<1>7. k.highest \in Prio /\ k.rdyq[k.highest] # << >> /\ k.rdyq[k.highest] \in Seq(Task)
  BY <1>1, <1>6 DEF Queued
<1>8. Head(k.rdyq[k.highest]) \in ToSet(k.rdyq[k.highest])
  BY <1>7, HeadInList
<1> QED
  BY <1>4, <1>6, <1>7, <1>8 DEF Queued, readyqueue_highest_ready_task_get

(* One queue is replaced; a priority is marked.                            *)
SetQueue(k, p, s) == [k EXCEPT !.rdyq[p] = s]

LEMMA QueueReplaced ==
    ASSUME NEW k \in KernelType, NEW p \in Prio, NEW s \in Seq(Task)
    PROVE  LET r == SetQueue(k, p, s)
           IN  /\ r \in KernelType /\ r.rdyq = [k.rdyq EXCEPT ![p] = s]
               /\ r.mask = k.mask /\ r.highest = k.highest
               /\ SameTasks(k, r) /\ SameTick(k, r)
  BY DEF SetQueue, KernelType, SameTasks, SameTick, SameControl

LEMMA PrioMarked ==
    ASSUME NEW k \in KernelType, NEW p \in Prio
    PROVE  LET r == readyqueue_prio_mark(k, p)
           IN  /\ r \in KernelType /\ r.rdyq = k.rdyq
               /\ r.mask = k.mask \cup {p}
               /\ r.highest = IF p < k.highest THEN p ELSE k.highest
               /\ SameTasks(k, r) /\ SameTick(k, r)
  BY DEF KernelType, readyqueue_prio_mark, SameTasks, SameTick, SameControl

LEMMA SameTransitive ==
    ASSUME NEW a, NEW b, NEW c
    PROVE  /\ SameTasks(a, b) /\ SameTasks(b, c) => SameTasks(a, c)
           /\ SameTick(a, b) /\ SameTick(b, c) => SameTick(a, c)
           /\ SameQueue(a, b) /\ SameQueue(b, c) => SameQueue(a, c)
           /\ SameControl(a, b) /\ SameControl(b, c) => SameControl(a, c)
           /\ SameFrame(a, b) /\ SameFrame(b, c) => SameFrame(a, c)
           /\ SameTasks(a, b) => SameControl(a, b)
           /\ SameControl(a, b) => SameFrame(a, b)
           /\ SameFrame(a, a)
           /\ SameTasks(a, a) /\ SameTick(a, a) /\ SameQueue(a, a) /\ SameControl(a, a)
  BY DEF SameTasks, SameTick, SameQueue, SameControl, SameFrame

(* A task outside the ready queue is added to it.                          *)
LEMMA AddToQueue ==
    ASSUME NEW k \in KernelType, NEW S \in SUBSET Task, Queued(k, S), S # {},
           NEW t \in Task \ S, NEW s \in Seq(Task),
           IsInjective(s), ToSet(s) = ToSet(k.rdyq[k.prio[t]]) \cup {t}, s # << >>,
           NEW r,
           LET p  == k.prio[t]
               k1 == IF k.rdyq[p] = << >> THEN readyqueue_prio_mark(k, p) ELSE k
           IN  r = SetQueue(k1, p, s)
    PROVE  /\ r \in KernelType /\ Queued(r, S \cup {t})
           /\ SameTasks(k, r) /\ SameTick(k, r)
<1> DEFINE p == k.prio[t]
           k1 == IF k.rdyq[p] = << >> THEN readyqueue_prio_mark(k, p) ELSE k
<1>1. /\ p \in Prio /\ k.prio \in [Task -> Prio] /\ k.rdyq \in [Prio -> Seq(Task)]
      /\ k.mask \in SUBSET Prio /\ k.highest \in Prio
  BY DEF KernelType
<1>2. p \in k.mask <=> k.rdyq[p] # << >>
  BY <1>1 DEF Queued
<1>3. /\ k1 \in KernelType /\ k1.rdyq = k.rdyq
      /\ k1.mask = k.mask \cup {p}
      /\ k1.highest = IF k.rdyq[p] = << >> /\ p < k.highest THEN p ELSE k.highest
      /\ SameTasks(k, k1) /\ SameTick(k, k1)
  <2>1. CASE k.rdyq[p] = << >>
    <3>1. k1 = readyqueue_prio_mark(k, p)
      BY <2>1
    <3> HIDE DEF k1
    <3> QED
      BY <1>1, <2>1, <3>1, PrioMarked
  <2>2. CASE k.rdyq[p] # << >>
    <3>1. k1 = k
      BY <2>2
    <3> HIDE DEF k1
    <3> QED
      BY <1>2, <2>2, <3>1, SameTransitive
  <2> QED
    BY <2>1, <2>2
<1>4. r = SetQueue(k1, p, s)
  OBVIOUS
<1> HIDE DEF k1
<1>5. k.prio[t] = p /\ ToSet(s) = ToSet(k.rdyq[p]) \cup {t}
  OBVIOUS
<1> HIDE DEF p
<1>6. /\ r \in KernelType /\ r.rdyq = [k1.rdyq EXCEPT ![p] = s]
      /\ r.mask = k1.mask /\ r.highest = k1.highest
      /\ SameTasks(k1, r) /\ SameTick(k1, r)
  <2>1. k1 \in KernelType /\ p \in Prio
    BY <1>1, <1>3
  <2> QED
    BY <2>1, <1>4, QueueReplaced
<1>7. r \in KernelType
  BY <1>6
<1>8. /\ r.rdyq = [k.rdyq EXCEPT ![p] = s] /\ r.mask = k1.mask /\ r.highest = k1.highest
      /\ SameTasks(k, r) /\ SameTick(k, r)
  BY <1>3, <1>6, SameTransitive
<1>9. r.rdyq[p] = s
  BY <1>1, <1>8
<1>10. ASSUME NEW q \in Prio, q # p PROVE r.rdyq[q] = k.rdyq[q]
  BY <1>1, <1>8, <1>10
<1>11. \A q \in Prio : /\ IsInjective(r.rdyq[q])
                      /\ ToSet(r.rdyq[q]) = {u \in S \cup {t} : r.prio[u] = q}
  <2> SUFFICES ASSUME NEW q \in Prio
               PROVE  /\ IsInjective(r.rdyq[q])
                      /\ ToSet(r.rdyq[q]) = {u \in S \cup {t} : r.prio[u] = q}
    OBVIOUS
  <2>1. r.prio = k.prio
    BY <1>8 DEF SameTasks
  <2>2. IsInjective(k.rdyq[q]) /\ ToSet(k.rdyq[q]) = {u \in S : k.prio[u] = q}
    BY DEF Queued
  <2>3. CASE q = p
    <3>1. {u \in S \cup {t} : r.prio[u] = p} = {u \in S : k.prio[u] = p} \cup {t}
      BY <1>5, <2>1
    <3> QED
      BY <1>5, <1>9, <2>2, <2>3, <3>1
  <2>4. CASE q # p
    <3>1. {u \in S \cup {t} : r.prio[u] = q} = {u \in S : k.prio[u] = q}
      BY <1>5, <2>1, <2>4
    <3> QED
      BY <1>10, <2>2, <2>4, <3>1
  <2> QED
    BY <2>3, <2>4
<1>12. r.mask = {q \in Prio : r.rdyq[q] # << >>}
  <2>1. r.rdyq[p] = s /\ \A q \in Prio \ {p} : r.rdyq[q] = k.rdyq[q]
    BY <1>9, <1>10
  <2>2. k.mask = {q \in Prio : k.rdyq[q] # << >>}
    BY DEF Queued
  <2>3. r.mask = k.mask \cup {p}
    BY <1>3, <1>8
  <2>4. \A q \in Prio : q \in r.mask <=> r.rdyq[q] # << >>
    BY <2>1, <2>2, <2>3
  <2> QED
    BY <1>1, <2>2, <2>3, <2>4
<1>13. r.highest = ListMin(r.mask)
  <2>1. k.mask # {} /\ k.highest \in k.mask /\ \A q \in k.mask : k.highest <= q
    BY BestQueued
  <2>2. r.mask \in SUBSET Nat
    BY <1>12, PrioAssumption DEF Prio
  <2>3. r.highest \in r.mask /\ \A q \in r.mask : r.highest <= q
    <3>1. \A q \in r.mask : q \in Nat
      BY <2>2
    <3>2. r.mask = k.mask \cup {p}
      BY <1>3, <1>8
    <3>3. CASE k.rdyq[p] = << >> /\ p < k.highest
      <4>1. r.highest = p
        BY <1>3, <1>8, <3>3
      <4>2. k.highest \in Nat /\ p \in Nat
        BY <2>1, <3>1, <3>2
      <4>3. \A q \in k.mask : q \in Nat /\ p <= q
        BY <2>1, <3>1, <3>2, <3>3, <4>2
      <4> QED
        BY <3>2, <4>1, <4>2, <4>3
    <3>4. CASE k.rdyq[p] = << >> /\ ~(p < k.highest)
      <4>1. r.highest = k.highest
        BY <1>3, <1>8, <3>4
      <4> QED
        BY <2>1, <3>1, <3>2, <3>4, <4>1
    <3>5. CASE k.rdyq[p] # << >>
      <4>1. r.highest = k.highest
        BY <1>3, <1>8, <3>5
      <4> QED
        BY <1>2, <2>1, <3>1, <3>2, <3>5, <4>1
    <3> QED
      BY <3>3, <3>4, <3>5
  <2> QED
    BY <2>2, <2>3, ListMinIs
<1> QED
  BY <1>7, <1>8, <1>11, <1>12, <1>13 DEF Queued

LEMMA AddTail ==
    ASSUME NEW k \in KernelType, NEW S \in SUBSET Task, Queued(k, S), S # {},
           NEW t \in Task \ S
    PROVE  LET r == readyqueue_add_tail(k, t)
           IN  /\ r \in KernelType /\ Queued(r, S \cup {t})
               /\ SameTasks(k, r) /\ SameTick(k, r)
<1> DEFINE p == k.prio[t]
           k1 == IF k.rdyq[p] = << >> THEN readyqueue_prio_mark(k, p) ELSE k
           s == Append(k.rdyq[p], t)
<1>1. p \in Prio /\ k.rdyq \in [Prio -> Seq(Task)] /\ k.rdyq[p] \in Seq(Task)
  BY DEF KernelType
<1>2. IsInjective(k.rdyq[p]) /\ t \notin ToSet(k.rdyq[p])
  BY <1>1 DEF Queued
<1>3. s \in Seq(Task) /\ s # << >> /\ IsInjective(s) /\ ToSet(s) = ToSet(k.rdyq[p]) \cup {t}
  <2> HIDE DEF p
  <2> QED
    BY <1>1, <1>2, AppendKeepsList
<1>4. k1.rdyq[p] = k.rdyq[p]
  BY DEF readyqueue_prio_mark, KernelType
<1>5. readyqueue_add_tail(k, t) = SetQueue(k1, p, s)
  BY <1>4 DEF SetQueue, readyqueue_add_tail
<1> QED
  BY <1>3, <1>5, AddToQueue

LEMMA AddHead ==
    ASSUME NEW k \in KernelType, NEW S \in SUBSET Task, Queued(k, S), S # {},
           NEW t \in Task \ S
    PROVE  LET r == readyqueue_add_head(k, t)
           IN  /\ r \in KernelType /\ Queued(r, S \cup {t})
               /\ SameTasks(k, r) /\ SameTick(k, r)
<1> DEFINE p == k.prio[t]
           k1 == IF k.rdyq[p] = << >> THEN readyqueue_prio_mark(k, p) ELSE k
           s == <<t>> \o k.rdyq[p]
<1>1. p \in Prio /\ k.rdyq \in [Prio -> Seq(Task)] /\ k.rdyq[p] \in Seq(Task)
  BY DEF KernelType
<1>2. IsInjective(k.rdyq[p]) /\ t \notin ToSet(k.rdyq[p])
  BY <1>1 DEF Queued
<1>3. s \in Seq(Task) /\ s # << >> /\ IsInjective(s) /\ ToSet(s) = ToSet(k.rdyq[p]) \cup {t}
  <2> HIDE DEF p
  <2> QED
    BY <1>1, <1>2, PrependKeepsList
<1>4. k1.rdyq[p] = k.rdyq[p]
  BY DEF readyqueue_prio_mark, KernelType
<1>5. readyqueue_add_head(k, t) = SetQueue(k1, p, s)
  BY <1>4 DEF SetQueue, readyqueue_add_head
<1> QED
  BY <1>3, <1>5, AddToQueue

LEMMA AddAny ==
    ASSUME NEW k \in KernelType, NEW S \in SUBSET Task, Queued(k, S), S # {},
           NEW t \in Task \ S
    PROVE  LET r == readyqueue_add(k, t)
           IN  /\ r \in KernelType /\ Queued(r, S \cup {t})
               /\ SameTasks(k, r) /\ SameTick(k, r)
  BY AddTail, AddHead DEF readyqueue_add

(* A task leaves the ready queue.                                          *)
SetMask(k, m)    == [k EXCEPT !.mask = m]
SetHighest(k, h) == [k EXCEPT !.highest = h]

LEMMA MaskReplaced ==
    ASSUME NEW k \in KernelType, NEW m \in SUBSET Prio
    PROVE  LET r == SetMask(k, m)
           IN  /\ r \in KernelType /\ r.rdyq = k.rdyq
               /\ r.mask = m /\ r.highest = k.highest
               /\ SameTasks(k, r) /\ SameTick(k, r)
  BY DEF SetMask, KernelType, SameTasks, SameTick, SameControl

LEMMA HighestReplaced ==
    ASSUME NEW k \in KernelType, NEW h \in Prio
    PROVE  LET r == SetHighest(k, h)
           IN  /\ r \in KernelType /\ r.rdyq = k.rdyq
               /\ r.mask = k.mask /\ r.highest = h
               /\ SameTasks(k, r) /\ SameTick(k, r)
  BY DEF SetHighest, KernelType, SameTasks, SameTick, SameControl

LEMMA RemoveFromQueue ==
    ASSUME NEW k \in KernelType, NEW S \in SUBSET Task, Queued(k, S),
           Idle \in S, NEW t \in S \ {Idle}
    PROVE  LET r == readyqueue_remove(k, t)
           IN  /\ r \in KernelType /\ Queued(r, S \ {t})
               /\ SameTasks(k, r) /\ SameTick(k, r)
<1> DEFINE p  == k.prio[t]
           s  == tos_list_del(k.rdyq[p], t)
           k1 == SetQueue(k, p, s)
           k2 == IF k1.rdyq[p] = << >> THEN SetMask(k1, k1.mask \ {p}) ELSE k1
           r  == readyqueue_remove(k, t)
<1>1. /\ k.prio \in [Task -> Prio] /\ k.rdyq \in [Prio -> Seq(Task)]
      /\ k.mask \in SUBSET Prio /\ k.highest \in Prio
  BY DEF KernelType
<1>2. p \in Prio /\ k.rdyq[p] \in Seq(Task) /\ t \in Task
  BY <1>1
<1>3. r = IF p = k2.highest THEN SetHighest(k2, ListMin(k2.mask)) ELSE k2
  BY DEF readyqueue_remove, SetQueue, SetMask, SetHighest, readyqueue_prio_highest_get
<1>4. IsInjective(k.rdyq[p]) /\ t \in ToSet(k.rdyq[p])
  BY <1>2 DEF Queued
<1>5. /\ s \in Seq(Task) /\ IsInjective(s)
      /\ ToSet(s) = ToSet(k.rdyq[p]) \ {t}
  <2> HIDE DEF p
  <2> QED
    BY <1>2, <1>4, RemoveKeepsList
<1>6. k.prio[t] = p
  OBVIOUS
<1> HIDE DEF r, p
<1> HIDE DEF s
<1>7. /\ k1 \in KernelType /\ k1.rdyq = [k.rdyq EXCEPT ![p] = s]
      /\ k1.mask = k.mask /\ k1.highest = k.highest
      /\ SameTasks(k, k1) /\ SameTick(k, k1)
  BY <1>2, <1>5, QueueReplaced
<1>8. k1.rdyq[p] = s
  BY <1>1, <1>2, <1>7
<1>9. ASSUME NEW q \in Prio, q # p PROVE k1.rdyq[q] = k.rdyq[q]
  BY <1>1, <1>2, <1>7, <1>9
<1> HIDE DEF k1
<1>10. /\ k2 \in KernelType /\ k2.rdyq = k1.rdyq
       /\ k2.mask = IF s = << >> THEN k.mask \ {p} ELSE k.mask
       /\ k2.highest = k.highest
       /\ SameTasks(k, k2) /\ SameTick(k, k2)
  <2>1. CASE s = << >>
    <3>1. k2 = SetMask(k1, k1.mask \ {p}) /\ k1.mask \ {p} \in SUBSET Prio
      BY <1>1, <1>7, <1>8, <2>1
    <3> HIDE DEF k2
    <3>2. /\ k2 \in KernelType /\ k2.rdyq = k1.rdyq /\ k2.mask = k1.mask \ {p}
          /\ k2.highest = k1.highest /\ SameTasks(k1, k2) /\ SameTick(k1, k2)
      BY <1>1, <1>7, <3>1, MaskReplaced
    <3> QED
      BY <1>7, <2>1, <3>2, SameTransitive
  <2>2. CASE s # << >>
    BY <1>7, <1>8, <2>2
  <2> QED
    BY <2>1, <2>2
<1> HIDE DEF k2
<1>11. \A q \in Prio : IsInjective(k2.rdyq[q])
                      /\ ToSet(k2.rdyq[q]) = {u \in S \ {t} : k2.prio[u] = q}
  <2> SUFFICES ASSUME NEW q \in Prio
               PROVE  IsInjective(k2.rdyq[q])
                      /\ ToSet(k2.rdyq[q]) = {u \in S \ {t} : k2.prio[u] = q}
    OBVIOUS
  <2>1. k2.prio = k.prio
    BY <1>10 DEF SameTasks
  <2>2. IsInjective(k.rdyq[q]) /\ ToSet(k.rdyq[q]) = {u \in S : k.prio[u] = q}
    BY DEF Queued
  <2>3. CASE q = p
    <3>1. {u \in S \ {t} : k2.prio[u] = p} = {u \in S : k.prio[u] = p} \ {t}
      BY <2>1
    <3> QED
      BY <1>5, <1>8, <1>10, <2>2, <2>3, <3>1
  <2>4. CASE q # p
    <3>1. {u \in S \ {t} : k2.prio[u] = q} = {u \in S : k.prio[u] = q}
      BY <1>6, <2>1, <2>4
    <3> QED
      BY <1>9, <1>10, <2>2, <2>4, <3>1
  <2> QED
    BY <2>3, <2>4
<1>12. k2.mask = {q \in Prio : k2.rdyq[q] # << >>}
  <2>1. k.mask = {q \in Prio : k.rdyq[q] # << >>}
    BY DEF Queued
  <2>2. \A q \in Prio : q \in k2.mask <=> k2.rdyq[q] # << >>
    <3> SUFFICES ASSUME NEW q \in Prio PROVE q \in k2.mask <=> k2.rdyq[q] # << >>
      OBVIOUS
    <3>1. CASE q # p
      BY <1>9, <1>10, <2>1, <3>1
    <3>2. CASE q = p
      <4>1. k.rdyq[p] # << >>
        BY <1>2, <1>4, EmptyList
      <4> QED
        BY <1>8, <1>10, <2>1, <3>2, <4>1
    <3> QED
      BY <3>1, <3>2
  <2>3. k2.mask \subseteq Prio
    BY <1>1, <1>10
  <2> QED
    BY <2>2, <2>3
<1>13. k2.mask \in SUBSET Nat /\ k2.mask # {} /\ k2.mask \in SUBSET Prio
  <2>1. Idle \in Task /\ Idle \in S \ {t}
    BY IdleAssumption
  <2>2. k2.prio[Idle] \in Prio
    BY <1>10, <2>1 DEF KernelType
  <2>3. Idle \in ToSet(k2.rdyq[k2.prio[Idle]])
    BY <1>11, <2>1, <2>2
  <2>4. k2.rdyq[k2.prio[Idle]] \in Seq(Task)
    BY <1>10, <2>2 DEF KernelType
  <2>5. k2.prio[Idle] \in k2.mask
    BY <1>12, <2>2, <2>3, <2>4, EmptyList
  <2> QED
    BY <1>12, <2>5, PrioAssumption DEF Prio
<1>14. ListMin(k2.mask) \in k2.mask
  BY <1>13, ListMinLeast
<1>15. CASE p = k2.highest
  <2>1. r = SetHighest(k2, ListMin(k2.mask)) /\ ListMin(k2.mask) \in Prio
    BY <1>3, <1>13, <1>14, <1>15
  <2>2. /\ r \in KernelType /\ r.rdyq = k2.rdyq /\ r.mask = k2.mask
        /\ r.highest = ListMin(k2.mask) /\ SameTasks(k2, r) /\ SameTick(k2, r)
    BY <1>10, <1>13, <2>1, HighestReplaced
  <2>3. r.prio = k2.prio
    BY <2>2 DEF SameTasks
  <2>4. Queued(r, S \ {t})
    BY <1>11, <1>12, <2>2, <2>3 DEF Queued
  <2> QED
    BY <1>10, <2>2, <2>4, SameTransitive DEF r
<1>16. CASE p # k2.highest
  <2>1. r = k2
    BY <1>3, <1>16
  <2>2. k.mask \in SUBSET Nat /\ k.highest = ListMin(k.mask) /\ p \in k.mask
    <3>1. k.mask \in SUBSET Nat
      BY <1>1, PrioAssumption DEF Prio
    <3>2. k.rdyq[p] # << >>
      BY <1>2, <1>4, EmptyList
    <3> QED
      BY <1>2, <3>1, <3>2 DEF Queued
  <2>3. k.highest \in k.mask /\ \A q \in k.mask : k.highest <= q
    BY <2>2, ListMinLeast
  <2>4. k.highest \in k2.mask /\ \A q \in k2.mask : k.highest <= q
    BY <1>10, <1>16, <2>3
  <2>5. k2.highest = ListMin(k2.mask)
    BY <1>10, <1>13, <2>4, ListMinIs
  <2> QED
    BY <1>10, <1>11, <1>12, <2>1, <2>5 DEF Queued, r
<1> QED
  BY <1>15, <1>16

(* Round robin turns a queue.                                              *)
LEMMA TurnQueue ==
    ASSUME NEW k \in KernelType, NEW S \in SUBSET Task, Queued(k, S), NEW p \in Prio
    PROVE  LET r == readyqueue_move_head_to_tail(k, p)
           IN  /\ r \in KernelType /\ Queued(r, S)
               /\ SameTasks(k, r) /\ SameTick(k, r)
<1> DEFINE r == readyqueue_move_head_to_tail(k, p)
           q == k.rdyq[p]
           s == Append(Tail(q), Head(q))
<1>1. k.rdyq \in [Prio -> Seq(Task)] /\ q \in Seq(Task) /\ IsInjective(q)
  BY DEF KernelType, Queued
<1>2. CASE q = << >>
  BY <1>2, SameTransitive DEF readyqueue_move_head_to_tail
<1>3. CASE q # << >>
  <2>1. r = SetQueue(k, p, s)
    BY <1>3 DEF readyqueue_move_head_to_tail, SetQueue
  <2> HIDE DEF r, q
  <2>2. Head(q) = q[1] /\ Head(q) \in Task /\ 1 \in DOMAIN q
    BY <1>1, <1>3, HeadInList
  <2>3. Tail(q) \in Seq(Task) /\ Len(Tail(q)) = Len(q) - 1 /\ Len(q) >= 1
    BY <1>1, <1>3
  <2>4. \A i \in 1 .. Len(q) - 1 : Tail(q)[i] = q[i + 1]
    BY <1>1, <1>3
  <2>5. \A i, j \in 1 .. Len(q) : q[i] = q[j] => i = j
    BY <1>1 DEF IsInjective
  <2>6. IsInjective(Tail(q))
    <3> SUFFICES ASSUME NEW i \in 1 .. Len(q) - 1, NEW j \in 1 .. Len(q) - 1,
                        Tail(q)[i] = Tail(q)[j]
                 PROVE  i = j
      BY <2>3 DEF IsInjective
    <3>1. i + 1 \in 1 .. Len(q) /\ j + 1 \in 1 .. Len(q) /\ q[i + 1] = q[j + 1]
      BY <2>3, <2>4
    <3>2. i + 1 = j + 1
      BY <2>5, <3>1
    <3> QED
      BY <3>2
  <2>7. Head(q) \notin ToSet(Tail(q))
    <3> SUFFICES ASSUME NEW i \in 1 .. Len(q) - 1, Tail(q)[i] = Head(q) PROVE FALSE
      BY <2>3 DEF ToSet
    <3>1. i + 1 \in 1 .. Len(q) /\ 1 \in 1 .. Len(q) /\ q[i + 1] = q[1]
      BY <2>2, <2>3, <2>4
    <3>2. i + 1 = 1
      BY <2>5, <3>1
    <3> QED
      BY <3>2
  <2>8. ToSet(q) = ToSet(Tail(q)) \cup {Head(q)}
    <3>1. ASSUME NEW y \in ToSet(q), y # Head(q) PROVE y \in ToSet(Tail(q))
      <4>1. PICK i \in 1 .. Len(q) : q[i] = y
        BY <1>1 DEF ToSet
      <4>2. i - 1 \in 1 .. Len(q) - 1 /\ Tail(q)[i - 1] = q[(i - 1) + 1]
        BY <2>2, <2>4, <3>1, <4>1
      <4>3. i - 1 \in DOMAIN Tail(q) /\ Tail(q)[i - 1] = y
        BY <2>3, <4>1, <4>2
      <4> QED
        BY <4>3 DEF ToSet
    <3>2. ASSUME NEW y \in ToSet(Tail(q)) PROVE y \in ToSet(q)
      <4>1. PICK i \in 1 .. Len(q) - 1 : Tail(q)[i] = y
        BY <2>3 DEF ToSet
      <4>2. i + 1 \in 1 .. Len(q) /\ q[i + 1] = y
        BY <2>3, <2>4, <4>1
      <4> QED
        BY <1>1, <4>2 DEF ToSet
    <3>3. Head(q) \in ToSet(q)
      BY <1>1, <1>3, HeadInList
    <3> QED
      BY <3>1, <3>2, <3>3
  <2>9. s \in Seq(Task) /\ s # << >> /\ IsInjective(s) /\ ToSet(s) = ToSet(q)
    <3> DEFINE a == Tail(q)
               x == Head(q)
    <3>1. a \in Seq(Task) /\ IsInjective(a) /\ x \in Task \ ToSet(a)
      BY <2>2, <2>3, <2>6, <2>7
    <3>2. ToSet(q) = ToSet(a) \cup {x}
      BY <2>8
    <3> HIDE DEF a, x
    <3>3. /\ Append(a, x) \in Seq(Task) /\ Append(a, x) # << >>
          /\ IsInjective(Append(a, x)) /\ ToSet(Append(a, x)) = ToSet(q)
      BY <3>1, <3>2, AppendKeepsList
    <3> QED
      BY <3>3 DEF a, x
  <2> HIDE DEF s
  <2>10. /\ r \in KernelType /\ r.rdyq = [k.rdyq EXCEPT ![p] = s]
         /\ r.mask = k.mask /\ r.highest = k.highest
         /\ SameTasks(k, r) /\ SameTick(k, r)
    BY <2>1, <2>9, QueueReplaced
  <2>11. r.rdyq[p] = s
    BY <1>1, <2>10
  <2>12. ASSUME NEW h \in Prio, h # p PROVE r.rdyq[h] = k.rdyq[h]
    BY <1>1, <2>10, <2>12
  <2>13. r.prio = k.prio
    BY <2>10 DEF SameTasks
  <2>14. \A h \in Prio : IsInjective(r.rdyq[h])
                         /\ ToSet(r.rdyq[h]) = {u \in S : r.prio[u] = h}
    BY <2>9, <2>11, <2>12, <2>13 DEF Queued, q
  <2>15. \A h \in Prio : r.rdyq[h] # << >> <=> k.rdyq[h] # << >>
    BY <1>3, <2>9, <2>11, <2>12 DEF q
  <2>16. Queued(r, S)
    BY <2>10, <2>14, <2>15 DEF Queued
  <2> QED
    BY <2>10, <2>16 DEF r
<1> QED
  BY <1>2, <1>3

----------------------------------------------------------------------------
(* The deadline of an entry is the deadline of the entry before plus its   *)
(* distance.                                                               *)
LEMMA DeadlinesAddUp ==
    ASSUME NEW k \in KernelType
    PROVE  LET d == Deadlines(k)
           IN  /\ d \in [0 .. Len(k.tick) -> Nat]
               /\ d[0] = 0
               /\ \A i \in 1 .. Len(k.tick) : d[i] = d[i - 1] + k.expires[k.tick[i]]
<1> DEFINE n    == Len(k.tick)
           e(i) == k.expires[k.tick[i]]
           SumsTo(m, g) == /\ g \in [0 .. m -> Nat] /\ g[0] = 0
                           /\ \A i \in 1 .. m : g[i] = g[i - 1] + e(i)
           W == {m \in Nat : m <= n => \E g : SumsTo(m, g)}
<1>1. n \in Nat /\ \A i \in 1 .. n : e(i) \in Nat
  <2>1. k.expires \in [Task -> Nat] /\ k.tick \in Seq(Task)
    BY DEF KernelType
  <2>2. \A i \in 1 .. n : k.tick[i] \in Task
    BY <2>1
  <2> QED
    BY <2>1, <2>2
<1> HIDE DEF e, n
<1>2. 0 \in W
  <2>1. SumsTo(0, [i \in 0 .. 0 |-> 0])
    OBVIOUS
  <2> HIDE DEF SumsTo
  <2> QED
    BY <2>1
<1>3. ASSUME NEW m \in W PROVE m + 1 \in W
  <2> SUFFICES ASSUME m + 1 <= n PROVE \E g : SumsTo(m + 1, g)
    OBVIOUS
  <2>1. m \in Nat /\ m <= n
    BY <1>1
  <2>2. PICK g : SumsTo(m, g)
    BY <2>1
  <2>3. e(m + 1) \in Nat
    BY <1>1, <2>1
  <2> DEFINE h == [i \in 0 .. m + 1 |-> IF i = m + 1 THEN g[m] + e(m + 1) ELSE g[i]]
  <2>4. h \in [0 .. m + 1 -> Nat] /\ h[0] = 0
    BY <2>1, <2>2, <2>3
  <2>5. ASSUME NEW i \in 1 .. m + 1 PROVE h[i] = h[i - 1] + e(i)
    <3>1. CASE i = m + 1
      BY <2>1, <3>1
    <3>2. CASE i # m + 1
      <4>1. i \in 1 .. m /\ h[i] = g[i] /\ h[i - 1] = g[i - 1]
        BY <2>1, <3>2
      <4> QED
        BY <2>2, <4>1
    <3> QED
      BY <3>1, <3>2
  <2>6. SumsTo(m + 1, h)
    BY <2>4, <2>5
  <2> HIDE DEF h, SumsTo
  <2> QED
    BY <2>6
<1>4. n \in W
  <2>1. W \in SUBSET Nat
    OBVIOUS
  <2> HIDE DEF W
  <2> QED
    BY <1>1, <1>2, <1>3, <2>1, NatInd
<1>5. PICK g : SumsTo(n, g)
  <2>1. n <= n
    BY <1>1
  <2> HIDE DEF SumsTo
  <2> QED
    BY <1>4, <2>1
<1> DEFINE Rec(f) == f = [i \in 0 .. n |-> IF i = 0 THEN 0 ELSE f[i - 1] + e(i)]
<1>6. Rec(g)
  <2>1. \A i \in 0 .. n : g[i] = IF i = 0 THEN 0 ELSE g[i - 1] + e(i)
    BY <1>1, <1>5
  <2> QED
    BY <1>5, <2>1
<1>7. Deadlines(k) = CHOOSE f : Rec(f)
  BY DEF Deadlines, e, n
<1>8. Rec(Deadlines(k))
  <2> HIDE DEF Rec
  <2> QED
    BY <1>6, <1>7
<1> DEFINE d == Deadlines(k)
<1> HIDE DEF d
<1>9. d = [i \in 0 .. n |-> IF i = 0 THEN 0 ELSE d[i - 1] + e(i)]
  BY <1>8 DEF d
<1>10. d[0] = 0 /\ \A i \in 1 .. n : d[i] = d[i - 1] + e(i)
  <2>1. 0 \in 0 .. n /\ \A i \in 1 .. n : i \in 0 .. n /\ i # 0
    BY <1>1
  <2> QED
    BY <1>9, <2>1
<1>11. \A m \in 0 .. n : d[m] \in Nat
  <2> DEFINE V == {m \in Nat : m <= n => d[m] \in Nat}
  <2>1. 0 \in V
    BY <1>10
  <2>2. ASSUME NEW m \in V PROVE m + 1 \in V
    <3> SUFFICES ASSUME m + 1 <= n PROVE d[m + 1] \in Nat
      OBVIOUS
    <3>1. m \in Nat /\ d[m] \in Nat /\ m + 1 \in 1 .. n
      BY <1>1
    <3>2. d[m + 1] = d[(m + 1) - 1] + e(m + 1)
      BY <1>10, <3>1
    <3>3. (m + 1) - 1 = m /\ e(m + 1) \in Nat
      BY <1>1, <3>1
    <3> QED
      BY <3>1, <3>2, <3>3
  <2>3. V \in SUBSET Nat
    OBVIOUS
  <2>4. \A m \in Nat : m \in V
    <3> HIDE DEF V
    <3> QED
      BY <2>1, <2>2, <2>3, NatInd
  <2> QED
    BY <2>4
<1>12. d \in [0 .. n -> Nat]
  BY <1>9, <1>11
<1> QED
  BY <1>10, <1>12 DEF d, e, n

(* The tick list and the distances are replaced.                           *)
SetTick(k, s, e) == [k EXCEPT !.tick = s, !.expires = e]

LEMMA TickReplaced ==
    ASSUME NEW k \in KernelType, NEW s \in Seq(Task), NEW e \in [Task -> Nat]
    PROVE  LET r == SetTick(k, s, e)
           IN  /\ r \in KernelType /\ r.tick = s /\ r.expires = e
               /\ SameTasks(k, r) /\ SameQueue(k, r)
  BY DEF SetTick, KernelType, SameTasks, SameQueue, SameControl

LEMMA PlaceInTickList ==
    ASSUME NEW k \in KernelType, NEW S \in SUBSET Task, TickHolds(k, S),
           NEW t \in Task \ S, NEW timeout \in Nat
    PROVE  LET r == tick_task_place(k, t, timeout)
           IN  /\ r \in KernelType /\ TickHolds(r, S \cup {t})
               /\ SameTasks(k, r) /\ SameQueue(k, r)
<1> DEFINE n   == Len(k.tick)
           due == Deadlines(k)
           Precedes(i) == \/ timeout < due[i]
                          \/ timeout = due[i] /\ k.prio[t] < k.prio[k.tick[i]]
           P       == {i \in DOMAIN k.tick : Precedes(i)} \cup {n + 1}
           p       == ListMin(P)
           delta   == timeout - due[p - 1]
           shifted == IF p <= n THEN [k.expires EXCEPT ![k.tick[p]] = @ - delta] ELSE k.expires
           s == InsertAt(k.tick, p, t)
           e == [shifted EXCEPT ![t] = delta]
<1>1. k.tick \in Seq(Task) /\ k.expires \in [Task -> Nat] /\ n \in Nat /\ DOMAIN k.tick = 1 .. n
  <2>1. k.tick \in Seq(Task) /\ k.expires \in [Task -> Nat]
    BY DEF KernelType
  <2> QED
    BY <2>1
<1>2. /\ due \in [0 .. n -> Nat] /\ due[0] = 0
      /\ \A i \in 1 .. n : due[i] = due[i - 1] + k.expires[k.tick[i]]
  BY DeadlinesAddUp
<1>3. tick_task_place(k, t, timeout) = SetTick(k, s, e)
  BY DEF tick_task_place, SetTick
<1> HIDE DEF n, due
<1>4. P \subseteq 1 .. n + 1 /\ P \subseteq Nat /\ n + 1 \in P
  BY <1>1
<1>5. \A i \in 1 .. n : i \in P <=> Precedes(i)
  <2> HIDE DEF Precedes
  <2> QED
    BY <1>1
<1> HIDE DEF P
<1>6. p \in P /\ \A i \in P : p <= i
  BY <1>4, ListMinLeast
<1> HIDE DEF p
<1>7. /\ p \in 1 .. n + 1 /\ p - 1 \in 0 .. n
      /\ due[p - 1] \in Nat /\ due[p - 1] <= timeout
  <2>1. p \in 1 .. n + 1
    BY <1>4, <1>6
  <2>2. p - 1 \in 0 .. n
    BY <1>1, <2>1
  <2>3. due[p - 1] \in Nat
    BY <1>2, <2>2
  <2>4. CASE p = 1
    BY <1>2, <2>1, <2>2, <2>3, <2>4
  <2>5. CASE p # 1
    <3>1. p - 1 \in 1 .. n
      BY <1>1, <2>1, <2>5
    <3>2. p - 1 \notin P
      BY <1>6, <2>1
    <3>3. ~Precedes(p - 1)
      BY <1>5, <3>1, <3>2
    <3>4. ~(timeout < due[p - 1])
      BY <3>3
    <3> QED
      BY <2>1, <2>2, <2>3, <3>4
  <2> QED
    BY <2>4, <2>5
<1>8. delta \in Nat
  BY <1>7
<1>9. p <= n => k.tick[p] \in Task /\ k.expires[k.tick[p]] - delta \in Nat
  <2> SUFFICES ASSUME p <= n
               PROVE  k.tick[p] \in Task /\ k.expires[k.tick[p]] - delta \in Nat
    OBVIOUS
  <2>1. p \in 1 .. n
    BY <1>1, <1>7
  <2>2. k.tick[p] \in Task
    BY <1>1, <2>1
  <2>3. k.expires[k.tick[p]] \in Nat /\ due[p] = due[p - 1] + k.expires[k.tick[p]]
    BY <1>1, <1>2, <2>1, <2>2
  <2>4. Precedes(p) /\ due[p] \in Nat
    BY <1>2, <1>5, <1>6, <2>1
  <2>5. timeout <= due[p]
    BY <2>4
  <2> QED
    BY <1>7, <2>2, <2>3, <2>5
<1> HIDE DEF delta
<1>10. shifted \in [Task -> Nat]
  BY <1>1, <1>9
<1>11. e \in [Task -> Nat]
  <2> HIDE DEF shifted
  <2> QED
    BY <1>8, <1>10
<1> HIDE DEF shifted, e
<1>12. s \in Seq(Task) /\ IsInjective(s) /\ ToSet(s) = S \cup {t}
  BY <1>1, <1>7, InsertKeepsList DEF TickHolds, n
<1> HIDE DEF s
<1>13. LET r == SetTick(k, s, e)
       IN  /\ r \in KernelType /\ r.tick = s /\ r.expires = e
           /\ SameTasks(k, r) /\ SameQueue(k, r)
  BY <1>11, <1>12, TickReplaced
<1> QED
  BY <1>3, <1>12, <1>13 DEF TickHolds

LEMMA TakeFromTickList ==
    ASSUME NEW k \in KernelType, NEW S \in SUBSET Task, TickHolds(k, S), NEW t \in S
    PROVE  LET r == tick_task_takeoff(k, t)
           IN  /\ r \in KernelType /\ TickHolds(r, S \ {t})
               /\ r.tick = tos_list_del(k.tick, t)
               /\ SameTasks(k, r) /\ SameQueue(k, r)
<1> DEFINE p    == PosOf(k.tick, t)
           left == [k.expires EXCEPT ![t] = 0]
           sum  == k.expires[k.tick[p + 1]] + k.expires[t]
           s == tos_list_del(k.tick, t)
           e == IF p < Len(k.tick)
                THEN [left EXCEPT ![k.tick[p + 1]] = IF sum <= TimeMax THEN sum ELSE TimeMax]
                ELSE left
<1>1. k.tick \in Seq(Task) /\ k.expires \in [Task -> Nat]
  BY DEF KernelType
<1>2. tick_task_takeoff(k, t) = SetTick(k, s, e)
  BY DEF tick_task_takeoff, SetTick
<1>3. t \in ToSet(k.tick) /\ IsInjective(k.tick)
  BY DEF TickHolds
<1>4. p \in 1 .. Len(k.tick)
  BY <1>1, <1>3, PosOfEntry
<1>5. left \in [Task -> Nat]
  BY <1>1
<1> HIDE DEF p
<1>6. e \in [Task -> Nat]
  <2>1. CASE p < Len(k.tick)
    <3>1. p + 1 \in 1 .. Len(k.tick) /\ k.tick[p + 1] \in Task
      BY <1>1, <1>4, <2>1
    <3>2. sum \in Nat /\ TimeMax \in Nat
      BY <1>1, <3>1, TimeAssumption
    <3> HIDE DEF left, sum
    <3> QED
      BY <1>5, <2>1, <3>1, <3>2
  <2>2. CASE ~(p < Len(k.tick))
    BY <1>5, <2>2
  <2> QED
    BY <2>1, <2>2
<1> HIDE DEF e
<1>7. s \in Seq(Task) /\ IsInjective(s) /\ ToSet(s) = S \ {t}
  BY <1>1, <1>3, RemoveKeepsList DEF TickHolds
<1> HIDE DEF s
<1>8. LET r == SetTick(k, s, e)
      IN  /\ r \in KernelType /\ r.tick = s /\ r.expires = e
          /\ SameTasks(k, r) /\ SameQueue(k, r)
  BY <1>6, <1>7, TickReplaced
<1>9. tick_task_takeoff(k, t).tick = s
  BY <1>2, <1>8
<1> QED
  BY <1>2, <1>7, <1>8, <1>9 DEF TickHolds, s

----------------------------------------------------------------------------
(* The pend lists of k hold the tasks that wait, best priority first, and  *)
(* a task waits, undecided, for a live object or for none.                 *)
Waiters(k, o)   == {t \in Task : IsPending(k, t) /\ k.pendingObj[t] = o}
PendExact(k, o) == /\ IsInjective(k.pend[o]) /\ ToSet(k.pend[o]) = Waiters(k, o)
                   /\ SortedBy(k.pend[o], k.prio)
Undecided(k, t) == /\ k.pendingObj[t] \in Obj /\ k.pendingObj[t] \in k.obj
                   /\ k.pendState[t] = "NONE"
Waiting(k) ==
    /\ \A o \in Obj : PendExact(k, o)
    /\ \A t \in Task : IF IsPending(k, t) THEN Undecided(k, t) ELSE k.pendingObj[t] = NoObj

(* Lists whose entries keep their priorities stay in order.                *)
LEMMA SortedSame ==
    ASSUME NEW s, NEW pr, NEW pq, SortedBy(s, pr), \A x \in ToSet(s) : pq[x] = pr[x]
    PROVE  SortedBy(s, pq)
<1>1. \A i \in DOMAIN s : pq[s[i]] = pr[s[i]]
  BY DEF ToSet
<1> QED
  BY <1>1 DEF SortedBy

(* What the tasks wait for is the same, and what they wait for is alive.   *)
LEMMA WaitingSame ==
    ASSUME NEW k, NEW r, Waiting(k), r.pend = k.pend,
           \A u \in Task : IsPending(r, u) <=> IsPending(k, u),
           \A u \in Task : IF IsPending(k, u)
                           THEN /\ r.pendingObj[u] = k.pendingObj[u] /\ r.prio[u] = k.prio[u]
                                /\ r.pendState[u] = k.pendState[u]
                                /\ k.pendingObj[u] \in r.obj
                           ELSE r.pendingObj[u] = NoObj
    PROVE  Waiting(r)
<1>1. ASSUME NEW o \in Obj PROVE PendExact(r, o)
  <2>1. Waiters(r, o) = Waiters(k, o)
    BY NullAssumption DEF Waiters
  <2>2. PendExact(k, o)
    BY DEF Waiting
  <2>3. \A u \in ToSet(k.pend[o]) : r.prio[u] = k.prio[u]
    BY <2>2 DEF PendExact, Waiters
  <2>4. SortedBy(k.pend[o], r.prio)
    BY <2>2, <2>3, SortedSame DEF PendExact
  <2> QED
    BY <2>1, <2>2, <2>4 DEF PendExact
<1>2. ASSUME NEW t \in Task
      PROVE  IF IsPending(r, t) THEN Undecided(r, t) ELSE r.pendingObj[t] = NoObj
  BY DEF Waiting, Undecided
<1> QED
  BY <1>1, <1>2 DEF Waiting

(* Only t and the list of o change.                                        *)
LEMMA WaitingBut ==
    ASSUME NEW k, NEW r, Waiting(k), NEW t \in Task, NEW o \in Obj,
           \A u \in Task \ {t} : /\ r.state[u] = k.state[u] /\ r.prio[u] = k.prio[u]
                                 /\ r.pendingObj[u] = k.pendingObj[u]
                                 /\ r.pendState[u] = k.pendState[u],
           \A q \in Obj \ {o} : r.pend[q] = k.pend[q],
           r.obj = k.obj, PendExact(r, o),
           IsPending(k, t) => k.pendingObj[t] = o,
           IF IsPending(r, t) THEN Undecided(r, t) /\ r.pendingObj[t] = o
                              ELSE r.pendingObj[t] = NoObj
    PROVE  Waiting(r)
<1>1. ASSUME NEW q \in Obj \ {o} PROVE PendExact(r, q)
  <2>1. Waiters(r, q) = Waiters(k, q) /\ t \notin Waiters(k, q)
    BY DEF Waiters, IsPending
  <2>2. PendExact(k, q) /\ r.pend[q] = k.pend[q]
    BY DEF Waiting
  <2>3. \A u \in ToSet(k.pend[q]) : r.prio[u] = k.prio[u]
    BY <2>1, <2>2 DEF PendExact, Waiters
  <2>4. SortedBy(k.pend[q], r.prio)
    BY <2>2, <2>3, SortedSame DEF PendExact
  <2> QED
    BY <2>1, <2>2, <2>4 DEF PendExact
<1>2. ASSUME NEW u \in Task
      PROVE  IF IsPending(r, u) THEN Undecided(r, u) ELSE r.pendingObj[u] = NoObj
  <2>1. CASE u = t
    BY <2>1
  <2>2. CASE u # t
    BY <2>2 DEF Waiting, Undecided, IsPending
  <2> QED
    BY <2>1, <2>2
<1> QED
  BY <1>1, <1>2 DEF Waiting

(* The list of o, and what t waits for, are replaced.                      *)
SetPend(k, o, s, t, w, f) ==
    [k EXCEPT !.pend[o] = s, !.pendingObj[t] = w, !.state[t] = f]

(* Everything but the tick list, the ready queue and the other tasks.      *)
Others(k, r, t) ==
    /\ SameFrame(k, r)
    /\ \A u \in Task \ {t} : /\ r.state[u] = k.state[u] /\ r.prio[u] = k.prio[u]
                             /\ r.pendingObj[u] = k.pendingObj[u]
                             /\ r.pendState[u] = k.pendState[u]

LEMMA PendReplaced ==
    ASSUME NEW k \in KernelType, NEW o \in Obj, NEW s \in Seq(Task), NEW t \in Task,
           NEW w \in Obj \cup {NoObj}, NEW f \in SUBSET Flags
    PROVE  LET r == SetPend(k, o, s, t, w, f)
           IN  /\ r \in KernelType
               /\ r.pend[o] = s /\ \A q \in Obj \ {o} : r.pend[q] = k.pend[q]
               /\ r.pendingObj[t] = w /\ r.state[t] = f
               /\ r.prio = k.prio /\ r.pendState = k.pendState
               /\ Others(k, r, t) /\ SameQueue(k, r) /\ SameTick(k, r)
<1> DEFINE r  == SetPend(k, o, s, t, w, f)
           pd == [k.pend EXCEPT ![o] = s]
           po == [k.pendingObj EXCEPT ![t] = w]
           st == [k.state EXCEPT ![t] = f]
<1>1. r = [k EXCEPT !.pend = pd, !.pendingObj = po, !.state = st]
  BY DEF SetPend
<1>2. pd \in [Obj -> Seq(Task)] /\ pd[o] = s /\ \A q \in Obj \ {o} : pd[q] = k.pend[q]
  BY DEF KernelType
<1>3. /\ po \in [Task -> Obj \cup {NoObj}] /\ po[t] = w
      /\ \A u \in Task \ {t} : po[u] = k.pendingObj[u]
  BY DEF KernelType
<1>4. /\ st \in [Task -> SUBSET Flags] /\ st[t] = f
      /\ \A u \in Task \ {t} : st[u] = k.state[u]
  BY DEF KernelType
<1> HIDE DEF r, pd, po, st
<1>5. r \in KernelType
  BY <1>1, <1>2, <1>3, <1>4 DEF KernelType
<1>6. /\ r.pend = pd /\ r.pendingObj = po /\ r.state = st
      /\ r.prio = k.prio /\ r.pendState = k.pendState
      /\ SameFrame(k, r) /\ SameQueue(k, r) /\ SameTick(k, r)
  BY <1>1 DEF KernelType, SameFrame, SameQueue, SameTick
<1>7. Others(k, r, t)
  BY <1>3, <1>4, <1>6 DEF Others
<1> QED
  BY <1>2, <1>3, <1>4, <1>5, <1>6, <1>7 DEF r

(* A task enters a pend list behind those of its priority.                 *)
LEMMA PendInsert ==
    ASSUME NEW k \in KernelType, NEW t \in Task, NEW o \in Obj, IsInjective(k.pend[o]),
           t \notin ToSet(k.pend[o]), SortedBy(k.pend[o], k.prio)
    PROVE  LET r == pend_list_add(k, t, o)
           IN  /\ r \in KernelType
               /\ IsInjective(r.pend[o]) /\ ToSet(r.pend[o]) = ToSet(k.pend[o]) \cup {t}
               /\ SortedBy(r.pend[o], k.prio)
               /\ \A q \in Obj \ {o} : r.pend[q] = k.pend[q]
               /\ r.pendingObj[t] = o /\ r.state[t] = k.state[t] \cup {"PEND"}
               /\ r.prio = k.prio /\ r.pendState = k.pendState
               /\ Others(k, r, t) /\ SameQueue(k, r) /\ SameTick(k, r)
<1> DEFINE a == k.pend[o]
           p == ListMin({i \in DOMAIN a : k.prio[t] < k.prio[a[i]]} \cup {Len(a) + 1})
           s == InsertAt(a, p, t)
           f == k.state[t] \cup {"PEND"}
           r == pend_list_add(k, t, o)
<1>1. a \in Seq(Task) /\ k.prio \in [Task -> Nat] /\ f \in SUBSET Flags
  <2>1. /\ k.pend \in [Obj -> Seq(Task)] /\ k.prio \in [Task -> Prio]
        /\ k.state \in [Task -> SUBSET Flags]
    BY DEF KernelType
  <2>2. Prio \subseteq Nat /\ "PEND" \in Flags
    BY PrioAssumption DEF Prio, Flags
  <2> HIDE DEF Flags
  <2> QED
    BY <2>1, <2>2
<1>2. r = SetPend(k, o, s, t, o, f)
  BY DEF pend_list_add, SetPend
<1>3. IsInjective(a) /\ t \in Task \ ToSet(a) /\ SortedBy(a, k.prio)
  OBVIOUS
<1> HIDE DEF a, f, r
<1>4. p \in 1 .. Len(a) + 1 /\ SortedBy(s, k.prio)
  BY <1>1, <1>3, InsertKeepsOrder
<1> HIDE DEF p
<1>5. s \in Seq(Task) /\ IsInjective(s) /\ ToSet(s) = ToSet(a) \cup {t}
  BY <1>1, <1>3, <1>4, InsertKeepsList
<1> HIDE DEF s
<1>6. /\ r \in KernelType
      /\ r.pend[o] = s /\ \A q \in Obj \ {o} : r.pend[q] = k.pend[q]
      /\ r.pendingObj[t] = o /\ r.state[t] = f
      /\ r.prio = k.prio /\ r.pendState = k.pendState
      /\ Others(k, r, t) /\ SameQueue(k, r) /\ SameTick(k, r)
  BY <1>1, <1>2, <1>5, PendReplaced
<1> QED
  BY <1>4, <1>5, <1>6 DEF a, f, r

(* pend_task_block: a task starts to wait.                                 *)
LEMMA PendAdd ==
    ASSUME NEW k \in KernelType, Waiting(k), NEW t \in Task, ~IsPending(k, t),
           k.pendState[t] = "NONE", NEW o \in Obj, o \in k.obj
    PROVE  LET r == pend_list_add(k, t, o)
           IN  /\ r \in KernelType /\ Waiting(r)
               /\ r.pendingObj[t] = o /\ r.state[t] = k.state[t] \cup {"PEND"}
               /\ r.prio = k.prio /\ r.pendState = k.pendState
               /\ Others(k, r, t) /\ SameQueue(k, r) /\ SameTick(k, r)
<1> DEFINE r == pend_list_add(k, t, o)
<1>1. PendExact(k, o) /\ t \notin Waiters(k, o)
  BY DEF Waiting, Waiters
<1>2. /\ r \in KernelType
      /\ IsInjective(r.pend[o]) /\ ToSet(r.pend[o]) = ToSet(k.pend[o]) \cup {t}
      /\ SortedBy(r.pend[o], k.prio)
      /\ \A q \in Obj \ {o} : r.pend[q] = k.pend[q]
      /\ r.pendingObj[t] = o /\ r.state[t] = k.state[t] \cup {"PEND"}
      /\ r.prio = k.prio /\ r.pendState = k.pendState
      /\ Others(k, r, t) /\ SameQueue(k, r) /\ SameTick(k, r)
  BY <1>1, PendInsert DEF PendExact
<1> HIDE DEF r
<1>3. Waiters(r, o) = Waiters(k, o) \cup {t}
  BY <1>2 DEF Waiters, Others, IsPending
<1>4. PendExact(r, o)
  BY <1>1, <1>2, <1>3 DEF PendExact
<1>5. r.obj = k.obj /\ IsPending(r, t) /\ Undecided(r, t)
  BY <1>2 DEF Others, SameFrame, IsPending, Undecided
<1>6. Waiting(r)
  BY <1>2, <1>4, <1>5, WaitingBut DEF Others
<1> QED
  BY <1>2, <1>6 DEF r

(* The wait of a task ends; k1 may have got the answer already.            *)
LEMMA PendRemove ==
    ASSUME NEW k \in KernelType, Waiting(k), NEW t \in Task, IsPending(k, t),
           NEW k1 \in KernelType, k1.pend = k.pend, k1.pendingObj = k.pendingObj,
           k1.state = k.state, k1.prio = k.prio, Others(k, k1, t),
           SameQueue(k, k1), SameTick(k, k1)
    PROVE  LET r == pend_list_remove(k1, t)
           IN  /\ r \in KernelType /\ Waiting(r)
               /\ r.pendingObj[t] = NoObj /\ r.state[t] = k.state[t] \ {"PEND"}
               /\ r.prio = k.prio /\ r.pendState = k1.pendState
               /\ Others(k, r, t) /\ SameQueue(k, r) /\ SameTick(k, r)
<1> DEFINE o == k.pendingObj[t]
           a == k.pend[o]
           s == tos_list_del(a, t)
           f == k.state[t] \ {"PEND"}
           r == pend_list_remove(k1, t)
<1>1. o \in Obj /\ PendExact(k, o) /\ t \in Waiters(k, o)
  BY DEF Waiting, Undecided, Waiters
<1>2. a \in Seq(Task) /\ f \in SUBSET Flags
  BY <1>1 DEF KernelType
<1>3. r = SetPend(k1, o, s, t, NoObj, f)
  BY DEF pend_list_remove, SetPend
<1>4. t \in ToSet(a) /\ IsInjective(a) /\ SortedBy(a, k.prio) /\ ToSet(a) = Waiters(k, o)
  BY <1>1 DEF PendExact
<1>5. k.pendingObj[t] = o
  OBVIOUS
<1> HIDE DEF a, f, r, o
<1>6. s \in Seq(Task) /\ IsInjective(s) /\ ToSet(s) = ToSet(a) \ {t}
  BY <1>2, <1>4, RemoveKeepsList
<1>7. SortedBy(s, k.prio)
  BY <1>2, <1>4, RemoveKeepsOrder
<1> HIDE DEF s
<1>8. /\ r \in KernelType
      /\ r.pend[o] = s /\ \A q \in Obj \ {o} : r.pend[q] = k1.pend[q]
      /\ r.pendingObj[t] = NoObj /\ r.state[t] = f
      /\ r.prio = k1.prio /\ r.pendState = k1.pendState
      /\ Others(k1, r, t) /\ SameQueue(k1, r) /\ SameTick(k1, r)
  <2> DEFINE c == SetPend(k1, o, s, t, NoObj, f)
  <2>1. NoObj \in Obj \cup {NoObj}
    OBVIOUS
  <2>2. /\ c \in KernelType
        /\ c.pend[o] = s /\ \A q \in Obj \ {o} : c.pend[q] = k1.pend[q]
        /\ c.pendingObj[t] = NoObj /\ c.state[t] = f
        /\ c.prio = k1.prio /\ c.pendState = k1.pendState
        /\ Others(k1, c, t) /\ SameQueue(k1, c) /\ SameTick(k1, c)
    BY <1>1, <1>2, <1>6, <2>1, PendReplaced
  <2> HIDE DEF c
  <2>3. r = c
    BY <1>3 DEF c
  <2> QED
    BY <2>2, <2>3
<1>9. Others(k, r, t)
  BY <1>8, SameTransitive DEF Others
<1>10. ~IsPending(r, t)
  BY <1>8 DEF f, IsPending
<1>11. Waiters(r, o) = Waiters(k, o) \ {t}
  BY <1>9, <1>10 DEF Waiters, Others, IsPending
<1>12. PendExact(r, o)
  BY <1>4, <1>6, <1>7, <1>8, <1>11 DEF PendExact
<1>13. Waiting(r)
  <2>1. r.obj = k.obj /\ \A q \in Obj \ {o} : r.pend[q] = k.pend[q]
    BY <1>8, <1>9 DEF Others, SameFrame
  <2> QED
    BY <1>1, <1>5, <1>8, <1>9, <1>10, <1>12, <2>1, WaitingBut DEF Others
<1>14. SameQueue(k, r) /\ SameTick(k, r)
  BY <1>8, SameTransitive
<1> QED
  BY <1>8, <1>9, <1>13, <1>14 DEF f, r

(* pend_list_adjust: a waiter gets another priority and its new place.     *)
SetList(k, o, s)  == [k EXCEPT !.pend[o] = s]
Reprio(k, t, p)   == [k EXCEPT !.prio[t] = p]

LEMMA ReprioType ==
    ASSUME NEW k \in KernelType, NEW t \in Task, NEW p \in Prio
    PROVE  LET r == Reprio(k, t, p)
           IN  /\ r \in KernelType /\ r.prio[t] = p
               /\ \A u \in Task \ {t} : r.prio[u] = k.prio[u]
               /\ r.state = k.state /\ SameControl(k, r) /\ SameQueue(k, r) /\ SameTick(k, r)
  BY DEF Reprio, KernelType, SameControl, SameQueue, SameTick

LEMMA ListReplaced ==
    ASSUME NEW k \in KernelType, NEW o \in Obj, NEW s \in Seq(Task)
    PROVE  LET r == SetList(k, o, s)
           IN  /\ r \in KernelType /\ r.pend[o] = s
               /\ \A q \in Obj \ {o} : r.pend[q] = k.pend[q]
               /\ r.pendingObj = k.pendingObj /\ r.pendState = k.pendState
               /\ r.state = k.state /\ r.prio = k.prio
               /\ SameFrame(k, r) /\ SameQueue(k, r) /\ SameTick(k, r)
  BY DEF SetList, KernelType, SameFrame, SameQueue, SameTick

LEMMA PendAdjust ==
    ASSUME NEW k \in KernelType, Waiting(k), NEW t \in Task, IsPending(k, t), NEW p \in Prio
    PROVE  LET r == pend_list_adjust(Reprio(k, t, p), t)
           IN  /\ r \in KernelType /\ Waiting(r)
               /\ \A u \in Task : /\ r.state[u] = k.state[u]
                                  /\ r.pendingObj[u] = k.pendingObj[u]
               /\ r.prio[t] = p /\ r.pendState = k.pendState
               /\ Others(k, r, t) /\ SameQueue(k, r) /\ SameTick(k, r)
<1> DEFINE o == k.pendingObj[t]
           a == k.pend[o]
           s == tos_list_del(a, t)
           b == Reprio(k, t, p)
           c == SetList(b, o, s)
           r == pend_list_adjust(b, t)
<1>1. o \in Obj /\ o \in k.obj /\ PendExact(k, o) /\ t \in Waiters(k, o) /\ a \in Seq(Task)
  BY DEF Waiting, Undecided, Waiters, KernelType
<1>2. /\ b \in KernelType /\ b.prio[t] = p /\ \A u \in Task \ {t} : b.prio[u] = k.prio[u]
      /\ b.state = k.state /\ SameControl(k, b) /\ SameQueue(k, b) /\ SameTick(k, b)
  BY ReprioType
<1>3. b.pend = k.pend /\ b.pendingObj = k.pendingObj /\ b.pendState = k.pendState
  BY <1>2 DEF SameControl
<1>4. r = pend_list_add(c, t, o)
  BY <1>3 DEF pend_list_adjust, SetList
<1>5. t \in ToSet(a) /\ IsInjective(a) /\ SortedBy(a, k.prio) /\ ToSet(a) = Waiters(k, o)
  BY <1>1 DEF PendExact
<1>6. k.pendingObj[t] = o
  OBVIOUS
<1> HIDE DEF a, b, r, o
<1>7. s \in Seq(Task) /\ IsInjective(s) /\ ToSet(s) = ToSet(a) \ {t}
  BY <1>1, <1>5, RemoveKeepsList
<1>8. SortedBy(s, b.prio)
  <2>1. \A u \in ToSet(a) \ {t} : b.prio[u] = k.prio[u]
    BY <1>2, <1>5 DEF Waiters
  <2> QED
    BY <1>1, <1>5, <2>1, RemoveKeepsOrder
<1> HIDE DEF s
<1>9. /\ c \in KernelType /\ c.pend[o] = s /\ \A q \in Obj \ {o} : c.pend[q] = b.pend[q]
      /\ c.pendingObj = b.pendingObj /\ c.pendState = b.pendState
      /\ c.state = b.state /\ c.prio = b.prio
      /\ SameFrame(b, c) /\ SameQueue(b, c) /\ SameTick(b, c)
  BY <1>1, <1>2, <1>7, ListReplaced
<1> HIDE DEF c
<1>10. t \notin ToSet(c.pend[o]) /\ IsInjective(c.pend[o]) /\ SortedBy(c.pend[o], c.prio)
  BY <1>7, <1>8, <1>9
<1>11. /\ r \in KernelType
       /\ IsInjective(r.pend[o]) /\ ToSet(r.pend[o]) = ToSet(c.pend[o]) \cup {t}
       /\ SortedBy(r.pend[o], c.prio)
       /\ \A q \in Obj \ {o} : r.pend[q] = c.pend[q]
       /\ r.pendingObj[t] = o /\ r.state[t] = c.state[t] \cup {"PEND"}
       /\ r.prio = c.prio /\ r.pendState = c.pendState
       /\ Others(c, r, t) /\ SameQueue(c, r) /\ SameTick(c, r)
  BY <1>1, <1>4, <1>9, <1>10, PendInsert
<1>12. SameFrame(k, r) /\ SameQueue(k, r) /\ SameTick(k, r)
  BY <1>2, <1>9, <1>11, SameTransitive DEF Others
<1>13. Others(k, r, t)
  BY <1>2, <1>3, <1>9, <1>11, <1>12 DEF Others
<1>14. r.state[t] = k.state[t]
  BY <1>2, <1>9, <1>11 DEF IsPending
<1>15. Waiters(r, o) = Waiters(k, o)
  BY <1>6, <1>11, <1>13, <1>14 DEF Waiters, Others, IsPending
<1>16. PendExact(r, o)
  <2>1. ToSet(r.pend[o]) = (Waiters(k, o) \ {t}) \cup {t}
    BY <1>5, <1>7, <1>9, <1>11
  <2>2. ToSet(r.pend[o]) = Waiters(r, o)
    BY <1>1, <1>15, <2>1
  <2> QED
    BY <1>11, <2>2 DEF PendExact
<1>17. Waiting(r)
  <2>1. r.obj = k.obj /\ \A q \in Obj \ {o} : r.pend[q] = k.pend[q]
    BY <1>3, <1>9, <1>11, <1>12 DEF SameFrame
  <2>2. IsPending(r, t) /\ Undecided(r, t) /\ r.pendingObj[t] = o
    BY <1>1, <1>3, <1>6, <1>9, <1>11, <1>14, <2>1 DEF Waiting, Undecided, IsPending
  <2> QED
    BY <1>1, <1>6, <1>13, <1>16, <2>1, <2>2, WaitingBut DEF Others
<1>18. \A u \in Task : r.state[u] = k.state[u] /\ r.pendingObj[u] = k.pendingObj[u]
  BY <1>6, <1>11, <1>13, <1>14 DEF Others
<1> QED
  BY <1>2, <1>3, <1>9, <1>11, <1>12, <1>13, <1>17, <1>18 DEF r, b

----------------------------------------------------------------------------
(***************************************************************************)
(* A kernel is sound if its lists hold exactly the tasks whose flags say   *)
(* so.  Every function of the task API, of the tick interrupt and of the   *)
(* pend lists maps sound kernels to sound kernels.                         *)
(***************************************************************************)

ReadySet(k) == {t \in k.obj \cap Task : IsReady(k, t)}
Sleepers(k) == {t \in Task : IsSleeping(k, t)}

(* Nobody owns a mutex.                                                    *)
Unowned(k) == \A t \in Task : k.own[t] = << >>

(* Live tasks are not flagged as deleted, who sleeps or waits is live, and *)
(* the idle task is always ready.                                          *)
Alive(k) == /\ Idle \in k.obj /\ k.state[Idle] = {}
            /\ \A t \in k.obj \cap Task : "DELETED" \notin k.state[t]
            /\ \A t \in Task : IsSleeping(k, t) \/ IsPending(k, t) => t \in k.obj

Sound(k) == /\ k \in KernelType
            /\ Queued(k, ReadySet(k)) /\ TickHolds(k, Sleepers(k))
            /\ Waiting(k) /\ Alive(k)

----------------------------------------------------------------------------
LEMMA SameWaiting ==
    ASSUME NEW k, NEW r, Waiting(k), SameControl(k, r),
           \A u \in Task : IsPending(r, u) <=> IsPending(k, u),
           \A u \in Task : IsPending(k, u) => r.prio[u] = k.prio[u]
    PROVE  Waiting(r)
<1>1. /\ r.pend = k.pend /\ r.pendingObj = k.pendingObj /\ r.pendState = k.pendState
      /\ r.obj = k.obj
  BY DEF SameControl
<1>2. \A u \in Task : IF IsPending(k, u) THEN k.pendingObj[u] \in k.obj
                                         ELSE k.pendingObj[u] = NoObj
  BY DEF Waiting, Undecided
<1> QED
  BY <1>1, <1>2, WaitingSame

LEMMA SameKeeps ==
    ASSUME NEW k, NEW r, NEW S
    PROVE  /\ Queued(k, S) /\ SameQueue(k, r) /\ r.prio = k.prio => Queued(r, S)
           /\ TickHolds(k, S) /\ SameTick(k, r) => TickHolds(r, S)
           /\ SameTasks(k, r) => /\ ReadySet(r) = ReadySet(k) /\ Sleepers(r) = Sleepers(k)
                                 /\ Waiting(k) => Waiting(r)
                                 /\ Alive(k) => Alive(r)
<1>1. /\ Queued(k, S) /\ SameQueue(k, r) /\ r.prio = k.prio => Queued(r, S)
      /\ TickHolds(k, S) /\ SameTick(k, r) => TickHolds(r, S)
  BY DEF Queued, TickHolds, SameQueue, SameTick
<1>2. ASSUME SameTasks(k, r)
      PROVE  ReadySet(r) = ReadySet(k) /\ Sleepers(r) = Sleepers(k) /\ (Alive(k) => Alive(r))
  BY <1>2 DEF SameTasks, SameControl, ReadySet, Sleepers, Alive, IsReady, IsSleeping, IsPending
<1>3. ASSUME SameTasks(k, r), Waiting(k) PROVE Waiting(r)
  BY <1>3, SameWaiting DEF SameTasks, IsPending
<1> QED
  BY <1>1, <1>2, <1>3

(* The flags of one task are replaced.                                     *)
SetState(k, t, f) == [k EXCEPT !.state[t] = f]

LEMMA StateReplaced ==
    ASSUME NEW k \in KernelType, NEW t \in Task, NEW f \in SUBSET Flags
    PROVE  LET r == SetState(k, t, f)
           IN  /\ r \in KernelType
               /\ r.state[t] = f /\ \A u \in Task \ {t} : r.state[u] = k.state[u]
               /\ r.prio = k.prio
               /\ SameControl(k, r) /\ SameQueue(k, r) /\ SameTick(k, r)
  BY DEF SetState, KernelType, SameControl, SameQueue, SameTick

LEMMA SoundReady ==
    ASSUME NEW k, Sound(k)
    PROVE  /\ ReadySet(k) \in SUBSET Task /\ Sleepers(k) \in SUBSET Task
           /\ Idle \in ReadySet(k) /\ Idle \notin Sleepers(k)
           /\ k.state \in [Task -> SUBSET Flags] /\ k.prio \in [Task -> Prio]
           /\ k.obj \subseteq Task \cup Obj
           /\ readyqueue_highest_ready_task_get(k) \in ReadySet(k)
<1>1. k \in KernelType
  BY DEF Sound
<1>2. /\ ReadySet(k) \in SUBSET Task /\ Sleepers(k) \in SUBSET Task
      /\ Idle \in ReadySet(k) /\ Idle \notin Sleepers(k)
  BY IdleAssumption DEF Sound, Alive, ReadySet, Sleepers, IsReady, IsSleeping
<1>3. readyqueue_highest_ready_task_get(k) \in ReadySet(k)
  <2>1. Queued(k, ReadySet(k)) /\ ReadySet(k) # {}
    BY <1>2 DEF Sound
  <2> QED
    BY <1>1, <1>2, <2>1, BestQueued
<1> QED
  BY <1>1, <1>2, <1>3 DEF KernelType

(* Sound, but for the ready queue, which holds the tasks Q.                *)
Holds(k, Q) == /\ k \in KernelType
               /\ Queued(k, Q) /\ TickHolds(k, Sleepers(k))
               /\ Waiting(k) /\ Alive(k)

(* Only the flags of t change.                                             *)
SameBut(k, r, t) == /\ SameControl(k, r) /\ r.prio = k.prio
                    /\ \A u \in Task \ {t} : r.state[u] = k.state[u]

(* Elsewhere: nothing about the flags and the waits of others changes.     *)
Elsewhere(k, r, t) ==
    \A u \in Task \ {t} : /\ r.state[u] = k.state[u]
                          /\ r.pendingObj[u] = k.pendingObj[u]
                          /\ r.pendState[u] = k.pendState[u]

(* Task t waits as it did, and does not start to sleep.                    *)
SameWait(k, r, t) == /\ IsPending(r, t) <=> IsPending(k, t)
                     /\ r.pendingObj[t] = k.pendingObj[t] /\ r.pendState[t] = k.pendState[t]
                     /\ IsSleeping(r, t) => IsSleeping(k, t)

LEMMA ButIsElsewhere ==
    ASSUME NEW k, NEW r, NEW t
    PROVE  /\ SameBut(k, r, t) => Others(k, r, t)
           /\ Others(k, r, t) => Elsewhere(k, r, t) /\ SameFrame(k, r)
           /\ Elsewhere(k, r, t) => \A u \in Task \ {t} : SameWait(k, r, u)
<1>1. SameBut(k, r, t) => Others(k, r, t)
  BY SameTransitive DEF SameBut, Others, SameControl
<1>2. Others(k, r, t) => Elsewhere(k, r, t) /\ SameFrame(k, r)
  BY DEF Others, Elsewhere
<1>3. Elsewhere(k, r, t) => \A u \in Task \ {t} : SameWait(k, r, u)
  BY DEF Elsewhere, SameWait, IsPending, IsSleeping
<1> QED
  BY <1>1, <1>2, <1>3

LEMMA OthersTransitive ==
    ASSUME NEW a, NEW b, NEW c, NEW t, Others(a, b, t), Others(b, c, t)
    PROVE  Others(a, c, t)
<1>1. SameFrame(a, c)
  BY SameTransitive DEF Others
<1> QED
  BY <1>1 DEF Others

LEMMA HoldsReady ==
    ASSUME NEW k
    PROVE  Sound(k) <=> Holds(k, ReadySet(k))
  BY DEF Sound, Holds

LEMMA QueueHolds ==
    ASSUME NEW k, NEW Q, Holds(k, Q), NEW r \in KernelType, NEW S, Queued(r, S),
           SameTasks(k, r), SameTick(k, r)
    PROVE  /\ Holds(r, S) /\ SameControl(k, r) /\ r.prio = k.prio /\ r.state = k.state
           /\ ReadySet(r) = ReadySet(k)
<1>1. TickHolds(r, Sleepers(r)) /\ Waiting(r) /\ Alive(r) /\ ReadySet(r) = ReadySet(k)
  BY SameKeeps DEF Holds
<1> QED
  BY <1>1 DEF Holds, SameTasks

LEMMA HoldsAdd ==
    ASSUME NEW k, NEW Q \in SUBSET Task, Q # {}, Holds(k, Q), NEW t \in Task \ Q, NEW r,
           r \in {readyqueue_add_head(k, t), readyqueue_add_tail(k, t), readyqueue_add(k, t)}
    PROVE  /\ Holds(r, Q \cup {t}) /\ SameControl(k, r) /\ r.prio = k.prio
           /\ r.state = k.state /\ ReadySet(r) = ReadySet(k)
<1>1. k \in KernelType /\ Queued(k, Q)
  BY DEF Holds
<1>2. r \in KernelType /\ Queued(r, Q \cup {t}) /\ SameTasks(k, r) /\ SameTick(k, r)
  <2>1. CASE r = readyqueue_add_head(k, t)
    BY <1>1, <2>1, AddHead
  <2>2. CASE r = readyqueue_add_tail(k, t)
    BY <1>1, <2>2, AddTail
  <2>3. CASE r = readyqueue_add(k, t)
    BY <1>1, <2>3, AddAny
  <2> QED
    BY <2>1, <2>2, <2>3
<1> QED
  BY <1>2, QueueHolds

LEMMA HoldsRemove ==
    ASSUME NEW k, NEW Q \in SUBSET Task, Holds(k, Q), Idle \in Q, NEW t \in Q \ {Idle}
    PROVE  LET r == readyqueue_remove(k, t)
           IN  /\ Holds(r, Q \ {t}) /\ SameControl(k, r) /\ r.prio = k.prio
               /\ r.state = k.state /\ ReadySet(r) = ReadySet(k)
<1> DEFINE r == readyqueue_remove(k, t)
<1>1. k \in KernelType /\ Queued(k, Q)
  BY DEF Holds
<1>2. r \in KernelType /\ Queued(r, Q \ {t}) /\ SameTasks(k, r) /\ SameTick(k, r)
  BY <1>1, RemoveFromQueue
<1> HIDE DEF r
<1>3. /\ Holds(r, Q \ {t}) /\ SameControl(k, r) /\ r.prio = k.prio
      /\ r.state = k.state /\ ReadySet(r) = ReadySet(k)
  BY <1>2, QueueHolds
<1> QED
  BY <1>3 DEF r

(* Flags other than SLEEP and PEND change.                                 *)
LEMMA HoldsFlags ==
    ASSUME NEW k, NEW Q, Holds(k, Q), NEW t \in Task \ {Idle},
           NEW f \in SUBSET (Flags \ {"DELETED"}),
           "SLEEP" \in f <=> IsSleeping(k, t), "PEND" \in f <=> IsPending(k, t)
    PROVE  LET r == SetState(k, t, f)
           IN  /\ Holds(r, Q) /\ SameBut(k, r, t) /\ r.state[t] = f
               /\ Sleepers(r) = Sleepers(k)
<1> DEFINE r == SetState(k, t, f)
<1>1. /\ r \in KernelType /\ r.state[t] = f /\ SameBut(k, r, t)
      /\ SameQueue(k, r) /\ SameTick(k, r)
  BY StateReplaced DEF Holds, SameBut
<1> HIDE DEF r
<1>2. Sleepers(r) = Sleepers(k)
  BY <1>1 DEF Sleepers, IsSleeping, SameBut
<1>3. Queued(r, Q) /\ TickHolds(r, Sleepers(r))
  BY <1>1, <1>2, SameKeeps DEF Holds, SameBut
<1>4. r.obj = k.obj /\ r.own = k.own
  BY <1>1 DEF SameBut, SameControl
<1>5. Waiting(r) /\ \A u \in Task : IsPending(r, u) <=> IsPending(k, u)
  <2>1. \A u \in Task : IsPending(r, u) <=> IsPending(k, u)
    BY <1>1 DEF IsPending, SameBut
  <2> QED
    BY <1>1, <2>1, SameWaiting DEF Holds, SameBut
<1>6. Alive(r)
  <2>1. \A u \in Task : IsSleeping(r, u) \/ IsPending(r, u) => u \in r.obj
    BY <1>2, <1>4, <1>5 DEF Holds, Alive, Sleepers
  <2>2. \A u \in r.obj \cap Task : "DELETED" \notin r.state[u]
    BY <1>1, <1>4 DEF Holds, Alive, SameBut
  <2>3. Idle \in r.obj /\ r.state[Idle] = {}
    BY <1>1, <1>4, IdleAssumption DEF Holds, Alive, SameBut
  <2> QED
    BY <2>1, <2>2, <2>3 DEF Alive
<1>7. Holds(r, Q) /\ SameBut(k, r, t) /\ r.state[t] = f /\ Sleepers(r) = Sleepers(k)
  BY <1>1, <1>2, <1>3, <1>5, <1>6 DEF Holds
<1> QED
  BY <1>7 DEF r

(* A task enters or leaves the tick list.                                  *)
LEMMA TickFlag ==
    ASSUME NEW k, NEW Q, Holds(k, Q), NEW t \in (k.obj \cap Task) \ {Idle}, NEW a \in KernelType,
           SameTasks(k, a), SameQueue(k, a),
           NEW f, f = k.state[t] \cup {"SLEEP"} \/ f = k.state[t] \ {"SLEEP"},
           NEW S, S = IF "SLEEP" \in f THEN Sleepers(k) \cup {t} ELSE Sleepers(k) \ {t},
           TickHolds(a, S)
    PROVE  LET r == SetState(a, t, f)
           IN  Holds(r, Q) /\ SameBut(k, r, t) /\ r.state[t] = f /\ Sleepers(r) = S
<1> DEFINE r == SetState(a, t, f)
<1>1. a.state = k.state /\ a.prio = k.prio /\ SameControl(k, a) /\ f \in SUBSET Flags
  BY DEF SameTasks, Holds, KernelType, Flags
<1>2. /\ r \in KernelType /\ r.state[t] = f
      /\ \A u \in Task \ {t} : r.state[u] = a.state[u]
      /\ r.prio = a.prio /\ SameControl(a, r) /\ SameQueue(a, r) /\ SameTick(a, r)
  BY <1>1, StateReplaced
<1> HIDE DEF r
<1>3. SameBut(k, r, t) /\ SameQueue(k, r)
  BY <1>1, <1>2, SameTransitive DEF SameBut
<1>4. Sleepers(r) = S
  BY <1>2, <1>3 DEF Sleepers, IsSleeping, SameBut
<1>5. Queued(r, Q)
  BY <1>3, SameKeeps DEF Holds, SameBut
<1>6. TickHolds(r, Sleepers(r))
  BY <1>2, <1>4, SameKeeps
<1>7. r.obj = k.obj /\ r.own = k.own
  BY <1>3 DEF SameBut, SameControl
<1>8. Waiting(r) /\ \A u \in Task : IsPending(r, u) <=> IsPending(k, u)
  <2>1. \A u \in Task : IsPending(r, u) <=> IsPending(k, u)
    BY <1>2, <1>3 DEF IsPending, SameBut
  <2> QED
    BY <1>3, <2>1, SameWaiting DEF Holds, SameBut
<1>9. Alive(r)
  <2>1. \A u \in Task : IsSleeping(r, u) \/ IsPending(r, u) => u \in r.obj
    BY <1>4, <1>7, <1>8 DEF Holds, Alive, Sleepers
  <2>2. \A u \in r.obj \cap Task : "DELETED" \notin r.state[u]
    BY <1>2, <1>3, <1>7 DEF Holds, Alive, SameBut
  <2>3. Idle \in r.obj /\ r.state[Idle] = {}
    BY <1>3, <1>7, IdleAssumption DEF Holds, Alive, SameBut
  <2> QED
    BY <2>1, <2>2, <2>3 DEF Alive
<1>10. Holds(r, Q) /\ SameBut(k, r, t) /\ r.state[t] = f /\ Sleepers(r) = S
  BY <1>2, <1>3, <1>4, <1>5, <1>6, <1>8, <1>9 DEF Holds
<1> QED
  BY <1>10 DEF r

LEMMA SleeperLives ==
    ASSUME NEW k, NEW Q, Holds(k, Q), NEW t \in Task, IsSleeping(k, t)
    PROVE  t \in (k.obj \cap Task) \ {Idle} /\ t \in Sleepers(k) /\ t \notin ReadySet(k)
  BY DEF Holds, Alive, Sleepers, IsSleeping, ReadySet, IsReady

LEMMA HoldsWake ==
    ASSUME NEW k, NEW Q, Holds(k, Q), NEW t \in Task, IsSleeping(k, t)
    PROVE  LET r == tick_list_remove(k, t)
           IN  /\ Holds(r, Q) /\ SameBut(k, r, t) /\ r.state[t] = k.state[t] \ {"SLEEP"}
               /\ Sleepers(r) = Sleepers(k) \ {t}
<1> DEFINE a == tick_task_takeoff(k, t)
           f == k.state[t] \ {"SLEEP"}
<1>1. t \in (k.obj \cap Task) \ {Idle} /\ t \in Sleepers(k) /\ Sleepers(k) \in SUBSET Task
  BY SleeperLives DEF Sleepers
<1>2. /\ a \in KernelType /\ TickHolds(a, Sleepers(k) \ {t})
      /\ SameTasks(k, a) /\ SameQueue(k, a)
  BY <1>1, TakeFromTickList DEF Holds
<1>3. tick_list_remove(k, t) = SetState(a, t, f)
  BY <1>2 DEF tick_list_remove, SetState, SameTasks
<1> DEFINE S == Sleepers(k) \ {t}
<1>4. /\ S = IF "SLEEP" \in f THEN Sleepers(k) \cup {t} ELSE Sleepers(k) \ {t}
      /\ f = k.state[t] \cup {"SLEEP"} \/ f = k.state[t] \ {"SLEEP"}
  OBVIOUS
<1> HIDE DEF a, f
<1>5. a \in KernelType /\ SameTasks(k, a) /\ SameQueue(k, a) /\ TickHolds(a, S)
  BY <1>2
<1> DEFINE r == SetState(a, t, f)
<1> HIDE DEF S
<1>6. Holds(r, Q) /\ SameBut(k, r, t) /\ r.state[t] = f /\ Sleepers(r) = S
  BY <1>1, <1>4, <1>5, TickFlag
<1> HIDE DEF r
<1> QED
  BY <1>3, <1>6 DEF r, f, S

LEMMA HoldsSleep ==
    ASSUME NEW k, NEW Q, Holds(k, Q), NEW t \in (k.obj \cap Task) \ {Idle},
           ~IsSleeping(k, t), NEW timeout \in Nat
    PROVE  LET r == tick_list_add(k, t, timeout)
           IN  /\ Holds(r, Q) /\ SameBut(k, r, t) /\ r.state[t] = k.state[t] \cup {"SLEEP"}
               /\ Sleepers(r) = Sleepers(k) \cup {t}
<1> DEFINE a == tick_task_place(k, t, timeout)
           f == k.state[t] \cup {"SLEEP"}
<1>1. t \in Task \ Sleepers(k) /\ Sleepers(k) \in SUBSET Task
  BY DEF Sleepers
<1>2. /\ a \in KernelType /\ TickHolds(a, Sleepers(k) \cup {t})
      /\ SameTasks(k, a) /\ SameQueue(k, a)
  BY <1>1, PlaceInTickList DEF Holds
<1>3. tick_list_add(k, t, timeout) = SetState(a, t, f)
  BY <1>2 DEF tick_list_add, SetState, SameTasks
<1> DEFINE S == Sleepers(k) \cup {t}
<1>4. /\ S = IF "SLEEP" \in f THEN Sleepers(k) \cup {t} ELSE Sleepers(k) \ {t}
      /\ f = k.state[t] \cup {"SLEEP"} \/ f = k.state[t] \ {"SLEEP"}
  OBVIOUS
<1> HIDE DEF a, f
<1>5. a \in KernelType /\ SameTasks(k, a) /\ SameQueue(k, a) /\ TickHolds(a, S)
  BY <1>2
<1> DEFINE r == SetState(a, t, f)
<1> HIDE DEF S
<1>6. Holds(r, Q) /\ SameBut(k, r, t) /\ r.state[t] = f /\ Sleepers(r) = S
  BY <1>4, <1>5, TickFlag
<1> HIDE DEF r
<1> QED
  BY <1>3, <1>6 DEF r, f, S

(* The tasks ready once the flags of t have changed.                       *)
LEMMA ReadyBut ==
    ASSUME NEW k, NEW r, NEW t \in k.obj \cap Task, SameBut(k, r, t) \/ Others(k, r, t)
    PROVE  ReadySet(r) = IF r.state[t] = {} THEN ReadySet(k) \cup {t} ELSE ReadySet(k) \ {t}
<1>1. Others(k, r, t)
  BY ButIsElsewhere
<1>2. r.obj = k.obj
  BY <1>1 DEF Others, SameFrame
<1> QED
  BY <1>1, <1>2 DEF ReadySet, IsReady, Others

(* A task stops waiting, with or without an answer.                        *)
SetAnswer(k, t, st) == [k EXCEPT !.pendState[t] = st]

LEMMA AnswerSet ==
    ASSUME NEW k \in KernelType, NEW t \in Task, NEW st \in PendState
    PROVE  LET r == SetAnswer(k, t, st)
           IN  /\ r \in KernelType /\ r.pendState[t] = st
               /\ r.pend = k.pend /\ r.pendingObj = k.pendingObj
               /\ r.state = k.state /\ r.prio = k.prio
               /\ Others(k, r, t) /\ SameQueue(k, r) /\ SameTick(k, r)
<1> DEFINE r  == SetAnswer(k, t, st)
           ps == [k.pendState EXCEPT ![t] = st]
<1>1. ps \in [Task -> PendState] /\ ps[t] = st /\ \A u \in Task \ {t} : ps[u] = k.pendState[u]
  BY DEF KernelType
<1>2. r = [k EXCEPT !.pendState = ps]
  BY DEF SetAnswer
<1> HIDE DEF r, ps
<1>3. /\ r \in KernelType /\ r.pendState = ps
      /\ r.pend = k.pend /\ r.pendingObj = k.pendingObj
      /\ r.state = k.state /\ r.prio = k.prio
      /\ SameFrame(k, r) /\ SameQueue(k, r) /\ SameTick(k, r)
  BY <1>1, <1>2 DEF KernelType, SameFrame, SameQueue, SameTick
<1>4. Others(k, r, t)
  BY <1>1, <1>3 DEF Others
<1> QED
  BY <1>1, <1>3, <1>4 DEF r

LEMMA HoldsUnpend ==
    ASSUME NEW k, NEW Q, Holds(k, Q), NEW t \in Task, IsPending(k, t),
           NEW k1, k1 = k \/ \E st \in PendState : k1 = SetAnswer(k, t, st)
    PROVE  LET r == pend_list_remove(k1, t)
           IN  /\ Holds(r, Q) /\ Others(k, r, t)
               /\ r.state[t] = k.state[t] \ {"PEND"} /\ r.prio = k.prio
               /\ r.pendState = k1.pendState /\ Sleepers(r) = Sleepers(k)
<1> DEFINE r == pend_list_remove(k1, t)
<1>1. /\ k1 \in KernelType /\ k1.pend = k.pend /\ k1.pendingObj = k.pendingObj
      /\ k1.state = k.state /\ k1.prio = k.prio /\ Others(k, k1, t)
      /\ SameQueue(k, k1) /\ SameTick(k, k1)
  <2>1. CASE k1 = k
    BY <2>1, SameTransitive DEF Others, Holds
  <2>2. CASE \E st \in PendState : k1 = SetAnswer(k, t, st)
    BY <2>2, AnswerSet DEF Holds
  <2> QED
    BY <2>1, <2>2
<1>2. k \in KernelType /\ Waiting(k)
  BY DEF Holds
<1>3. /\ r \in KernelType /\ Waiting(r)
      /\ r.state[t] = k.state[t] \ {"PEND"}
      /\ r.prio = k.prio /\ r.pendState = k1.pendState
      /\ Others(k, r, t) /\ SameQueue(k, r) /\ SameTick(k, r)
  BY <1>1, <1>2, PendRemove
<1> HIDE DEF r
<1>4. Sleepers(r) = Sleepers(k)
  BY <1>3 DEF Sleepers, IsSleeping, Others
<1>5. Queued(r, Q) /\ TickHolds(r, Sleepers(r))
  BY <1>3, <1>4, SameKeeps DEF Holds
<1>6. r.obj = k.obj
  BY <1>3 DEF Others, SameFrame
<1>7. Alive(r)
  <2>1. \A u \in Task : IsSleeping(r, u) \/ IsPending(r, u) => u \in r.obj
    <3>1. \A u \in Task : IsPending(r, u) => IsPending(k, u)
      BY <1>3 DEF IsPending, Others
    <3> QED
      BY <1>4, <1>6, <3>1 DEF Holds, Alive, Sleepers
  <2>2. \A u \in r.obj \cap Task : "DELETED" \notin r.state[u]
    BY <1>3, <1>6 DEF Holds, Alive, Others
  <2>3. Idle \in r.obj /\ r.state[Idle] = {}
    BY <1>3, <1>6, IdleAssumption DEF Holds, Alive, Others
  <2> QED
    BY <2>1, <2>2, <2>3 DEF Alive
<1> QED
  BY <1>3, <1>4, <1>5, <1>7 DEF Holds, r

LEMMA BusyLives ==
    ASSUME NEW k, NEW Q, Holds(k, Q), NEW t \in Task, IsSleeping(k, t) \/ IsPending(k, t)
    PROVE  t \in (k.obj \cap Task) \ {Idle} /\ t \notin ReadySet(k)
  BY DEF Holds, Alive, IsSleeping, IsPending, ReadySet, IsReady

(* The tasks A, and only those, have been woken; st answers who waited.    *)
Awoken(k, r, A, st) ==
    \A u \in Task :
        IF u \in A
        THEN /\ ~IsPending(r, u) /\ ~IsSleeping(r, u)
             /\ r.pendState[u] = IF IsPending(k, u) THEN st ELSE k.pendState[u]
        ELSE /\ r.state[u] = k.state[u] /\ r.pendingObj[u] = k.pendingObj[u]
             /\ r.pendState[u] = k.pendState[u]

(* pend_task_wakeup of a task that sleeps or waits.                        *)
LEMMA WakeSound ==
    ASSUME NEW k, Sound(k), NEW t \in Task, IsSleeping(k, t) \/ IsPending(k, t),
           NEW st \in PendState
    PROVE  LET r == pend_task_wakeup(k, t, st)
           IN  /\ Sound(r) /\ SameFrame(k, r) /\ r.prio = k.prio
               /\ ReadySet(k) \subseteq ReadySet(r)
               /\ Awoken(k, r, {t}, st)
<1> DEFINE S == ReadySet(k)
           c == SetAnswer(k, t, st)
           a == IF IsPending(k, t) THEN pend_list_remove(c, t) ELSE k
           b == IF IsSleeping(a, t) THEN tick_list_remove(a, t) ELSE a
           r == pend_task_wakeup(k, t, st)
<1>1. Holds(k, S) /\ S \in SUBSET Task /\ S # {}
  BY HoldsReady, SoundReady
<1>2. t \in (k.obj \cap Task) \ {Idle} /\ t \notin S
  BY <1>1, BusyLives
<1>3. r = IF IsSuspended(b, t) THEN b ELSE readyqueue_add(b, t)
  BY DEF pend_task_wakeup, SetAnswer
<1> HIDE DEF S, r
<1>4. /\ Holds(a, S) /\ Others(k, a, t) /\ a.state[t] = k.state[t] \ {"PEND"}
      /\ a.prio = k.prio
      /\ a.pendState[t] = IF IsPending(k, t) THEN st ELSE k.pendState[t]
  <2>1. CASE IsPending(k, t)
    <3>1. c.pendState[t] = st
      BY <1>1, AnswerSet DEF Holds
    <3>2. c = SetAnswer(k, t, st) /\ a = pend_list_remove(c, t)
      BY <2>1
    <3> HIDE DEF a, c
    <3>3. /\ Holds(a, S) /\ Others(k, a, t) /\ a.state[t] = k.state[t] \ {"PEND"}
          /\ a.prio = k.prio /\ a.pendState = c.pendState
      BY <1>1, <2>1, <3>2, HoldsUnpend
    <3> QED
      BY <2>1, <3>1, <3>3
  <2>2. CASE ~IsPending(k, t)
    <3>1. a = k /\ k.state[t] \ {"PEND"} = k.state[t]
      BY <2>2 DEF IsPending
    <3> HIDE DEF a
    <3> QED
      BY <1>1, <2>2, <3>1, SameTransitive DEF Others
  <2> QED
    BY <2>1, <2>2
<1> HIDE DEF a
<1>5. Holds(b, S) /\ SameBut(a, b, t) /\ b.state[t] = k.state[t] \ {"PEND", "SLEEP"}
  <2>1. CASE IsSleeping(a, t)
    <3>1. b = tick_list_remove(a, t)
      BY <2>1
    <3> HIDE DEF b
    <3>2. Holds(b, S) /\ SameBut(a, b, t) /\ b.state[t] = a.state[t] \ {"SLEEP"}
      BY <1>4, <2>1, <3>1, HoldsWake
    <3> QED
      BY <1>4, <3>2
  <2>2. CASE ~IsSleeping(a, t)
    <3>1. b = a /\ a.state[t] = a.state[t] \ {"SLEEP"}
      BY <2>2 DEF IsSleeping
    <3> HIDE DEF b
    <3> QED
      BY <1>4, <3>1, SameTransitive DEF SameBut
  <2> QED
    BY <2>1, <2>2
<1> HIDE DEF b
<1>6. /\ Others(k, b, t) /\ b.prio = k.prio
      /\ b.pendState[t] = IF IsPending(k, t) THEN st ELSE k.pendState[t]
  <2>1. Others(a, b, t)
    BY <1>5, ButIsElsewhere
  <2>2. b.prio = a.prio /\ b.pendState = a.pendState
    BY <1>5 DEF SameBut, SameControl
  <2> QED
    BY <1>4, <2>1, <2>2, OthersTransitive
<1>7. CASE IsSuspended(b, t)
  <2>1. b.state[t] # {} /\ r = b
    BY <1>3, <1>7 DEF IsSuspended
  <2>2. ReadySet(b) = S
    BY <1>2, <1>6, <2>1, ReadyBut DEF S
  <2>3. Awoken(k, b, {t}, st)
    BY <1>5, <1>6 DEF Awoken, Others, IsPending, IsSleeping
  <2>4. Sound(b) /\ SameFrame(k, b)
    BY <1>5, <1>6, <2>2, HoldsReady DEF Others
  <2> QED
    BY <1>6, <2>1, <2>2, <2>3, <2>4 DEF r, S
<1>8. CASE ~IsSuspended(b, t)
  <2>1. b.state[t] = {}
    <3>1. "DELETED" \notin k.state[t] /\ k.state[t] \in SUBSET Flags
      BY <1>1, <1>2 DEF Holds, Alive, KernelType
    <3> QED
      BY <1>5, <1>8, <3>1 DEF Flags, IsSuspended
  <2>2. ReadySet(b) = S \cup {t}
    BY <1>2, <1>6, <2>1, ReadyBut DEF S
  <2>3. r = readyqueue_add(b, t)
    BY <1>3, <1>8
  <2>4. /\ Holds(r, S \cup {t}) /\ SameControl(b, r) /\ r.prio = b.prio
        /\ r.state = b.state /\ ReadySet(r) = ReadySet(b)
    BY <1>1, <1>2, <1>5, <2>3, HoldsAdd
  <2>5. Sound(r)
    BY <2>2, <2>4, HoldsReady
  <2>6. SameFrame(k, r) /\ r.pendState = b.pendState /\ r.pendingObj = b.pendingObj
    BY <1>6, <2>4, SameTransitive DEF Others, SameControl
  <2>7. Awoken(k, r, {t}, st)
    BY <1>5, <1>6, <2>4, <2>6 DEF Awoken, Others, IsPending, IsSleeping
  <2> QED
    BY <1>6, <2>2, <2>4, <2>5, <2>6, <2>7 DEF r, S
<1> QED
  BY <1>7, <1>8

(* The loop of pend_task_wakeup over tasks that sleep or wait.             *)
Loops(f, k, ts, C, st) ==
    /\ f[0] = k
    /\ \A i \in 1 .. Len(ts) :
          f[i] = IF ts[i] \in C THEN pend_task_wakeup(f[i - 1], ts[i], st) ELSE f[i - 1]

LEMMA WakeThoseUnfolds ==
    ASSUME NEW k, NEW ts \in Seq(Task), NEW C, NEW st
    PROVE  \E f : Loops(f, k, ts, C, st) /\ wakeup_those(k, ts, C, st) = f[Len(ts)]
<1> DEFINE n      == Len(ts)
           e(i, x) == IF ts[i] \in C THEN pend_task_wakeup(x, ts[i], st) ELSE x
           Steps(m, g) == /\ g = [i \in 0 .. m |-> g[i]] /\ g[0] = k
                          /\ \A i \in 1 .. m : g[i] = e(i, g[i - 1])
           W == {m \in Nat : m <= n => \E g : Steps(m, g)}
<1>1. n \in Nat
  OBVIOUS
<1> HIDE DEF e, n
<1>2. 0 \in W
  <2>1. Steps(0, [i \in 0 .. 0 |-> k])
    OBVIOUS
  <2> HIDE DEF Steps
  <2> QED
    BY <2>1
<1>3. ASSUME NEW m \in W PROVE m + 1 \in W
  <2> SUFFICES ASSUME m + 1 <= n PROVE \E g : Steps(m + 1, g)
    OBVIOUS
  <2>1. m \in Nat /\ m <= n
    BY <1>1
  <2>2. PICK g : Steps(m, g)
    BY <2>1
  <2> DEFINE h == [i \in 0 .. m + 1 |-> IF i = m + 1 THEN e(m + 1, g[m]) ELSE g[i]]
  <2>3. h = [i \in 0 .. m + 1 |-> h[i]] /\ h[0] = k
    BY <2>1, <2>2
  <2>4. ASSUME NEW i \in 1 .. m + 1 PROVE h[i] = e(i, h[i - 1])
    <3>1. CASE i = m + 1
      <4>1. h[i] = e(m + 1, g[m]) /\ h[i - 1] = g[m]
        BY <2>1, <3>1
      <4> QED
        BY <3>1, <4>1
    <3>2. CASE i # m + 1
      <4>1. i \in 1 .. m /\ h[i] = g[i] /\ h[i - 1] = g[i - 1]
        BY <2>1, <3>2
      <4> QED
        BY <2>2, <4>1
    <3> QED
      BY <3>1, <3>2
  <2>5. Steps(m + 1, h)
    BY <2>3, <2>4
  <2> HIDE DEF h, Steps
  <2> QED
    BY <2>5
<1>4. n \in W
  <2>1. W \in SUBSET Nat
    OBVIOUS
  <2> HIDE DEF W
  <2> QED
    BY <1>1, <1>2, <1>3, <2>1, NatInd
<1>5. PICK g : Steps(n, g)
  <2>1. n <= n
    BY <1>1
  <2> HIDE DEF Steps
  <2> QED
    BY <1>4, <2>1
<1> DEFINE Rec(f) == f = [i \in 0 .. n |-> IF i = 0 THEN k ELSE e(i, f[i - 1])]
<1>6. Rec(g)
  <2>1. \A i \in 0 .. n : g[i] = IF i = 0 THEN k ELSE e(i, g[i - 1])
    BY <1>1, <1>5
  <2> QED
    BY <1>5, <2>1
<1> DEFINE d == CHOOSE f : Rec(f)
<1>7. wakeup_those(k, ts, C, st) = d[n]
  BY DEF wakeup_those, e, n
<1>8. Rec(d)
  <2> HIDE DEF Rec
  <2> QED
    BY <1>6
<1> HIDE DEF d
<1>9. d[0] = k /\ \A i \in 1 .. n : d[i] = e(i, d[i - 1])
  <2>1. 0 \in 0 .. n /\ \A i \in 1 .. n : i \in 0 .. n /\ i # 0
    BY <1>1
  <2> QED
    BY <1>8, <2>1
<1> QED
  BY <1>7, <1>9 DEF e, n, Loops

Busy(k) == {t \in Task : IsSleeping(k, t) \/ IsPending(k, t)}

LEMMA WakeThoseSound ==
    ASSUME NEW k, Sound(k), NEW ts \in Seq(Task), IsInjective(ts), NEW C,
           ToSet(ts) \cap C \subseteq Busy(k), NEW st \in PendState
    PROVE  LET r == wakeup_those(k, ts, C, st)
           IN  /\ Sound(r) /\ SameFrame(k, r) /\ r.prio = k.prio
               /\ ReadySet(k) \subseteq ReadySet(r)
               /\ Awoken(k, r, ToSet(ts) \cap C, st)
<1>0. PICK f : Loops(f, k, ts, C, st) /\ wakeup_those(k, ts, C, st) = f[Len(ts)]
  BY WakeThoseUnfolds
<1>1. /\ f[0] = k /\ wakeup_those(k, ts, C, st) = f[Len(ts)]
      /\ \A i \in 1 .. Len(ts) :
            f[i] = IF ts[i] \in C THEN pend_task_wakeup(f[i - 1], ts[i], st) ELSE f[i - 1]
  BY <1>0 DEF Loops
<1> DEFINE n    == Len(ts)
           A(m) == {ts[i] : i \in 1 .. m} \cap C
           Done(m) == /\ Sound(f[m]) /\ SameFrame(k, f[m]) /\ f[m].prio = k.prio
                      /\ ReadySet(k) \subseteq ReadySet(f[m])
                      /\ Awoken(k, f[m], A(m), st)
           W == {m \in Nat : m <= n => Done(m)}
<1>2. n \in Nat /\ \A i \in 1 .. n : ts[i] \in Task /\ (ts[i] \in C => ts[i] \in Busy(k))
  BY DEF ToSet
<1>3. \A i, j \in 1 .. n : ts[i] = ts[j] => i = j
  BY DEF IsInjective
<1>4. A(n) = ToSet(ts) \cap C
  BY DEF ToSet
<1> HIDE DEF n
<1>5. 0 \in W
  <2>1. A(0) = {}
    OBVIOUS
  <2>2. Awoken(k, k, A(0), st)
    BY <2>1 DEF Awoken
  <2>3. Done(0)
    BY <1>1, <2>2, SameTransitive
  <2> HIDE DEF Done
  <2> QED
    BY <2>3
<1>6. ASSUME NEW m \in W PROVE m + 1 \in W
  <2> SUFFICES ASSUME m + 1 <= n PROVE Done(m + 1)
    OBVIOUS
  <2>1. m \in Nat /\ m <= n /\ m + 1 \in 1 .. n
    BY <1>2
  <2>2. Done(m)
    BY <2>1
  <2> DEFINE t == ts[m + 1]
             r == f[m + 1]
             q == f[m]
             B == A(m)
  <2>3. /\ Sound(q) /\ SameFrame(k, q) /\ q.prio = k.prio
        /\ ReadySet(k) \subseteq ReadySet(q) /\ Awoken(k, q, B, st)
    BY <2>2
  <2>4. t \in Task /\ (t \in C => t \in Busy(k)) /\ t \notin B
    BY <1>2, <1>3, <2>1
  <2>5. A(m + 1) = IF t \in C THEN B \cup {t} ELSE B
    <3>1. \A i : i \in 1 .. m + 1 <=> i \in 1 .. m \/ i = m + 1
      BY <2>1
    <3> QED
      BY <3>1
  <2>6. r = IF t \in C THEN pend_task_wakeup(q, t, st) ELSE q
    <3>1. f[m + 1] = IF ts[m + 1] \in C THEN pend_task_wakeup(f[(m + 1) - 1], ts[m + 1], st)
                                        ELSE f[(m + 1) - 1]
      BY <1>1, <2>1 DEF n
    <3>2. (m + 1) - 1 = m
      BY <2>1
    <3> QED
      BY <3>1, <3>2
  <2> HIDE DEF r, t, q, A, B
  <2>7. CASE t \in C
    <3>1. IsSleeping(q, t) \/ IsPending(q, t)
      BY <2>3, <2>4, <2>7 DEF Awoken, Busy, IsSleeping, IsPending
    <3>2. r = pend_task_wakeup(q, t, st) /\ A(m + 1) = B \cup {t}
      BY <2>5, <2>6, <2>7
    <3>3. /\ Sound(r) /\ SameFrame(q, r) /\ r.prio = q.prio
          /\ ReadySet(q) \subseteq ReadySet(r) /\ Awoken(q, r, {t}, st)
      BY <2>3, <2>4, <3>1, <3>2, WakeSound
    <3>4. Awoken(k, r, B \cup {t}, st)
      BY <2>3, <2>4, <3>3 DEF Awoken, IsSleeping, IsPending
    <3>5. SameFrame(k, r) /\ ReadySet(k) \subseteq ReadySet(r) /\ r.prio = k.prio
      BY <2>3, <3>3, SameTransitive
    <3> QED
      BY <3>2, <3>3, <3>4, <3>5 DEF r
  <2>8. CASE t \notin C
    BY <2>3, <2>5, <2>6, <2>8 DEF r
  <2> QED
    BY <2>7, <2>8
<1>7. Done(n)
  <2>1. W \in SUBSET Nat /\ n <= n
    BY <1>2
  <2>2. n \in W
    <3> HIDE DEF W
    <3> QED
      BY <1>2, <1>5, <1>6, <2>1, NatInd
  <2> HIDE DEF Done
  <2> QED
    BY <2>1, <2>2
<1> QED
  BY <1>1, <1>4, <1>7 DEF n

LEMMA WakeEachSound ==
    ASSUME NEW k, Sound(k), NEW ts \in Seq(Task), IsInjective(ts),
           ToSet(ts) \subseteq Busy(k), NEW st \in PendState
    PROVE  LET r == wakeup_each(k, ts, st)
           IN  /\ Sound(r) /\ SameFrame(k, r) /\ r.prio = k.prio
               /\ ReadySet(k) \subseteq ReadySet(r)
               /\ Awoken(k, r, ToSet(ts), st)
<1> DEFINE C == ToSet(ts)
<1>1. wakeup_each(k, ts, st) = wakeup_those(k, ts, C, st) /\ ToSet(ts) \cap C = C
  BY DEF wakeup_each
<1>2. C \subseteq Busy(k)
  OBVIOUS
<1> HIDE DEF C
<1>3. LET r == wakeup_those(k, ts, C, st)
      IN  /\ Sound(r) /\ SameFrame(k, r) /\ r.prio = k.prio
          /\ ReadySet(k) \subseteq ReadySet(r)
          /\ Awoken(k, r, ToSet(ts) \cap C, st)
  BY <1>1, <1>2, WakeThoseSound
<1> QED
  BY <1>1, <1>3 DEF C

(* The tick interrupt, and the end of a sleep without ticks.               *)
Elapse(k, d) == [k EXCEPT !.expires[Head(k.tick)] = IF @ <= d THEN 0 ELSE @ - d]

LEMMA ElapseType ==
    ASSUME NEW k \in KernelType, NEW d \in Nat, k.tick # << >>
    PROVE  /\ Elapse(k, d) \in KernelType /\ Elapse(k, d).tick = k.tick
           /\ SameTasks(k, Elapse(k, d)) /\ SameQueue(k, Elapse(k, d))
<1>1. k.tick \in Seq(Task) /\ k.expires \in [Task -> Nat]
  BY DEF KernelType
<1>2. Head(k.tick) \in Task /\ k.expires[Head(k.tick)] \in Nat
  BY <1>1, HeadInList
<1> DEFINE v == IF k.expires[Head(k.tick)] <= d THEN 0 ELSE k.expires[Head(k.tick)] - d
<1>3. v \in Nat
  BY <1>2
<1>4. Elapse(k, d) = [k EXCEPT !.expires = [k.expires EXCEPT ![Head(k.tick)] = v]]
  BY DEF Elapse
<1> HIDE DEF v
<1>5. [k.expires EXCEPT ![Head(k.tick)] = v] \in [Task -> Nat]
  BY <1>1, <1>2, <1>3
<1> QED
  BY <1>4, <1>5 DEF KernelType, SameTasks, SameQueue, SameControl

LEMMA TickSound ==
    ASSUME NEW k, Sound(k), NEW d \in Nat
    PROVE  LET r == tick_update(k, d)
           IN  /\ Sound(r) /\ SameFrame(k, r) /\ ReadySet(k) \subseteq ReadySet(r)
               /\ \E A \in SUBSET Sleepers(k) : Awoken(k, r, A, "TIMEOUT")
<1> DEFINE k1 == Elapse(k, d)
           P  == {i \in DOMAIN k1.tick : k1.expires[k1.tick[i]] > 0} \cup {Len(k1.tick) + 1}
           n  == ListMin(P)
           ts == SubSeq(k1.tick, 1, n - 1)
           r  == tick_update(k, d)
<1>1. CASE k.tick = << >>
  <2>1. r = k
    BY <1>1 DEF tick_update
  <2> HIDE DEF r
  <2>2. Awoken(k, r, {}, "TIMEOUT")
    BY <2>1 DEF Awoken
  <2> QED
    BY <2>1, <2>2, SameTransitive DEF r
<1>2. CASE k.tick # << >>
  <2>1. r = IF k.expires[Head(k.tick)] <= d THEN wakeup_each(k1, ts, "TIMEOUT") ELSE k1
    BY <1>2 DEF tick_update, Elapse
  <2>2. /\ k1 \in KernelType /\ k1.tick = k.tick
        /\ SameTasks(k, k1) /\ SameQueue(k, k1)
    BY <1>2, ElapseType DEF Sound
  <2> HIDE DEF k1, r
  <2>3. Sound(k1) /\ SameFrame(k, k1) /\ ReadySet(k) = ReadySet(k1)
    <3>1. Queued(k1, ReadySet(k)) /\ TickHolds(k1, Sleepers(k))
      BY <2>2, SameKeeps DEF Sound, SameTasks, TickHolds
    <3> QED
      BY <2>2, <3>1, SameKeeps, SameTransitive DEF Sound
  <2>4. k1.tick \in Seq(Task) /\ IsInjective(k1.tick) /\ ToSet(k1.tick) = Sleepers(k1)
    BY <2>3 DEF Sound, TickHolds, KernelType
  <2>5. P \subseteq 1 .. Len(k1.tick) + 1 /\ P # {} /\ P \subseteq Nat
    BY <2>4
  <2> HIDE DEF P
  <2>6. n \in P
    BY <2>5, ListMinLeast
  <2> HIDE DEF n
  <2>7. n \in 1 .. Len(k1.tick) + 1
    BY <2>5, <2>6
  <2>8. ts \in Seq(Task) /\ Len(ts) = n - 1
    BY <2>4, <2>7
  <2>9. \A i \in 1 .. n - 1 : ts[i] = k1.tick[i]
    BY <2>4, <2>7
  <2> HIDE DEF ts
  <2>10. IsInjective(ts)
    BY <2>4, <2>7, <2>8, <2>9 DEF IsInjective
  <2>11. ToSet(ts) \subseteq ToSet(k1.tick)
    BY <2>4, <2>7, <2>8, <2>9 DEF ToSet
  <2>12. \A A : Awoken(k1, r, A, "TIMEOUT") => Awoken(k, r, A, "TIMEOUT")
    <3>1. k1.state = k.state /\ k1.pendingObj = k.pendingObj /\ k1.pendState = k.pendState
      BY <2>2 DEF SameTasks, SameControl
    <3> QED
      BY <3>1 DEF Awoken, IsPending
  <2>13. Sleepers(k1) = Sleepers(k)
    BY <2>2 DEF SameTasks, Sleepers, IsSleeping
  <2>14. CASE k.expires[Head(k.tick)] <= d
    <3>1. r = wakeup_each(k1, ts, "TIMEOUT")
      BY <2>1, <2>14
    <3>2. ToSet(ts) \subseteq Busy(k1) /\ "TIMEOUT" \in PendState
      BY <2>4, <2>11 DEF Busy, Sleepers, PendState
    <3>3. /\ Sound(r) /\ SameFrame(k1, r) /\ ReadySet(k1) \subseteq ReadySet(r)
          /\ Awoken(k1, r, ToSet(ts), "TIMEOUT")
      BY <2>3, <2>8, <2>10, <3>1, <3>2, WakeEachSound
    <3>4. ToSet(ts) \in SUBSET Sleepers(k)
      BY <2>4, <2>11, <2>13
    <3>5. SameFrame(k, r) /\ ReadySet(k) \subseteq ReadySet(r)
      BY <2>3, <3>3, SameTransitive
    <3> QED
      BY <2>12, <3>3, <3>4, <3>5 DEF r
  <2>15. CASE ~(k.expires[Head(k.tick)] <= d)
    <3>1. r = k1
      BY <2>1, <2>15
    <3>2. Awoken(k1, r, {}, "TIMEOUT")
      BY <3>1 DEF Awoken
    <3> QED
      BY <2>3, <2>12, <3>1, <3>2 DEF r
  <2> QED
    BY <2>14, <2>15
<1> QED
  BY <1>1, <1>2

(* Round robin.                                                            *)
SetSlice(k, t, v) == [k EXCEPT !.timeslice[t] = v]

LEMMA SliceReplaced ==
    ASSUME NEW k \in KernelType, NEW t \in Task, NEW v \in Nat
    PROVE  LET r == SetSlice(k, t, v)
           IN  /\ r \in KernelType /\ SameTasks(k, r) /\ SameQueue(k, r) /\ SameTick(k, r)
               /\ r.timesliceReload = k.timesliceReload
  BY DEF SetSlice, KernelType, SameTasks, SameQueue, SameTick, SameControl

LEMMA SameSound ==
    ASSUME NEW k, Sound(k), NEW r \in KernelType,
           SameTasks(k, r), SameTick(k, r), SameQueue(k, r) \/ Queued(r, ReadySet(k))
    PROVE  Sound(r) /\ SameTasks(k, r) /\ ReadySet(r) = ReadySet(k)
<1>1. r.prio = k.prio
  BY DEF SameTasks
<1> QED
  BY <1>1, SameKeeps, SameTransitive DEF Sound

LEMMA RobinSound ==
    ASSUME NEW k, Sound(k), k.curr \in Task
    PROVE  LET r == robin_sched(k)
           IN  Sound(r) /\ SameTasks(k, r) /\ ReadySet(r) = ReadySet(k)
<1> DEFINE p     == k.prio[k.curr]
           first == Head(k.rdyq[p])
           v     == IF k.timeslice[first] > 0 THEN k.timeslice[first] - 1 ELSE 0
           k1    == SetSlice(k, first, v)
           k2    == readyqueue_move_head_to_tail(k1, p)
           new   == Head(k2.rdyq[p])
           w     == IF k2.timesliceReload[new] = 0 THEN RobinDefault
                    ELSE k2.timesliceReload[new]
           k3    == SetSlice(k2, new, w)
           r     == robin_sched(k)
<1>1. \/ r = k
      \/ k.rdyq[p] # << >> /\ r = k1
      \/ k.rdyq[p] # << >> /\ r = k3
  BY DEF robin_sched, SetSlice
<1>2. /\ k \in KernelType /\ k.timeslice \in [Task -> Nat] /\ k.rdyq \in [Prio -> Seq(Task)]
      /\ p \in Prio /\ k.rdyq[p] \in Seq(Task)
  BY DEF Sound, KernelType
<1> HIDE DEF r, p
<1>3. CASE r = k
  BY <1>3, SameTransitive DEF r
<1>4. CASE k.rdyq[p] # << >> /\ r \in {k1, k3}
  <2>1. first \in Task
    BY <1>2, <1>4, HeadInList
  <2> HIDE DEF first
  <2>2. v \in Nat
    BY <1>2, <2>1
  <2> HIDE DEF v
  <2>3. /\ k1 \in KernelType /\ SameTasks(k, k1) /\ SameQueue(k, k1) /\ SameTick(k, k1)
        /\ k1.timesliceReload = k.timesliceReload
    BY <1>2, <2>1, <2>2, SliceReplaced
  <2>4. Sound(k1) /\ SameTasks(k, k1) /\ ReadySet(k1) = ReadySet(k)
    BY <2>3, SameSound
  <2> HIDE DEF k1
  <2>5. /\ k2 \in KernelType /\ Queued(k2, ReadySet(k1))
        /\ SameTasks(k1, k2) /\ SameTick(k1, k2)
    BY <1>2, <2>4, SoundReady, TurnQueue DEF Sound
  <2>6. Sound(k2) /\ SameTasks(k1, k2) /\ ReadySet(k2) = ReadySet(k1)
    BY <2>4, <2>5, SameSound
  <2>7. k2.rdyq[p] # << >> /\ k2.rdyq[p] \in Seq(Task)
    <3>1. k1.rdyq[p] # << >> /\ k1.rdyq[p] \in Seq(Task)
      BY <1>2, <1>4, <2>3 DEF SameQueue
    <3>2. k2.rdyq[p] \in Seq(Task)
      BY <1>2, <2>5 DEF KernelType
    <3>3. ToSet(k2.rdyq[p]) = ToSet(k1.rdyq[p])
      <4>1. k2.prio = k1.prio
        BY <2>5 DEF SameTasks
      <4>2. ToSet(k2.rdyq[p]) = {t \in ReadySet(k1) : k2.prio[t] = p}
        BY <1>2, <2>5 DEF Queued
      <4>3. ToSet(k1.rdyq[p]) = {t \in ReadySet(k1) : k1.prio[t] = p}
        <5>1. Queued(k1, ReadySet(k1))
          BY <2>4 DEF Sound
        <5> QED
          BY <1>2, <5>1 DEF Queued
      <4> QED
        BY <4>1, <4>2, <4>3
    <3> QED
      BY <3>1, <3>2, <3>3, EmptyList
  <2> HIDE DEF k2
  <2>8. new \in Task
    BY <2>7, HeadInList
  <2> HIDE DEF new
  <2>9. w \in Nat
    BY <2>5, <2>8, RobinAssumption DEF KernelType
  <2> HIDE DEF w
  <2>10. k3 \in KernelType /\ SameTasks(k2, k3) /\ SameQueue(k2, k3) /\ SameTick(k2, k3)
    BY <2>5, <2>8, <2>9, SliceReplaced
  <2>11. Sound(k3) /\ SameTasks(k2, k3) /\ ReadySet(k3) = ReadySet(k2)
    BY <2>6, <2>10, SameSound
  <2> HIDE DEF k3
  <2>12. Sound(r) /\ SameTasks(k, r) /\ ReadySet(r) = ReadySet(k)
    <3>1. CASE r = k1
      BY <2>4, <3>1
    <3>2. CASE r = k3
      <4>1. SameTasks(k, k2)
        BY <2>4, <2>6, SameTransitive
      <4>2. SameTasks(k, k3)
        BY <2>11, <4>1, SameTransitive
      <4> QED
        BY <2>4, <2>6, <2>11, <3>2, <4>2
    <3> QED
      BY <1>4, <3>1, <3>2
  <2> QED
    BY <2>12 DEF r
<1> QED
  BY <1>1, <1>3, <1>4

----------------------------------------------------------------------------
(* The task API.                                                           *)

(* A task leaves the ready queue, its pend list and the tick list.         *)
LEMMA HoldsDequeue ==
    ASSUME NEW k, Sound(k), NEW t \in (k.obj \cap Task) \ {Idle}
    PROVE  LET r == IF IsReady(k, t) THEN readyqueue_remove(k, t) ELSE k
           IN  Holds(r, ReadySet(k) \ {t}) /\ SameBut(k, r, t) /\ r.state[t] = k.state[t]
<1> DEFINE S == ReadySet(k)
           r == IF IsReady(k, t) THEN readyqueue_remove(k, t) ELSE k
<1>1. Holds(k, S) /\ S \in SUBSET Task /\ Idle \in S
  BY HoldsReady, SoundReady
<1>2. CASE IsReady(k, t)
  <2>1. t \in S \ {Idle} /\ r = readyqueue_remove(k, t)
    BY <1>2 DEF ReadySet
  <2> HIDE DEF S, r
  <2>2. /\ Holds(r, S \ {t}) /\ SameControl(k, r) /\ r.prio = k.prio /\ r.state = k.state
    BY <1>1, <2>1, HoldsRemove
  <2> QED
    BY <2>2 DEF r, S, SameBut
<1>3. CASE ~IsReady(k, t)
  <2>1. S \ {t} = S /\ r = k
    BY <1>3 DEF ReadySet
  <2> HIDE DEF r, S
  <2> QED
    BY <1>1, <2>1, SameTransitive DEF SameBut, r, S
<1> QED
  BY <1>2, <1>3

LEMMA HoldsUnwait ==
    ASSUME NEW k, NEW Q, Holds(k, Q), NEW t \in Task
    PROVE  LET r == IF IsPending(k, t) THEN pend_list_remove(k, t) ELSE k
           IN  /\ Holds(r, Q) /\ Others(k, r, t) /\ r.prio = k.prio
               /\ r.state[t] = k.state[t] \ {"PEND"} /\ r.pendState[t] = k.pendState[t]
<1> DEFINE r == IF IsPending(k, t) THEN pend_list_remove(k, t) ELSE k
<1>1. CASE IsPending(k, t)
  <2>1. r = pend_list_remove(k, t)
    BY <1>1
  <2> HIDE DEF r
  <2> QED
    BY <1>1, <2>1, HoldsUnpend DEF r
<1>2. CASE ~IsPending(k, t)
  <2>1. r = k /\ k.state[t] \ {"PEND"} = k.state[t]
    BY <1>2 DEF IsPending
  <2> HIDE DEF r
  <2> QED
    BY <2>1, SameTransitive DEF Others, r
<1> QED
  BY <1>1, <1>2

LEMMA HoldsAwake ==
    ASSUME NEW k, NEW Q, Holds(k, Q), NEW t \in Task
    PROVE  LET r == IF IsSleeping(k, t) THEN tick_list_remove(k, t) ELSE k
           IN  Holds(r, Q) /\ SameBut(k, r, t) /\ r.state[t] = k.state[t] \ {"SLEEP"}
<1> DEFINE r == IF IsSleeping(k, t) THEN tick_list_remove(k, t) ELSE k
<1>1. CASE IsSleeping(k, t)
  <2>1. r = tick_list_remove(k, t)
    BY <1>1
  <2> HIDE DEF r
  <2> QED
    BY <1>1, <2>1, HoldsWake DEF r
<1>2. CASE ~IsSleeping(k, t)
  <2>1. r = k /\ k.state[t] \ {"SLEEP"} = k.state[t]
    BY <1>2 DEF IsSleeping
  <2> HIDE DEF r
  <2> QED
    BY <2>1, SameTransitive DEF SameBut, r
<1> QED
  BY <1>1, <1>2

LEMMA SuspendSound ==
    ASSUME NEW k, Sound(k), NEW t \in (k.obj \cap Task) \ {Idle}
    PROVE  LET r == task_suspend(k, t)
           IN  /\ Sound(r) /\ Others(k, r, t) /\ r.prio = k.prio
               /\ ~IsPending(r, t) /\ ~IsSleeping(r, t) /\ r.pendState[t] = k.pendState[t]
               /\ ReadySet(r) = ReadySet(k) \ {t}
<1> DEFINE S  == ReadySet(k)
           k1 == IF IsReady(k, t) THEN readyqueue_remove(k, t) ELSE k
           k2 == IF IsPending(k1, t) THEN pend_list_remove(k1, t) ELSE k1
           k3 == IF IsSleeping(k2, t) THEN tick_list_remove(k2, t) ELSE k2
           f  == k3.state[t] \cup {"SUSPENDED"}
           r  == task_suspend(k, t)
<1>1. r = SetState(k3, t, f)
  BY DEF task_suspend, SetState
<1>2. Holds(k1, S \ {t}) /\ SameBut(k, k1, t) /\ k1.state[t] = k.state[t]
  BY HoldsDequeue
<1> HIDE DEF k1, r, S
<1>3. /\ Holds(k2, S \ {t}) /\ Others(k1, k2, t) /\ k2.prio = k1.prio
      /\ k2.state[t] = k1.state[t] \ {"PEND"} /\ k2.pendState[t] = k1.pendState[t]
  BY <1>2, HoldsUnwait
<1> HIDE DEF k2
<1>4. /\ Holds(k3, S \ {t}) /\ SameBut(k2, k3, t)
      /\ k3.state[t] = k2.state[t] \ {"SLEEP"}
  BY <1>3, HoldsAwake
<1> HIDE DEF k3
<1>5. /\ f \in SUBSET (Flags \ {"DELETED"}) /\ "SLEEP" \notin f /\ "PEND" \notin f
      /\ f # {}
  <2>1. k.state[t] \in SUBSET Flags /\ "DELETED" \notin k.state[t]
    BY DEF Sound, KernelType, Alive
  <2> QED
    BY <1>2, <1>3, <1>4, <2>1 DEF Flags
<1>6. ~IsSleeping(k3, t) /\ ~IsPending(k3, t)
  BY <1>3, <1>4 DEF IsSleeping, IsPending
<1> HIDE DEF f
<1>7. Holds(r, S \ {t}) /\ SameBut(k3, r, t) /\ r.state[t] = f
  BY <1>1, <1>4, <1>5, <1>6, HoldsFlags
<1>8. Others(k, r, t)
  <2>1. Others(k, k1, t) /\ Others(k2, k3, t) /\ Others(k3, r, t)
    BY <1>2, <1>4, <1>7, ButIsElsewhere
  <2>2. Others(k, k2, t)
    BY <1>3, <2>1, OthersTransitive
  <2>3. Others(k, k3, t)
    BY <2>1, <2>2, OthersTransitive
  <2> QED
    BY <2>1, <2>3, OthersTransitive
<1>9. ReadySet(r) = S \ {t}
  BY <1>5, <1>7, <1>8, ReadyBut DEF S
<1>10. r.prio = k.prio /\ r.pendState[t] = k.pendState[t]
  BY <1>2, <1>3, <1>4, <1>7 DEF SameBut, SameControl
<1>11. ~IsPending(r, t) /\ ~IsSleeping(r, t)
  BY <1>5, <1>7 DEF IsPending, IsSleeping
<1>12. Sound(r)
  BY <1>7, <1>9, HoldsReady
<1> QED
  BY <1>8, <1>9, <1>10, <1>11, <1>12 DEF r, S

LEMMA ResumeSound ==
    ASSUME NEW k, Sound(k), NEW t \in (k.obj \cap Task) \ {Idle}, IsSuspended(k, t)
    PROVE  LET r == task_resume(k, t)
           IN  /\ Sound(r) /\ SameControl(k, r) /\ r.prio = k.prio
               /\ ReadySet(k) \subseteq ReadySet(r)
               /\ \A u \in Task \ {t} : r.state[u] = k.state[u]
               /\ \A u \in Task : SameWait(k, r, u)
<1> DEFINE S  == ReadySet(k)
           f  == k.state[t] \ {"SUSPENDED"}
           k1 == SetState(k, t, f)
           r  == task_resume(k, t)
<1>1. Holds(k, S) /\ S \in SUBSET Task /\ S # {} /\ t \notin S
  BY HoldsReady, SoundReady DEF ReadySet, IsReady, IsSuspended
<1>2. r = IF IsReady(k1, t) THEN readyqueue_add(k1, t) ELSE k1
  BY DEF task_resume, SetState
<1> HIDE DEF S, r
<1>3. /\ f \in SUBSET (Flags \ {"DELETED"})
      /\ "SLEEP" \in f <=> IsSleeping(k, t)
      /\ "PEND" \in f <=> IsPending(k, t)
  <2>1. k.state[t] \in SUBSET Flags /\ "DELETED" \notin k.state[t]
    BY <1>1 DEF Holds, KernelType, Alive
  <2> QED
    BY <2>1 DEF Flags, IsSleeping, IsPending
<1>4. Holds(k1, S) /\ SameBut(k, k1, t) /\ k1.state[t] = f
  <2> HIDE DEF f
  <2> QED
    BY <1>1, <1>3, HoldsFlags
<1> HIDE DEF k1, f
<1>5. k1.prio = k.prio /\ SameControl(k, k1)
  BY <1>4 DEF SameBut
<1>6. \A u \in Task : SameWait(k, k1, u)
  BY <1>3, <1>4 DEF SameBut, SameControl, SameWait, IsPending, IsSleeping
<1>9. \A u \in Task \ {t} : k1.state[u] = k.state[u]
  BY <1>4 DEF SameBut
<1>7. CASE f = {}
  <2>1. ReadySet(k1) = S \cup {t}
    BY <1>4, <1>7, ReadyBut DEF S
  <2>2. r = readyqueue_add(k1, t)
    BY <1>2, <1>4, <1>7 DEF IsReady
  <2>3. /\ Holds(r, S \cup {t}) /\ SameControl(k1, r) /\ r.prio = k1.prio
        /\ r.state = k1.state /\ ReadySet(r) = ReadySet(k1)
    BY <1>1, <1>4, <2>2, HoldsAdd
  <2>4. SameControl(k, r)
    BY <1>5, <2>3, SameTransitive
  <2>5. \A u \in Task : SameWait(k, r, u)
    BY <1>6, <2>3 DEF SameWait, SameControl, IsPending, IsSleeping
  <2> QED
    BY <1>5, <1>9, <2>1, <2>3, <2>4, <2>5, HoldsReady DEF r, S
<1>8. CASE f # {}
  <2>1. ReadySet(k1) = ReadySet(k) \ {t}
    BY <1>4, <1>8, ReadyBut
  <2>2. ReadySet(k1) = S
    BY <1>1, <2>1 DEF S
  <2>3. r = k1
    BY <1>2, <1>4, <1>8 DEF IsReady
  <2> QED
    BY <1>4, <1>5, <1>6, <1>9, <2>2, <2>3, HoldsReady DEF r, S
<1> QED
  BY <1>7, <1>8

LEMMA AbortSound ==
    ASSUME NEW k, Sound(k), NEW t \in Task, IsSleeping(k, t), ~IsSuspended(k, t),
           ~IsPending(k, t)
    PROVE  LET r == readyqueue_add(tick_list_remove(k, t), t)
           IN  /\ Sound(r) /\ SameFrame(k, r)
               /\ ReadySet(k) \subseteq ReadySet(r)
               /\ \A u \in Task \ {t} : r.state[u] = k.state[u]
               /\ \A u \in Task : /\ IsPending(r, u) <=> IsPending(k, u)
                                  /\ IsPending(k, u) => r.pendingObj[u] = k.pendingObj[u]
                                  /\ r.pendState[u] = k.pendState[u]
                                  /\ IsSleeping(r, u) => IsSleeping(k, u)
<1> DEFINE b == tick_list_remove(k, t)
           r == readyqueue_add(b, t)
<1>1. Holds(k, ReadySet(k))
  BY HoldsReady
<1>2. b.state[t] = k.state[t] \ {"SLEEP"}
  BY <1>1, HoldsWake
<1> HIDE DEF b
<1>3. pend_task_wakeup(k, t, "NONE") = r
  BY <1>2 DEF pend_task_wakeup, b, IsSuspended
<1> HIDE DEF r
<1>4. "NONE" \in PendState
  BY DEF PendState
<1>5. /\ Sound(r) /\ SameFrame(k, r) /\ ReadySet(k) \subseteq ReadySet(r)
      /\ Awoken(k, r, {t}, "NONE")
  BY <1>3, <1>4, WakeSound
<1>6. \A u \in Task : /\ IsPending(r, u) <=> IsPending(k, u)
                      /\ IsPending(k, u) => r.pendingObj[u] = k.pendingObj[u]
                      /\ r.pendState[u] = k.pendState[u]
                      /\ IsSleeping(r, u) => IsSleeping(k, u)
  BY <1>5 DEF Awoken, IsPending, IsSleeping
<1>7. \A u \in Task \ {t} : r.state[u] = k.state[u]
  BY <1>5 DEF Awoken
<1> QED
  BY <1>5, <1>6, <1>7 DEF r, b

(* tos_task_yield moves the caller behind its peers.                       *)
LEMMA YieldSound ==
    ASSUME NEW k, Sound(k), NEW t \in ReadySet(k) \ {Idle}
    PROVE  LET r == readyqueue_add_tail(readyqueue_remove(k, t), t)
           IN  /\ Sound(r) /\ SameControl(k, r) /\ r.prio = k.prio
               /\ r.state = k.state /\ ReadySet(r) = ReadySet(k)
<1> DEFINE S == ReadySet(k)
           a == readyqueue_remove(k, t)
           r == readyqueue_add_tail(a, t)
<1>1. Holds(k, S) /\ S \in SUBSET Task /\ Idle \in S \ {t}
  BY HoldsReady, SoundReady
<1>2. /\ Holds(a, S \ {t}) /\ SameControl(k, a) /\ a.prio = k.prio
      /\ a.state = k.state /\ ReadySet(a) = S
  <2> HIDE DEF S
  <2> QED
    BY <1>1, HoldsRemove DEF S
<1> HIDE DEF a, S
<1>3. /\ Holds(r, (S \ {t}) \cup {t}) /\ SameControl(a, r) /\ r.prio = a.prio
      /\ r.state = a.state /\ ReadySet(r) = ReadySet(a)
  <2> DEFINE Q == S \ {t}
  <2>1. Q \in SUBSET Task /\ Q # {} /\ t \in Task \ Q /\ Holds(a, Q)
    BY <1>1, <1>2 DEF S
  <2> HIDE DEF Q, r
  <2>2. /\ Holds(r, Q \cup {t}) /\ SameControl(a, r) /\ r.prio = a.prio
        /\ r.state = a.state /\ ReadySet(r) = ReadySet(a)
    BY <2>1, HoldsAdd DEF r
  <2> QED
    BY <2>2 DEF Q
<1> HIDE DEF r
<1>4. (S \ {t}) \cup {t} = S
  BY DEF S
<1>5. SameControl(k, r)
  BY <1>2, <1>3, SameTransitive
<1>6. Sound(r)
  BY <1>2, <1>3, <1>4, HoldsReady
<1> QED
  BY <1>2, <1>3, <1>5, <1>6 DEF r, a, S

LEMMA DelaySound ==
    ASSUME NEW k, Sound(k), NEW t \in ReadySet(k) \ {Idle}, NEW d \in Nat
    PROVE  LET r == readyqueue_remove(tick_list_add(k, t, d), t)
           IN  /\ Sound(r) /\ SameBut(k, r, t) /\ r.state[t] = {"SLEEP"}
               /\ ReadySet(r) = ReadySet(k) \ {t}
<1> DEFINE S == ReadySet(k)
           a == tick_list_add(k, t, d)
           r == readyqueue_remove(a, t)
<1>1. Holds(k, S) /\ S \in SUBSET Task /\ Idle \in S /\ t \in S \ {Idle}
  BY HoldsReady, SoundReady
<1>2. t \in (k.obj \cap Task) \ {Idle} /\ ~IsSleeping(k, t) /\ k.state[t] = {}
  BY DEF ReadySet, IsReady, IsSleeping
<1> HIDE DEF S
<1>3. Holds(a, S) /\ SameBut(k, a, t) /\ a.state[t] = {"SLEEP"}
  BY <1>1, <1>2, HoldsSleep
<1> HIDE DEF a
<1>4. a.state[t] # {} /\ a.prio = k.prio /\ SameControl(k, a)
  BY <1>3 DEF SameBut
<1>5. ReadySet(a) = S \ {t}
  BY <1>2, <1>3, <1>4, ReadyBut DEF S
<1>6. /\ Holds(r, S \ {t}) /\ SameControl(a, r) /\ r.prio = a.prio
      /\ r.state = a.state /\ ReadySet(r) = ReadySet(a)
  BY <1>1, <1>3, HoldsRemove
<1> HIDE DEF r
<1>7. SameBut(k, r, t)
  BY <1>3, <1>4, <1>6, SameTransitive DEF SameBut
<1>8. Sound(r)
  BY <1>5, <1>6, HoldsReady
<1> QED
  BY <1>3, <1>5, <1>6, <1>7, <1>8 DEF r, a, S

----------------------------------------------------------------------------
(* Fields that the lists do not depend on change.                          *)

Best(k) == readyqueue_highest_ready_task_get(k)

SameLists(k, r) ==
    /\ r.state = k.state /\ r.obj = k.obj /\ r.prio = k.prio
    /\ r.pend = k.pend /\ r.pendingObj = k.pendingObj /\ r.pendState = k.pendState
    /\ SameQueue(k, r) /\ SameTick(k, r)
SameOwners(k, r) == r.own = k.own /\ r.owner = k.owner /\ r.nesting = k.nesting
SameMutexes(k, r) ==
    r.owner = k.owner /\ r.nesting = k.nesting /\ r.ownerOrigPrio = k.ownerOrigPrio
SameCpu(k, r) == /\ r.curr = k.curr /\ r.next = k.next /\ r.pendsv = k.pendsv
                 /\ r.irqNest = k.irqNest /\ r.schedLock = k.schedLock

LEMMA CpuSound ==
    ASSUME NEW k, Sound(k), NEW r \in KernelType, SameLists(k, r)
    PROVE  Sound(r) /\ ReadySet(r) = ReadySet(k) /\ Best(r) = Best(k)
<1>1. ReadySet(r) = ReadySet(k) /\ Sleepers(r) = Sleepers(k)
  BY DEF SameLists, ReadySet, Sleepers, IsReady, IsSleeping
<1>2. Queued(r, ReadySet(r)) /\ TickHolds(r, Sleepers(r))
  BY <1>1, SameKeeps DEF Sound, SameLists
<1>3. Waiting(r)
  <2>1. \A u \in Task : IsPending(r, u) <=> IsPending(k, u)
    BY DEF SameLists, IsPending
  <2>2. \A u \in Task : IF IsPending(k, u) THEN k.pendingObj[u] \in k.obj
                                           ELSE k.pendingObj[u] = NoObj
    BY DEF Sound, Waiting, Undecided
  <2> QED
    BY <2>1, <2>2, WaitingSame DEF Sound, SameLists
<1>4. Alive(r)
  BY DEF Sound, Alive, IsPending, IsSleeping, SameLists
<1>5. Best(r) = Best(k)
  BY DEF Best, readyqueue_highest_ready_task_get, SameQueue, SameLists
<1> QED
  BY <1>1, <1>2, <1>3, <1>4, <1>5 DEF Sound

(* A task outside the ready queue, that waits for nothing, gets another    *)
(* priority.                                                               *)
LEMMA HoldsPrio ==
    ASSUME NEW k, NEW Q \in SUBSET Task, Holds(k, Q), NEW t \in Task \ Q, ~IsPending(k, t),
           NEW p \in Prio
    PROVE  LET r == Reprio(k, t, p)
           IN  /\ Holds(r, Q) /\ SameControl(k, r) /\ r.state = k.state
               /\ r.prio[t] = p /\ \A u \in Task \ {t} : r.prio[u] = k.prio[u]
               /\ ReadySet(r) = ReadySet(k)
<1> DEFINE r == Reprio(k, t, p)
<1>1. /\ r \in KernelType /\ r.prio[t] = p /\ \A u \in Task \ {t} : r.prio[u] = k.prio[u]
      /\ r.state = k.state /\ SameControl(k, r) /\ SameQueue(k, r) /\ SameTick(k, r)
  BY ReprioType DEF Holds
<1> HIDE DEF r
<1>2. Queued(r, Q)
  BY <1>1 DEF Holds, Queued, SameQueue
<1>3. Sleepers(r) = Sleepers(k) /\ ReadySet(r) = ReadySet(k)
  BY <1>1 DEF Sleepers, IsSleeping, ReadySet, IsReady, SameControl
<1>4. TickHolds(r, Sleepers(r))
  BY <1>1, <1>3, SameKeeps DEF Holds
<1>5. Waiting(r)
  BY <1>1, SameWaiting DEF Holds, IsPending
<1>6. Alive(r)
  BY <1>1 DEF Holds, Alive, IsPending, IsSleeping, SameControl
<1>7. /\ Holds(r, Q) /\ SameControl(k, r) /\ r.state = k.state
      /\ ReadySet(r) = ReadySet(k)
  BY <1>1, <1>2, <1>3, <1>4, <1>5, <1>6 DEF Holds
<1> QED
  BY <1>1, <1>7 DEF r

LEMMA HoldsAdjust ==
    ASSUME NEW k, Sound(k), NEW t \in Task, IsPending(k, t), NEW p \in Prio
    PROVE  LET r == pend_list_adjust(Reprio(k, t, p), t)
           IN  /\ Sound(r) /\ SameFrame(k, r) /\ r.state = k.state
               /\ r.pendState = k.pendState /\ r.pendingObj = k.pendingObj
               /\ r.prio[t] = p /\ \A u \in Task \ {t} : r.prio[u] = k.prio[u]
               /\ ReadySet(r) = ReadySet(k)
<1> DEFINE r == pend_list_adjust(Reprio(k, t, p), t)
<1>1. k \in KernelType /\ Waiting(k)
  BY DEF Sound
<1>2. /\ r \in KernelType /\ Waiting(r) /\ r.prio[t] = p
      /\ \A u \in Task : r.state[u] = k.state[u] /\ r.pendingObj[u] = k.pendingObj[u]
      /\ r.pendState = k.pendState
      /\ Others(k, r, t) /\ SameQueue(k, r) /\ SameTick(k, r)
  BY <1>1, PendAdjust
<1> HIDE DEF r
<1>3. r.state = k.state /\ r.pendingObj = k.pendingObj /\ SameFrame(k, r)
  <2>1. /\ k.state \in [Task -> SUBSET Flags] /\ r.state \in [Task -> SUBSET Flags]
        /\ k.pendingObj \in [Task -> Obj \cup {NoObj}]
        /\ r.pendingObj \in [Task -> Obj \cup {NoObj}]
    BY <1>1, <1>2 DEF KernelType
  <2>2. r.state = k.state
    BY <1>2, <2>1
  <2>3. r.pendingObj = k.pendingObj
    BY <1>2, <2>1
  <2> QED
    BY <1>2, <2>2, <2>3 DEF Others
<1>4. ReadySet(r) = ReadySet(k) /\ Sleepers(r) = Sleepers(k) /\ t \notin ReadySet(k)
  BY <1>3 DEF ReadySet, Sleepers, IsReady, IsSleeping, IsPending, SameFrame
<1>5. TickHolds(r, Sleepers(r))
  BY <1>2, <1>4, SameKeeps DEF Sound
<1>6. Queued(r, ReadySet(r)) /\ \A u \in Task \ {t} : r.prio[u] = k.prio[u]
  <2>1. \A u \in ReadySet(k) : r.prio[u] = k.prio[u]
    BY <1>2, <1>4 DEF Others, ReadySet
  <2> QED
    BY <1>2, <1>4, <2>1 DEF Sound, Queued, SameQueue, Others
<1>7. Alive(r)
  BY <1>3 DEF Sound, Alive, IsPending, IsSleeping, SameFrame
<1> QED
  BY <1>2, <1>3, <1>4, <1>5, <1>6, <1>7 DEF Sound, r

(* A task moves to priority p: in its pend list, in the ready queue or in  *)
(* its control block only.                                                 *)
Moves(k, r, t, p) ==
    \/ IsPending(k, t) /\ r = pend_list_adjust(Reprio(k, t, p), t)
    \/ ~IsPending(k, t) /\ ~IsReady(k, t) /\ r = Reprio(k, t, p)
    \/ /\ ~IsPending(k, t) /\ IsReady(k, t)
       /\ r \in {readyqueue_add_head(Reprio(readyqueue_remove(k, t), t, p), t),
                 readyqueue_add_tail(Reprio(readyqueue_remove(k, t), t, p), t)}

LEMMA MoveSound ==
    ASSUME NEW k, Sound(k), NEW t \in (k.obj \cap Task) \ {Idle}, NEW p \in Prio,
           NEW r, Moves(k, r, t, p)
    PROVE  /\ Sound(r) /\ SameFrame(k, r) /\ r.state = k.state
           /\ r.pendState = k.pendState /\ r.pendingObj = k.pendingObj
           /\ r.prio[t] = p /\ \A u \in Task \ {t} : r.prio[u] = k.prio[u]
           /\ ReadySet(r) = ReadySet(k)
<1> DEFINE S == ReadySet(k)
           a == readyqueue_remove(k, t)
           b == Reprio(a, t, p)
           c == pend_list_adjust(Reprio(k, t, p), t)
<1>1. Holds(k, S) /\ S \in SUBSET Task /\ Idle \in S
  BY HoldsReady, SoundReady
<1>2. \/ IsPending(k, t) /\ r = c
      \/ ~IsPending(k, t) /\ ~IsReady(k, t) /\ r = Reprio(k, t, p)
      \/ /\ ~IsPending(k, t) /\ IsReady(k, t)
         /\ r \in {readyqueue_add_head(b, t), readyqueue_add_tail(b, t)}
  BY DEF Moves
<1> HIDE DEF S, c
<1>3. CASE IsPending(k, t) /\ r = c
  <2>1. /\ Sound(c) /\ SameFrame(k, c) /\ c.state = k.state
        /\ c.pendState = k.pendState /\ c.pendingObj = k.pendingObj
        /\ c.prio[t] = p /\ \A u \in Task \ {t} : c.prio[u] = k.prio[u]
        /\ ReadySet(c) = ReadySet(k)
    BY <1>3, HoldsAdjust DEF c
  <2> QED
    BY <1>3, <2>1
<1>4. CASE ~IsPending(k, t) /\ ~IsReady(k, t) /\ r = Reprio(k, t, p)
  <2>1. t \in Task \ S
    BY <1>4 DEF S, ReadySet
  <2>2. /\ Holds(r, S) /\ SameControl(k, r) /\ r.state = k.state
        /\ r.prio[t] = p /\ \A u \in Task \ {t} : r.prio[u] = k.prio[u]
        /\ ReadySet(r) = ReadySet(k)
    BY <1>1, <1>4, <2>1, HoldsPrio
  <2>3. Sound(r)
    BY <2>2, HoldsReady DEF S
  <2>4. SameFrame(k, r) /\ r.pendState = k.pendState /\ r.pendingObj = k.pendingObj
    BY <2>2, SameTransitive DEF SameControl
  <2> QED
    BY <2>2, <2>3, <2>4
<1>5. CASE /\ ~IsPending(k, t) /\ IsReady(k, t)
           /\ r \in {readyqueue_add_head(b, t), readyqueue_add_tail(b, t)}
  <2>1. t \in S \ {Idle}
    BY <1>5 DEF S, ReadySet
  <2> DEFINE Q == S \ {t}
  <2>2. Q \in SUBSET Task /\ Q # {} /\ t \in Task \ Q /\ Q \cup {t} = S
    BY <1>1, <2>1
  <2>3. /\ Holds(a, Q) /\ SameControl(k, a) /\ a.state = k.state /\ a.prio = k.prio
        /\ ReadySet(a) = ReadySet(k)
    BY <1>1, <2>1, HoldsRemove
  <2> HIDE DEF Q, a
  <2>4. /\ Holds(b, Q) /\ SameControl(a, b) /\ b.state = a.state
        /\ b.prio[t] = p /\ \A u \in Task \ {t} : b.prio[u] = a.prio[u]
        /\ ReadySet(b) = ReadySet(a)
    <3>1. ~IsPending(a, t)
      BY <1>5, <2>3 DEF IsPending
    <3> QED
      BY <2>2, <2>3, <3>1, HoldsPrio
  <2> HIDE DEF b
  <2>5. /\ Holds(r, Q \cup {t}) /\ SameControl(b, r) /\ r.state = b.state /\ r.prio = b.prio
        /\ ReadySet(r) = ReadySet(b)
    BY <1>5, <2>2, <2>4, HoldsAdd
  <2>6. SameControl(k, b)
    BY <2>3, <2>4, SameTransitive
  <2>7. SameControl(k, r)
    BY <2>5, <2>6, SameTransitive
  <2>8. ReadySet(r) = S /\ Holds(r, S) /\ r.state = k.state
    BY <2>2, <2>3, <2>4, <2>5 DEF S
  <2>9. Sound(r)
    BY <2>8, HoldsReady
  <2>10. SameFrame(k, r) /\ r.pendState = k.pendState /\ r.pendingObj = k.pendingObj
    BY <2>7, SameTransitive DEF SameControl
  <2>11. r.prio[t] = p /\ \A u \in Task \ {t} : r.prio[u] = k.prio[u]
    BY <2>3, <2>4, <2>5
  <2> QED
    BY <2>8, <2>9, <2>10, <2>11 DEF S
<1> QED
  BY <1>2, <1>3, <1>4, <1>5

(* What a change of priority leaves alone.  A lent priority that outranks  *)
(* the new one stays; the new one is kept in prio_pending.                 *)
Deferred(k, t, p) == [k EXCEPT !.prioPending[t] = p]
SamePlaces(k, r)  == /\ r.obj = k.obj /\ r.state = k.state /\ r.pendState = k.pendState
                     /\ r.pendingObj = k.pendingObj /\ ReadySet(r) = ReadySet(k)
Reranked(k, r, t, p) ==
    /\ SameOwners(k, r) /\ SameMutexes(k, r) /\ SamePlaces(k, r)
    /\ \A u \in Task \ {t} : r.prio[u] = k.prio[u] /\ r.prioPending[u] = k.prioPending[u]
    /\ r.prio[t] = k.prio[t] \/ r.prio[t] <= p

LEMMA DeferredType ==
    ASSUME NEW k \in KernelType, NEW t \in Task, NEW p \in 0 .. PrioInvalid
    PROVE  LET r == Deferred(k, t, p)
           IN  /\ r \in KernelType /\ SameLists(k, r) /\ SameOwners(k, r)
               /\ SameMutexes(k, r) /\ SameCpu(k, r) /\ r.prioPending[t] = p
               /\ \A u \in Task \ {t} : r.prioPending[u] = k.prioPending[u]
  BY DEF Deferred, KernelType, SameLists, SameQueue, SameTick, SameOwners, SameMutexes, SameCpu

LEMMA WaitingPrioType ==
    ASSUME NEW k, Sound(k), NEW t \in Task
    PROVE  task_highest_pending_prio_get(k, t) \in 0 .. PrioInvalid
<1> DEFINE A == {pend_highest_pending_prio_get(k, k.own[t][i]) : i \in DOMAIN k.own[t]}
                   \cup {PrioInvalid}
<1>1. PrioInvalid \in Nat /\ Prio \subseteq 0 .. PrioInvalid
  BY PrioAssumption DEF Prio, PrioInvalid
<1>2. \A o \in Obj : pend_highest_pending_prio_get(k, o) \in 0 .. PrioInvalid
  <2> SUFFICES ASSUME NEW o \in Obj, k.pend[o] # << >>
               PROVE  k.prio[Head(k.pend[o])] \in 0 .. PrioInvalid
    BY <1>1 DEF pend_highest_pending_prio_get, pend_is_nopending
  <2>1. k.pend[o] \in Seq(Task) /\ k.prio \in [Task -> Prio]
    BY DEF Sound, KernelType
  <2>2. Head(k.pend[o]) \in Task
    BY <2>1
  <2>3. k.prio[Head(k.pend[o])] \in Prio
    BY <2>1, <2>2
  <2> QED
    BY <1>1, <2>3
<1>3. \A i \in DOMAIN k.own[t] : k.own[t][i] \in Obj
  <2>1. k.own[t] \in Seq(Mutex)
    BY DEF Sound, KernelType
  <2> QED
    BY <2>1 DEF Obj
<1>4. A \subseteq 0 .. PrioInvalid /\ A # {}
  BY <1>1, <1>2, <1>3
<1>5. ListMin(A) \in A
  <2>1. A \in SUBSET Nat
    BY <1>1, <1>4
  <2> QED
    BY <1>4, <2>1, ListMinLeast
<1> QED
  BY <1>4, <1>5 DEF task_highest_pending_prio_get

LEMMA PrioritySound ==
    ASSUME NEW k, Sound(k), NEW t \in (k.obj \cap Task) \ {Idle}, NEW new \in Prio
    PROVE  LET r == prio_assign(k, t, new)
           IN  Sound(r) /\ SameCpu(k, r) /\ Reranked(k, r, t, new)
<1> DEFINE waiting == task_highest_pending_prio_get(k, t)
           defer   == k.own[t] # << >> /\ new > waiting
           p       == IF defer THEN waiting ELSE new
           a       == IF defer THEN Deferred(k, t, new) ELSE k
           r       == prio_assign(k, t, new)
<1>1. r = k \/ r = a \/ Moves(a, r, t, p)
  <2>1. /\ \A u : IsPending(a, u) <=> IsPending(k, u)
        /\ \A u : IsReady(a, u) <=> IsReady(k, u)
    BY DEF Sound, KernelType, Deferred, IsPending, IsReady
  <2> DEFINE b == Reprio(readyqueue_remove(a, t), t, p)
  <2>2. r = IF k.prio[t] = new THEN k
            ELSE IF IsPending(k, t) THEN pend_list_adjust(Reprio(a, t, p), t)
            ELSE IF IsSleeping(k, t) THEN Reprio(a, t, p)
            ELSE IF ~IsReady(k, t) THEN a
            ELSE IF t = k.curr THEN readyqueue_add_head(b, t)
            ELSE readyqueue_add_tail(b, t)
    BY DEF prio_assign, Reprio, Deferred
  <2>3. IsSleeping(k, t) => ~IsReady(k, t)
    BY DEF IsSleeping, IsReady
  <2> HIDE DEF r, a, p
  <2> QED
    BY <2>1, <2>2, <2>3 DEF Moves
<1>2. waiting \in 0 .. PrioInvalid /\ new \in 0 .. PrioInvalid /\ p \in Prio /\ p <= new
  <2>1. waiting \in 0 .. PrioInvalid
    BY WaitingPrioType
  <2>2. PrioMax \in Nat /\ new \in 0 .. PrioMax - 1 /\ waiting \in 0 .. PrioMax
    BY <2>1, PrioAssumption DEF Prio, PrioInvalid
  <2> HIDE DEF waiting
  <2>3. CASE defer
    BY <2>2, <2>3 DEF Prio, PrioInvalid
  <2>4. CASE ~defer
    BY <2>2, <2>4 DEF Prio, PrioInvalid
  <2> QED
    BY <2>3, <2>4
<1> HIDE DEF waiting
<1>3. /\ a \in KernelType /\ SameLists(k, a) /\ SameOwners(k, a)
      /\ SameMutexes(k, a) /\ SameCpu(k, a)
      /\ \A u \in Task \ {t} : a.prioPending[u] = k.prioPending[u]
  <2>1. CASE defer
    <3>1. a = Deferred(k, t, new) /\ k \in KernelType
      BY <2>1 DEF Sound
    <3> HIDE DEF a
    <3> QED
      BY <1>2, <3>1, DeferredType
  <2>2. CASE ~defer
    <3>1. a = k
      BY <2>2
    <3> QED
      BY <3>1 DEF Sound, SameLists, SameQueue, SameTick, SameOwners, SameMutexes, SameCpu
  <2> QED
    BY <2>1, <2>2
<1> HIDE DEF a, p, r
<1>4. Sound(a) /\ ReadySet(a) = ReadySet(k)
  BY <1>3, CpuSound
<1>5. CASE r = k \/ r = a
  BY <1>3, <1>4, <1>5
  DEF SameLists, SameOwners, SameMutexes, SameCpu, SamePlaces, Reranked, r
<1>6. CASE Moves(a, r, t, p)
  <2>1. t \in (a.obj \cap Task) \ {Idle}
    BY <1>3 DEF SameLists
  <2>2. /\ Sound(r) /\ SameFrame(a, r) /\ r.state = a.state
        /\ r.pendState = a.pendState /\ r.pendingObj = a.pendingObj
        /\ r.prio[t] = p /\ \A u \in Task \ {t} : r.prio[u] = a.prio[u]
        /\ ReadySet(r) = ReadySet(a)
    BY <1>2, <1>4, <1>6, <2>1, MoveSound
  <2>3. SameCpu(k, r) /\ SameOwners(k, r) /\ SameMutexes(k, r) /\ r.prioPending = a.prioPending
    BY <1>3, <2>2 DEF SameFrame, SameCpu, SameOwners, SameMutexes
  <2>4. SamePlaces(k, r)
    BY <1>3, <1>4, <2>2 DEF SameLists, SameFrame, SamePlaces
  <2> QED
    BY <1>2, <1>3, <2>2, <2>3, <2>4 DEF Reranked, SameLists, r
<1> QED
  BY <1>1, <1>5, <1>6

(* The task control block of t is reset, and nothing else but its flags    *)
(* and its priority changes.                                               *)
Cleared(k, r, t) ==
    /\ \A u \in Task \ {t} : r.own[u] = k.own[u] /\ r.prio[u] = k.prio[u]
    /\ Elsewhere(k, r, t) /\ SameCpu(k, r)
    /\ r.own[t] = << >> /\ r.pendingObj[t] = NoObj /\ r.pend = k.pend
    /\ r.pendState[t] = "NONE"
    /\ SameMutexes(k, r)
    /\ r.prioPending = [k.prioPending EXCEPT ![t] = PrioInvalid]

LEMMA ClearedSame ==
    ASSUME NEW k, NEW a, NEW r, NEW t, Cleared(k, a, t),
           r.own = a.own, r.pend = a.pend, r.pendingObj = a.pendingObj,
           r.pendState = a.pendState, r.prioPending = a.prioPending, SameMutexes(a, r),
           SameCpu(a, r), \A u \in Task \ {t} : r.state[u] = a.state[u] /\ r.prio[u] = a.prio[u]
    PROVE  Cleared(k, r, t)
<1>1. SameCpu(k, r) /\ SameMutexes(k, r)
  BY DEF Cleared, SameCpu, SameMutexes
<1>2. Elsewhere(k, r, t)
  BY DEF Cleared, Elsewhere
<1> QED
  BY <1>1, <1>2 DEF Cleared

LEMMA ResetType ==
    ASSUME NEW k \in KernelType, NEW t \in Task
    PROVE  LET r == TaskReset(k, t)
           IN  /\ r \in KernelType /\ Cleared(k, r, t)
               /\ r.obj = k.obj /\ r.state = k.state /\ r.prio = k.prio
               /\ SameQueue(k, r) /\ SameTick(k, r)
<1> DEFINE r  == TaskReset(k, t)
           ow == [k.own EXCEPT ![t] = << >>]
           pp == [k.prioPending EXCEPT ![t] = PrioInvalid]
           ps == [k.pendState EXCEPT ![t] = "NONE"]
           po == [k.pendingObj EXCEPT ![t] = NoObj]
<1>1. r = [k EXCEPT !.own = ow, !.prioPending = pp, !.pendState = ps, !.pendingObj = po]
  BY DEF TaskReset
<1>2. /\ ow \in [Task -> Seq(Mutex)] /\ ow[t] = << >>
      /\ \A u \in Task \ {t} : ow[u] = k.own[u]
  BY DEF KernelType
<1>3. pp \in [Task -> 0 .. PrioInvalid]
  <2>1. PrioInvalid \in 0 .. PrioInvalid
    BY PrioAssumption DEF PrioInvalid
  <2>2. k.prioPending \in [Task -> 0 .. PrioInvalid]
    BY DEF KernelType
  <2> QED
    BY <2>1, <2>2
<1>4. /\ ps \in [Task -> PendState] /\ ps[t] = "NONE"
      /\ \A u \in Task \ {t} : ps[u] = k.pendState[u]
  BY DEF KernelType, PendState
<1>5. /\ po \in [Task -> Obj \cup {NoObj}] /\ po[t] = NoObj
      /\ \A u \in Task \ {t} : po[u] = k.pendingObj[u]
  BY DEF KernelType
<1> HIDE DEF r, ow, pp, ps, po
<1>6. r \in KernelType
  BY <1>1, <1>2, <1>3, <1>4, <1>5 DEF KernelType
<1>7. /\ r.own = ow /\ r.pendState = ps /\ r.pendingObj = po /\ r.pend = k.pend
      /\ r.obj = k.obj /\ r.state = k.state /\ r.prio = k.prio /\ r.prioPending = pp
      /\ SameMutexes(k, r) /\ SameCpu(k, r) /\ SameQueue(k, r) /\ SameTick(k, r)
  BY <1>1 DEF KernelType, SameMutexes, SameCpu, SameQueue, SameTick
<1>8. Cleared(k, r, t)
  <2>1. r.prioPending = [k.prioPending EXCEPT ![t] = PrioInvalid]
    BY <1>7 DEF pp
  <2> QED
    BY <1>2, <1>4, <1>5, <1>7, <2>1 DEF Cleared, Elsewhere
<1> QED
  BY <1>6, <1>7, <1>8 DEF r

LEMMA FreshType ==
    ASSUME NEW k \in KernelType, NEW t \in Task, NEW p \in Prio, NEW slice \in Nat
    PROVE  LET r == NewTask(k, t, p, slice)
           IN  /\ r \in KernelType /\ Cleared(k, r, t)
               /\ r.obj = k.obj \cup {t} /\ r.state[t] = {} /\ r.prio[t] = p
               /\ SameQueue(k, r) /\ SameTick(k, r)
<1> DEFINE a == TaskReset(k, t)
           reload == IF RoundRobin THEN slice ELSE 0
           left   == IF ~RoundRobin THEN 0
                     ELSE IF slice = 0 THEN RobinDefault ELSE slice
           r == NewTask(k, t, p, slice)
<1>1. /\ a \in KernelType /\ Cleared(k, a, t)
      /\ a.obj = k.obj /\ a.state = k.state /\ a.prio = k.prio
      /\ SameQueue(k, a) /\ SameTick(k, a)
  BY ResetType
<1>2. reload \in Nat /\ left \in Nat
  BY RobinAssumption
<1>3. r = [a EXCEPT !.obj = @ \cup {t}, !.prio[t] = p, !.state[t] = {},
                    !.timesliceReload[t] = reload, !.timeslice[t] = left]
  BY DEF NewTask
<1> HIDE DEF a, reload, left, r
<1> DEFINE st == [a.state EXCEPT ![t] = {}]
           pr == [a.prio EXCEPT ![t] = p]
           ts == [a.timeslice EXCEPT ![t] = left]
           tr == [a.timesliceReload EXCEPT ![t] = reload]
           ob == a.obj \cup {t}
<1>4. r = [a EXCEPT !.obj = ob, !.prio = pr, !.state = st,
                    !.timesliceReload = tr, !.timeslice = ts]
  BY <1>3
<1>5. /\ st \in [Task -> SUBSET Flags] /\ pr \in [Task -> Prio]
      /\ st[t] = {} /\ pr[t] = p /\ \A u \in Task \ {t} : st[u] = a.state[u] /\ pr[u] = a.prio[u]
  BY <1>1 DEF KernelType
<1>6. ts \in [Task -> Nat] /\ tr \in [Task -> Nat]
  BY <1>1, <1>2 DEF KernelType
<1>7. ob \in SUBSET (Task \cup Obj) /\ ob = k.obj \cup {t}
  BY <1>1 DEF KernelType
<1> HIDE DEF st, pr, ts, tr, ob
<1>8. r \in KernelType
  BY <1>1, <1>4, <1>5, <1>6, <1>7 DEF KernelType
<1>9. /\ r.obj = ob /\ r.state = st /\ r.prio = pr /\ r.own = a.own
      /\ r.pend = a.pend /\ r.pendingObj = a.pendingObj /\ r.pendState = a.pendState
      /\ r.prioPending = a.prioPending /\ SameMutexes(a, r)
      /\ SameCpu(a, r) /\ SameQueue(a, r) /\ SameTick(a, r)
  BY <1>1, <1>4 DEF KernelType, SameMutexes, SameCpu, SameQueue, SameTick
<1>10. SameQueue(k, r) /\ SameTick(k, r)
  BY <1>1, <1>9, SameTransitive
<1>11. Cleared(k, r, t)
  BY <1>1, <1>5, <1>9, ClearedSame
<1> QED
  BY <1>5, <1>7, <1>8, <1>9, <1>10, <1>11 DEF r

(* A task that nobody waits for is cleared: the others wait as before.     *)
LEMMA ClearedWaiting ==
    ASSUME NEW k, Waiting(k), NEW r, NEW t \in Task, Cleared(k, r, t), ~IsPending(k, t),
           ~IsPending(r, t), k.obj \cap Obj \subseteq r.obj
    PROVE  Waiting(r)
<1>1. \A u \in Task : IsPending(r, u) <=> IsPending(k, u)
  BY DEF Cleared, Elsewhere, IsPending
<1>2. ASSUME NEW u \in Task
      PROVE  IF IsPending(k, u)
             THEN /\ r.pendingObj[u] = k.pendingObj[u] /\ r.prio[u] = k.prio[u]
                  /\ r.pendState[u] = k.pendState[u]
                  /\ k.pendingObj[u] \in r.obj
             ELSE r.pendingObj[u] = NoObj
  BY DEF Cleared, Elsewhere, Waiting, Undecided
<1> QED
  BY <1>1, <1>2, WaitingSame DEF Cleared

LEMMA CreateSound ==
    ASSUME NEW k, Sound(k), NEW t \in Task, t \notin k.obj, NEW p \in Prio, NEW slice \in Nat
    PROVE  LET r == readyqueue_add_tail(NewTask(k, t, p, slice), t)
           IN  /\ Sound(r) /\ Cleared(k, r, t) /\ r.obj = k.obj \cup {t}
               /\ ~IsPending(r, t) /\ ReadySet(r) = ReadySet(k) \cup {t}
               /\ r.prio[t] = p
<1> DEFINE S == ReadySet(k)
           a == NewTask(k, t, p, slice)
           r == readyqueue_add_tail(a, t)
<1>1. Holds(k, S) /\ S \in SUBSET Task /\ S # {} /\ t \notin S
  BY HoldsReady, SoundReady DEF ReadySet
<1>2. t # Idle /\ ~IsSleeping(k, t) /\ ~IsPending(k, t)
  BY <1>1 DEF Holds, Alive
<1>3. /\ a \in KernelType /\ Cleared(k, a, t)
      /\ a.obj = k.obj \cup {t} /\ a.state[t] = {} /\ a.prio[t] = p
      /\ SameQueue(k, a) /\ SameTick(k, a)
  BY <1>1, FreshType DEF Holds
<1> HIDE DEF a, S
<1>4. Queued(a, S)
  <2>1. \A u \in S : a.prio[u] = k.prio[u]
    BY <1>1, <1>3 DEF Cleared
  <2> QED
    BY <1>1, <1>3, <2>1 DEF Holds, Queued, SameQueue
<1>5. Sleepers(a) = Sleepers(k)
  BY <1>2, <1>3 DEF Sleepers, IsSleeping, Cleared, Elsewhere
<1>6. ReadySet(a) = S \cup {t}
  BY <1>3 DEF ReadySet, IsReady, S, Cleared, Elsewhere
<1>7. TickHolds(a, Sleepers(a))
  BY <1>1, <1>3, <1>5, SameKeeps DEF Holds
<1>8. Waiting(a) /\ ~IsPending(a, t)
  <2>1. ~IsPending(a, t)
    BY <1>3 DEF IsPending
  <2> QED
    BY <1>1, <1>2, <1>3, <2>1, ClearedWaiting DEF Holds
<1>9. Alive(a)
  <2>1. \A u \in Task : IsSleeping(a, u) \/ IsPending(a, u) => u \in a.obj
    BY <1>1, <1>3, <1>5 DEF Holds, Alive, Sleepers, Cleared, Elsewhere, IsPending
  <2>2. \A u \in a.obj \cap Task : "DELETED" \notin a.state[u]
    BY <1>1, <1>3 DEF Holds, Alive, Cleared, Elsewhere
  <2>3. Idle \in a.obj /\ a.state[Idle] = {}
    BY <1>1, <1>2, <1>3, IdleAssumption DEF Holds, Alive, Cleared, Elsewhere
  <2> QED
    BY <2>1, <2>2, <2>3 DEF Alive
<1>10. Holds(a, S)
  BY <1>3, <1>4, <1>7, <1>8, <1>9 DEF Holds
<1>11. /\ Holds(r, S \cup {t}) /\ SameControl(a, r) /\ ReadySet(r) = ReadySet(a)
       /\ r.state = a.state /\ r.prio = a.prio
  BY <1>1, <1>10, HoldsAdd
<1> HIDE DEF r
<1>12. Sound(r)
  BY <1>6, <1>11, HoldsReady
<1>13. Cleared(k, r, t) /\ r.obj = k.obj \cup {t} /\ ~IsPending(r, t)
  <2>1. SameCpu(a, r) /\ SameMutexes(a, r)
    BY <1>11 DEF SameControl, SameCpu, SameMutexes
  <2>2. Cleared(k, r, t)
    BY <1>3, <1>11, <2>1, ClearedSame DEF SameControl
  <2> QED
    BY <1>3, <1>8, <1>11, <2>2 DEF SameControl, IsPending
<1> QED
  BY <1>3, <1>6, <1>11, <1>12, <1>13 DEF r, a, S

Buried(k, t) == [TaskReset(k, t) EXCEPT !.state[t] = {"DELETED"}, !.obj = @ \ {t}]

LEMMA BuriedType ==
    ASSUME NEW k \in KernelType, NEW t \in Task
    PROVE  LET r == Buried(k, t)
           IN  /\ r \in KernelType /\ Cleared(k, r, t)
               /\ r.obj = k.obj \ {t} /\ r.prio = k.prio /\ r.state[t] = {"DELETED"}
               /\ SameQueue(k, r) /\ SameTick(k, r)
<1> DEFINE a  == TaskReset(k, t)
           r  == Buried(k, t)
           st == [a.state EXCEPT ![t] = {"DELETED"}]
           ob == a.obj \ {t}
<1>1. /\ a \in KernelType /\ Cleared(k, a, t)
      /\ a.obj = k.obj /\ a.state = k.state /\ a.prio = k.prio
      /\ SameQueue(k, a) /\ SameTick(k, a)
  BY ResetType
<1>2. r = [a EXCEPT !.state = st, !.obj = ob]
  BY DEF Buried
<1> HIDE DEF a, r
<1>3. /\ st \in [Task -> SUBSET Flags] /\ st[t] = {"DELETED"}
      /\ \A u \in Task \ {t} : st[u] = a.state[u]
  BY <1>1 DEF KernelType, Flags
<1>4. ob \in SUBSET (Task \cup Obj) /\ ob = k.obj \ {t}
  BY <1>1 DEF KernelType
<1> HIDE DEF st, ob
<1>5. r \in KernelType
  BY <1>1, <1>2, <1>3, <1>4 DEF KernelType
<1>6. /\ r.obj = ob /\ r.state = st /\ r.prio = a.prio /\ r.own = a.own
      /\ r.pend = a.pend /\ r.pendingObj = a.pendingObj /\ r.pendState = a.pendState
      /\ r.prioPending = a.prioPending /\ SameMutexes(a, r)
      /\ SameCpu(a, r) /\ SameQueue(a, r) /\ SameTick(a, r)
  BY <1>1, <1>2 DEF KernelType, SameMutexes, SameCpu, SameQueue, SameTick
<1>7. SameQueue(k, r) /\ SameTick(k, r)
  BY <1>1, <1>6, SameTransitive
<1>8. Cleared(k, r, t)
  BY <1>1, <1>3, <1>6, ClearedSame
<1> QED
  BY <1>1, <1>3, <1>4, <1>5, <1>6, <1>7, <1>8 DEF r

(* task_do_destroy, after the release of the mutexes.                      *)
Bury(k, t) ==
    LET k2 == IF IsReady(k, t) THEN readyqueue_remove(k, t) ELSE k
        k3 == IF IsSleeping(k2, t) THEN tick_list_remove(k2, t) ELSE k2
        k4 == IF IsPending(k3, t) THEN pend_list_remove(k3, t) ELSE k3
    IN  Buried(k4, t)

LEMMA BurySound ==
    ASSUME NEW k, Sound(k), NEW t \in (k.obj \cap Task) \ {Idle}
    PROVE  LET r == Bury(k, t)
           IN  /\ Sound(r) /\ SameCpu(k, r) /\ Elsewhere(k, r, t) /\ r.obj = k.obj \ {t}
               /\ SameMutexes(k, r)
               /\ r.own[t] = << >> /\ \A u \in Task \ {t} : r.own[u] = k.own[u]
               /\ ~IsPending(r, t) /\ ReadySet(r) = ReadySet(k) \ {t}
               /\ r.pendState[t] = "NONE" /\ r.state[t] = {"DELETED"}
<1> DEFINE S  == ReadySet(k)
           k2 == IF IsReady(k, t) THEN readyqueue_remove(k, t) ELSE k
           k3 == IF IsSleeping(k2, t) THEN tick_list_remove(k2, t) ELSE k2
           k4 == IF IsPending(k3, t) THEN pend_list_remove(k3, t) ELSE k3
           r  == Bury(k, t)
<1>1. r = Buried(k4, t)
  BY DEF Bury
<1>2. Holds(k2, S \ {t}) /\ SameBut(k, k2, t) /\ k2.state[t] = k.state[t]
  BY HoldsDequeue
<1> HIDE DEF k2, r, S
<1>3. Holds(k3, S \ {t}) /\ SameBut(k2, k3, t) /\ k3.state[t] = k2.state[t] \ {"SLEEP"}
  BY <1>2, HoldsAwake
<1> HIDE DEF k3
<1>4. /\ Holds(k4, S \ {t}) /\ Others(k3, k4, t)
      /\ k4.state[t] = k3.state[t] \ {"PEND"}
  BY <1>3, HoldsUnwait
<1> HIDE DEF k4
<1>5. /\ r \in KernelType /\ Cleared(k4, r, t)
      /\ r.obj = k4.obj \ {t} /\ r.prio = k4.prio /\ r.state[t] = {"DELETED"}
      /\ SameQueue(k4, r) /\ SameTick(k4, r)
  BY <1>1, <1>4, BuriedType DEF Holds
<1>6. Others(k, k4, t) /\ SameFrame(k, k4)
  <2>1. Others(k, k2, t) /\ Others(k2, k3, t)
    BY <1>2, <1>3, ButIsElsewhere
  <2>2. Others(k, k3, t)
    BY <2>1, OthersTransitive
  <2>3. Others(k, k4, t)
    BY <1>4, <2>2, OthersTransitive
  <2> QED
    BY <2>3 DEF Others
<1>7. ~IsSleeping(k4, t) /\ ~IsPending(k4, t) /\ ~IsPending(r, t) /\ ~IsSleeping(r, t)
  BY <1>3, <1>4, <1>5 DEF IsSleeping, IsPending
<1>8. Queued(r, S \ {t})
  BY <1>4, <1>5, SameKeeps DEF Holds
<1>9. Sleepers(r) = Sleepers(k4)
  BY <1>5, <1>7 DEF Sleepers, IsSleeping, Cleared, Elsewhere
<1>10. ReadySet(r) = S \ {t}
  BY <1>5, <1>6 DEF ReadySet, IsReady, S, Cleared, Elsewhere, Others, SameFrame
<1>11. TickHolds(r, Sleepers(r))
  BY <1>4, <1>5, <1>9, SameKeeps DEF Holds
<1>12. Waiting(r)
  <2>1. k4.obj \cap Obj \subseteq r.obj
    BY <1>5, KindAssumption
  <2> QED
    BY <1>4, <1>5, <1>7, <2>1, ClearedWaiting DEF Holds
<1>13. Alive(r)
  <2>1. \A u \in Task : IsSleeping(r, u) \/ IsPending(r, u) => u \in r.obj
    <3> SUFFICES ASSUME NEW u \in Task, IsSleeping(r, u) \/ IsPending(r, u)
                 PROVE  u \in r.obj
      OBVIOUS
    <3>1. u # t
      BY <1>7
    <3>2. IsSleeping(k4, u) \/ IsPending(k4, u)
      BY <1>5, <3>1 DEF Cleared, Elsewhere, IsSleeping, IsPending
    <3> QED
      BY <1>4, <1>5, <3>1, <3>2 DEF Holds, Alive
  <2>2. \A u \in r.obj \cap Task : "DELETED" \notin r.state[u]
    BY <1>4, <1>5 DEF Holds, Alive, Cleared, Elsewhere
  <2>3. Idle \in r.obj /\ r.state[Idle] = {}
    BY <1>4, <1>5, IdleAssumption DEF Holds, Alive, Cleared, Elsewhere
  <2> QED
    BY <2>1, <2>2, <2>3 DEF Alive
<1>14. Sound(r)
  BY <1>5, <1>8, <1>10, <1>11, <1>12, <1>13 DEF Sound
<1>15. /\ SameCpu(k, r) /\ Elsewhere(k, r, t) /\ r.obj = k.obj \ {t}
       /\ r.own[t] = << >> /\ \A u \in Task \ {t} : r.own[u] = k.own[u]
       /\ SameMutexes(k, r) /\ r.pendState[t] = "NONE"
  BY <1>5, <1>6 DEF SameCpu, SameMutexes, Cleared, Elsewhere, Others, SameFrame
<1> QED
  BY <1>5, <1>7, <1>10, <1>14, <1>15 DEF r, S

(* A task that owns no mutex dies.                                         *)
LEMMA DestroyBuries ==
    ASSUME NEW k, NEW t
    PROVE  task_do_destroy(k, t)
              = Bury(IF k.own[t] # << >> THEN task_mutex_release(k, t) ELSE k, t)
  BY DEF task_do_destroy, Bury, Buried

----------------------------------------------------------------------------
(* The calls of the blocking objects: a task pends, waiters are woken, an  *)
(* object is created or destroyed.                                         *)

LEMMA HoldsAnswer ==
    ASSUME NEW k, NEW Q, Holds(k, Q), NEW t \in Task, ~IsPending(k, t), NEW st \in PendState
    PROVE  LET r == SetAnswer(k, t, st)
           IN  /\ Holds(r, Q) /\ Others(k, r, t) /\ r.prio = k.prio
               /\ r.state = k.state /\ r.pendState[t] = st
<1> DEFINE r == SetAnswer(k, t, st)
<1>1. /\ r \in KernelType /\ r.pendState[t] = st
      /\ r.pend = k.pend /\ r.pendingObj = k.pendingObj
      /\ r.state = k.state /\ r.prio = k.prio
      /\ Others(k, r, t) /\ SameQueue(k, r) /\ SameTick(k, r)
  BY AnswerSet DEF Holds
<1> HIDE DEF r
<1>2. r.obj = k.obj
  BY <1>1 DEF Others, SameFrame
<1>3. Waiting(r)
  <2>1. \A u \in Task : IsPending(r, u) <=> IsPending(k, u)
    BY <1>1 DEF IsPending
  <2>2. \A u \in Task : IF IsPending(k, u)
                        THEN /\ r.pendingObj[u] = k.pendingObj[u] /\ r.prio[u] = k.prio[u]
                             /\ r.pendState[u] = k.pendState[u]
                             /\ k.pendingObj[u] \in r.obj
                        ELSE r.pendingObj[u] = NoObj
    BY <1>1, <1>2 DEF Holds, Waiting, Undecided, Others
  <2> QED
    BY <1>1, <2>1, <2>2, WaitingSame DEF Holds
<1>4. Sleepers(r) = Sleepers(k)
  BY <1>1 DEF Sleepers, IsSleeping
<1>5. Queued(r, Q) /\ TickHolds(r, Sleepers(r))
  BY <1>1, <1>4, SameKeeps DEF Holds
<1>6. Alive(r)
  BY <1>1, <1>2 DEF Holds, Alive, IsSleeping, IsPending
<1> QED
  BY <1>1, <1>3, <1>5, <1>6 DEF Holds, r

LEMMA HoldsPend ==
    ASSUME NEW k, NEW Q, Holds(k, Q), NEW t \in (k.obj \cap Task) \ {Idle},
           ~IsPending(k, t), k.pendState[t] = "NONE", NEW o \in Obj, o \in k.obj
    PROVE  LET r == pend_list_add(k, t, o)
           IN  /\ Holds(r, Q) /\ Others(k, r, t) /\ r.prio = k.prio
               /\ r.state[t] = k.state[t] \cup {"PEND"} /\ r.pendingObj[t] = o
               /\ r.pendState = k.pendState
<1> DEFINE r == pend_list_add(k, t, o)
<1>1. k \in KernelType /\ Waiting(k)
  BY DEF Holds
<1>2. /\ r \in KernelType /\ Waiting(r)
      /\ r.pendingObj[t] = o /\ r.state[t] = k.state[t] \cup {"PEND"}
      /\ r.prio = k.prio /\ r.pendState = k.pendState
      /\ Others(k, r, t) /\ SameQueue(k, r) /\ SameTick(k, r)
  BY <1>1, PendAdd
<1> HIDE DEF r
<1>3. r.obj = k.obj
  BY <1>2 DEF Others, SameFrame
<1>4. Sleepers(r) = Sleepers(k)
  BY <1>2 DEF Sleepers, IsSleeping, Others
<1>5. Queued(r, Q) /\ TickHolds(r, Sleepers(r))
  BY <1>2, <1>4, SameKeeps DEF Holds
<1>6. Alive(r)
  <2>1. \A u \in Task : IsSleeping(r, u) \/ IsPending(r, u) => u \in r.obj
    BY <1>2, <1>3 DEF Holds, Alive, IsSleeping, IsPending, Others
  <2>2. \A u \in r.obj \cap Task : "DELETED" \notin r.state[u]
    BY <1>2, <1>3 DEF Holds, Alive, Others
  <2>3. Idle \in r.obj /\ r.state[Idle] = {}
    BY <1>2, <1>3, IdleAssumption DEF Holds, Alive, Others
  <2> QED
    BY <2>1, <2>2, <2>3 DEF Alive
<1> QED
  BY <1>2, <1>5, <1>6 DEF Holds, r

LEMMA BlockSound ==
    ASSUME NEW k, Sound(k), NEW t \in ReadySet(k) \ {Idle}, NEW o \in Obj, o \in k.obj,
           NEW timeout \in Nat
    PROVE  LET r == pend_task_block(k, t, o, timeout)
           IN  /\ Sound(r) /\ Others(k, r, t) /\ r.prio = k.prio
               /\ IsPending(r, t) /\ r.pendingObj[t] = o /\ r.pendState[t] = "NONE"
               /\ ReadySet(r) = ReadySet(k) \ {t}
               /\ timeout = Forever => ~IsSleeping(r, t)
<1> DEFINE S  == ReadySet(k)
           k0 == readyqueue_remove(k, t)
           k1 == SetAnswer(k0, t, "NONE")
           k2 == pend_list_add(k1, t, o)
           k3 == tick_list_add(k2, t, timeout)
           r  == pend_task_block(k, t, o, timeout)
<1>1. r = k2 \/ (r = k3 /\ timeout # Forever)
  BY DEF pend_task_block, SetAnswer
<1>2. Holds(k, S) /\ S \in SUBSET Task /\ Idle \in S /\ t \in S \ {Idle}
  BY HoldsReady, SoundReady
<1>3. t \in (k.obj \cap Task) \ {Idle} /\ k.state[t] = {} /\ "NONE" \in PendState
  BY DEF ReadySet, IsReady, PendState
<1> HIDE DEF S, r
<1>4. /\ Holds(k0, S \ {t}) /\ SameControl(k, k0) /\ k0.prio = k.prio
      /\ k0.state = k.state
  BY <1>2, HoldsRemove
<1> HIDE DEF k0
<1>5. Others(k, k0, t)
  BY <1>4, ButIsElsewhere DEF SameBut
<1>6. /\ Holds(k1, S \ {t}) /\ Others(k0, k1, t) /\ k1.prio = k0.prio
      /\ k1.state = k0.state /\ k1.pendState[t] = "NONE"
  <2>1. ~IsPending(k0, t)
    BY <1>3, <1>4 DEF IsPending
  <2> QED
    BY <1>3, <1>4, <2>1, HoldsAnswer
<1> HIDE DEF k1
<1>7. Others(k, k1, t) /\ k1.obj = k.obj
  <2>1. Others(k, k1, t)
    BY <1>5, <1>6, OthersTransitive
  <2> QED
    BY <2>1 DEF Others, SameFrame
<1>8. /\ Holds(k2, S \ {t}) /\ Others(k1, k2, t) /\ k2.prio = k1.prio
      /\ k2.state[t] = {"PEND"} /\ k2.pendingObj[t] = o
      /\ k2.pendState = k1.pendState
  <2>1. ~IsPending(k1, t) /\ k1.state[t] = {}
    BY <1>3, <1>4, <1>6 DEF IsPending
  <2>2. t \in (k1.obj \cap Task) \ {Idle} /\ o \in k1.obj
    BY <1>3, <1>7
  <2>3. /\ Holds(k2, S \ {t}) /\ Others(k1, k2, t) /\ k2.prio = k1.prio
        /\ k2.state[t] = k1.state[t] \cup {"PEND"} /\ k2.pendingObj[t] = o
        /\ k2.pendState = k1.pendState
    BY <1>6, <2>1, <2>2, HoldsPend
  <2> QED
    BY <2>1, <2>3
<1> HIDE DEF k2
<1>9. Others(k, k2, t) /\ k2.obj = k.obj
  <2>1. Others(k, k2, t)
    BY <1>7, <1>8, OthersTransitive
  <2> QED
    BY <2>1 DEF Others, SameFrame
<1>10. CASE r = k2
  <2>1. ReadySet(k2) = S \ {t}
    BY <1>3, <1>8, <1>9, ReadyBut DEF S
  <2>2. Sound(k2) /\ IsPending(k2, t) /\ ~IsSleeping(k2, t)
    BY <1>8, <2>1, HoldsReady DEF IsPending, IsSleeping
  <2> QED
    BY <1>4, <1>6, <1>8, <1>9, <1>10, <2>1, <2>2 DEF r, S
<1>11. CASE r = k3 /\ timeout # Forever
  <2>1. ~IsSleeping(k2, t) /\ t \in (k2.obj \cap Task) \ {Idle}
    BY <1>3, <1>8, <1>9 DEF IsSleeping
  <2>2. /\ Holds(k3, S \ {t}) /\ SameBut(k2, k3, t)
        /\ k3.state[t] = k2.state[t] \cup {"SLEEP"}
    BY <1>8, <2>1, HoldsSleep
  <2> HIDE DEF k3
  <2>3. Others(k, k3, t)
    <3>1. Others(k2, k3, t)
      BY <2>2, ButIsElsewhere
    <3> QED
      BY <1>9, <3>1, OthersTransitive
  <2>4. ReadySet(k3) = S \ {t}
    BY <1>3, <2>2, <2>3, ReadyBut DEF S
  <2>5. Sound(k3) /\ IsPending(k3, t)
    BY <1>8, <2>2, <2>4, HoldsReady DEF IsPending
  <2>6. k3.pendingObj[t] = o /\ k3.pendState[t] = "NONE" /\ k3.prio = k.prio
    BY <1>4, <1>6, <1>8, <2>2 DEF SameBut, SameControl
  <2> QED
    BY <1>11, <2>3, <2>4, <2>5, <2>6 DEF r, S
<1> QED
  BY <1>1, <1>10, <1>11

(* pend_wakeup_all wakes every waiter, pend_wakeup one or all of them.     *)
LEMMA WakeAllSound ==
    ASSUME NEW k, Sound(k), NEW o \in Obj, NEW st \in PendState
    PROVE  LET r == pend_wakeup_all(k, o, st)
           IN  /\ Sound(r) /\ SameFrame(k, r) /\ ReadySet(k) \subseteq ReadySet(r)
               /\ Awoken(k, r, Waiters(k, o), st)
<1> DEFINE ts == k.pend[o]
<1>1. ts \in Seq(Task) /\ IsInjective(ts) /\ ToSet(ts) = Waiters(k, o)
  BY DEF Sound, KernelType, Waiting, PendExact
<1>2. pend_wakeup_all(k, o, st) = wakeup_each(k, ts, st)
  BY DEF pend_wakeup_all
<1> HIDE DEF ts
<1>3. ToSet(ts) \subseteq Busy(k)
  BY <1>1 DEF Busy, Waiters
<1> QED
  BY <1>1, <1>2, <1>3, WakeEachSound

LEMMA PendWakeSound ==
    ASSUME NEW k, Sound(k), NEW o \in Obj, ~pend_is_nopending(k, o), NEW st \in PendState,
           NEW opt
    PROVE  LET r == pend_wakeup(k, o, st, opt)
           IN  /\ Sound(r) /\ SameFrame(k, r) /\ ReadySet(k) \subseteq ReadySet(r)
               /\ \E A \in SUBSET Waiters(k, o) :
                     /\ A = Waiters(k, o) \/ \E t : A = {t}
                     /\ A # {} /\ Awoken(k, r, A, st)
<1> DEFINE t == Head(k.pend[o])
           a == pend_task_wakeup(k, t, st)
           b == pend_wakeup_all(k, o, st)
           r == pend_wakeup(k, o, st, opt)
<1>1. t \in Waiters(k, o)
  <2>1. k.pend[o] \in Seq(Task) /\ ToSet(k.pend[o]) = Waiters(k, o) /\ k.pend[o] # << >>
    BY DEF Sound, KernelType, Waiting, PendExact, pend_is_nopending
  <2> QED
    BY <2>1, HeadInList
<1>2. r = a \/ r = b
  BY DEF pend_wakeup, pend_wakeup_one
<1> HIDE DEF t, r
<1>3. CASE r = a
  <2>1. t \in Task /\ IsPending(k, t)
    BY <1>1 DEF Waiters
  <2>2. /\ Sound(a) /\ SameFrame(k, a) /\ ReadySet(k) \subseteq ReadySet(a)
        /\ Awoken(k, a, {t}, st)
    BY <2>1, WakeSound
  <2> QED
    BY <1>1, <1>3, <2>2 DEF r
<1>4. CASE r = b
  <2>1. /\ Sound(b) /\ SameFrame(k, b) /\ ReadySet(k) \subseteq ReadySet(b)
        /\ Awoken(k, b, Waiters(k, o), st)
    BY WakeAllSound
  <2> QED
    BY <1>1, <1>4, <2>1 DEF r
<1> QED
  BY <1>2, <1>3, <1>4

(* An object nobody waits for is created or destroyed.                     *)
SetObject(k, o, ob) == [k EXCEPT !.pend[o] = << >>, !.obj = ob]

LEMMA ObjectSound ==
    ASSUME NEW k, Sound(k), NEW o \in Obj, Waiters(k, o) = {}, NEW ob, ob \ {o} = k.obj \ {o},
           ob \subseteq k.obj \cup {o}
    PROVE  LET r == SetObject(k, o, ob)
           IN  /\ Sound(r) /\ SameCpu(k, r) /\ r.obj = ob /\ r.own = k.own
               /\ r.pend = k.pend /\ r.state = k.state /\ r.prio = k.prio
               /\ r.pendingObj = k.pendingObj /\ r.pendState = k.pendState
               /\ SameQueue(k, r) /\ SameTick(k, r) /\ ReadySet(r) = ReadySet(k)
<1> DEFINE r  == SetObject(k, o, ob)
           pd == [k.pend EXCEPT ![o] = << >>]
<1>1. k.pend \in [Obj -> Seq(Task)] /\ k.obj \subseteq Task \cup Obj
  BY DEF Sound, KernelType
<1>2. k.pend[o] = << >>
  <2>1. k.pend[o] \in Seq(Task) /\ ToSet(k.pend[o]) = {}
    BY <1>1 DEF Sound, Waiting, PendExact
  <2> QED
    BY <2>1, EmptyList
<1>3. pd = k.pend
  BY <1>1, <1>2
<1>4. ob \in SUBSET (Task \cup Obj) /\ ob \cap Task = k.obj \cap Task
  BY <1>1, KindAssumption
<1>5. r = [k EXCEPT !.pend = pd, !.obj = ob]
  BY DEF SetObject
<1> HIDE DEF pd, r
<1>6. r \in KernelType
  BY <1>1, <1>3, <1>4, <1>5 DEF Sound, KernelType
<1>7. /\ r.obj = ob /\ r.own = k.own /\ r.pend = k.pend
      /\ r.state = k.state /\ r.prio = k.prio
      /\ r.pendingObj = k.pendingObj /\ r.pendState = k.pendState
      /\ SameCpu(k, r) /\ SameQueue(k, r) /\ SameTick(k, r)
  BY <1>3, <1>5 DEF Sound, KernelType, SameCpu, SameQueue, SameTick
<1>8. ReadySet(r) = ReadySet(k) /\ Sleepers(r) = Sleepers(k)
  BY <1>4, <1>7 DEF ReadySet, Sleepers, IsReady, IsSleeping
<1>9. Queued(r, ReadySet(r)) /\ TickHolds(r, Sleepers(r))
  BY <1>7, <1>8, SameKeeps DEF Sound
<1>10. Waiting(r)
  <2>1. \A u \in Task : IsPending(r, u) <=> IsPending(k, u)
    BY <1>7 DEF IsPending
  <2>2. \A u \in Task : IF IsPending(k, u) THEN k.pendingObj[u] \in ob
                                           ELSE k.pendingObj[u] = NoObj
    BY DEF Sound, Waiting, Undecided, Waiters
  <2> QED
    BY <1>7, <2>1, <2>2, WaitingSame DEF Sound
<1>11. Alive(r)
  <2>1. \A u \in Task : u \in ob <=> u \in k.obj
    BY <1>4
  <2> QED
    BY <1>7, <2>1, IdleAssumption DEF Sound, Alive, IsSleeping, IsPending
<1> QED
  BY <1>6, <1>7, <1>8, <1>9, <1>10, <1>11 DEF Sound, r

----------------------------------------------------------------------------
(* The scheduler.                                                          *)


(* Under the scheduler lock the running task stays ready and no switch is  *)
(* under way: it is what makes SchedUnlock and the return of a call safe.  *)
LockHolds == knl.schedLock > 0 => ~knl.pendsv /\ knl.curr \in ReadySet(knl)

(* Who runs outside of a call, or is about to be switched to, is ready.    *)
Decisive == knl.irqNest = 0 /\ (knl.pendsv \/ pc[knl.curr] \notin {"sched", "psched"})
ChosenReady == Decisive => Chosen \in ReadySet(knl)

(* While tasks own mutexes, it may also be a task that has been destroyed  *)
(* in between: the release of its mutexes chose it once more.              *)
ChosenOK ==
    Decisive => \/ Chosen \in ReadySet(knl)
                \/ Chosen \notin knl.obj /\ pc[Chosen] \in {"none", "sched"}

(* The inductive invariant.  Safe is what the calls of every object        *)
(* preserve; Quiet holds as long as no task owns a mutex; HighestRuns      *)
(* needs a scheduling point behind every wake-up as well.                  *)
Safe  == TypeOK /\ Sound(knl) /\ LockHolds /\ ChosenOK
Quiet == Unowned(knl) /\ ChosenReady
IInv  == Safe /\ Quiet /\ HighestRuns
Kept  == Safe' /\ (Quiet => Quiet') /\ (HighestRuns => HighestRuns')

LEMMA TypeFacts ==
    ASSUME TypeOK
    PROVE  /\ knl.curr \in Task /\ knl.next \in Task /\ knl.pendsv \in BOOLEAN
           /\ knl.irqNest \in Nat /\ knl.schedLock \in Nat
           /\ isr \in Seq(Handler) /\ knl.irqNest = Len(isr)
           /\ pc \in [Task -> Label] /\ arg \in [Task -> Obj \cup {NoObj}]
  BY DEF TypeOK, KernelType

(* A task that is not in a call runs only while it is ready.               *)
LEMMA RunsReady ==
    ASSUME Safe, knl.irqNest = 0, ~knl.pendsv,
           pc[knl.curr] \notin {"none", "sched", "psched"}
    PROVE  knl.curr \in ReadySet(knl)
  BY DEF Safe, ChosenOK, Decisive, Chosen

LEMMA ReadyIsOK == ChosenReady => ChosenOK
  BY DEF ChosenReady, ChosenOK

(* What Kept asks for besides the state of the lists.                      *)
LEMMA KeptFrom ==
    ASSUME TypeOK', Sound(knl'), Unowned(knl) => Unowned(knl'), LockHolds', ChosenReady'
    PROVE  Safe' /\ (Quiet => Quiet')
<1>1. ChosenOK'
  BY DEF ChosenReady, ChosenOK
<1> QED
  BY <1>1 DEF Safe, Quiet

----------------------------------------------------------------------------
(* The steps by what follows them: a task-level call that goes on to       *)
(* knl_sched(), one that returns, and a section of an interrupt handler.   *)

LEMMA CallStep ==
    ASSUME Safe, knl.irqNest = 0, ~knl.pendsv, NEW k, Sound(k), SameCpu(knl, k),
           Unowned(knl) => Unowned(k),
           knl.schedLock > 0 => knl.curr \in ReadySet(k),
           knl' = k, isr' = isr, pc' \in [Task -> Label],
           pc'[knl.curr] \in {"sched", "psched"},
           arg' \in [Task -> Obj \cup {NoObj}]
    PROVE  Kept
<1>1. k \in KernelType /\ TypeOK
  BY DEF Sound, Safe
<1>2. TypeOK'
  BY <1>1 DEF TypeOK, SameCpu
<1>3. HighestRuns'
  BY DEF HighestRuns, Settled, SameCpu
<1>4. LockHolds' /\ ChosenReady'
  BY DEF LockHolds, ChosenReady, Decisive, SameCpu
<1> QED
  BY <1>2, <1>3, <1>4, KeptFrom DEF Kept

LEMMA SchedStep ==
    ASSUME Safe, TaskRuns, NEW k, Sound(k), SameCpu(knl, k),
           Unowned(knl) => Unowned(k),
           knl.schedLock > 0 => knl.curr \in ReadySet(k), ThenSched(k)
    PROVE  Kept
<1>1. /\ knl.curr \in Task /\ pc \in [Task -> Label]
      /\ arg \in [Task -> Obj \cup {NoObj}]
  BY TypeFacts DEF Safe
<1>2. knl' = k /\ isr' = isr /\ arg' = arg /\ pc' = [pc EXCEPT ![knl.curr] = "sched"]
  BY DEF ThenSched
<1>3. pc' \in [Task -> Label] /\ pc'[knl.curr] \in {"sched", "psched"}
  BY <1>1, <1>2 DEF Label
<1>4. knl.irqNest = 0 /\ ~knl.pendsv
  BY DEF TaskRuns
<1> QED
  BY <1>1, <1>2, <1>3, <1>4, CallStep

(* A call that returns at once leaves the settled processor settled if it  *)
(* leaves the best ready task alone.                                       *)
LEMMA ReturnStep ==
    ASSUME Safe, TaskRuns, NEW k, Sound(k), SameCpu(knl, k),
           Unowned(knl) => Unowned(k),
           knl.curr \in ReadySet(k), ThenReturn(k)
    PROVE  Safe' /\ (Quiet => Quiet') /\ (Best(k) = Best(knl) => Kept)
<1>1. k \in KernelType /\ TypeOK /\ knl' = k /\ isr' = isr /\ pc' = pc /\ arg' = arg
  BY DEF Sound, Safe, ThenReturn
<1>2. TypeOK'
  BY <1>1 DEF TypeOK, SameCpu
<1>3. ~knl.pendsv /\ LockHolds' /\ ChosenReady'
  BY <1>1 DEF LockHolds, ChosenReady, Decisive, Chosen, SameCpu, TaskRuns
<1>4. Best(k) = Best(knl) /\ HighestRuns => HighestRuns'
  BY <1>1 DEF HighestRuns, Settled, Chosen, Best, SameCpu
<1> QED
  BY <1>1, <1>2, <1>3, <1>4, KeptFrom DEF Kept

LEMMA HandlerStep ==
    ASSUME Safe, isr # << >>, NEW k, Sound(k), SameCpu(knl, k),
           Unowned(knl) => Unowned(k),
           knl.schedLock > 0 => knl.curr \in ReadySet(k),
           knl' = k, isr' \in Seq(Handler), Len(isr') = Len(isr),
           pc' = pc, arg' = arg
    PROVE  Kept
<1>1. k \in KernelType /\ TypeOK /\ knl.irqNest = Len(isr) /\ isr \in Seq(Handler)
  BY TypeFacts DEF Sound, Safe
<1>2. TypeOK'
  BY <1>1 DEF TypeOK, SameCpu
<1>3. knl'.irqNest # 0
  BY <1>1 DEF SameCpu
<1>4. HighestRuns' /\ ChosenReady'
  BY <1>3 DEF HighestRuns, Settled, ChosenReady, Decisive
<1>5. LockHolds'
  BY DEF LockHolds, SameCpu, Safe
<1> QED
  BY <1>2, <1>4, <1>5, KeptFrom DEF Kept

LEMMA SameControlCpu ==
    ASSUME NEW k, NEW r, SameFrame(k, r) \/ SameControl(k, r)
    PROVE  SameCpu(k, r) /\ (Unowned(k) => Unowned(r))
  BY DEF SameFrame, SameControl, SameCpu, Unowned

----------------------------------------------------------------------------
(* The choice of the next task.                                            *)

SwitchTo(k, n, b) == [k EXCEPT !.next = n, !.pendsv = b]

LEMMA SwitchType ==
    ASSUME NEW k \in KernelType, NEW n \in Task, NEW b \in BOOLEAN
    PROVE  LET r == SwitchTo(k, n, b)
           IN  /\ r \in KernelType /\ r.next = n /\ r.pendsv = b
               /\ r.curr = k.curr /\ r.irqNest = k.irqNest /\ r.schedLock = k.schedLock
               /\ SameLists(k, r) /\ SameOwners(k, r) /\ SameMutexes(k, r)
               /\ r.prioPending = k.prioPending
  BY DEF SwitchTo, KernelType, SameQueue, SameTick, SameLists, SameOwners, SameMutexes

LEMMA SwitchSound ==
    ASSUME NEW k, Sound(k)
    PROVE  LET r == switch_request(k)
           IN  /\ Sound(r) /\ SameLists(k, r) /\ (Unowned(k) => Unowned(r))
               /\ SameOwners(k, r) /\ SameMutexes(k, r) /\ r.prioPending = k.prioPending
               /\ r.curr = k.curr /\ r.irqNest = k.irqNest
               /\ r.schedLock = k.schedLock /\ ReadySet(r) = ReadySet(k)
               /\ (IF r.pendsv THEN r.next ELSE r.curr) = Best(r)
               /\ Best(r) \in ReadySet(r)
               /\ r.pendsv => k.pendsv \/ r.next # r.curr
<1> DEFINE n == Best(k)
           b == k.pendsv \/ n # k.curr
           r == switch_request(k)
<1>1. k \in KernelType /\ n \in Task /\ b \in BOOLEAN /\ n \in ReadySet(k)
  BY SoundReady DEF Sound, Best, KernelType
<1>2. r = SwitchTo(k, n, b)
  BY DEF switch_request, SwitchTo, Best
<1> HIDE DEF r
<1>3. /\ r \in KernelType /\ r.next = n /\ r.pendsv = b
      /\ r.curr = k.curr /\ r.irqNest = k.irqNest /\ r.schedLock = k.schedLock
      /\ SameLists(k, r) /\ SameOwners(k, r) /\ SameMutexes(k, r)
      /\ r.prioPending = k.prioPending
  <2> HIDE DEF n, b
  <2> QED
    BY <1>1, <1>2, SwitchType
<1>4. /\ Sound(r) /\ ReadySet(r) = ReadySet(k) /\ Best(r) = Best(k)
      /\ Unowned(k) => Unowned(r)
  BY <1>3, CpuSound DEF SameOwners, Unowned
<1>5. (IF r.pendsv THEN r.next ELSE r.curr) = Best(r) /\ Best(r) \in ReadySet(r)
  BY <1>1, <1>3, <1>4
<1> QED
  BY <1>3, <1>4, <1>5 DEF r

----------------------------------------------------------------------------
(* The steps of the kernel itself.                                         *)

SetNest(k, n) == [k EXCEPT !.irqNest = n]
SetLock(k, n) == [k EXCEPT !.schedLock = n]
Switched(k)   == [k EXCEPT !.curr = k.next, !.pendsv = FALSE]

LEMMA NestSound ==
    ASSUME NEW k, Sound(k), NEW n \in Nat
    PROVE  LET r == SetNest(k, n)
           IN  /\ Sound(r) /\ ReadySet(r) = ReadySet(k) /\ Best(r) = Best(k)
               /\ SameLists(k, r) /\ SameOwners(k, r) /\ (Unowned(k) => Unowned(r))
               /\ r.irqNest = n /\ r.schedLock = k.schedLock
               /\ r.curr = k.curr /\ r.next = k.next /\ r.pendsv = k.pendsv
<1> DEFINE r == SetNest(k, n)
<1>1. /\ r \in KernelType /\ r.irqNest = n /\ r.schedLock = k.schedLock
      /\ r.curr = k.curr /\ r.next = k.next /\ r.pendsv = k.pendsv
      /\ SameLists(k, r) /\ SameOwners(k, r)
  BY DEF SetNest, Sound, KernelType, SameQueue, SameTick, SameLists, SameOwners
<1> HIDE DEF r
<1>2. /\ Sound(r) /\ ReadySet(r) = ReadySet(k) /\ Best(r) = Best(k)
      /\ Unowned(k) => Unowned(r)
  BY <1>1, CpuSound DEF SameOwners, Unowned
<1> QED
  BY <1>1, <1>2 DEF r

LEMMA LockSound ==
    ASSUME NEW k, Sound(k), NEW n \in Nat
    PROVE  LET r == SetLock(k, n)
           IN  /\ Sound(r) /\ ReadySet(r) = ReadySet(k)
               /\ SameLists(k, r) /\ SameOwners(k, r) /\ (Unowned(k) => Unowned(r))
               /\ r.irqNest = k.irqNest /\ r.schedLock = n
               /\ r.curr = k.curr /\ r.next = k.next /\ r.pendsv = k.pendsv
<1> DEFINE r == SetLock(k, n)
<1>1. /\ r \in KernelType /\ r.irqNest = k.irqNest /\ r.schedLock = n
      /\ r.curr = k.curr /\ r.next = k.next /\ r.pendsv = k.pendsv
      /\ SameLists(k, r) /\ SameOwners(k, r)
  BY DEF SetLock, Sound, KernelType, SameQueue, SameTick, SameLists, SameOwners
<1> HIDE DEF r
<1>2. Sound(r) /\ ReadySet(r) = ReadySet(k) /\ (Unowned(k) => Unowned(r))
  BY <1>1, CpuSound DEF SameOwners, Unowned
<1> QED
  BY <1>1, <1>2 DEF r

LEMMA SwitchedSound ==
    ASSUME NEW k, Sound(k)
    PROVE  LET r == Switched(k)
           IN  /\ Sound(r) /\ ReadySet(r) = ReadySet(k) /\ Best(r) = Best(k)
               /\ SameLists(k, r) /\ SameOwners(k, r) /\ (Unowned(k) => Unowned(r))
               /\ r.irqNest = k.irqNest /\ r.schedLock = k.schedLock
               /\ r.curr = k.next /\ ~r.pendsv
<1> DEFINE r == Switched(k)
<1>1. /\ r \in KernelType /\ r.irqNest = k.irqNest /\ r.schedLock = k.schedLock
      /\ r.curr = k.next /\ ~r.pendsv
      /\ SameLists(k, r) /\ SameOwners(k, r)
  BY DEF Switched, Sound, KernelType, SameQueue, SameTick, SameLists, SameOwners
<1> HIDE DEF r
<1>2. /\ Sound(r) /\ ReadySet(r) = ReadySet(k) /\ Best(r) = Best(k)
      /\ Unowned(k) => Unowned(r)
  BY <1>1, CpuSound DEF SameOwners, Unowned
<1> QED
  BY <1>1, <1>2 DEF r

LEMMA PendSVStep == Safe /\ PendSV_Handler => Kept
<1> SUFFICES ASSUME Safe, PendSV_Handler PROVE Kept
  OBVIOUS
<1> DEFINE r == Switched(knl)
<1>1. knl' = r /\ isr' = isr /\ pc' = pc /\ arg' = arg /\ knl.pendsv /\ knl.irqNest = 0
  BY DEF PendSV_Handler, ThenReturn, Switched
<1>2. /\ Sound(r) /\ (Unowned(knl) => Unowned(r)) /\ ReadySet(r) = ReadySet(knl)
      /\ Best(r) = Best(knl) /\ SameLists(knl, r)
      /\ r.irqNest = knl.irqNest /\ r.schedLock = knl.schedLock
      /\ r.curr = knl.next /\ ~r.pendsv
  BY SwitchedSound DEF Safe
<1> HIDE DEF r
<1>3. TypeOK'
  BY <1>1, <1>2 DEF Safe, TypeOK, Sound
<1>4. LockHolds' /\ ChosenOK'
  BY <1>1, <1>2 DEF Safe, LockHolds, ChosenOK, Decisive, Chosen, SameLists
<1>5. ChosenReady => ChosenReady'
  BY <1>1, <1>2 DEF ChosenReady, Decisive, Chosen
<1>6. HighestRuns => HighestRuns'
  <2>1. HighestRuns /\ knl.schedLock = 0 => knl.next = Best(knl)
    BY <1>1 DEF HighestRuns, Settled, Chosen, Best
  <2> QED
    BY <1>1, <1>2, <2>1 DEF HighestRuns, Settled, Chosen, Best
<1> QED
  BY <1>1, <1>2, <1>3, <1>4, <1>5, <1>6 DEF Safe, Quiet, Kept

LEMMA SchedPointStep == Safe /\ SchedPoint => Kept
<1> SUFFICES ASSUME Safe, SchedPoint PROVE Kept
  OBVIOUS
<1>1. /\ knl' = knl_sched(knl) /\ isr' = isr /\ arg' = arg
      /\ knl.irqNest = 0 /\ ~knl.pendsv
      /\ pc' = [pc EXCEPT ![knl.curr] = IF @ = "sched" THEN "run" ELSE "pret"]
  BY DEF SchedPoint
<1>2. pc' \in [Task -> Label] /\ knl.curr \in Task
  BY <1>1, TypeFacts DEF Safe, Label
<1>3. CASE knl.schedLock > 0
  <2>1. knl' = knl
    BY <1>1, <1>3 DEF knl_sched, knl_is_sched_locked
  <2>2. knl.curr \in ReadySet(knl)
    BY <1>3 DEF Safe, LockHolds
  <2>3. TypeOK' /\ Sound(knl') /\ LockHolds'
    BY <1>1, <1>2, <2>1 DEF Safe, TypeOK, LockHolds
  <2>4. ChosenReady' /\ HighestRuns'
    BY <1>1, <1>3, <2>1, <2>2 DEF ChosenReady, Chosen, HighestRuns, Settled
  <2> QED
    BY <2>1, <2>3, <2>4, KeptFrom DEF Kept
<1>4. CASE ~(knl.schedLock > 0)
  <2> DEFINE r == switch_request(knl)
  <2>1. knl' = r
    BY <1>1, <1>4 DEF knl_sched, knl_is_sched_locked, knl_is_inirq
  <2>2. /\ Sound(r) /\ (Unowned(knl) => Unowned(r))
        /\ r.curr = knl.curr /\ r.irqNest = knl.irqNest /\ r.schedLock = knl.schedLock
        /\ (IF r.pendsv THEN r.next ELSE r.curr) = Best(r) /\ Best(r) \in ReadySet(r)
    BY SwitchSound DEF Safe
  <2> HIDE DEF r
  <2>3. TypeOK'
    BY <1>1, <1>2, <2>1, <2>2 DEF Safe, TypeOK, Sound
  <2>4. HighestRuns' /\ ChosenReady'
    BY <2>1, <2>2 DEF HighestRuns, ChosenReady, Chosen, Best
  <2>5. LockHolds'
    BY <1>4, <2>1, <2>2 DEF LockHolds
  <2> QED
    BY <2>1, <2>2, <2>3, <2>4, <2>5, KeptFrom DEF Kept
<1> QED
  BY <1>3, <1>4

LEMMA NestStep ==
    ASSUME Safe, NEW h \in Handler, isr' = <<h>> \o isr,
           knl' = [knl EXCEPT !.irqNest = @ + 1], pc' = pc, arg' = arg
    PROVE  Kept
<1> DEFINE n == knl.irqNest + 1
           r == SetNest(knl, n)
<1>1. knl' = r
  BY DEF SetNest
<1>2. knl.irqNest = Len(isr) /\ isr \in Seq(Handler) /\ n \in Nat
  BY TypeFacts DEF Safe
<1>3. isr' \in Seq(Handler) /\ Len(isr') = n
  BY <1>2
<1>4. n # 0
  BY <1>2
<1> HIDE DEF n
<1>5. /\ Sound(r) /\ (Unowned(knl) => Unowned(r)) /\ ReadySet(r) = ReadySet(knl)
      /\ r.irqNest = n /\ r.schedLock = knl.schedLock
      /\ r.curr = knl.curr /\ r.next = knl.next /\ r.pendsv = knl.pendsv
  BY <1>2, NestSound DEF Safe
<1> HIDE DEF r
<1>6. TypeOK'
  BY <1>1, <1>3, <1>5 DEF Safe, TypeOK, Sound
<1>7. HighestRuns' /\ LockHolds' /\ ChosenReady'
  BY <1>1, <1>4, <1>5 DEF HighestRuns, Settled, LockHolds, ChosenReady, Decisive, Safe
<1> QED
  BY <1>1, <1>5, <1>6, <1>7, KeptFrom DEF Kept

LEMMA IrqEnterStep == ASSUME NEW kind \in {"tick", "isr"} PROVE Safe /\ IrqEnter(kind) => Kept
  BY NestStep DEF IrqEnter, Handler

(* The handler at the head of isr goes on to its next section.             *)
LEMMA NextSection ==
    ASSUME Safe, isr # << >>, NEW h \in Handler, isr' = <<h>> \o Tail(isr)
    PROVE  isr' \in Seq(Handler) /\ Len(isr') = Len(isr)
  BY TypeFacts DEF Safe

LEMMA TickUpdateStep == Safe /\ TickUpdate => Kept
<1> SUFFICES ASSUME Safe, TickUpdate PROVE Kept
  OBVIOUS
<1> DEFINE r == tick_update(knl, 1)
           h == IF RoundRobin THEN "robin" ELSE "leave"
<1>1. /\ knl' = r /\ pc' = pc /\ arg' = arg /\ isr # << >>
      /\ isr' = <<h>> \o Tail(isr) /\ h \in Handler
  BY DEF TickUpdate, Handler
<1> HIDE DEF h
<1>2. isr' \in Seq(Handler) /\ Len(isr') = Len(isr)
  BY <1>1, NextSection
<1>3. Sound(r) /\ SameFrame(knl, r) /\ ReadySet(knl) \subseteq ReadySet(r)
  BY TickSound DEF Safe
<1> HIDE DEF r
<1>4. /\ SameCpu(knl, r) /\ (Unowned(knl) => Unowned(r))
      /\ knl.schedLock > 0 => knl.curr \in ReadySet(r)
  BY <1>3, SameControlCpu DEF Safe, LockHolds
<1> QED
  BY <1>1, <1>2, <1>3, <1>4, HandlerStep

LEMMA RobinSchedStep == Safe /\ RobinSched => Kept
<1> SUFFICES ASSUME Safe, RobinSched PROVE Kept
  OBVIOUS
<1> DEFINE r == robin_sched(knl)
<1>1. /\ knl' = r /\ pc' = pc /\ arg' = arg /\ isr # << >>
      /\ isr' = <<"leave">> \o Tail(isr) /\ "leave" \in Handler
  BY DEF RobinSched, Handler
<1>2. isr' \in Seq(Handler) /\ Len(isr') = Len(isr)
  BY <1>1, NextSection
<1>3. Sound(r) /\ SameTasks(knl, r) /\ ReadySet(r) = ReadySet(knl)
  BY RobinSound, TypeFacts DEF Safe
<1> HIDE DEF r
<1>4. /\ SameCpu(knl, r) /\ (Unowned(knl) => Unowned(r))
      /\ knl.schedLock > 0 => knl.curr \in ReadySet(r)
  BY <1>3, SameControlCpu, SameTransitive DEF Safe, LockHolds
<1> QED
  BY <1>1, <1>2, <1>3, <1>4, HandlerStep

LEMMA IrqLeaveStep ==
    Safe /\ IrqLeave => Kept /\ SameLists(knl, knl') /\ SameOwners(knl, knl')
<1> SUFFICES ASSUME Safe, IrqLeave
             PROVE  Kept /\ SameLists(knl, knl') /\ SameOwners(knl, knl')
  OBVIOUS
<1> DEFINE n == knl.irqNest - 1
           a == SetNest(knl, n)
           r == switch_request(a)
<1>1. /\ isr # << >> /\ isr' = Tail(isr) /\ pc' = pc /\ arg' = arg
      /\ knl' = IF n > 0 \/ knl_is_sched_locked(a) THEN a ELSE r
  <2>1. knl' = irq_leave(knl) /\ a.irqNest = n
    BY DEF IrqLeave, SetNest, Safe, TypeOK, KernelType
  <2> QED
    BY <2>1 DEF IrqLeave, irq_leave, knl_is_inirq, SetNest
<1>2. knl.irqNest = Len(isr) /\ isr \in Seq(Handler) /\ knl.schedLock \in Nat
  BY TypeFacts DEF Safe
<1>3. isr' \in Seq(Handler) /\ Len(isr') = n /\ n \in Nat
  BY <1>1, <1>2
<1> HIDE DEF n
<1>4. /\ Sound(a) /\ (Unowned(knl) => Unowned(a)) /\ SameOwners(knl, a)
      /\ SameLists(knl, a) /\ ReadySet(a) = ReadySet(knl)
      /\ a.irqNest = n /\ a.schedLock = knl.schedLock
      /\ a.curr = knl.curr /\ a.next = knl.next /\ a.pendsv = knl.pendsv
  BY <1>3, NestSound DEF Safe
<1> HIDE DEF a
<1>5. /\ Sound(r) /\ (Unowned(a) => Unowned(r)) /\ SameOwners(a, r)
      /\ SameLists(a, r) /\ r.curr = a.curr /\ r.irqNest = a.irqNest /\ r.schedLock = a.schedLock
      /\ (IF r.pendsv THEN r.next ELSE r.curr) = Best(r) /\ Best(r) \in ReadySet(r)
  BY <1>4, SwitchSound
<1> HIDE DEF r
<1>6. SameLists(knl, r) /\ SameOwners(knl, r)
  BY <1>4, <1>5 DEF SameLists, SameQueue, SameTick, SameOwners
<1>7. CASE n > 0 \/ knl.schedLock > 0
  <2>1. knl' = a
    BY <1>1, <1>4, <1>7 DEF knl_is_sched_locked
  <2>2. TypeOK'
    BY <1>1, <1>3, <1>4, <2>1 DEF Safe, TypeOK, Sound
  <2>3. HighestRuns'
    BY <1>3, <1>4, <1>7, <2>1 DEF HighestRuns, Settled
  <2>4. LockHolds'
    BY <1>4, <2>1 DEF LockHolds, Safe
  <2>5. ChosenReady'
    BY <1>3, <1>4, <1>7, <2>1 DEF ChosenReady, Decisive, Chosen, LockHolds, Safe
  <2> QED
    BY <1>4, <2>1, <2>2, <2>3, <2>4, <2>5, KeptFrom DEF Kept
<1>8. CASE ~(n > 0 \/ knl.schedLock > 0)
  <2>1. knl' = r
    BY <1>1, <1>4, <1>8 DEF knl_is_sched_locked
  <2>2. TypeOK'
    BY <1>1, <1>3, <1>4, <1>5, <2>1 DEF Safe, TypeOK, Sound
  <2>3. HighestRuns' /\ ChosenReady'
    BY <1>5, <2>1 DEF HighestRuns, ChosenReady, Chosen, Best
  <2>4. LockHolds'
    BY <1>4, <1>5, <1>8, <2>1 DEF LockHolds
  <2> QED
    BY <1>4, <1>5, <1>6, <2>1, <2>2, <2>3, <2>4, KeptFrom DEF Kept
<1> QED
  BY <1>7, <1>8

----------------------------------------------------------------------------
(* The calls of the application.                                           *)

LEMMA CallerReady ==
    ASSUME Safe, NEW api, Preamble(api)
    PROVE  TaskRuns /\ knl.curr \in ReadySet(knl) \ {Idle} /\ Sound(knl)
<1>1. TaskRuns /\ knl.curr # Idle
  BY DEF Preamble
<1>2. knl.curr \in ReadySet(knl)
  BY <1>1, RunsReady DEF TaskRuns
<1> QED
  BY <1>1, <1>2 DEF Safe

LEMMA CreateStep ==
    ASSUME NEW t \in Task, NEW p \in AppPrio, NEW slice \in Timeslices
    PROVE  Safe /\ Create(t, p, slice) => Kept
<1> SUFFICES ASSUME Safe, Create(t, p, slice) PROVE Kept
  OBVIOUS
<1> DEFINE r == readyqueue_add_tail(NewTask(knl, t, p, slice), t)
<1>1. TaskRuns /\ knl.curr \in ReadySet(knl) /\ Sound(knl)
  BY CallerReady DEF Create
<1>2. p \in Prio /\ slice \in Nat /\ t \notin knl.obj
  BY InputAssumption DEF Create
<1>3. /\ knl' = r /\ isr' = isr
      /\ pc' = [pc EXCEPT ![knl.curr] = "sched", ![t] = "run"]
      /\ arg' = [arg EXCEPT ![t] = NoObj]
  BY DEF Create
<1>4. /\ Sound(r) /\ SameCpu(knl, r) /\ (Unowned(knl) => Unowned(r))
      /\ ReadySet(r) = ReadySet(knl) \cup {t}
  <2>1. Sound(r) /\ Cleared(knl, r, t) /\ ReadySet(r) = ReadySet(knl) \cup {t}
    BY <1>1, <1>2, CreateSound
  <2> HIDE DEF r
  <2> QED
    BY <1>1, <2>1 DEF Cleared, Unowned
<1> HIDE DEF r
<1>5. t # knl.curr
  BY <1>1, <1>2 DEF ReadySet
<1>6. /\ pc' \in [Task -> Label] /\ pc'[knl.curr] \in {"sched", "psched"}
      /\ arg' \in [Task -> Obj \cup {NoObj}]
  BY <1>3, <1>5, TypeFacts DEF Safe, Label
<1>7. knl.schedLock > 0 => knl.curr \in ReadySet(r)
  BY <1>1, <1>4
<1>8. knl.irqNest = 0 /\ ~knl.pendsv
  BY <1>1 DEF TaskRuns
<1> QED
  BY <1>3, <1>4, <1>6, <1>7, <1>8, CallStep

LEMMA DestroyStep ==
    ASSUME NEW t \in Task
    PROVE  Safe /\ Destroy(t) /\ knl.own[t] = << >> => Kept
<1> SUFFICES ASSUME Safe, Destroy(t), knl.own[t] = << >> PROVE Kept
  OBVIOUS
<1> DEFINE r == Bury(knl, t)
<1>1. TaskRuns /\ knl.curr \in ReadySet(knl) /\ Sound(knl)
  BY CallerReady DEF Destroy
<1>2. t \in (knl.obj \cap Task) \ {Idle}
  BY DEF Destroy
<1>3. /\ knl' = r /\ isr' = isr
      /\ pc' = [pc EXCEPT ![t] = "none", ![knl.curr] = "sched"]
      /\ arg' = [arg EXCEPT ![t] = NoObj]
  BY DestroyBuries DEF Destroy
<1>4. /\ Sound(r) /\ SameCpu(knl, r) /\ (Unowned(knl) => Unowned(r))
      /\ ReadySet(r) = ReadySet(knl) \ {t}
  <2>1. /\ Sound(r) /\ SameCpu(knl, r) /\ ReadySet(r) = ReadySet(knl) \ {t}
        /\ r.own[t] = << >> /\ \A u \in Task \ {t} : r.own[u] = knl.own[u]
    BY <1>1, <1>2, BurySound
  <2> HIDE DEF r
  <2> QED
    BY <2>1 DEF Unowned
<1> HIDE DEF r
<1>5. /\ pc' \in [Task -> Label] /\ pc'[knl.curr] \in {"sched", "psched"}
      /\ arg' \in [Task -> Obj \cup {NoObj}]
  BY <1>3, TypeFacts DEF Safe, Label
<1>6. knl.schedLock > 0 => knl.curr \in ReadySet(r)
  BY <1>1, <1>4 DEF Destroy, knl_is_sched_locked
<1>7. knl.irqNest = 0 /\ ~knl.pendsv
  BY <1>1 DEF TaskRuns
<1> QED
  BY <1>3, <1>4, <1>5, <1>6, <1>7, CallStep

LEMMA YieldStep == Safe /\ Yield => Kept
<1> SUFFICES ASSUME Safe, Yield PROVE Kept
  OBVIOUS
<1> DEFINE r == readyqueue_add_tail(readyqueue_remove(knl, knl.curr), knl.curr)
<1>1. /\ TaskRuns /\ knl.curr \in ReadySet(knl) \ {Idle} /\ Sound(knl)
      /\ ThenSched(r)
  BY CallerReady DEF Yield
<1>2. Sound(r) /\ SameControl(knl, r) /\ ReadySet(r) = ReadySet(knl)
  BY <1>1, YieldSound
<1> HIDE DEF r
<1>3. SameCpu(knl, r) /\ (Unowned(knl) => Unowned(r))
  BY <1>1, <1>2, SameControlCpu
<1> QED
  BY <1>1, <1>2, <1>3, SchedStep

LEMMA PrioChangeStep ==
    ASSUME NEW t \in Task \ {Idle}, NEW p \in AppPrio
    PROVE  Safe /\ PrioChange(t, p) => Kept
<1> SUFFICES ASSUME Safe, PrioChange(t, p) PROVE Kept
  OBVIOUS
<1> DEFINE r == prio_assign(knl, t, p)
<1>1. /\ TaskRuns /\ knl.curr \in ReadySet(knl) /\ Sound(knl)
      /\ ThenSched(r)
  BY CallerReady DEF PrioChange
<1>2. t \in (knl.obj \cap Task) \ {Idle} /\ p \in Prio
  BY <1>1, InputAssumption DEF PrioChange
<1>3. Sound(r) /\ SameCpu(knl, r) /\ Reranked(knl, r, t, p)
  BY <1>1, <1>2, PrioritySound
<1> HIDE DEF r
<1>4. ReadySet(r) = ReadySet(knl) /\ (Unowned(knl) => Unowned(r))
  BY <1>3 DEF Reranked, SameOwners, SamePlaces, Unowned
<1> QED
  BY <1>1, <1>3, <1>4, SchedStep

(* Suspend, Resume and TimesliceSet in an interrupt handler.               *)
LEMMA IsrCallStep ==
    ASSUME Safe, NEW api, IsrPreamble(api), NEW k, Sound(k), SameCpu(knl, k),
           Unowned(knl) => Unowned(k),
           knl.schedLock > 0 => knl.curr \in ReadySet(k), ThenReturn(k)
    PROVE  Kept
<1>1. isr # << >> /\ knl' = k /\ isr' = isr /\ pc' = pc /\ arg' = arg
  BY DEF IsrPreamble, ThenReturn
<1>2. isr' \in Seq(Handler) /\ Len(isr') = Len(isr)
  BY <1>1, TypeFacts DEF Safe
<1> QED
  BY <1>1, <1>2, HandlerStep

LEMMA SuspendStep == ASSUME NEW t \in Task PROVE Safe /\ Suspend(t) => Kept
<1> SUFFICES ASSUME Safe, Suspend(t) PROVE Kept
  OBVIOUS
<1> DEFINE r == task_suspend(knl, t)
<1>1. /\ t \in (knl.obj \cap Task) \ {Idle} /\ ~(t = knl.curr /\ knl.schedLock > 0)
      /\ \/ Preamble("suspend") /\ ThenSched(r)
         \/ IsrPreamble("suspend") /\ ThenReturn(r)
  BY DEF Suspend, knl_is_sched_locked
<1>2. Sound(r) /\ SameFrame(knl, r) /\ ReadySet(r) = ReadySet(knl) \ {t}
  BY <1>1, SuspendSound DEF Safe, Others
<1> HIDE DEF r
<1>3. /\ SameCpu(knl, r) /\ (Unowned(knl) => Unowned(r))
      /\ knl.schedLock > 0 => knl.curr \in ReadySet(r)
  BY <1>1, <1>2, SameControlCpu DEF Safe, LockHolds
<1>4. CASE Preamble("suspend") /\ ThenSched(r)
  BY <1>2, <1>3, <1>4, CallerReady, SchedStep
<1>5. CASE IsrPreamble("suspend") /\ ThenReturn(r)
  BY <1>2, <1>3, <1>5, IsrCallStep
<1> QED
  BY <1>1, <1>4, <1>5

LEMMA ResumeStep == ASSUME NEW t \in Task PROVE Safe /\ Resume(t) => Kept
<1> SUFFICES ASSUME Safe, Resume(t) PROVE Kept
  OBVIOUS
<1> DEFINE r == task_resume(knl, t)
<1>1. /\ t \in knl.obj \cap Task /\ IsSuspended(knl, t)
      /\ \/ Preamble("resume") /\ ThenSched(r)
         \/ IsrPreamble("resume") /\ ThenReturn(r)
  BY DEF Resume
<1>2. t # Idle
  BY <1>1 DEF Safe, Sound, Alive, IsSuspended
<1>3. Sound(r) /\ SameControl(knl, r) /\ ReadySet(knl) \subseteq ReadySet(r)
  BY <1>1, <1>2, ResumeSound DEF Safe
<1> HIDE DEF r
<1>4. /\ SameCpu(knl, r) /\ (Unowned(knl) => Unowned(r))
      /\ knl.schedLock > 0 => knl.curr \in ReadySet(r)
  BY <1>3, SameControlCpu DEF Safe, LockHolds
<1>5. CASE Preamble("resume") /\ ThenSched(r)
  BY <1>3, <1>4, <1>5, CallerReady, SchedStep
<1>6. CASE IsrPreamble("resume") /\ ThenReturn(r)
  BY <1>3, <1>4, <1>6, IsrCallStep
<1> QED
  BY <1>1, <1>5, <1>6

LEMMA DelayStep == ASSUME NEW d \in Delays PROVE Safe /\ Delay(d) => Kept
<1> SUFFICES ASSUME Safe, Delay(d) PROVE Kept
  OBVIOUS
<1> DEFINE r == readyqueue_remove(tick_list_add(knl, knl.curr, d), knl.curr)
<1>1. /\ TaskRuns /\ knl.curr \in ReadySet(knl) \ {Idle} /\ Sound(knl) /\ ThenSched(r)
      /\ ~(knl.schedLock > 0)
  BY CallerReady DEF Delay, knl_is_sched_locked
<1>2. d \in Nat
  BY InputAssumption, TimeAssumption
<1>3. Sound(r) /\ SameControl(knl, r)
  BY <1>1, <1>2, DelaySound DEF SameBut
<1> HIDE DEF r
<1>4. SameCpu(knl, r) /\ (Unowned(knl) => Unowned(r))
  BY <1>3, SameControlCpu
<1> QED
  BY <1>1, <1>3, <1>4, SchedStep

LEMMA DelayAbortStep ==
    ASSUME NEW t \in Task
    PROVE  Safe /\ ~IsPending(knl, t) /\ DelayAbort(t) => Kept
<1> SUFFICES ASSUME Safe, ~IsPending(knl, t), DelayAbort(t) PROVE Kept
  OBVIOUS
<1> DEFINE r == readyqueue_add(tick_list_remove(knl, t), t)
<1>1. /\ TaskRuns /\ knl.curr \in ReadySet(knl) /\ Sound(knl) /\ ThenSched(r)
      /\ IsSleeping(knl, t) /\ ~IsSuspended(knl, t)
  BY CallerReady DEF DelayAbort
<1>2. Sound(r) /\ SameFrame(knl, r) /\ ReadySet(knl) \subseteq ReadySet(r)
  BY <1>1, AbortSound
<1> HIDE DEF r
<1>3. SameCpu(knl, r) /\ (Unowned(knl) => Unowned(r)) /\ knl.curr \in ReadySet(r)
  BY <1>1, <1>2, SameControlCpu
<1> QED
  BY <1>1, <1>2, <1>3, SchedStep

LEMMA SchedLockStep == Safe /\ SchedLock => Kept
<1> SUFFICES ASSUME Safe, SchedLock PROVE Kept
  OBVIOUS
<1> DEFINE n == knl.schedLock + 1
           r == SetLock(knl, n)
<1>1. /\ TaskRuns /\ knl.curr \in ReadySet(knl) /\ Sound(knl)
      /\ knl' = r /\ isr' = isr /\ pc' = pc /\ arg' = arg
  BY CallerReady DEF SchedLock, ThenReturn, SetLock
<1>2. n \in Nat /\ n > 0
  BY TypeFacts DEF Safe
<1> HIDE DEF n
<1>3. /\ Sound(r) /\ (Unowned(knl) => Unowned(r)) /\ ReadySet(r) = ReadySet(knl)
      /\ r.irqNest = knl.irqNest /\ r.schedLock = n
      /\ r.curr = knl.curr /\ r.next = knl.next /\ r.pendsv = knl.pendsv
  BY <1>1, <1>2, LockSound DEF Safe
<1> HIDE DEF r
<1>4. TypeOK'
  BY <1>1, <1>3 DEF Safe, TypeOK, Sound
<1>5. HighestRuns' /\ LockHolds' /\ ChosenReady'
  BY <1>1, <1>2, <1>3 DEF HighestRuns, Settled, LockHolds, ChosenReady, Chosen, TaskRuns
<1> QED
  BY <1>1, <1>3, <1>4, <1>5, KeptFrom DEF Kept

LEMMA SchedUnlockStep == Safe /\ SchedUnlock => Kept
<1> SUFFICES ASSUME Safe, SchedUnlock PROVE Kept
  OBVIOUS
<1> DEFINE n == knl.schedLock - 1
           r == SetLock(knl, n)
<1>1. /\ TaskRuns /\ knl.curr \in ReadySet(knl) /\ Sound(knl) /\ knl.schedLock > 0
      /\ knl' = r /\ isr' = isr /\ pc' = [pc EXCEPT ![knl.curr] = "sched"] /\ arg' = arg
  BY CallerReady DEF SchedUnlock, ThenSched, SetLock, knl_is_sched_locked
<1>2. n \in Nat
  BY <1>1, TypeFacts DEF Safe
<1> HIDE DEF n
<1>3. /\ Sound(r) /\ (Unowned(knl) => Unowned(r)) /\ ReadySet(r) = ReadySet(knl)
      /\ r.irqNest = knl.irqNest /\ r.schedLock = n
      /\ r.curr = knl.curr /\ r.next = knl.next /\ r.pendsv = knl.pendsv
  BY <1>1, <1>2, LockSound DEF Safe
<1> HIDE DEF r
<1>4. pc' \in [Task -> Label] /\ pc'[knl.curr] = "sched"
  BY <1>1, TypeFacts DEF Safe, Label
<1>5. TypeOK'
  BY <1>1, <1>3, <1>4 DEF Safe, TypeOK, Sound
<1>6. HighestRuns' /\ LockHolds' /\ ChosenReady'
  BY <1>1, <1>3, <1>4 DEF HighestRuns, Settled, LockHolds, ChosenReady, Decisive, TaskRuns
<1> QED
  BY <1>1, <1>3, <1>5, <1>6, KeptFrom DEF Kept

Sliced(k, t, reload, left) == [k EXCEPT !.timesliceReload[t] = reload, !.timeslice[t] = left]

LEMMA TimesliceSetStep ==
    ASSUME NEW t \in Task, NEW slice \in Timeslices
    PROVE  Safe /\ TimesliceSet(t, slice) => Kept
<1> SUFFICES ASSUME Safe, TimesliceSet(t, slice) PROVE Kept
  OBVIOUS
<1> DEFINE reload == IF slice = 0 THEN RobinDefault ELSE slice
           left   == IF reload > knl.timeslice[t] THEN reload ELSE knl.timeslice[t]
           r      == Sliced(knl, t, reload, left)
<1>1. ThenReturn(r) /\ (Preamble("timeslice_set") \/ IsrPreamble("timeslice_set"))
  BY DEF TimesliceSet, Sliced
<1>2. reload \in Nat /\ left \in Nat /\ knl \in KernelType
  BY InputAssumption, RobinAssumption DEF Safe, Sound, KernelType
<1> HIDE DEF reload, left
<1>3. r \in KernelType /\ SameCpu(knl, r) /\ SameLists(knl, r) /\ SameOwners(knl, r)
  BY <1>2 DEF Sliced, KernelType, SameCpu, SameQueue, SameTick, SameLists, SameOwners
<1> HIDE DEF r
<1>4. Sound(r) /\ ReadySet(r) = ReadySet(knl) /\ Best(r) = Best(knl)
  BY <1>3, CpuSound DEF Safe
<1>5. TypeOK'
  BY <1>1, <1>3 DEF Safe, TypeOK, ThenReturn, SameCpu
<1>6. HighestRuns => HighestRuns'
  BY <1>1, <1>3, <1>4 DEF HighestRuns, Settled, Chosen, Best, ThenReturn, SameCpu
<1>7. LockHolds' /\ ChosenOK' /\ (ChosenReady => ChosenReady')
  BY <1>1, <1>3, <1>4
  DEF LockHolds, ChosenReady, ChosenOK, Decisive, Chosen, Safe, ThenReturn, SameCpu, SameLists
<1>8. Unowned(knl) => Unowned(r)
  BY <1>3 DEF SameOwners, Unowned
<1> QED
  BY <1>1, <1>4, <1>5, <1>6, <1>7, <1>8 DEF Safe, Quiet, Kept, ThenReturn

----------------------------------------------------------------------------
(* What a step does to the tasks that are in a pend call.                  *)

SuspendUsed == "suspend" \in Api \cup IsrApi
DestroyUsed == "destroy" \in Api

(* A task that waits is in the call it waits in, and a task that is told   *)
(* the outcome sleeps no longer.  Only tos_task_suspend takes a task out   *)
(* of its pend list and leaves its wait without an outcome.                *)
WaitInv ==
    \A t \in Task :
        /\ IsPending(knl, t) => InPend(t) /\ arg[t] = knl.pendingObj[t]
        /\ InPend(t) /\ ~IsPending(knl, t) => ~IsSleeping(knl, t)
        /\ ~SuspendUsed /\ InPend(t) /\ knl.pendState[t] = "NONE" => IsPending(knl, t)

InPendNext(t) == pc'[t] \in {"psched", "pret"}

Unmoved(t) == (InPendNext(t) <=> InPend(t)) /\ (InPend(t) => arg'[t] = arg[t])

(* The wait of t goes on, or t does not wait.                              *)
Steady(t) ==
    /\ Unmoved(t)
    /\ IsPending(knl', t) <=> IsPending(knl, t)
    /\ IsPending(knl, t) => knl'.pendingObj[t] = knl.pendingObj[t]
    /\ knl'.pendState[t] = knl.pendState[t]
    /\ InPend(t) /\ IsSleeping(knl', t) => IsSleeping(knl, t)

(* The wait of t is over, with outcome st if t did wait.                   *)
Ended(t, st) ==
    /\ Unmoved(t) /\ ~IsPending(knl', t) /\ ~IsSleeping(knl', t)
    /\ knl'.pendState[t] = IF IsPending(knl, t) THEN st ELSE knl.pendState[t]

(* t is suspended in its call; t is in no call any more; t begins to wait. *)
Dropped(t)    == /\ Unmoved(t) /\ ~IsPending(knl', t) /\ ~IsSleeping(knl', t)
                 /\ knl'.pendState[t] = knl.pendState[t]
Left(t)       == ~InPendNext(t) /\ ~IsPending(knl', t)
Blocked(t, o) == /\ InPendNext(t) /\ arg'[t] = o
                 /\ IsPending(knl', t) /\ knl'.pendingObj[t] = o
                 /\ knl'.pendState[t] = "NONE"

Alone(t)    == \A u \in Task \ {t} : Steady(u)
Woke(A, st) == \A u \in Task : IF u \in A THEN Ended(u, st) ELSE Steady(u)

(* The steps of Next: a tick ends waits of tasks that sleep, and a call    *)
(* concerns one task, whose wait ends only if it is suspended or destroyed.*)
WaitStep ==
    /\ knl'.obj \cap Obj = knl.obj \cap Obj
    /\ \/ knl.obj \subseteq knl'.obj
       \/ DestroyUsed /\ \A t \in Task \ knl'.obj : t \in knl.obj => ~InPendNext(t)
    /\ \/ \E A \in SUBSET Sleepers(knl) : Woke(A, "TIMEOUT")
       \/ \E t \in Task : /\ Alone(t) /\ (Left(t) \/ (SuspendUsed /\ Dropped(t)))
                          /\ IsPending(knl, t) => /\ SuspendUsed \/ DestroyUsed
                                                  /\ knl'.pendState[t] = "NONE"

(* The invariant survives each of these.                                   *)
LEMMA SteadyKeeps ==
    ASSUME WaitInv, NEW t \in Task, Steady(t)
    PROVE  /\ IsPending(knl', t) => InPendNext(t) /\ arg'[t] = knl'.pendingObj[t]
           /\ InPendNext(t) /\ ~IsPending(knl', t) => ~IsSleeping(knl', t)
           /\ ~SuspendUsed /\ InPendNext(t) /\ knl'.pendState[t] = "NONE" => IsPending(knl', t)
  BY DEF WaitInv, Steady, Unmoved

LEMMA WokeKeeps ==
    ASSUME WaitInv, NEW A, NEW st, Woke(A, st), st # "NONE"
    PROVE  WaitInv'
<1> SUFFICES ASSUME NEW t \in Task
             PROVE  /\ IsPending(knl', t) => InPendNext(t) /\ arg'[t] = knl'.pendingObj[t]
                    /\ InPendNext(t) /\ ~IsPending(knl', t) => ~IsSleeping(knl', t)
                    /\ ~SuspendUsed /\ InPendNext(t) /\ knl'.pendState[t] = "NONE"
                          => IsPending(knl', t)
  BY DEF WaitInv, InPend, InPendNext
<1>1. CASE Steady(t)
  BY <1>1, SteadyKeeps
<1>2. CASE Ended(t, st)
  BY <1>2 DEF WaitInv, Ended, Unmoved
<1> QED
  BY <1>1, <1>2 DEF Woke

LEMMA AloneKeeps ==
    ASSUME WaitInv, NEW t \in Task, Alone(t),
           \/ Left(t) \/ (SuspendUsed /\ Dropped(t)) \/ \E o : Blocked(t, o)
    PROVE  WaitInv'
<1> SUFFICES ASSUME NEW u \in Task
             PROVE  /\ IsPending(knl', u) => InPendNext(u) /\ arg'[u] = knl'.pendingObj[u]
                    /\ InPendNext(u) /\ ~IsPending(knl', u) => ~IsSleeping(knl', u)
                    /\ ~SuspendUsed /\ InPendNext(u) /\ knl'.pendState[u] = "NONE"
                          => IsPending(knl', u)
  BY DEF WaitInv, InPend, InPendNext
<1>1. CASE u # t
  BY <1>1, SteadyKeeps DEF Alone
<1>2. CASE u = t
  BY <1>2 DEF Left, Dropped, Blocked
<1> QED
  BY <1>1, <1>2

LEMMA WaitStepKeeps == WaitInv /\ WaitStep => WaitInv'
<1>1. ASSUME WaitInv, NEW A, Woke(A, "TIMEOUT") PROVE WaitInv'
  BY <1>1, WokeKeeps
<1>2. ASSUME WaitInv, NEW t \in Task, Alone(t), Left(t) \/ (SuspendUsed /\ Dropped(t))
      PROVE  WaitInv'
  BY <1>2, AloneKeeps
<1>3. WaitStep => \/ \E A : Woke(A, "TIMEOUT")
                  \/ \E t \in Task : Alone(t) /\ (Left(t) \/ (SuspendUsed /\ Dropped(t)))
  BY DEF WaitStep
<1> QED
  BY <1>1, <1>2, <1>3

(* Kernels in which nobody waits otherwise, or only t does.                *)
LEMMA SteadyIf ==
    ASSUME NEW t \in Task, Unmoved(t), SameWait(knl, knl', t) PROVE Steady(t)
  BY DEF Steady, SameWait

LEMMA AllSteady ==
    ASSUME \A t \in Task : Steady(t) PROVE Woke({}, "TIMEOUT")
  BY DEF Woke

LEMMA SteadyStep ==
    ASSUME knl'.obj = knl.obj, \A t \in Task : Steady(t) PROVE WaitStep
  BY AllSteady DEF WaitStep

LEMMA ListsSteady ==
    ASSUME SameLists(knl, knl') \/ SameTasks(knl, knl'), \A t \in Task : Unmoved(t)
    PROVE  WaitStep
<1>1. \A t \in Task : SameWait(knl, knl', t)
  BY DEF SameLists, SameTasks, SameControl, SameWait, IsPending, IsSleeping
<1>2. knl'.obj = knl.obj
  BY DEF SameLists, SameTasks, SameControl
<1> QED
  BY <1>1, <1>2, SteadyIf, SteadyStep

LEMMA AwokenWoke ==
    ASSUME NEW A, NEW st, Awoken(knl, knl', A, st), \A t \in Task : Unmoved(t)
    PROVE  Woke(A, st)
<1> SUFFICES ASSUME NEW u \in Task PROVE IF u \in A THEN Ended(u, st) ELSE Steady(u)
  BY DEF Woke
<1>1. CASE u \in A
  BY <1>1 DEF Awoken, Ended
<1>2. CASE u \notin A
  <2>1. SameWait(knl, knl', u)
    BY <1>2 DEF Awoken, SameWait, IsPending, IsSleeping
  <2> QED
    BY <1>2, <2>1, SteadyIf
<1> QED
  BY <1>1, <1>2

(* A call from outside of the pend calls moves nobody.                     *)
LEMMA CallUnmoved ==
    ASSUME Safe, TaskRuns, NEW k, ThenSched(k) \/ ThenReturn(k)
    PROVE  \A t \in Task : Unmoved(t)
  BY TypeFacts DEF Safe, TaskRuns, ThenSched, ThenReturn, Unmoved, InPend, InPendNext

LEMMA StayUnmoved ==
    ASSUME pc' = pc, arg' = arg PROVE \A t \in Task : Unmoved(t)
  BY DEF Unmoved, InPend, InPendNext

LEMMA SchedPointWait == Safe /\ SchedPoint => WaitStep
<1> SUFFICES ASSUME Safe, SchedPoint PROVE WaitStep
  OBVIOUS
<1>1. /\ knl' = knl_sched(knl) /\ arg' = arg
      /\ pc' = [pc EXCEPT ![knl.curr] = IF @ = "sched" THEN "run" ELSE "pret"]
      /\ pc[knl.curr] \in {"sched", "psched"}
  BY DEF SchedPoint
<1>2. \A t \in Task : Unmoved(t)
  BY <1>1, TypeFacts DEF Safe, Unmoved, InPend, InPendNext
<1>3. SameLists(knl, knl')
  <2>1. SameLists(knl, knl) /\ SameLists(knl, switch_request(knl))
    BY SwitchSound DEF Safe, SameLists, SameQueue, SameTick
  <2> QED
    BY <1>1, <2>1 DEF knl_sched
<1> QED
  BY <1>2, <1>3, ListsSteady

LEMMA KernelWait == Safe /\ KernelStep => WaitStep
<1> SUFFICES ASSUME Safe, KernelStep PROVE WaitStep
  OBVIOUS
<1>1. CASE PendSV_Handler
  <2>1. knl' = Switched(knl) /\ pc' = pc /\ arg' = arg
    BY <1>1 DEF PendSV_Handler, ThenReturn, Switched
  <2>2. SameLists(knl, knl')
    BY <2>1, SwitchedSound DEF Safe
  <2> QED
    BY <2>1, <2>2, ListsSteady, StayUnmoved
<1>2. CASE SchedPoint
  BY <1>2, SchedPointWait
<1>3. CASE TickUpdate
  <2>1. knl' = tick_update(knl, 1) /\ pc' = pc /\ arg' = arg
    BY <1>3 DEF TickUpdate
  <2>2. SameFrame(knl, knl')
        /\ \E A \in SUBSET Sleepers(knl) : Awoken(knl, knl', A, "TIMEOUT")
    BY <2>1, TickSound DEF Safe
  <2>3. PICK A \in SUBSET Sleepers(knl) : Woke(A, "TIMEOUT")
    BY <2>1, <2>2, StayUnmoved, AwokenWoke
  <2> QED
    BY <2>2, <2>3 DEF WaitStep, SameFrame
<1>4. CASE RobinSched
  <2>1. knl' = robin_sched(knl) /\ pc' = pc /\ arg' = arg
    BY <1>4 DEF RobinSched
  <2>2. SameTasks(knl, knl')
    BY <2>1, RobinSound, TypeFacts DEF Safe
  <2> QED
    BY <2>1, <2>2, ListsSteady, StayUnmoved
<1>5. CASE IrqLeave
  BY <1>5, IrqLeaveStep, ListsSteady, StayUnmoved DEF IrqLeave
<1> QED
  BY <1>1, <1>2, <1>3, <1>4, <1>5 DEF KernelStep

(* The calls of the task API.                                              *)
LEMMA NestWait ==
    ASSUME Safe, pc' = pc, arg' = arg, knl' = [knl EXCEPT !.irqNest = @ + 1]
    PROVE  WaitStep
<1>1. knl' = SetNest(knl, knl.irqNest + 1) /\ knl.irqNest + 1 \in Nat
  BY TypeFacts DEF Safe, SetNest
<1>2. SameLists(knl, knl')
  BY <1>1, NestSound DEF Safe
<1> QED
  BY <1>2, ListsSteady, StayUnmoved

LEMMA CreateWait ==
    ASSUME NEW t \in Task, NEW p \in AppPrio, NEW slice \in Timeslices
    PROVE  Safe /\ Create(t, p, slice) => WaitStep
<1> SUFFICES ASSUME Safe, Create(t, p, slice) PROVE WaitStep
  OBVIOUS
<1> DEFINE r == readyqueue_add_tail(NewTask(knl, t, p, slice), t)
<1>1. TaskRuns /\ knl.curr \in ReadySet(knl) /\ Sound(knl)
  BY CallerReady DEF Create
<1>2. p \in Prio /\ slice \in Nat /\ t \notin knl.obj
  BY InputAssumption DEF Create
<1>3. /\ knl' = r /\ pc' = [pc EXCEPT ![knl.curr] = "sched", ![t] = "run"]
      /\ arg' = [arg EXCEPT ![t] = NoObj]
  BY DEF Create
<1>4. Elsewhere(knl, r, t) /\ ~IsPending(r, t) /\ r.obj = knl.obj \cup {t}
  <2>1. Cleared(knl, r, t) /\ ~IsPending(r, t) /\ r.obj = knl.obj \cup {t}
    BY <1>1, <1>2, CreateSound
  <2> HIDE DEF r
  <2> QED
    BY <2>1 DEF Cleared
<1> HIDE DEF r
<1>5. Left(t)
  BY <1>3, <1>4, TypeFacts DEF Safe, Left, InPend, InPendNext
<1>6. Alone(t)
  <2> SUFFICES ASSUME NEW u \in Task \ {t} PROVE Steady(u)
    BY DEF Alone
  <2>1. Unmoved(u)
    BY <1>1, <1>3, TypeFacts DEF Safe, TaskRuns, Unmoved, InPend, InPendNext
  <2> QED
    BY <1>3, <1>4, <2>1, SteadyIf, ButIsElsewhere
<1>7. knl'.obj \cap Obj = knl.obj \cap Obj /\ knl.obj \subseteq knl'.obj
  BY <1>3, <1>4, KindAssumption
<1>8. ~IsPending(knl, t)
  BY <1>1, <1>2 DEF Sound, Alive
<1> QED
  BY <1>5, <1>6, <1>7, <1>8 DEF WaitStep

LEMMA DestroyWait ==
    ASSUME NEW t \in Task
    PROVE  Safe /\ Destroy(t) /\ knl.own[t] = << >> => WaitStep
<1> SUFFICES ASSUME Safe, Destroy(t), knl.own[t] = << >> PROVE WaitStep
  OBVIOUS
<1> DEFINE r == Bury(knl, t)
<1>1. TaskRuns /\ Sound(knl) /\ t \in (knl.obj \cap Task) \ {Idle}
  BY CallerReady DEF Destroy
<1>2. /\ knl' = r /\ pc' = [pc EXCEPT ![t] = "none", ![knl.curr] = "sched"]
      /\ arg' = [arg EXCEPT ![t] = NoObj]
  BY DestroyBuries DEF Destroy
<1>3. /\ Elsewhere(knl, r, t) /\ ~IsPending(r, t) /\ r.obj = knl.obj \ {t}
      /\ r.pendState[t] = "NONE"
  BY <1>1, BurySound
<1> HIDE DEF r
<1>4. Left(t) /\ knl'.pendState[t] = "NONE"
  BY <1>2, <1>3, TypeFacts DEF Safe, Left, InPend, InPendNext
<1>5. Alone(t)
  <2> SUFFICES ASSUME NEW u \in Task \ {t} PROVE Steady(u)
    BY DEF Alone
  <2>1. Unmoved(u)
    BY <1>1, <1>2, TypeFacts DEF Safe, TaskRuns, Unmoved, InPend, InPendNext
  <2> QED
    BY <1>2, <1>3, <2>1, SteadyIf, ButIsElsewhere
<1>6. knl'.obj \cap Obj = knl.obj \cap Obj /\ DestroyUsed
      /\ \A u \in Task \ knl'.obj : u \in knl.obj => ~InPendNext(u)
  BY <1>2, <1>3, <1>4, KindAssumption DEF Destroy, Preamble, DestroyUsed, Left
<1> QED
  BY <1>4, <1>5, <1>6 DEF WaitStep

LEMMA SuspendWait == ASSUME NEW t \in Task PROVE Safe /\ Suspend(t) => WaitStep
<1> SUFFICES ASSUME Safe, Suspend(t) PROVE WaitStep
  OBVIOUS
<1> DEFINE r == task_suspend(knl, t)
<1>1. t \in (knl.obj \cap Task) \ {Idle} /\ knl' = r /\ SuspendUsed
  BY DEF Suspend, SuspendUsed, Preamble, IsrPreamble, ThenSched, ThenReturn
<1>2. \A u \in Task : Unmoved(u)
  BY CallUnmoved, StayUnmoved DEF Suspend, Preamble, ThenReturn
<1>3. /\ Others(knl, r, t) /\ ~IsPending(r, t) /\ ~IsSleeping(r, t)
      /\ r.pendState[t] = knl.pendState[t]
  BY <1>1, SuspendSound DEF Safe
<1> HIDE DEF r
<1>4. Dropped(t)
  BY <1>1, <1>2, <1>3 DEF Dropped
<1>5. Alone(t) /\ knl'.obj = knl.obj
  BY <1>1, <1>2, <1>3, SteadyIf, ButIsElsewhere DEF Alone, SameFrame
<1>6. IsPending(knl, t) => knl'.pendState[t] = "NONE"
  BY <1>1, <1>3 DEF Safe, Sound, Waiting, Undecided
<1> QED
  BY <1>1, <1>4, <1>5, <1>6 DEF WaitStep

LEMMA ResumeWait == ASSUME NEW t \in Task PROVE Safe /\ Resume(t) => WaitStep
<1> SUFFICES ASSUME Safe, Resume(t) PROVE WaitStep
  OBVIOUS
<1>1. t \in (knl.obj \cap Task) \ {Idle} /\ IsSuspended(knl, t) /\ knl' = task_resume(knl, t)
  BY DEF Resume, ThenSched, ThenReturn, Safe, Sound, Alive, IsSuspended
<1>2. \A u \in Task : Unmoved(u)
  BY CallUnmoved, StayUnmoved DEF Resume, Preamble, ThenReturn
<1>3. SameControl(knl, knl') /\ \A u \in Task : SameWait(knl, knl', u)
  BY <1>1, ResumeSound DEF Safe
<1> QED
  BY <1>2, <1>3, SteadyIf, SteadyStep DEF SameControl

LEMMA DelayWait == ASSUME NEW d \in Delays PROVE Safe /\ Delay(d) => WaitStep
<1> SUFFICES ASSUME Safe, Delay(d) PROVE WaitStep
  OBVIOUS
<1> DEFINE t == knl.curr
           r == readyqueue_remove(tick_list_add(knl, t, d), t)
<1>1. TaskRuns /\ t \in ReadySet(knl) \ {Idle} /\ Sound(knl) /\ ThenSched(r)
  BY CallerReady DEF Delay
<1>2. d \in Nat /\ knl' = r
  BY <1>1, InputAssumption, TimeAssumption DEF ThenSched
<1>3. SameBut(knl, r, t) /\ r.state[t] = {"SLEEP"}
  BY <1>1, <1>2, DelaySound
<1>4. \A u \in Task : Unmoved(u)
  BY <1>1, CallUnmoved
<1>5. Steady(t)
  <2>1. ~InPend(t) /\ ~IsPending(knl, t)
    BY <1>1 DEF TaskRuns, InPend, InPendNext, ReadySet, IsReady, IsPending
  <2> HIDE DEF r
  <2> QED
    BY <1>1, <1>2, <1>3, <1>4, <2>1 DEF Steady, SameBut, SameControl, IsPending, ReadySet
<1> HIDE DEF r, t
<1>6. \A u \in Task \ {t} : SameWait(knl, r, u)
  BY <1>3, ButIsElsewhere
<1>7. \A u \in Task : Steady(u)
  BY <1>2, <1>4, <1>5, <1>6, SteadyIf
<1> QED
  BY <1>2, <1>3, <1>7, SteadyStep DEF SameBut, SameControl

LEMMA DelayAbortWait ==
    ASSUME NEW t \in Task
    PROVE  Safe /\ ~IsPending(knl, t) /\ DelayAbort(t) => WaitStep
<1> SUFFICES ASSUME Safe, ~IsPending(knl, t), DelayAbort(t) PROVE WaitStep
  OBVIOUS
<1> DEFINE r == readyqueue_add(tick_list_remove(knl, t), t)
<1>1. /\ TaskRuns /\ Sound(knl) /\ ThenSched(r)
      /\ IsSleeping(knl, t) /\ ~IsSuspended(knl, t)
  BY CallerReady DEF DelayAbort
<1>2. /\ SameFrame(knl, r)
      /\ \A u \in Task : /\ IsPending(r, u) <=> IsPending(knl, u)
                         /\ IsPending(knl, u) => r.pendingObj[u] = knl.pendingObj[u]
                         /\ r.pendState[u] = knl.pendState[u]
                         /\ IsSleeping(r, u) => IsSleeping(knl, u)
  BY <1>1, AbortSound
<1>3. \A u \in Task : Unmoved(u)
  BY <1>1, CallUnmoved
<1>4. knl' = r
  BY <1>1 DEF ThenSched
<1> HIDE DEF r
<1>5. \A u \in Task : Steady(u)
  BY <1>2, <1>3, <1>4 DEF Steady
<1> QED
  BY <1>2, <1>4, <1>5, SteadyStep DEF SameFrame

LEMMA PrioWait ==
    ASSUME NEW t \in Task \ {Idle}, NEW p \in AppPrio
    PROVE  Safe /\ PrioChange(t, p) => WaitStep
<1> SUFFICES ASSUME Safe, PrioChange(t, p) PROVE WaitStep
  OBVIOUS
<1> DEFINE r == prio_assign(knl, t, p)
<1>1. TaskRuns /\ Sound(knl) /\ ThenSched(r)
  BY CallerReady DEF PrioChange
<1>2. t \in (knl.obj \cap Task) \ {Idle} /\ p \in Prio
  BY <1>1, InputAssumption DEF PrioChange
<1>3. SamePlaces(knl, r)
  BY <1>1, <1>2, PrioritySound DEF Reranked
<1>4. \A u \in Task : Unmoved(u)
  BY <1>1, CallUnmoved
<1>5. knl' = r
  BY <1>1 DEF ThenSched
<1> HIDE DEF r
<1>6. \A u \in Task : SameWait(knl, knl', u)
  BY <1>3, <1>5 DEF SamePlaces, SameWait, IsPending, IsSleeping
<1> QED
  BY <1>3, <1>4, <1>5, <1>6, SteadyIf, SteadyStep DEF SamePlaces

LEMMA YieldWait == Safe /\ Yield => WaitStep
<1> SUFFICES ASSUME Safe, Yield PROVE WaitStep
  OBVIOUS
<1> DEFINE r == readyqueue_add_tail(readyqueue_remove(knl, knl.curr), knl.curr)
<1>1. TaskRuns /\ knl.curr \in ReadySet(knl) \ {Idle} /\ Sound(knl) /\ ThenSched(r)
  BY CallerReady DEF Yield
<1>2. SameTasks(knl, r)
  BY <1>1, YieldSound DEF SameTasks
<1>3. knl' = r
  BY <1>1 DEF ThenSched
<1> QED
  BY <1>1, <1>2, <1>3, CallUnmoved, ListsSteady

LEMMA LockWait == Safe /\ (SchedLock \/ SchedUnlock) => WaitStep
<1> SUFFICES ASSUME Safe, SchedLock \/ SchedUnlock PROVE WaitStep
  OBVIOUS
<1>1. PICK n \in Nat : knl' = SetLock(knl, n)
  <2>1. knl.schedLock \in Nat
    BY TypeFacts DEF Safe
  <2>2. CASE SchedLock
    BY <2>1, <2>2 DEF SchedLock, ThenReturn, SetLock
  <2>3. CASE SchedUnlock
    BY <2>1, <2>3 DEF SchedUnlock, ThenSched, SetLock, knl_is_sched_locked
  <2> QED
    BY <2>2, <2>3
<1>2. SameLists(knl, knl')
  BY <1>1, LockSound DEF Safe
<1>3. \A u \in Task : Unmoved(u)
  BY CallUnmoved DEF SchedLock, SchedUnlock, Preamble
<1> QED
  BY <1>2, <1>3, ListsSteady

LEMMA TimesliceWait ==
    ASSUME NEW t \in Task, NEW slice \in Timeslices
    PROVE  Safe /\ TimesliceSet(t, slice) => WaitStep
<1> SUFFICES ASSUME Safe, TimesliceSet(t, slice) PROVE WaitStep
  OBVIOUS
<1>1. PICK reload, left : knl' = Sliced(knl, t, reload, left)
  BY DEF TimesliceSet, ThenReturn, Sliced
<1>2. SameLists(knl, knl')
  BY <1>1 DEF Safe, Sound, Sliced, KernelType, SameQueue, SameTick, SameLists
<1> QED
  BY <1>2, ListsSteady, StayUnmoved DEF TimesliceSet, ThenReturn

(* Nobody dies with a mutex in hand.                                       *)
Harmless == \A t \in Task : Destroy(t) => knl.own[t] = << >>

LEMMA QuietIsHarmless == Unowned(knl) => Harmless
  BY DEF Harmless, Unowned

LEMMA NextWait == Safe /\ Harmless /\ [Next]_vars => WaitStep
<1> SUFFICES ASSUME Safe, Harmless, [Next]_vars PROVE WaitStep
  OBVIOUS
<1>1. CASE KernelStep
  BY <1>1, KernelWait
<1>2. CASE \E kind \in {"tick", "isr"} : IrqEnter(kind)
  BY <1>2, NestWait DEF IrqEnter
<1>3. CASE OtherApi
  BY <1>3, DestroyWait, SuspendWait, ResumeWait, DelayAbortWait, DelayWait,
     TimesliceWait, YieldWait, LockWait
  DEF OtherApi, Harmless
<1>4. CASE \E t \in Task, p \in AppPrio : SetPrio(t, p)
  BY <1>4, PrioWait, CreateWait DEF SetPrio
<1>5. CASE UNCHANGED vars
  BY <1>5, SteadyIf, SteadyStep DEF vars, Unmoved, InPend, InPendNext, SameWait
<1> QED
  BY <1>1, <1>2, <1>3, <1>4, <1>5 DEF Next, OtherStep

----------------------------------------------------------------------------
(* The calls of the blocking objects, from tasks and from interrupts: one  *)
(* that wakes tasks and goes on to knl_sched(), one that returns, one that *)
(* blocks the caller, and the return of a pend call.                       *)

LEMMA WakeFrom ==
    ASSUME Safe, NEW api, NEW k, Sound(k), SameCpu(knl, k), Unowned(knl) => Unowned(k),
           ReadySet(knl) \subseteq ReadySet(k), FromAnywhere(api, k)
    PROVE  Kept /\ knl' = k /\ \A t \in Task : Unmoved(t)
<1>1. CASE Preamble(api) /\ ThenSched(k)
  <2>1. TaskRuns /\ knl.curr \in ReadySet(k)
    BY <1>1, CallerReady
  <2>2. Kept
    BY <1>1, <2>1, SchedStep
  <2> QED
    BY <1>1, <2>1, <2>2, CallUnmoved DEF ThenSched
<1>2. CASE IsrPreamble(api) /\ ThenReturn(k)
  <2>1. knl.schedLock > 0 => knl.curr \in ReadySet(k)
    BY DEF Safe, LockHolds
  <2>2. Kept
    BY <1>2, <2>1, IsrCallStep
  <2> QED
    BY <1>2, <2>2, StayUnmoved DEF ThenReturn
<1> QED
  BY <1>1, <1>2 DEF FromAnywhere

LEMMA ReturnFrom ==
    ASSUME Safe, NEW api, NEW k, Sound(k), SameCpu(knl, k), Unowned(knl) => Unowned(k),
           ReadySet(k) = ReadySet(knl), Best(k) = Best(knl), ReturnAnywhere(api, k)
    PROVE  Kept /\ knl' = k /\ \A t \in Task : Unmoved(t)
<1>1. ThenReturn(k)
  BY DEF ReturnAnywhere
<1>2. ASSUME Preamble(api) PROVE Kept
  BY <1>1, <1>2, CallerReady, ReturnStep
<1>3. ASSUME IsrPreamble(api) PROVE Kept
  BY <1>1, <1>3, IsrCallStep DEF Safe, LockHolds
<1> QED
  BY <1>1, <1>2, <1>3, StayUnmoved DEF ReturnAnywhere, ThenReturn

(* A call that leaves the kernel alone.                                    *)
LEMMA IdleFrom ==
    ASSUME Safe, NEW api, ReturnAnywhere(api, knl)
    PROVE  Kept /\ knl' = knl /\ \A t \in Task : Steady(t)
<1>1. Sound(knl) /\ SameCpu(knl, knl)
  BY DEF Safe, SameCpu
<1>2. Kept /\ knl' = knl /\ \A t \in Task : Unmoved(t)
  BY <1>1, ReturnFrom
<1> QED
  BY <1>2, SteadyIf DEF SameWait

LEMMA NoWaiters ==
    ASSUME NEW k, Sound(k), NEW o \in Obj
    PROVE  /\ ToSet(k.pend[o]) = Waiters(k, o)
           /\ pend_is_nopending(k, o) <=> Waiters(k, o) = {}
           /\ o \notin k.obj => Waiters(k, o) = {}
<1>1. k.pend[o] \in Seq(Task) /\ ToSet(k.pend[o]) = Waiters(k, o)
  BY DEF Sound, KernelType, Waiting, PendExact
<1>2. o \notin k.obj => Waiters(k, o) = {}
  BY DEF Sound, Waiting, Undecided, Waiters
<1> QED
  BY <1>1, <1>2, EmptyList DEF pend_is_nopending

LEMMA CreatedFrom ==
    ASSUME Safe, NEW api, NEW o \in Obj, o \notin knl.obj,
           ReturnAnywhere(api, [knl EXCEPT !.pend[o] = << >>, !.obj = @ \cup {o}])
    PROVE  /\ Kept /\ knl'.obj = knl.obj \cup {o} /\ knl'.pend = knl.pend
           /\ \A t \in Task : Steady(t)
<1> DEFINE ob == knl.obj \cup {o}
           r  == SetObject(knl, o, ob)
<1>1. ReturnAnywhere(api, r)
  BY DEF SetObject
<1>2. /\ Sound(r) /\ SameCpu(knl, r) /\ r.obj = ob /\ r.own = knl.own
      /\ r.pend = knl.pend /\ r.state = knl.state
      /\ r.pendingObj = knl.pendingObj /\ r.pendState = knl.pendState
      /\ SameQueue(knl, r) /\ ReadySet(r) = ReadySet(knl)
  <2>1. Sound(knl) /\ Waiters(knl, o) = {} /\ ob \ {o} = knl.obj \ {o}
    BY NoWaiters DEF Safe
  <2>2. ob \subseteq knl.obj \cup {o}
    OBVIOUS
  <2> HIDE DEF ob
  <2> QED
    BY <2>1, <2>2, ObjectSound
<1> HIDE DEF r
<1>3. (Unowned(knl) => Unowned(r)) /\ Best(r) = Best(knl)
  BY <1>2 DEF Safe, Unowned, Best, readyqueue_highest_ready_task_get, SameQueue
<1>4. Kept /\ knl' = r /\ \A t \in Task : Unmoved(t)
  BY <1>1, <1>2, <1>3, ReturnFrom
<1>5. \A t \in Task : SameWait(knl, r, t)
  BY <1>2 DEF SameWait, IsPending, IsSleeping
<1> QED
  BY <1>2, <1>4, <1>5, SteadyIf

(* The end of an object: whoever waits for it is told.                     *)
LEMMA DestroyedFrom ==
    ASSUME Safe, NEW api, NEW o \in Obj, o \in knl.obj, NEW st \in PendState,
           FromAnywhere(api,
              [pend_wakeup_all(knl, o, st) EXCEPT !.pend[o] = << >>, !.obj = @ \ {o}])
    PROVE  Kept /\ knl'.obj = knl.obj \ {o} /\ Woke(Waiters(knl, o), st)
<1> DEFINE a  == pend_wakeup_all(knl, o, st)
           ob == a.obj \ {o}
           r  == SetObject(a, o, ob)
<1>1. FromAnywhere(api, r)
  BY DEF SetObject
<1>2. /\ Sound(a) /\ SameFrame(knl, a) /\ ReadySet(knl) \subseteq ReadySet(a)
      /\ Awoken(knl, a, Waiters(knl, o), st)
  BY WakeAllSound DEF Safe
<1> HIDE DEF a
<1>3. Waiters(a, o) = {} /\ ob \ {o} = a.obj \ {o} /\ ob \subseteq a.obj \cup {o}
  BY <1>2 DEF Awoken, Waiters, IsPending
<1> HIDE DEF ob
<1>4. /\ Sound(r) /\ SameCpu(a, r) /\ r.obj = ob /\ r.own = a.own
      /\ r.state = a.state /\ r.pendingObj = a.pendingObj /\ r.pendState = a.pendState
      /\ ReadySet(r) = ReadySet(a)
  BY <1>2, <1>3, ObjectSound
<1> HIDE DEF r
<1>5. SameCpu(knl, r) /\ (Unowned(knl) => Unowned(r)) /\ ob = knl.obj \ {o}
  BY <1>2, <1>4 DEF Safe, Unowned, SameCpu, SameFrame, ob
<1>6. Kept /\ knl' = r /\ \A t \in Task : Unmoved(t)
  BY <1>1, <1>2, <1>4, <1>5, WakeFrom
<1>7. Awoken(knl, r, Waiters(knl, o), st)
  BY <1>2, <1>4 DEF Awoken, IsPending, IsSleeping
<1> QED
  BY <1>4, <1>5, <1>6, <1>7, AwokenWoke

(* A post: one of the waiters or all of them.                              *)
LEMMA PostedFrom ==
    ASSUME Safe, NEW api, NEW o \in Obj, ~pend_is_nopending(knl, o), NEW st \in PendState,
           NEW opt, FromAnywhere(api, pend_wakeup(knl, o, st, opt))
    PROVE  /\ Kept /\ knl'.obj = knl.obj
           /\ \E A \in SUBSET Waiters(knl, o) :
                 /\ A = Waiters(knl, o) \/ \E t : A = {t}
                 /\ A # {} /\ Woke(A, st)
<1> DEFINE r == pend_wakeup(knl, o, st, opt)
<1>1. Sound(r) /\ SameFrame(knl, r) /\ ReadySet(knl) \subseteq ReadySet(r)
  BY PendWakeSound DEF Safe
<1>2. \E A \in SUBSET Waiters(knl, o) :
         /\ A = Waiters(knl, o) \/ \E t : A = {t}
         /\ A # {} /\ Awoken(knl, r, A, st)
  BY PendWakeSound DEF Safe
<1>3. FromAnywhere(api, r)
  OBVIOUS
<1> HIDE DEF r
<1>4. SameCpu(knl, r) /\ (Unowned(knl) => Unowned(r))
  BY <1>1, SameControlCpu
<1>5. Kept /\ knl' = r /\ \A t \in Task : Unmoved(t)
  BY <1>1, <1>3, <1>4, WakeFrom
<1>6. PICK A \in SUBSET Waiters(knl, o) :
         /\ A = Waiters(knl, o) \/ \E t : A = {t}
         /\ A # {} /\ Awoken(knl, r, A, st)
  BY <1>2
<1>7. Woke(A, st)
  BY <1>5, <1>6, AwokenWoke
<1> QED
  BY <1>1, <1>5, <1>6, <1>7 DEF SameFrame

(* BlockIn refuses to block under the scheduler lock.                      *)
LEMMA BlockFrom ==
    ASSUME Safe, NEW api, Preamble(api), NEW o \in Obj, o \in knl.obj,
           NEW timeout \in Nat, BlockIn(knl, o, timeout)
    PROVE  /\ Kept /\ knl'.obj = knl.obj
           /\ Alone(knl.curr) /\ Blocked(knl.curr, o)
           /\ ~InPend(knl.curr) /\ ~IsPending(knl, knl.curr)
           /\ timeout = Forever => ~IsSleeping(knl', knl.curr)
<1> DEFINE t == knl.curr
           r == pend_task_block(knl, t, o, timeout)
<1>1. TaskRuns /\ t \in ReadySet(knl) \ {Idle} /\ Sound(knl)
  BY CallerReady
<1>2. /\ knl' = r /\ pc' = [pc EXCEPT ![t] = "psched"]
      /\ arg' = [arg EXCEPT ![t] = o] /\ isr' = isr /\ ~(knl.schedLock > 0)
  BY DEF BlockIn, knl_is_sched_locked
<1>3. /\ Sound(r) /\ Others(knl, r, t)
      /\ IsPending(r, t) /\ r.pendingObj[t] = o /\ r.pendState[t] = "NONE"
      /\ timeout = Forever => ~IsSleeping(r, t)
  BY <1>1, BlockSound
<1> HIDE DEF r
<1>4. SameCpu(knl, r) /\ (Unowned(knl) => Unowned(r)) /\ r.obj = knl.obj
  BY <1>1, <1>3, SameControlCpu DEF Others, SameFrame
<1>5. /\ pc' \in [Task -> Label] /\ pc'[t] = "psched"
      /\ arg' \in [Task -> Obj \cup {NoObj}] /\ arg'[t] = o /\ t \in Task
  BY <1>2, TypeFacts DEF Safe, Label
<1>6. knl.irqNest = 0 /\ ~knl.pendsv /\ ~InPend(t) /\ ~IsPending(knl, t)
  BY <1>1 DEF TaskRuns, InPend, InPendNext, ReadySet, IsReady, IsPending
<1>7. Kept
  BY <1>2, <1>3, <1>4, <1>5, <1>6, CallStep
<1>8. Blocked(t, o)
  BY <1>2, <1>3, <1>5 DEF Blocked, InPend, InPendNext
<1>9. Alone(t)
  <2> SUFFICES ASSUME NEW u \in Task \ {t} PROVE Steady(u)
    BY DEF Alone
  <2>1. Unmoved(u)
    BY <1>2, TypeFacts DEF Safe, Unmoved, InPend, InPendNext
  <2> QED
    BY <1>2, <1>3, <2>1, SteadyIf, ButIsElsewhere
<1> QED
  BY <1>2, <1>3, <1>4, <1>6, <1>7, <1>8, <1>9

LEMMA PendReturnStep ==
    Safe /\ PendReturn => /\ Kept /\ knl' = knl
                          /\ Alone(knl.curr) /\ Left(knl.curr)
                          /\ ~IsPending(knl, knl.curr)
<1> SUFFICES ASSUME Safe, PendReturn
             PROVE  /\ Kept /\ knl' = knl
                    /\ Alone(knl.curr) /\ Left(knl.curr)
                    /\ ~IsPending(knl, knl.curr)
  OBVIOUS
<1> DEFINE t == knl.curr
<1>1. /\ knl' = knl /\ isr' = isr /\ knl.irqNest = 0 /\ ~knl.pendsv /\ pc[t] = "pret"
      /\ pc' = [pc EXCEPT ![t] = "run"] /\ arg' = [arg EXCEPT ![t] = NoObj]
  BY DEF PendReturn
<1>2. /\ t \in Task /\ pc' \in [Task -> Label] /\ pc'[t] = "run"
      /\ arg' \in [Task -> Obj \cup {NoObj}]
  BY <1>1, TypeFacts DEF Safe, Label
<1>3. t \in ReadySet(knl)
  BY <1>1, RunsReady
<1>4. TypeOK'
  BY <1>1, <1>2 DEF Safe, TypeOK
<1>5. LockHolds' /\ ChosenReady' /\ (HighestRuns => HighestRuns')
  BY <1>1, <1>2, <1>3
  DEF Safe, LockHolds, ChosenReady, Decisive, Chosen, HighestRuns, Settled
<1>6. Left(t) /\ ~IsPending(knl, t)
  BY <1>1, <1>2, <1>3 DEF Left, InPend, InPendNext, ReadySet, IsReady, IsPending
<1>7. Alone(t)
  <2> SUFFICES ASSUME NEW u \in Task \ {t} PROVE Steady(u)
    BY DEF Alone
  <2>1. Unmoved(u)
    BY <1>1, TypeFacts DEF Safe, Unmoved, InPend, InPendNext
  <2> QED
    BY <1>1, <2>1, SteadyIf DEF SameWait
<1>8. Sound(knl') /\ (Unowned(knl) => Unowned(knl'))
  BY <1>1 DEF Safe
<1> QED
  BY <1>1, <1>4, <1>5, <1>6, <1>7, <1>8, KeptFrom DEF Kept

(* Nobody begins to wait unless it blocks.                                 *)
LEMMA WaitersShrink ==
    ASSUME \/ \E A, st : Woke(A, st)
           \/ \E t \in Task : Alone(t) /\ (Left(t) \/ Dropped(t)),
           NEW o
    PROVE  Waiters(knl', o) \subseteq Waiters(knl, o)
<1> SUFFICES ASSUME NEW u \in Task, IsPending(knl', u)
             PROVE  IsPending(knl, u) /\ knl'.pendingObj[u] = knl.pendingObj[u]
  BY DEF Waiters
<1>1. Steady(u)
  BY DEF Woke, Ended, Alone, Left, Dropped
<1> QED
  BY <1>1 DEF Steady

LEMMA StepShrinks ==
    ASSUME WaitStep, NEW o PROVE Waiters(knl', o) \subseteq Waiters(knl, o)
<1>1. \/ \E A, st : Woke(A, st)
      \/ \E t \in Task : Alone(t) /\ (Left(t) \/ Dropped(t))
  BY DEF WaitStep
<1> QED
  BY <1>1, WaitersShrink

(* What the waiting invariants say at the level of the lists.              *)
LEMMA WaitFacts ==
    ASSUME Safe, WaitInv
    PROVE  PendListExact /\ (~SuspendUsed => PendDecided)
<1>1. Waiting(knl) /\ knl \in KernelType
  BY DEF Safe, Sound
<1>2. ASSUME NEW o \in Obj
      PROVE  /\ IsInjective(knl.pend[o])
             /\ ToSet(knl.pend[o]) = {t \in Task : IsPending(knl, t) /\ knl.pendingObj[t] = o}
             /\ \A i, j \in DOMAIN knl.pend[o] :
                   i < j => knl.prio[knl.pend[o][i]] <= knl.prio[knl.pend[o][j]]
  BY <1>1, <1>2 DEF Waiting, PendExact, Waiters, SortedBy
<1>3. ASSUME NEW t \in Task PROVE IsPending(knl, t) <=> knl.pendingObj[t] # NoObj
  BY <1>1, <1>3, NullAssumption DEF Waiting, Undecided
<1>4. ~SuspendUsed => PendDecided
  BY <1>1 DEF WaitInv, PendDecided, Waiting, Undecided
<1> QED
  BY <1>2, <1>3, <1>4 DEF PendListExact

----------------------------------------------------------------------------
LEMMA BootType == BootKernel \in KernelType
<1>1. /\ MainPrio \in Prio /\ PrioIdle \in Prio
      /\ Main \in Task /\ Idle \in Task
  BY MainAssumption, IdleAssumption, PrioAssumption DEF Prio, PrioIdle
<1>2. PrioInvalid \in 0 .. PrioInvalid /\ 0 \in 0 .. NestingMax
  BY PrioAssumption, NestingAssumption DEF PrioInvalid
<1>3. [p \in Prio |-> IF p = MainPrio THEN <<Main>>
                      ELSE IF p = PrioIdle THEN <<Idle>> ELSE << >>] \in [Prio -> Seq(Task)]
  BY <1>1
<1>4. [t \in Task |-> IF RoundRobin THEN RobinDefault ELSE 0] \in [Task -> Nat]
  BY RobinAssumption
<1>5. [t \in Task |-> IF t = Main THEN MainPrio ELSE PrioIdle] \in [Task -> Prio]
  BY <1>1
<1> QED
  BY <1>1, <1>2, <1>3, <1>4, <1>5 DEF BootKernel, KernelType, PendState

LEMMA BootQueued == Queued(BootKernel, {Idle, Main})
<1> DEFINE k == BootKernel
<1>1. /\ \A p \in Prio : k.rdyq[p] = IF p = MainPrio THEN <<Main>>
                                     ELSE IF p = PrioIdle THEN <<Idle>> ELSE << >>
      /\ \A t \in Task : k.prio[t] = IF t = Main THEN MainPrio ELSE PrioIdle
      /\ k.mask = {MainPrio, PrioIdle} /\ k.highest = MainPrio
  BY DEF BootKernel
<1> HIDE DEF k
<1>2. /\ MainPrio \in Prio /\ PrioIdle \in Prio /\ MainPrio # PrioIdle
      /\ Main \in Task /\ Idle \in Task /\ Main # Idle
  BY MainAssumption, IdleAssumption, PrioAssumption DEF Prio, PrioIdle
<1>3. \A t : IsInjective(<<t>>) /\ ToSet(<<t>>) = {t} /\ <<t>> # << >>
  BY DEF IsInjective, ToSet
<1>4. IsInjective(<< >>) /\ ToSet(<< >>) = {}
  BY DEF IsInjective, ToSet
<1>5. ASSUME NEW p \in Prio
      PROVE  /\ IsInjective(k.rdyq[p])
             /\ ToSet(k.rdyq[p]) = {t \in {Idle, Main} : k.prio[t] = p}
             /\ k.rdyq[p] # << >> <=> p \in {MainPrio, PrioIdle}
  <2>1. CASE p = MainPrio
    BY <1>1, <1>2, <1>3, <2>1
  <2>2. CASE p = PrioIdle
    BY <1>1, <1>2, <1>3, <2>2
  <2>3. CASE p # MainPrio /\ p # PrioIdle
    BY <1>1, <1>2, <1>4, <2>3
  <2> QED
    BY <2>1, <2>2, <2>3
<1>6. ListMin({MainPrio, PrioIdle}) = MainPrio
  <2>1. {MainPrio, PrioIdle} \in SUBSET Nat /\ MainPrio <= PrioIdle
    BY <1>2, PrioAssumption DEF Prio, PrioIdle
  <2>2. \A y \in {MainPrio, PrioIdle} : MainPrio <= y
    BY <2>1
  <2> QED
    BY <2>1, <2>2, ListMinIs
<1>7. k.mask = {p \in Prio : k.rdyq[p] # << >>}
  BY <1>1, <1>2, <1>5
<1> QED
  BY <1>1, <1>5, <1>6, <1>7 DEF Queued, k

LEMMA BootSound ==
    /\ Sound(BootKernel) /\ Unowned(BootKernel) /\ ReadySet(BootKernel) = {Idle, Main}
    /\ BootKernel.highest = MainPrio /\ BootKernel.rdyq[MainPrio] = <<Main>>
<1> DEFINE k == BootKernel
<1>1. /\ k.state = [t \in Task |-> {}] /\ k.obj = {Idle, Main}
      /\ k.tick = << >> /\ k.own = [t \in Task |-> << >>]
      /\ k.highest = MainPrio /\ k.rdyq[MainPrio] = <<Main>>
      /\ k.pend = [o \in Obj |-> << >>] /\ k.pendingObj = [t \in Task |-> NoObj]
  BY MainAssumption DEF BootKernel
<1>2. k \in KernelType /\ Queued(k, {Idle, Main})
  BY BootType, BootQueued
<1> HIDE DEF k
<1>3. Main \in Task /\ Idle \in Task /\ Main # Idle
  BY MainAssumption, IdleAssumption
<1>4. ReadySet(k) = {Idle, Main} /\ Sleepers(k) = {}
  BY <1>1, <1>3 DEF ReadySet, Sleepers, IsReady, IsSleeping
<1>5. TickHolds(k, {})
  BY <1>1 DEF TickHolds, IsInjective, ToSet
<1>6. Waiting(k)
  <2>1. \A t \in Task : ~IsPending(k, t)
    BY <1>1 DEF IsPending
  <2>2. ASSUME NEW o \in Obj PROVE PendExact(k, o)
    <3>1. k.pend[o] = << >> /\ Waiters(k, o) = {}
      BY <1>1, <2>1 DEF Waiters
    <3> QED
      BY <3>1 DEF PendExact, IsInjective, ToSet, SortedBy
  <2> QED
    BY <1>1, <2>1, <2>2 DEF Waiting
<1>7. Alive(k) /\ Unowned(k)
  BY <1>1, <1>3 DEF Unowned, Alive, IsPending, IsSleeping
<1> QED
  BY <1>1, <1>2, <1>4, <1>5, <1>6, <1>7 DEF Sound, k

LEMMA InitInv == Init => IInv
<1> SUFFICES ASSUME Init PROVE IInv
  OBVIOUS
<1>1. knl = BootKernel
  BY DEF Init
<1>2. /\ Sound(knl) /\ Unowned(knl) /\ ReadySet(knl) = {Idle, Main}
      /\ knl.highest = MainPrio /\ knl.rdyq[MainPrio] = <<Main>>
  BY <1>1, BootSound
<1>3. knl.curr = Main /\ knl.pendsv = FALSE /\ knl.schedLock = 0 /\ knl.irqNest = 0
  BY <1>1 DEF BootKernel
<1>4. TypeOK
  BY <1>2, <1>3 DEF Init, Sound, TypeOK, Label
<1>5. HighestRuns
  BY <1>2, <1>3 DEF HighestRuns, Chosen, readyqueue_highest_ready_task_get
<1>6. LockHolds /\ ChosenReady
  BY <1>2, <1>3 DEF LockHolds, ChosenReady, Chosen
<1> QED
  BY <1>2, <1>4, <1>5, <1>6, ReadyIsOK DEF IInv, Safe, Quiet

LEMMA InitWait == Init => WaitInv
<1> SUFFICES ASSUME Init PROVE WaitInv
  OBVIOUS
<1>1. ASSUME NEW t \in Task PROVE ~InPend(t) /\ ~IsPending(knl, t)
  BY <1>1 DEF Init, BootKernel, InPend, IsPending
<1> QED
  BY <1>1 DEF WaitInv

LEMMA NextKept == Safe /\ Harmless /\ [Next]_vars => Kept
<1> SUFFICES ASSUME Safe, Harmless, [Next]_vars PROVE Kept
  OBVIOUS
<1>1. CASE KernelStep
  BY <1>1, PendSVStep, SchedPointStep, TickUpdateStep, RobinSchedStep, IrqLeaveStep
  DEF KernelStep
<1>2. CASE \E kind \in {"tick", "isr"} : IrqEnter(kind)
  BY <1>2, IrqEnterStep
<1>3. CASE OtherApi
  BY <1>3, DestroyStep, SuspendStep, ResumeStep, DelayAbortStep, DelayStep,
     TimesliceSetStep, YieldStep, SchedLockStep, SchedUnlockStep
  DEF OtherApi, Harmless
<1>4. CASE \E t \in Task, p \in AppPrio : SetPrio(t, p)
  BY <1>4, PrioChangeStep, CreateStep DEF SetPrio
<1>5. CASE UNCHANGED vars
  BY <1>5
  DEF vars, Safe, Quiet, Kept, TypeOK, HighestRuns, Settled, Chosen, LockHolds,
      ChosenReady, ChosenOK, Decisive
<1> QED
  BY <1>1, <1>2, <1>3, <1>4, <1>5 DEF Next, OtherStep

LEMMA NextInv == IInv /\ [Next]_vars => IInv'
  BY NextKept, QuietIsHarmless DEF IInv, Quiet, Kept

(* The inductive invariant holds in every reachable state.                 *)
THEOREM InductiveInvariant == Spec => []IInv
<1> QED
  BY InitInv, NextInv, PTL DEF Spec

(* What Safe says of the queues, and Quiet of the running task.            *)
LEMMA SafeFacts ==
    ASSUME Safe
    PROVE  TypeOK /\ ReadyQueueExact /\ TickListExact /\ (Quiet => RunningIsReady)
<1>1. TypeOK /\ Queued(knl, ReadySet(knl)) /\ TickHolds(knl, Sleepers(knl))
  BY DEF Safe, Sound
<1>2. ReadyQueueExact
  BY <1>1 DEF Queued, ReadySet, ReadyQueueExact
<1>3. TickListExact
  BY <1>1 DEF TickHolds, Sleepers, TickListExact
<1>4. Quiet => RunningIsReady
  BY DEF RunningIsReady, Quiet, ChosenReady, Decisive, Chosen, ReadySet
<1> QED
  BY <1>1, <1>2, <1>3, <1>4

(* The state keeps its types: no call, interrupt or switch stores a value  *)
(* outside of the type of its field.                                       *)
THEOREM TypeCorrect == Spec => []TypeOK
<1>1. IInv => TypeOK
  BY DEF IInv, Safe
<1> QED
  BY <1>1, InductiveInvariant, PTL

(* The queues, the bitmap and the cached best priority always describe the *)
(* ready tasks, whatever calls and interrupts come in whatever order.      *)
THEOREM QueueAlwaysExact == Spec => []ReadyQueueExact
<1>1. IInv => ReadyQueueExact
  BY SafeFacts DEF IInv
<1> QED
  BY <1>1, InductiveInvariant, PTL

(* The delta list always holds exactly the sleeping tasks.                 *)
THEOREM TickListAlwaysExact == Spec => []TickListExact
<1>1. IInv => TickListExact
  BY SafeFacts DEF IInv
<1> QED
  BY <1>1, InductiveInvariant, PTL

(* The scheduler never leaves the processor with a task that is not the    *)
(* first of the best ready ones once it has settled.                       *)
THEOREM HighestAlwaysRuns == Spec => []HighestRuns
<1>1. IInv => HighestRuns
  BY DEF IInv
<1> QED
  BY <1>1, InductiveInvariant, PTL

(* The processor is never with a task that has been suspended, put to      *)
(* sleep or destroyed, scheduler lock or not.                              *)
THEOREM RunningAlwaysReady == Spec => []RunningIsReady
<1>1. IInv => RunningIsReady
  BY SafeFacts DEF IInv
<1> QED
  BY <1>1, InductiveInvariant, PTL

----------------------------------------------------------------------------
(* Deadlines.  The kernel keeps distances, not deadlines: R is a choice of *)
(* the time each sleeper has left that the distances agree with.  What     *)
(* each operation of the kernel does to it.                                *)

(* What the delta list is made of, and what most operations leave alone.   *)
HasClock(k) == {"tick", "expires", "state"} \subseteq DOMAIN k /\ DOMAIN k.state = Task

SameClock(k, r) == /\ HasClock(r) /\ r.tick = k.tick /\ r.expires = k.expires
                   /\ \A u \in Task : IsSleeping(r, u) <=> IsSleeping(k, u)

LEMMA SameClockTwice ==
    ASSUME NEW a, NEW b, NEW c, SameClock(a, b), SameClock(b, c)
    PROVE  SameClock(a, c)
  BY DEF SameClock

LEMMA ClockItself == ASSUME NEW k, HasClock(k) PROVE SameClock(k, k)
  BY DEF SameClock

LEMMA AddedClock ==
    ASSUME NEW k, HasClock(k), NEW t
    PROVE  /\ SameClock(k, readyqueue_add_tail(k, t))
           /\ SameClock(k, readyqueue_add_head(k, t))
           /\ SameClock(k, readyqueue_add(k, t))
<1> DEFINE p  == k.prio[t]
           k1 == IF k.rdyq[p] = << >> THEN readyqueue_prio_mark(k, p) ELSE k
<1>1. SameClock(k, k1)
  BY DEF HasClock, SameClock, IsSleeping, readyqueue_prio_mark
<1>2. /\ readyqueue_add_tail(k, t) = [k1 EXCEPT !.rdyq[p] = Append(@, t)]
      /\ readyqueue_add_head(k, t) = [k1 EXCEPT !.rdyq[p] = <<t>> \o @]
  BY DEF readyqueue_add_tail, readyqueue_add_head
<1> HIDE DEF k1
<1>3. SameClock(k1, readyqueue_add_tail(k, t)) /\ SameClock(k1, readyqueue_add_head(k, t))
  BY <1>1, <1>2 DEF HasClock, SameClock, IsSleeping
<1> QED
  BY <1>1, <1>3, SameClockTwice DEF readyqueue_add

LEMMA RemovedClock ==
    ASSUME NEW k, HasClock(k), NEW t
    PROVE  SameClock(k, readyqueue_remove(k, t))
<1> DEFINE p  == k.prio[t]
           k1 == [k EXCEPT !.rdyq[p] = tos_list_del(@, t)]
           k2 == IF k1.rdyq[p] = << >> THEN [k1 EXCEPT !.mask = @ \ {p}] ELSE k1
           k3 == [k2 EXCEPT !.highest = readyqueue_prio_highest_get(k2)]
<1>1. readyqueue_remove(k, t) = IF t = Idle THEN k ELSE IF p = k2.highest THEN k3 ELSE k2
  BY DEF readyqueue_remove
<1>2. SameClock(k, k1)
  BY DEF HasClock, SameClock, IsSleeping
<1> HIDE DEF k1
<1>3. SameClock(k1, k2)
  BY <1>2 DEF HasClock, SameClock, IsSleeping
<1> HIDE DEF k2
<1>4. SameClock(k2, k3)
  BY <1>3 DEF HasClock, SameClock, IsSleeping
<1> HIDE DEF k3
<1> QED
  BY <1>1, <1>2, <1>3, <1>4, SameClockTwice, ClockItself

LEMMA PendClock ==
    ASSUME NEW k, HasClock(k), NEW t \in Task
    PROVE  /\ SameClock(k, pend_list_remove(k, t))
           /\ \A o : SameClock(k, pend_list_add(k, t, o))
  BY DEF HasClock, SameClock, IsSleeping, pend_list_remove, pend_list_add

LEMMA AdjustClock ==
    ASSUME NEW k, HasClock(k), NEW t \in Task
    PROVE  SameClock(k, pend_list_adjust(k, t))
<1> DEFINE o  == k.pendingObj[t]
           k1 == [k EXCEPT !.pend[o] = tos_list_del(@, t)]
<1>1. pend_list_adjust(k, t) = pend_list_add(k1, t, o)
  BY DEF pend_list_adjust
<1>2. SameClock(k, k1)
  BY DEF HasClock, SameClock, IsSleeping
<1>3. HasClock(k1)
  BY <1>2 DEF SameClock
<1> HIDE DEF k1, o
<1> QED
  BY <1>1, <1>2, <1>3, PendClock, SameClockTwice

LEMMA PriorityClock ==
    ASSUME NEW k, HasClock(k), NEW t \in Task, NEW new
    PROVE  SameClock(k, prio_assign(k, t, new))
<1> DEFINE waiting == task_highest_pending_prio_get(k, t)
           defer   == k.own[t] # << >> /\ new > waiting
           p       == IF defer THEN waiting ELSE new
           k1      == IF defer THEN [k EXCEPT !.prioPending[t] = new] ELSE k
           Moved(kk) == [kk EXCEPT !.prio[t] = p]
           rm      == readyqueue_remove(k1, t)
           k2      == Moved(rm)
           k3      == Moved(k1)
<1>1. prio_assign(k, t, new) \in {k, pend_list_adjust(k3, t), k3, k1,
                                  readyqueue_add_head(k2, t), readyqueue_add_tail(k2, t)}
  BY Zenon DEF prio_assign
<1>2. SameClock(k, k1)
  <2> HIDE DEF defer
  <2> QED
    BY DEF HasClock, SameClock, IsSleeping
<1> HIDE DEF k1, p
<1>3. HasClock(k1)
  BY <1>2 DEF SameClock
<1>4. SameClock(k1, rm)
  BY <1>3, RemovedClock
<1> HIDE DEF rm
<1>5. SameClock(k1, k3)
  BY <1>3 DEF HasClock, SameClock, IsSleeping
<1>6. SameClock(rm, k2)
  BY <1>4 DEF HasClock, SameClock, IsSleeping
<1> HIDE DEF k2, k3
<1>7. HasClock(k2) /\ HasClock(k3)
  BY <1>5, <1>6 DEF SameClock
<1>8. /\ SameClock(k3, pend_list_adjust(k3, t))
      /\ SameClock(k2, readyqueue_add_head(k2, t))
      /\ SameClock(k2, readyqueue_add_tail(k2, t))
  BY <1>7, AdjustClock, AddedClock
<1> QED
  BY <1>1, <1>2, <1>4, <1>5, <1>6, <1>8, SameClockTwice, ClockItself

LEMMA RobinClock == ASSUME NEW k, HasClock(k) PROVE SameClock(k, robin_sched(k))
<1> DEFINE p     == k.prio[k.curr]
           first == Head(k.rdyq[p])
           k1    == [k EXCEPT !.timeslice[first] = IF @ > 0 THEN @ - 1 ELSE 0]
           k2    == readyqueue_move_head_to_tail(k1, p)
           new   == Head(k2.rdyq[p])
           k3    == [k2 EXCEPT !.timeslice[new] =
                        IF k2.timesliceReload[new] = 0 THEN RobinDefault
                        ELSE k2.timesliceReload[new]]
<1>1. robin_sched(k) \in {k, k1, k3}
  BY Zenon DEF robin_sched
<1>2. SameClock(k, k1)
  BY DEF HasClock, SameClock, IsSleeping
<1> HIDE DEF k1
<1>3. SameClock(k1, k2)
  BY <1>2 DEF HasClock, SameClock, IsSleeping, readyqueue_move_head_to_tail
<1> HIDE DEF k2
<1>4. SameClock(k2, k3)
  BY <1>3 DEF HasClock, SameClock, IsSleeping
<1> HIDE DEF k3
<1> QED
  BY <1>1, <1>2, <1>3, <1>4, SameClockTwice, ClockItself

LEMMA SwitchClock ==
    ASSUME NEW k, HasClock(k)
    PROVE  /\ SameClock(k, switch_request(k)) /\ SameClock(k, knl_sched(k))
           /\ SameClock(k, irq_leave(k))
<1>1. \A q : HasClock(q) => SameClock(q, switch_request(q))
  BY DEF HasClock, SameClock, IsSleeping, switch_request
<1> DEFINE k1 == [k EXCEPT !.irqNest = @ - 1]
<1>2. SameClock(k, k1)
  BY DEF HasClock, SameClock, IsSleeping
<1>3. irq_leave(k) \in {k1, switch_request(k1)}
  BY DEF irq_leave
<1> HIDE DEF k1
<1>4. HasClock(k1)
  BY <1>2 DEF SameClock
<1> QED
  BY <1>1, <1>2, <1>3, <1>4, SameClockTwice, ClockItself DEF knl_sched

(* R gives the time each sleeper has still to sleep: along the delta list  *)
(* it grows by the distances.                                              *)
TimeAt(s, R, i) == IF i = 0 THEN 0 ELSE R[s[i]]
Due(s, e, R)    == \A i \in 1 .. Len(s) : R[s[i]] = TimeAt(s, R, i - 1) + e[s[i]]

Ticking(k, R) ==
    /\ HasClock(k) /\ k.tick \in Seq(Task) /\ k.expires \in [Task -> Nat]
    /\ TickHolds(k, Sleepers(k)) /\ Due(k.tick, k.expires, R)

SleepTimes == 1 .. TimeMax

LEMMA SameTicking ==
    ASSUME NEW k, NEW r, NEW R, Ticking(k, R), SameClock(k, r)
    PROVE  Ticking(r, R) /\ Sleepers(r) = Sleepers(k)
  BY DEF Ticking, SameClock, TickHolds, Sleepers

LEMMA OtherTimes ==
    ASSUME NEW k, NEW R, NEW Q, Ticking(k, R), \A u \in Sleepers(k) : Q[u] = R[u]
    PROVE  Ticking(k, Q)
<1>1. k.tick \in Seq(Task) /\ \A i \in 1 .. Len(k.tick) : k.tick[i] \in Sleepers(k)
  BY DEF Ticking, TickHolds, ToSet
<1>2. \A i \in 1 .. Len(k.tick) : Q[k.tick[i]] = R[k.tick[i]]
  BY <1>1
<1>3. \A i \in 1 .. Len(k.tick) : TimeAt(k.tick, Q, i - 1) = TimeAt(k.tick, R, i - 1)
  BY <1>1, <1>2 DEF TimeAt
<1> QED
  BY <1>2, <1>3 DEF Ticking, Due

LEMMA Ascending ==
    ASSUME NEW k, NEW R \in [Task -> Nat], Ticking(k, R),
           NEW i \in 1 .. Len(k.tick), NEW j \in i .. Len(k.tick)
    PROVE  R[k.tick[i]] <= R[k.tick[j]]
<1> DEFINE s == k.tick
           W == {d \in Nat : i + d <= Len(s) => R[s[i]] <= R[s[i + d]]}
<1>1. /\ s \in Seq(Task) /\ Len(s) \in Nat /\ \A n \in 1 .. Len(s) : s[n] \in Task
      /\ k.expires \in [Task -> Nat] /\ Due(s, k.expires, R)
  BY DEF Ticking
<1> HIDE DEF s
<1>2. 0 \in W
  BY <1>1
<1>3. ASSUME NEW d \in W PROVE d + 1 \in W
  <2> SUFFICES ASSUME i + (d + 1) <= Len(s) PROVE R[s[i]] <= R[s[i + (d + 1)]]
    OBVIOUS
  <2> DEFINE n == i + (d + 1)
  <2>1. n \in 1 .. Len(s) /\ n - 1 = i + d /\ n # 1 /\ n - 1 # 0 /\ i + d <= Len(s) /\ i + d \in 1 .. Len(s)
    BY <1>1 DEF s
  <2>2. R[s[n]] = R[s[n - 1]] + k.expires[s[n]]
    BY <1>1, <2>1 DEF Due, TimeAt
  <2>3. R[s[i]] <= R[s[i + d]]
    BY <2>1
  <2>4. s[n] \in Task /\ s[i + d] \in Task /\ s[i] \in Task
    BY <1>1, <2>1 DEF s
  <2> HIDE DEF n
  <2>5. R[s[i]] \in Nat /\ R[s[i + d]] \in Nat /\ R[s[n]] \in Nat /\ k.expires[s[n]] \in Nat
    BY <1>1, <2>4
  <2>6. R[s[i]] <= R[s[n]]
    BY <2>1, <2>2, <2>3, <2>5
  <2> QED
    BY <2>6 DEF n
<1>4. j - i \in Nat /\ i + (j - i) = j /\ j <= Len(s)
  BY <1>1 DEF s
<1>5. j - i \in W
  <2>1. W \in SUBSET Nat
    OBVIOUS
  <2> HIDE DEF W
  <2> QED
    BY <1>2, <1>3, <1>4, <2>1, NatInd
<1> QED
  BY <1>4, <1>5 DEF s

(* tick_task_place: nobody else's time changes.                            *)

LEMMA DueIsDeadline ==
    ASSUME NEW k \in KernelType, NEW R, Ticking(k, R), NEW i \in 0 .. Len(k.tick)
    PROVE  Deadlines(k)[i] = TimeAt(k.tick, R, i)
<1> DEFINE due == Deadlines(k)
           n   == Len(k.tick)
           W   == {m \in Nat : m <= n => due[m] = TimeAt(k.tick, R, m)}
<1>1. /\ due[0] = 0 /\ n \in Nat
      /\ \A m \in 1 .. n : /\ due[m] = due[m - 1] + k.expires[k.tick[m]]
                           /\ R[k.tick[m]] = TimeAt(k.tick, R, m - 1) + k.expires[k.tick[m]]
  BY DeadlinesAddUp DEF Ticking, Due
<1> HIDE DEF due, n
<1>2. 0 \in W
  BY <1>1 DEF TimeAt
<1>3. ASSUME NEW m \in W PROVE m + 1 \in W
  <2> SUFFICES ASSUME m + 1 <= n PROVE due[m + 1] = TimeAt(k.tick, R, m + 1)
    OBVIOUS
  <2>1. m + 1 \in 1 .. n /\ (m + 1) - 1 = m /\ m + 1 # 0 /\ m <= n
    BY <1>1
  <2>2. /\ due[m + 1] = due[m] + k.expires[k.tick[m + 1]]
        /\ R[k.tick[m + 1]] = TimeAt(k.tick, R, m) + k.expires[k.tick[m + 1]]
    BY <1>1, <2>1
  <2>3. due[m] = TimeAt(k.tick, R, m)
    BY <2>1
  <2>4. TimeAt(k.tick, R, m + 1) = R[k.tick[m + 1]]
    BY <2>1 DEF TimeAt
  <2> QED
    BY <2>2, <2>3, <2>4
<1>4. i \in W
  <2>1. W \in SUBSET Nat /\ i \in Nat
    BY <1>1
  <2> HIDE DEF W
  <2> QED
    BY <1>2, <1>3, <2>1, NatInd
<1> QED
  BY <1>1, <1>4 DEF due, n

LEMMA RemainingIs ==
    ASSUME NEW k \in KernelType, NEW R, Ticking(k, R), NEW t \in Sleepers(k)
    PROVE  Remaining(k, t) = R[t]
<1>1. k.tick \in Seq(Task) /\ t \in ToSet(k.tick)
  BY DEF Ticking, TickHolds
<1>2. PosOf(k.tick, t) \in 1 .. Len(k.tick) /\ k.tick[PosOf(k.tick, t)] = t
  BY <1>1, PosOfEntry
<1>3. PosOf(k.tick, t) \in 0 .. Len(k.tick) /\ PosOf(k.tick, t) # 0
  BY <1>1, <1>2
<1> QED
  BY <1>2, <1>3, DueIsDeadline DEF Remaining, TimeAt

LEMMA BehindPlace ==
    ASSUME NEW n \in Nat, NEW p \in 1 .. n + 1, NEW i \in 1 .. n + 1, i > p + 1
    PROVE  /\ i \in p + 1 .. n + 1 /\ i - 1 \in p + 1 .. n + 1
           /\ i - 1 \in 1 .. n /\ i - 1 # p
  OBVIOUS

(* A new sleeper is due after its delay, and nobody else's time changes.   *)
LEMMA PlaceDue ==
    ASSUME NEW k \in KernelType, NEW R \in [Task -> Nat], Ticking(k, R),
           NEW t \in Task \ Sleepers(k), NEW timeout \in Nat
    PROVE  LET r == tick_task_place(k, t, timeout)
           IN  Due(r.tick, r.expires, [R EXCEPT ![t] = timeout])
<1> DEFINE n   == Len(k.tick)
           due == Deadlines(k)
           Precedes(i) == \/ timeout < due[i]
                          \/ timeout = due[i] /\ k.prio[t] < k.prio[k.tick[i]]
           P   == {i \in DOMAIN k.tick : Precedes(i)} \cup {n + 1}
           p   == ListMin(P)
           delta == timeout - due[p - 1]
           shifted == IF p <= n THEN [k.expires EXCEPT ![k.tick[p]] = @ - delta] ELSE k.expires
           s == InsertAt(k.tick, p, t)
           e == [shifted EXCEPT ![t] = delta]
           Q == [R EXCEPT ![t] = timeout]
           At(i) == TimeAt(k.tick, R, i)
<1>1. /\ k.tick \in Seq(Task) /\ k.expires \in [Task -> Nat] /\ n \in Nat /\ DOMAIN k.tick = 1 .. n
      /\ IsInjective(k.tick) /\ ToSet(k.tick) = Sleepers(k)
      /\ Due(k.tick, k.expires, R)
  <2>1. k.tick \in Seq(Task)
    BY DEF Ticking
  <2> QED
    BY <2>1 DEF Ticking, TickHolds
<1>2. \A i \in 1 .. n : k.tick[i] \in Task /\ k.tick[i] # t
  BY <1>1 DEF ToSet
<1>3. \A i, j \in 1 .. n : k.tick[i] = k.tick[j] => i = j
  BY <1>1 DEF IsInjective
<1>4. \A i \in 0 .. n : due[i] = At(i)
  BY DueIsDeadline
<1>5. \A i \in 0 .. n : At(i) \in Nat
  BY <1>2 DEF TimeAt
<1>6. \A i \in 1 .. n : At(i) = At(i - 1) + k.expires[k.tick[i]] /\ At(i) = R[k.tick[i]]
  BY <1>1 DEF Due, TimeAt
<1>7. tick_task_place(k, t, timeout) = SetTick(k, s, e)
  BY DEF tick_task_place, SetTick
<1> HIDE DEF n, due
<1>8. P \subseteq 1 .. n + 1 /\ P \subseteq Nat /\ P # {}
  BY <1>1
<1> HIDE DEF P
<1>9. p \in 1 .. n + 1 /\ p - 1 \in 0 .. n
  <2>1. p \in P
    BY <1>8, ListMinLeast
  <2> HIDE DEF p
  <2> QED
    BY <1>1, <1>8, <2>1
<1> HIDE DEF p
<1>10. delta = timeout - At(p - 1) /\ At(p - 1) \in Nat /\ delta \in Int
  BY <1>4, <1>5, <1>9
<1> HIDE DEF delta
<1>11. /\ s \in Seq(Task) /\ Len(s) = n + 1 /\ s[p] = t
       /\ \A i \in 1 .. p - 1 : s[i] = k.tick[i]
       /\ \A i \in p + 1 .. n + 1 : s[i] = k.tick[i - 1]
  <2>1. k.tick \in Seq(Task) /\ t \in Task /\ p \in 1 .. Len(k.tick) + 1
    BY <1>1, <1>9 DEF n
  <2>2. /\ InsertAt(k.tick, p, t) \in Seq(Task)
        /\ Len(InsertAt(k.tick, p, t)) = Len(k.tick) + 1
        /\ \A i \in 1 .. p - 1 : InsertAt(k.tick, p, t)[i] = k.tick[i]
        /\ InsertAt(k.tick, p, t)[p] = t
        /\ \A i \in p + 1 .. Len(k.tick) + 1 : InsertAt(k.tick, p, t)[i] = k.tick[i - 1]
    <3> DEFINE L == k.tick
    <3> HIDE DEF L
    <3>1. L \in Seq(Task) /\ t \in Task /\ p \in 1 .. Len(L) + 1
      BY <2>1 DEF L
    <3>2. /\ InsertAt(L, p, t) \in Seq(Task)
          /\ Len(InsertAt(L, p, t)) = Len(L) + 1
          /\ \A i \in 1 .. p - 1 : InsertAt(L, p, t)[i] = L[i]
          /\ InsertAt(L, p, t)[p] = t
          /\ \A i \in p + 1 .. Len(L) + 1 : InsertAt(L, p, t)[i] = L[i - 1]
      BY <3>1, InsertEntry
    <3> QED
      BY <3>2 DEF L
  <2> QED
    BY <2>2 DEF n
<1> HIDE DEF s
<1>12. /\ \A i \in 1 .. n : i # p => e[k.tick[i]] = k.expires[k.tick[i]]
       /\ p <= n => e[k.tick[p]] = k.expires[k.tick[p]] - delta
       /\ e[t] = delta
  <2>1. shifted \in [Task -> Int] /\ DOMAIN shifted = Task
    BY <1>1, <1>2, <1>9, <1>10
  <2>2. \A i \in 1 .. n : i # p => shifted[k.tick[i]] = k.expires[k.tick[i]]
    <3>1. CASE p <= n
      <4>1. p \in 1 .. n /\ shifted = [k.expires EXCEPT ![k.tick[p]] = @ - delta]
        BY <1>1, <1>9, <3>1
      <4> HIDE DEF shifted
      <4>2. \A i \in 1 .. n : i # p => k.tick[i] # k.tick[p]
        BY <1>3, <4>1
      <4> QED
        BY <1>1, <1>2, <4>1, <4>2
    <3>2. CASE ~(p <= n)
      BY <3>2
    <3> QED
      BY <3>1, <3>2
  <2>3. p <= n => shifted[k.tick[p]] = k.expires[k.tick[p]] - delta
    BY <1>1, <1>2, <1>9
  <2> HIDE DEF shifted
  <2> QED
    BY <1>2, <1>9, <2>1, <2>2, <2>3
<1> HIDE DEF e
<1>13. \A u \in Task : Q[u] = IF u = t THEN timeout ELSE R[u]
  OBVIOUS
<1> HIDE DEF Q
<1>14. \A i \in 1 .. n : Q[k.tick[i]] = At(i)
  BY <1>2, <1>6, <1>13
<1>15. /\ \A i \in 0 .. p - 1 : TimeAt(s, Q, i) = At(i)
       /\ TimeAt(s, Q, p) = timeout
       /\ \A i \in p + 1 .. n + 1 : TimeAt(s, Q, i) = At(i - 1)
  <2>1. ASSUME NEW i \in 0 .. p - 1 PROVE TimeAt(s, Q, i) = At(i)
    <3>1. CASE i = 0
      BY <3>1 DEF TimeAt
    <3>2. CASE i # 0
      <4>1. i \in 1 .. n /\ i \in 1 .. p - 1
        BY <1>1, <1>9, <3>2
      <4>2. TimeAt(s, Q, i) = Q[k.tick[i]]
        BY <1>11, <3>2, <4>1 DEF TimeAt
      <4> QED
        BY <1>14, <4>1, <4>2
    <3> QED
      BY <3>1, <3>2
  <2>2. TimeAt(s, Q, p) = timeout
    BY <1>9, <1>11, <1>13 DEF TimeAt
  <2>3. ASSUME NEW i \in p + 1 .. n + 1 PROVE TimeAt(s, Q, i) = At(i - 1)
    <3>1. i - 1 \in 1 .. n /\ i # 0
      BY <1>1, <1>9
    <3>2. TimeAt(s, Q, i) = Q[k.tick[i - 1]]
      BY <1>11, <3>1 DEF TimeAt
    <3> QED
      BY <1>14, <3>1, <3>2
  <2> QED
    BY <2>1, <2>2, <2>3
<1>16. ASSUME NEW i \in 1 .. n + 1
       PROVE  TimeAt(s, Q, i) = TimeAt(s, Q, i - 1) + e[s[i]]
  <2> HIDE DEF At
  <2>1. CASE i < p
    <3>1. i \in 0 .. p - 1 /\ i - 1 \in 0 .. p - 1 /\ i \in 1 .. p - 1 /\ i \in 1 .. n /\ i # p
      BY <1>1, <1>9, <2>1
    <3> QED
      BY <1>6, <1>11, <1>12, <1>15, <3>1
  <2>2. CASE i = p
    <3>1. p - 1 \in 0 .. p - 1
      BY <1>9
    <3> QED
      BY <1>10, <1>11, <1>12, <1>15, <2>2, <3>1
  <2>3. CASE i = p + 1
    <3>1. p \in 1 .. n /\ i \in p + 1 .. n + 1 /\ i - 1 = p /\ p <= n
      BY <1>1, <1>9, <2>3
    <3>2. At(p) = At(p - 1) + k.expires[k.tick[p]] /\ e[s[i]] = k.expires[k.tick[p]] - delta
      BY <1>6, <1>11, <1>12, <3>1
    <3>3. k.expires[k.tick[p]] \in Nat
      BY <1>1, <1>2, <3>1
    <3>4. TimeAt(s, Q, i) = At(p) /\ TimeAt(s, Q, i - 1) = timeout
      BY <1>15, <3>1
    <3> QED
      BY <1>10, <3>2, <3>3, <3>4
  <2>4. CASE i > p + 1
    <3>1. /\ i \in p + 1 .. n + 1 /\ i - 1 \in p + 1 .. n + 1 /\ i - 1 \in 1 .. n /\ i - 1 # p
      BY <1>1, <1>9, <2>4, BehindPlace
    <3>2. At(i - 1) = At((i - 1) - 1) + k.expires[k.tick[i - 1]]
      BY <1>6, <3>1
    <3>3. e[s[i]] = k.expires[k.tick[i - 1]]
      BY <1>11, <1>12, <3>1
    <3> QED
      BY <1>15, <3>1, <3>2, <3>3
  <2> QED
    BY <1>1, <1>9, <2>1, <2>2, <2>3, <2>4
<1>17. Due(s, e, Q)
  <2>1. \A i \in 1 .. n + 1 : TimeAt(s, Q, i) = Q[s[i]]
    BY <1>1 DEF TimeAt
  <2> QED
    BY <1>11, <1>16, <2>1 DEF Due
<1>18. SetTick(k, s, e).tick = s /\ SetTick(k, s, e).expires = e
  BY DEF SetTick, KernelType
<1> QED
  BY <1>7, <1>17, <1>18 DEF Q

(* tick_list_add and tick_list_remove on the clock.                        *)
LEMMA SleepTicks ==
    ASSUME NEW k \in KernelType, NEW R \in [Task -> Nat], Ticking(k, R),
           NEW t \in Task \ Sleepers(k), NEW timeout \in Nat
    PROVE  LET r == tick_list_add(k, t, timeout)
           IN  Ticking(r, [R EXCEPT ![t] = timeout]) /\ Sleepers(r) = Sleepers(k) \cup {t}
<1> DEFINE a == tick_task_place(k, t, timeout)
           r == tick_list_add(k, t, timeout)
           S == Sleepers(k)
<1>1. TickHolds(k, S) /\ S \in SUBSET Task
  BY DEF Ticking, Sleepers
<1>2. a \in KernelType /\ TickHolds(a, S \cup {t}) /\ SameTasks(k, a)
  BY <1>1, PlaceInTickList
<1>3. Due(a.tick, a.expires, [R EXCEPT ![t] = timeout])
  BY PlaceDue
<1>4. r = SetState(a, t, a.state[t] \cup {"SLEEP"})
  BY DEF tick_list_add, SetState
<1> HIDE DEF a, r
<1>5. HasClock(r) /\ r.tick = a.tick /\ r.expires = a.expires
      /\ r.state = [a.state EXCEPT ![t] = @ \cup {"SLEEP"}]
  BY <1>2, <1>4 DEF HasClock, SetState, KernelType
<1>6. a.state = k.state /\ a.state \in [Task -> SUBSET Flags]
      /\ a.tick \in Seq(Task) /\ a.expires \in [Task -> Nat]
  BY <1>2 DEF SameTasks, KernelType
<1>7. Sleepers(r) = S \cup {t}
  BY <1>5, <1>6 DEF Sleepers, IsSleeping, S
<1> QED
  BY <1>2, <1>3, <1>5, <1>6, <1>7 DEF Ticking, TickHolds, r, S

(* The next sleeper inherits the distance: its sum is the time between two *)
(* deadlines, which no timeout exceeds, so it never saturates.             *)
LEMMA TakeDue ==
    ASSUME NEW k, NEW R \in [Task -> 0 .. TimeMax], Ticking(k, R), NEW t \in Sleepers(k)
    PROVE  LET r == tick_task_takeoff(k, t)
           IN  /\ Due(r.tick, r.expires, R) /\ r.expires \in [Task -> Nat]
               /\ r.tick = tos_list_del(k.tick, t) /\ r.state = k.state /\ HasClock(r)
<1> DEFINE L    == k.tick
           n    == Len(L)
           p    == PosOf(L, t)
           left == [k.expires EXCEPT ![t] = 0]
           sum  == k.expires[L[p + 1]] + k.expires[t]
           s    == RemoveAt(L, p)
           e    == IF p < n
                   THEN [left EXCEPT ![L[p + 1]] = IF sum <= TimeMax THEN sum ELSE TimeMax]
                   ELSE left
           r    == tick_task_takeoff(k, t)
           At(i) == TimeAt(L, R, i)
<1>1. r.tick = s /\ r.expires = e /\ r.state = k.state /\ HasClock(r)
      /\ tos_list_del(k.tick, t) = s
  BY DEF tick_task_takeoff, tos_list_del, Ticking, HasClock
<1> HIDE DEF r
<1>2. /\ L \in Seq(Task) /\ k.expires \in [Task -> Nat]
      /\ IsInjective(L) /\ t \in ToSet(L) /\ t \in Task /\ Due(L, k.expires, R)
  BY DEF Ticking, TickHolds, Sleepers
<1> HIDE DEF L
<1>3. n \in Nat /\ p \in 1 .. n /\ L[p] = t
  BY <1>2, PosOfEntry
<1>4. \A i, j \in 1 .. n : L[i] = L[j] => i = j
  BY <1>2 DEF IsInjective
<1>5. \A i \in 1 .. n : L[i] \in Task /\ At(i) = R[L[i]] /\ At(i) = At(i - 1) + k.expires[L[i]]
  BY <1>2 DEF TimeAt, Due
<1>6. \A i \in 0 .. n : At(i) \in 0 .. TimeMax
  BY <1>3, <1>5, TimeAssumption DEF TimeAt
<1>7. s \in Seq(Task) /\ Len(s) = n - 1
      /\ \A i \in 1 .. n - 1 : s[i] = IF i < p THEN L[i] ELSE L[i + 1]
  BY <1>2, <1>3, RemoveEntry
<1> HIDE DEF s, p, n, At
<1>8. p < n => p + 1 \in 1 .. n /\ sum = At(p + 1) - At(p - 1) /\ sum \in 0 .. TimeMax
  <2> SUFFICES ASSUME p < n
               PROVE  p + 1 \in 1 .. n /\ sum = At(p + 1) - At(p - 1) /\ sum \in 0 .. TimeMax
    OBVIOUS
  <2>1. p + 1 \in 1 .. n /\ p \in 1 .. n /\ p - 1 \in 0 .. n /\ p + 1 \in 0 .. n /\ (p + 1) - 1 = p
    BY <1>3
  <2>2. /\ At(p + 1) = At(p) + k.expires[L[p + 1]]
        /\ At(p) = At(p - 1) + k.expires[t]
    BY <1>3, <1>5, <2>1
  <2>3. k.expires[L[p + 1]] \in Nat /\ k.expires[t] \in Nat
    BY <1>2, <1>5, <2>1
  <2>4. At(p + 1) \in 0 .. TimeMax /\ At(p - 1) \in 0 .. TimeMax /\ At(p) \in 0 .. TimeMax
    BY <1>3, <1>6, <2>1
  <2> HIDE DEF At
  <2> QED
    BY <2>1, <2>2, <2>3, <2>4, TimeAssumption
<1> HIDE DEF sum
<1>9. /\ e \in [Task -> Nat]
      /\ \A i \in 1 .. n : i # p /\ i # p + 1 => e[L[i]] = k.expires[L[i]]
      /\ p < n => e[L[p + 1]] = At(p + 1) - At(p - 1)
  <2>1. left \in [Task -> Nat] /\ \A i \in 1 .. n : i # p => left[L[i]] = k.expires[L[i]]
    BY <1>2, <1>3, <1>4, <1>5
  <2> HIDE DEF left
  <2>2. CASE p < n
    <3>1. e = [left EXCEPT ![L[p + 1]] = sum] /\ sum \in Nat /\ L[p + 1] \in Task
      BY <1>5, <1>8, <2>2, TimeAssumption
    <3>2. \A i \in 1 .. n : i # p + 1 => L[i] # L[p + 1]
      BY <1>4, <1>8, <2>2
    <3> HIDE DEF e
    <3> QED
      BY <1>5, <1>8, <2>1, <2>2, <3>1, <3>2
  <2>3. CASE ~(p < n)
    BY <2>1, <2>3
  <2> QED
    BY <2>2, <2>3
<1> HIDE DEF e
<1>10. \A i \in 0 .. n - 1 : TimeAt(s, R, i) = IF i < p THEN At(i) ELSE At(i + 1)
  <2> SUFFICES ASSUME NEW i \in 0 .. n - 1
               PROVE  TimeAt(s, R, i) = IF i < p THEN At(i) ELSE At(i + 1)
    OBVIOUS
  <2>1. CASE i = 0
    BY <1>3, <2>1 DEF TimeAt, At
  <2>2. CASE i # 0
    <3>1. i \in 1 .. n - 1 /\ i \in 1 .. n /\ i + 1 \in 1 .. n
      BY <1>3, <2>2
    <3>2. TimeAt(s, R, i) = R[s[i]] /\ s[i] = IF i < p THEN L[i] ELSE L[i + 1]
      BY <1>7, <2>2, <3>1 DEF TimeAt
    <3> QED
      BY <1>5, <3>1, <3>2
  <2> QED
    BY <2>1, <2>2
<1>11. ASSUME NEW i \in 1 .. n - 1
       PROVE  TimeAt(s, R, i) = TimeAt(s, R, i - 1) + e[s[i]]
  <2>0. i \in 0 .. n - 1 /\ i - 1 \in 0 .. n - 1
    BY <1>3
  <2>1. CASE i < p
    <3>1. i \in 1 .. n /\ i # p /\ i # p + 1 /\ i - 1 < p
      BY <1>3, <2>1
    <3> QED
      BY <1>5, <1>7, <1>9, <1>10, <2>0, <2>1, <3>1
  <2>2. CASE i = p
    <3>1. p < n /\ i - 1 < p /\ ~(i < p)
      BY <1>3, <2>2
    <3>2. TimeAt(s, R, i) = At(p + 1) /\ TimeAt(s, R, i - 1) = At(p - 1) /\ s[i] = L[p + 1]
      BY <1>7, <1>10, <2>0, <2>2, <3>1
    <3>3. At(p + 1) \in Nat /\ At(p - 1) \in Nat
      BY <1>3, <1>6, <1>8, <3>1
    <3> QED
      BY <1>9, <3>1, <3>2, <3>3
  <2>3. CASE i > p
    <3>1. i + 1 \in 1 .. n /\ i + 1 # p /\ i + 1 # p + 1 /\ ~(i - 1 < p) /\ ~(i < p)
          /\ (i - 1) + 1 = i /\ (i + 1) - 1 = i
      BY <1>3, <2>3
    <3>2. TimeAt(s, R, i) = At(i + 1) /\ TimeAt(s, R, i - 1) = At(i) /\ s[i] = L[i + 1]
      BY <1>7, <1>10, <2>0, <3>1
    <3>3. At(i + 1) = At(i) + k.expires[L[i + 1]] /\ e[L[i + 1]] = k.expires[L[i + 1]]
      BY <1>5, <1>9, <3>1
    <3> QED
      BY <3>2, <3>3
  <2> QED
    BY <1>3, <2>1, <2>2, <2>3
<1>12. Due(s, e, R)
  <2>1. \A i \in 1 .. n - 1 : TimeAt(s, R, i) = R[s[i]]
    BY <1>3 DEF TimeAt
  <2> QED
    BY <1>7, <1>11, <2>1 DEF Due
<1> QED
  BY <1>1, <1>9, <1>12 DEF r

LEMMA WakeTicks ==
    ASSUME NEW k, NEW R \in [Task -> 0 .. TimeMax], Ticking(k, R), NEW t \in Sleepers(k)
    PROVE  LET r == tick_list_remove(k, t)
           IN  Ticking(r, R) /\ Sleepers(r) = Sleepers(k) \ {t}
<1> DEFINE a == tick_task_takeoff(k, t)
           r == tick_list_remove(k, t)
           S == Sleepers(k)
<1>1. /\ Due(a.tick, a.expires, R) /\ a.expires \in [Task -> Nat]
      /\ a.tick = tos_list_del(k.tick, t) /\ a.state = k.state /\ HasClock(a)
  BY TakeDue
<1>2. k.tick \in Seq(Task) /\ IsInjective(k.tick) /\ ToSet(k.tick) = S /\ t \in S /\ t \in Task
  BY DEF Ticking, TickHolds, Sleepers
<1>3. r = [a EXCEPT !.state[t] = @ \ {"SLEEP"}]
  BY DEF tick_list_remove
<1> HIDE DEF a, r
<1>4. HasClock(r) /\ r.tick = a.tick /\ r.expires = a.expires
      /\ r.state = [k.state EXCEPT ![t] = @ \ {"SLEEP"}]
  BY <1>1, <1>3 DEF HasClock
<1>5. Sleepers(r) = S \ {t}
  BY <1>1, <1>2, <1>4 DEF Sleepers, IsSleeping, HasClock
<1>6. /\ tos_list_del(k.tick, t) \in Seq(Task) /\ IsInjective(tos_list_del(k.tick, t))
      /\ ToSet(tos_list_del(k.tick, t)) = S \ {t}
  BY <1>2, RemoveKeepsList
<1> QED
  BY <1>1, <1>4, <1>5, <1>6 DEF Ticking, TickHolds, r, S

LEMMA ClockFacts ==
    ASSUME NEW k, NEW R, Ticking(k, R)
    PROVE  /\ HasClock(k) /\ k.tick \in Seq(Task) /\ k.expires \in [Task -> Nat]
           /\ IsInjective(k.tick) /\ ToSet(k.tick) = Sleepers(k) /\ Sleepers(k) \in SUBSET Task
           /\ \A i \in 1 .. Len(k.tick) : k.tick[i] \in Sleepers(k)
           /\ \A u \in Sleepers(k) : \E i \in 1 .. Len(k.tick) : u = k.tick[i]
<1>1. k.tick \in Seq(Task) /\ k.expires \in [Task -> Nat] /\ HasClock(k)
      /\ IsInjective(k.tick) /\ ToSet(k.tick) = Sleepers(k) /\ Sleepers(k) \in SUBSET Task
  BY DEF Ticking, TickHolds, Sleepers
<1>2. \A u : u \in ToSet(k.tick) <=> \E i \in 1 .. Len(k.tick) : u = k.tick[i]
  BY <1>1 DEF ToSet
<1> QED
  BY <1>1, <1>2

LEMMA DropTicks ==
    ASSUME NEW k, NEW R \in [Task -> 0 .. TimeMax], Ticking(k, R), NEW t \in Task
    PROVE  LET r == IF IsSleeping(k, t) THEN tick_list_remove(k, t) ELSE k
           IN  Ticking(r, R) /\ Sleepers(r) = Sleepers(k) \ {t}
<1>1. t \in Sleepers(k) <=> IsSleeping(k, t)
  BY DEF Sleepers
<1>2. CASE IsSleeping(k, t)
  BY <1>1, <1>2, WakeTicks
<1>3. CASE ~IsSleeping(k, t)
  BY <1>1, <1>3
<1> QED
  BY <1>2, <1>3

(* pend_task_wakeup takes its task from the clock and disturbs nobody.     *)
LEMMA WakeUpTicks ==
    ASSUME NEW k, NEW R \in [Task -> 0 .. TimeMax], Ticking(k, R), NEW t \in Task, NEW st
    PROVE  LET r == pend_task_wakeup(k, t, st)
           IN  Ticking(r, R) /\ Sleepers(r) = Sleepers(k) \ {t}
<1> DEFINE k0 == [k EXCEPT !.pendState[t] = st]
           k1 == IF IsPending(k, t) THEN pend_list_remove(k0, t) ELSE k
           k2 == IF IsSleeping(k1, t) THEN tick_list_remove(k1, t) ELSE k1
           r  == pend_task_wakeup(k, t, st)
<1>1. r = IF IsSuspended(k2, t) THEN k2 ELSE readyqueue_add(k2, t)
  BY DEF pend_task_wakeup
<1> HIDE DEF r
<1>2. HasClock(k)
  BY ClockFacts
<1>3. SameClock(k, k0)
  BY <1>2 DEF HasClock, SameClock, IsSleeping
<1> HIDE DEF k0
<1>4. SameClock(k, k1)
  <2>1. HasClock(k0)
    BY <1>3 DEF SameClock
  <2>2. SameClock(k0, pend_list_remove(k0, t))
    BY <2>1, PendClock
  <2> QED
    BY <1>2, <1>3, <2>2, SameClockTwice, ClockItself
<1> HIDE DEF k1
<1>5. Ticking(k1, R) /\ Sleepers(k1) = Sleepers(k)
  BY <1>4, SameTicking
<1>6. Ticking(k2, R) /\ Sleepers(k2) = Sleepers(k) \ {t}
  BY <1>5, DropTicks
<1> HIDE DEF k2
<1>7. HasClock(k2)
  BY <1>6, ClockFacts
<1>8. SameClock(k2, r)
  BY <1>1, <1>7, AddedClock, ClockItself
<1> QED
  BY <1>6, <1>8, SameTicking DEF r

LEMMA WakeThoseTicks ==
    ASSUME NEW k, NEW R \in [Task -> 0 .. TimeMax], Ticking(k, R), NEW ts \in Seq(Task), NEW C,
           NEW st
    PROVE  LET r == wakeup_those(k, ts, C, st)
           IN  Ticking(r, R) /\ Sleepers(r) = Sleepers(k) \ (ToSet(ts) \cap C)
<1>1. PICK f : Loops(f, k, ts, C, st) /\ wakeup_those(k, ts, C, st) = f[Len(ts)]
  BY WakeThoseUnfolds
<1> DEFINE n    == Len(ts)
           A(m) == {ts[i] : i \in 1 .. m} \cap C
           Done(m) == Ticking(f[m], R) /\ Sleepers(f[m]) = Sleepers(k) \ A(m)
           W == {m \in Nat : m <= n => Done(m)}
<1>2. n \in Nat /\ \A i \in 1 .. n : ts[i] \in Task
  OBVIOUS
<1>3. A(n) = ToSet(ts) \cap C
  BY DEF ToSet
<1>4. /\ f[0] = k
      /\ \A i \in 1 .. n :
            f[i] = IF ts[i] \in C THEN pend_task_wakeup(f[i - 1], ts[i], st) ELSE f[i - 1]
  BY <1>1 DEF Loops
<1> HIDE DEF n
<1>5. 0 \in W
  <2>1. A(0) = {}
    OBVIOUS
  <2>2. Done(0)
    BY <1>4, <2>1
  <2> HIDE DEF Done
  <2> QED
    BY <2>2
<1>6. ASSUME NEW m \in W PROVE m + 1 \in W
  <2> SUFFICES ASSUME m + 1 <= n PROVE Done(m + 1)
    OBVIOUS
  <2>1. m \in Nat /\ m + 1 \in 1 .. n /\ (m + 1) - 1 = m
    BY <1>2
  <2>2. Done(m)
    BY <1>2, <2>1
  <2> DEFINE t == ts[m + 1]
             r == f[m + 1]
             q == f[m]
             B == A(m)
  <2>3. A(m + 1) = IF t \in C THEN B \cup {t} ELSE B
    <3>1. \A i : i \in 1 .. m + 1 <=> i \in 1 .. m \/ i = m + 1
      BY <2>1
    <3> QED
      BY <3>1
  <2>4. r = IF t \in C THEN pend_task_wakeup(q, t, st) ELSE q
    BY <1>4, <2>1
  <2>5. t \in Task /\ Ticking(q, R) /\ Sleepers(q) = Sleepers(k) \ B
    BY <1>2, <2>1, <2>2
  <2> HIDE DEF t, r, q, A, B
  <2>6. Ticking(r, R) /\ Sleepers(r) = Sleepers(k) \ A(m + 1)
    <3>1. CASE t \in C
      <4>1. r = pend_task_wakeup(q, t, st) /\ A(m + 1) = B \cup {t}
        BY <2>3, <2>4, <3>1
      <4>2. Ticking(r, R) /\ Sleepers(r) = Sleepers(q) \ {t}
        BY <2>5, <4>1, WakeUpTicks
      <4> QED
        BY <2>5, <4>1, <4>2
    <3>2. CASE t \notin C
      BY <2>3, <2>4, <2>5, <3>2
    <3> QED
      BY <3>1, <3>2
  <2> QED
    BY <2>6 DEF r
<1>7. Done(n)
  <2>1. W \in SUBSET Nat /\ n <= n
    BY <1>2
  <2>2. n \in W
    <3> HIDE DEF W
    <3> QED
      BY <1>2, <1>5, <1>6, <2>1, NatInd
  <2> HIDE DEF Done
  <2> QED
    BY <2>1, <2>2
<1> QED
  BY <1>1, <1>3, <1>7 DEF n

(* The first distance shrinks: every deadline is d ticks closer.           *)
LEMMA ElapseTicks ==
    ASSUME NEW k, NEW R \in [Task -> SleepTimes], Ticking(k, R), k.tick # << >>,
           NEW d \in Nat, d <= k.expires[Head(k.tick)]
    PROVE  LET Q == [u \in Task |-> IF u \in Sleepers(k) THEN R[u] - d ELSE 0]
           IN  /\ \A u \in Sleepers(k) : k.expires[Head(k.tick)] <= R[u] /\ d <= R[u]
               /\ Q \in [Task -> 0 .. TimeMax]
               /\ Ticking(Elapse(k, d), Q) /\ Sleepers(Elapse(k, d)) = Sleepers(k)
               /\ Elapse(k, d).tick = k.tick
<1> DEFINE Q  == [u \in Task |-> IF u \in Sleepers(k) THEN R[u] - d ELSE 0]
           k1 == Elapse(k, d)
           S  == Sleepers(k)
           L  == k.tick
           n  == Len(L)
           x  == L[1]
           e  == k1.expires
<1>1. /\ HasClock(k) /\ L \in Seq(Task) /\ k.expires \in [Task -> Nat]
      /\ IsInjective(L) /\ ToSet(L) = S /\ S \in SUBSET Task
      /\ \A i \in 1 .. Len(L) : L[i] \in S
      /\ \A u \in S : \E i \in 1 .. Len(L) : u = L[i]
  BY ClockFacts
<1>2. Head(L) = x /\ n \in Nat /\ 1 \in 1 .. n /\ x \in S
  BY <1>1
<1>3. Due(L, k.expires, R) /\ R[x] = k.expires[x]
  <2>1. Due(L, k.expires, R)
    BY DEF Ticking
  <2>2. x \in Task
    BY <1>1, <1>2
  <2>3. R[x] = 0 + k.expires[x]
    BY <1>2, <2>1 DEF Due, TimeAt
  <2> QED
    BY <1>1, <2>1, <2>2, <2>3
<1>4. R \in [Task -> Nat]
  BY TimeAssumption DEF SleepTimes
<1>5. \A u \in S : R[x] <= R[u] /\ d <= R[u] /\ R[u] \in Nat /\ R[u] <= TimeMax
  <2> SUFFICES ASSUME NEW u \in S PROVE R[x] <= R[u] /\ d <= R[u] /\ R[u] \in Nat /\ R[u] <= TimeMax
    OBVIOUS
  <2>1. PICK i \in 1 .. n : u = L[i]
    BY <1>1
  <2>2. i \in 1 .. n /\ i \in 1 .. Len(k.tick) /\ 1 \in 1 .. Len(k.tick)
    BY <1>2, <2>1
  <2>3. R[x] <= R[u]
    BY <1>4, <2>1, <2>2, Ascending
  <2>4. R[x] \in Nat /\ R[u] \in SleepTimes /\ TimeMax \in Nat
    BY <1>1, <1>2, <1>4, TimeAssumption
  <2> QED
    BY <1>2, <1>3, <2>3, <2>4 DEF SleepTimes
<1>6. Q \in [Task -> 0 .. TimeMax]
  <2>1. \A u \in S : R[u] - d \in 0 .. TimeMax
    BY <1>5, TimeAssumption
  <2>2. 0 \in 0 .. TimeMax
    BY TimeAssumption
  <2> QED
    BY <2>1, <2>2
<1>7. /\ HasClock(k1) /\ k1.tick = L /\ k1.state = k.state
      /\ e = [k.expires EXCEPT ![x] = IF @ <= d THEN 0 ELSE @ - d]
  BY <1>1, <1>2 DEF Elapse, HasClock
<1>8. e \in [Task -> Nat] /\ e[x] = k.expires[x] - d
      /\ \A u \in S : u # x => e[u] = k.expires[u]
  <2>1. k.expires[x] \in Nat /\ x \in Task /\ d <= k.expires[x]
    BY <1>1, <1>2
  <2> HIDE DEF e
  <2> QED
    BY <1>1, <1>7, <2>1
<1>9. Due(L, e, Q)
  <2> SUFFICES ASSUME NEW i \in 1 .. n PROVE Q[L[i]] = TimeAt(L, Q, i - 1) + e[L[i]]
    BY DEF Due
  <2>1. \A u \in S : Q[u] = R[u] - d
    BY <1>1
  <2> HIDE DEF Q, e, S, x
  <2>2. R[L[i]] = TimeAt(L, R, i - 1) + k.expires[L[i]]
    BY <1>3 DEF Due
  <2>3. CASE i = 1
    <3>1. TimeAt(L, Q, i - 1) = 0
      BY <2>3 DEF TimeAt
    <3>2. L[i] = x
      BY <2>3 DEF x
    <3>3. Q[x] = R[x] - d /\ k.expires[x] \in Nat
      BY <1>1, <1>2, <2>1
    <3> QED
      BY <1>3, <1>8, <3>1, <3>2, <3>3
  <2>4. CASE i # 1
    <3>1. i - 1 \in 1 .. n /\ i - 1 # 0 /\ i \in 1 .. n
      BY <1>2, <2>4
    <3>2. L[i] # x
      BY <1>1, <1>2, <2>4 DEF IsInjective, x
    <3>3. L[i] \in S /\ L[i - 1] \in S
      BY <1>1, <3>1
    <3>4. e[L[i]] = k.expires[L[i]] /\ Q[L[i]] = R[L[i]] - d /\ Q[L[i - 1]] = R[L[i - 1]] - d
      BY <1>8, <2>1, <3>2, <3>3
    <3>5. TimeAt(L, Q, i - 1) = Q[L[i - 1]] /\ TimeAt(L, R, i - 1) = R[L[i - 1]]
      BY <3>1 DEF TimeAt
    <3>6. R[L[i]] \in Nat /\ R[L[i - 1]] \in Nat /\ k.expires[L[i]] \in Nat
      BY <1>1, <1>5, <3>3
    <3> QED
      BY <2>2, <3>4, <3>5, <3>6
  <2> QED
    BY <2>3, <2>4
<1>10. Sleepers(k1) = S
  BY <1>7 DEF Sleepers, IsSleeping
<1> HIDE DEF k1
<1>11. Ticking(k1, Q)
  <2> HIDE DEF Q
  <2> QED
    BY <1>1, <1>7, <1>8, <1>9, <1>10 DEF Ticking, TickHolds, e, L, S
<1>12. \A u \in S : k.expires[Head(k.tick)] <= R[u]
  BY <1>2, <1>3, <1>5
<1> QED
  BY <1>5, <1>6, <1>7, <1>10, <1>11, <1>12 DEF k1

After(R, d) == [u \in Task |-> IF d < R[u] THEN R[u] - d ELSE 1]

LEMMA TimesAfter ==
    ASSUME NEW R \in [Task -> SleepTimes], NEW d \in Nat
    PROVE  After(R, d) \in [Task -> SleepTimes]
<1>1. \A u \in Task : R[u] \in SleepTimes
  OBVIOUS
<1>2. \A u \in Task : (IF d < R[u] THEN R[u] - d ELSE 1) \in SleepTimes
  BY <1>1, TimeAssumption DEF SleepTimes
<1> QED
  BY <1>2 DEF After

(* Up to the first distance that is not zero, all are due.                 *)
LEMMA DueNow ==
    ASSUME NEW k, NEW Q, Ticking(k, Q), NEW p \in 0 .. Len(k.tick),
           \A i \in 1 .. p : k.expires[k.tick[i]] = 0,
           NEW i \in 1 .. p
    PROVE  Q[k.tick[i]] = 0
<1> DEFINE W == {m \in Nat : m <= p => TimeAt(k.tick, Q, m) = 0}
<1>1. Len(k.tick) \in Nat /\ Due(k.tick, k.expires, Q)
  BY DEF Ticking
<1>2. 0 \in W
  BY DEF TimeAt
<1>3. ASSUME NEW m \in W PROVE m + 1 \in W
  <2> SUFFICES ASSUME m + 1 <= p PROVE TimeAt(k.tick, Q, m + 1) = 0
    OBVIOUS
  <2>1. /\ m + 1 \in 1 .. p /\ m + 1 \in 1 .. Len(k.tick) /\ (m + 1) - 1 = m /\ m + 1 # 0
        /\ m <= p
    BY <1>1
  <2>2. Q[k.tick[m + 1]] = TimeAt(k.tick, Q, m) + k.expires[k.tick[m + 1]]
    BY <1>1, <2>1 DEF Due
  <2>3. TimeAt(k.tick, Q, m) = 0 /\ k.expires[k.tick[m + 1]] = 0
    BY <2>1
  <2> QED
    BY <2>1, <2>2, <2>3 DEF TimeAt
<1>4. i \in W
  <2>1. W \in SUBSET Nat /\ i \in Nat
    BY <1>1
  <2> HIDE DEF W
  <2> QED
    BY <1>2, <1>3, <2>1, NatInd
<1>5. i <= p /\ i # 0
  BY <1>1
<1> QED
  BY <1>4, <1>5 DEF TimeAt

(* tick_update of d ticks, d not beyond the first deadline: all deadlines  *)
(* come d closer and exactly those who reach theirs are woken.             *)
LEMMA UpdateTicks ==
    ASSUME NEW k, NEW R \in [Task -> SleepTimes], Ticking(k, R), NEW d \in Nat,
           k.tick # << >> => d <= k.expires[Head(k.tick)]
    PROVE  LET r == tick_update(k, d)
           IN  /\ Ticking(r, After(R, d))
               /\ Sleepers(r) = {u \in Sleepers(k) : R[u] # d}
               /\ \A u \in Sleepers(k) : d <= R[u]
<1> DEFINE r == tick_update(k, d)
           S == Sleepers(k)
<1>1. /\ HasClock(k) /\ k.tick \in Seq(Task) /\ ToSet(k.tick) = S /\ S \in SUBSET Task
      /\ k.expires \in [Task -> Nat]
  BY ClockFacts
<1>2. CASE k.tick = << >>
  <2>1. r = k
    BY <1>2 DEF tick_update
  <2>2. S = {}
    BY <1>1, <1>2, EmptyList
  <2>3. Ticking(k, After(R, d))
    BY <2>2, OtherTimes
  <2> QED
    BY <2>1, <2>2, <2>3
<1>3. CASE k.tick # << >>
  <2> DEFINE first == Head(k.tick)
             k1 == Elapse(k, d)
             Q  == [u \in Task |-> IF u \in S THEN R[u] - d ELSE 0]
             n  == Len(k.tick)
             P  == {i \in DOMAIN k1.tick : k1.expires[k1.tick[i]] > 0} \cup {Len(k1.tick) + 1}
             aw == ListMin(P)
             ts == SubSeq(k1.tick, 1, aw - 1)
  <2>1. r = IF k.expires[first] <= d THEN wakeup_each(k1, ts, "TIMEOUT") ELSE k1
    BY <1>3 DEF tick_update, Elapse
  <2>2. d <= k.expires[first]
    BY <1>3
  <2>3. /\ \A u \in S : k.expires[first] <= R[u] /\ d <= R[u]
        /\ Q \in [Task -> 0 .. TimeMax]
        /\ Ticking(k1, Q) /\ Sleepers(k1) = S /\ k1.tick = k.tick
    BY <1>3, <2>2, ElapseTicks
  <2>4. /\ \A u \in S : Q[u] = R[u] - d /\ R[u] \in Nat
        /\ \A u \in S : Q[u] # 0 <=> R[u] # d
        /\ \A u \in S : Q[u] # 0 => After(R, d)[u] = Q[u]
    <3>1. \A u \in S : R[u] \in Nat /\ Q[u] = R[u] - d /\ u \in Task
      BY <1>1 DEF SleepTimes
    <3> HIDE DEF Q
    <3>2. \A u \in S : Q[u] # 0 <=> R[u] # d
      BY <3>1
    <3>3. \A u \in S : Q[u] # 0 => d < R[u]
      BY <2>3, <3>1
    <3> QED
      BY <3>1, <3>2, <3>3 DEF After
  <2>5. k.expires[first] \in Nat /\ first \in S /\ first \in Task
    BY <1>1, <1>3, HeadInList
  <2> HIDE DEF k1, r, Q
  <2>6. /\ k1.tick \in Seq(Task) /\ IsInjective(k1.tick) /\ ToSet(k1.tick) = S
        /\ k1.expires \in [Task -> Nat] /\ n = Len(k1.tick)
        /\ \A i \in 1 .. n : k1.tick[i] \in S
        /\ \A u \in S : \E i \in 1 .. n : u = k1.tick[i]
    BY <2>3, ClockFacts
  <2> HIDE DEF n
  <2>7. CASE k.expires[first] <= d
    <3>1. P \subseteq 1 .. n + 1 /\ P # {} /\ P \subseteq Nat
      BY <2>6
    <3>2. \A i \in 1 .. n : i \in P <=> k1.expires[k1.tick[i]] > 0
      BY <2>6
    <3> HIDE DEF P
    <3>3. aw \in P /\ \A i \in P : aw <= i
      BY <3>1, ListMinLeast
    <3> HIDE DEF aw
    <3>4. aw \in 1 .. n + 1 /\ aw - 1 \in 0 .. n /\ n \in Nat
      BY <2>6, <3>1, <3>3
    <3>5. ts \in Seq(Task) /\ Len(ts) = aw - 1 /\ \A i \in 1 .. aw - 1 : ts[i] = k1.tick[i]
      BY <2>6, <3>4
    <3> HIDE DEF ts
    <3>6. \A u : u \in ToSet(ts) <=> \E i \in 1 .. aw - 1 : u = k1.tick[i]
      BY <3>5 DEF ToSet
    <3>7. ASSUME NEW i \in 1 .. aw - 1 PROVE Q[k1.tick[i]] = 0
      <4>1. \A j \in 1 .. aw - 1 : k1.expires[k1.tick[j]] = 0
        <5> SUFFICES ASSUME NEW j \in 1 .. aw - 1 PROVE k1.expires[k1.tick[j]] = 0
          OBVIOUS
        <5>1. j \in 1 .. n /\ ~(aw <= j)
          BY <3>4
        <5>2. ~(k1.expires[k1.tick[j]] > 0)
          BY <3>2, <3>3, <5>1
        <5>3. k1.expires[k1.tick[j]] \in Nat
          BY <1>1, <2>6, <5>1
        <5> QED
          BY <5>2, <5>3
      <4>2. aw - 1 \in 0 .. Len(k1.tick)
        BY <2>6, <3>4
      <4> QED
        BY <2>3, <4>1, <4>2, DueNow
    <3>8. ASSUME NEW i \in aw .. n PROVE Q[k1.tick[i]] # 0
      <4>1. aw \in 1 .. n /\ i \in 1 .. n /\ aw \in 1 .. Len(k1.tick) /\ i \in aw .. Len(k1.tick)
        BY <2>6, <3>4
      <4>2. k1.expires[k1.tick[aw]] > 0 /\ k1.expires[k1.tick[aw]] \in Nat
        BY <1>1, <2>6, <3>2, <3>3, <4>1
      <4>3. Q[k1.tick[aw]] = TimeAt(k1.tick, Q, aw - 1) + k1.expires[k1.tick[aw]]
        BY <2>3, <4>1 DEF Ticking, Due
      <4>4. Q \in [Task -> Nat]
        BY <2>3, TimeAssumption
      <4>5. TimeAt(k1.tick, Q, aw - 1) \in Nat
        <5>1. CASE aw = 1
          BY <5>1 DEF TimeAt
        <5>2. CASE aw # 1
          <6>1. aw - 1 \in 1 .. n
            BY <3>4, <4>1, <5>2
          <6>2. k1.tick[aw - 1] \in Task
            BY <1>1, <2>6, <6>1
          <6> QED
            BY <4>4, <6>2 DEF TimeAt
        <5> QED
          BY <5>1, <5>2
      <4>6. Q[k1.tick[aw]] <= Q[k1.tick[i]]
        BY <2>3, <4>1, <4>4, Ascending
      <4>7. Q[k1.tick[aw]] \in Nat /\ Q[k1.tick[i]] \in Nat
        BY <1>1, <2>6, <4>1, <4>4
      <4> QED
        BY <4>2, <4>3, <4>5, <4>6, <4>7
    <3>9. S \ ToSet(ts) = {u \in S : Q[u] # 0}
      <4>1. ASSUME NEW u \in S PROVE u \in ToSet(ts) <=> Q[u] = 0
        <5>1. PICK i \in 1 .. n : u = k1.tick[i]
          BY <2>6
        <5>2. i \in 1 .. aw - 1 \/ i \in aw .. n
          BY <3>4
        <5> QED
          BY <3>6, <3>7, <3>8, <5>1, <5>2
      <4> QED
        BY <4>1
    <3>10. r = wakeup_those(k1, ts, ToSet(ts), "TIMEOUT")
      BY <2>1, <2>7 DEF wakeup_each
    <3>11. Ticking(r, Q) /\ Sleepers(r) = S \ ToSet(ts)
      <4> DEFINE C == ToSet(ts)
                 st == "TIMEOUT"
      <4>1. r = wakeup_those(k1, ts, C, st) /\ ToSet(ts) \cap C = ToSet(ts)
        BY <3>10
      <4> HIDE DEF C, st
      <4>2. LET a == wakeup_those(k1, ts, C, st)
            IN  Ticking(a, Q) /\ Sleepers(a) = Sleepers(k1) \ (ToSet(ts) \cap C)
        BY <2>3, <3>5, WakeThoseTicks
      <4> QED
        BY <2>3, <4>1, <4>2
    <3>12. Sleepers(r) = {u \in S : R[u] # d}
      BY <2>4, <3>9, <3>11
    <3>13. \A u \in Sleepers(r) : After(R, d)[u] = Q[u]
      BY <2>4, <3>9, <3>11
    <3>14. Ticking(r, After(R, d))
      BY <3>11, <3>13, OtherTimes
    <3> QED
      BY <2>3, <3>12, <3>14 DEF r
  <2>8. CASE ~(k.expires[first] <= d)
    <3>1. r = k1
      BY <2>1, <2>8
    <3>2. \A u \in S : R[u] # d
      BY <2>3, <2>4, <2>5, <2>8
    <3>3. \A u \in S : After(R, d)[u] = Q[u]
      BY <2>4, <3>2
    <3>4. Ticking(r, After(R, d))
      BY <2>3, <3>1, <3>3, OtherTimes
    <3>5. Sleepers(r) = {u \in S : R[u] # d}
      BY <2>3, <3>1, <3>2
    <3> QED
      BY <2>3, <3>4, <3>5 DEF r
  <2> QED
    BY <2>7, <2>8
<1> QED
  BY <1>2, <1>3

(* The clock after an operation that lets no time pass: nobody's time      *)
(* changes.  Some may have left it, nobody is new.                         *)
KeepsTime(k, r) == \A R \in [Task -> SleepTimes] : Ticking(k, R) => Ticking(r, R)

LEMMA TimesNat == [Task -> SleepTimes] \subseteq [Task -> 0 .. TimeMax]
  BY TimeAssumption DEF SleepTimes

LEMMA ClockKeeps ==
    ASSUME NEW k, NEW r, SameClock(k, r) PROVE KeepsTime(k, r)
  BY SameTicking DEF KeepsTime

LEMMA KernelClock == ASSUME NEW k \in KernelType PROVE HasClock(k)
  BY DEF KernelType, HasClock

LEMMA BuryKeeps ==
    ASSUME NEW k, HasClock(k), NEW t \in Task PROVE KeepsTime(k, Bury(k, t))
<1> DEFINE k2 == IF IsReady(k, t) THEN readyqueue_remove(k, t) ELSE k
           k3 == IF IsSleeping(k2, t) THEN tick_list_remove(k2, t) ELSE k2
           k4 == IF IsPending(k3, t) THEN pend_list_remove(k3, t) ELSE k3
           r  == Bury(k, t)
<1> SUFFICES ASSUME NEW R \in [Task -> SleepTimes], Ticking(k, R) PROVE Ticking(r, R)
  BY DEF KeepsTime
<1>1. r = Buried(k4, t)
  BY DEF Bury
<1> HIDE DEF r
<1>2. SameClock(k, k2)
  BY RemovedClock, ClockItself
<1> HIDE DEF k2
<1>3. Ticking(k2, R)
  BY <1>2, SameTicking
<1>4. Ticking(k3, R) /\ t \notin Sleepers(k3)
  BY <1>3, TimesNat, DropTicks
<1> HIDE DEF k3
<1>5. HasClock(k3)
  BY <1>4, ClockFacts
<1>6. SameClock(k3, k4)
  BY <1>5, PendClock, ClockItself
<1> HIDE DEF k4
<1>7. HasClock(k4) /\ ~IsSleeping(k4, t)
  BY <1>4, <1>6 DEF SameClock, Sleepers
<1> DEFINE a == TaskReset(k4, t)
<1>8. SameClock(k4, a)
  BY <1>7 DEF HasClock, SameClock, IsSleeping, TaskReset
<1> HIDE DEF a
<1>9. r = [a EXCEPT !.state[t] = {"DELETED"}, !.obj = @ \ {t}]
  BY <1>1 DEF Buried, a
<1>10. SameClock(a, r)
  BY <1>7, <1>8, <1>9 DEF HasClock, SameClock, IsSleeping
<1> QED
  BY <1>4, <1>6, <1>8, <1>10, SameTicking

LEMMA SuspendKeeps ==
    ASSUME NEW k, HasClock(k), NEW t \in Task PROVE KeepsTime(k, task_suspend(k, t))
<1> DEFINE k1 == IF IsReady(k, t) THEN readyqueue_remove(k, t) ELSE k
           k2 == IF IsPending(k1, t) THEN pend_list_remove(k1, t) ELSE k1
           k3 == IF IsSleeping(k2, t) THEN tick_list_remove(k2, t) ELSE k2
           r  == task_suspend(k, t)
<1> SUFFICES ASSUME NEW R \in [Task -> SleepTimes], Ticking(k, R) PROVE Ticking(r, R)
  BY DEF KeepsTime
<1>1. r = [k3 EXCEPT !.state[t] = @ \cup {"SUSPENDED"}]
  BY DEF task_suspend
<1> HIDE DEF r
<1>2. SameClock(k, k1)
  BY RemovedClock, ClockItself
<1> HIDE DEF k1
<1>3. SameClock(k1, k2)
  BY <1>2, PendClock, ClockItself DEF SameClock
<1> HIDE DEF k2
<1>4. Ticking(k2, R)
  BY <1>2, <1>3, SameTicking
<1>5. Ticking(k3, R)
  BY <1>4, TimesNat, DropTicks
<1> HIDE DEF k3
<1>6. HasClock(k3)
  BY <1>5, ClockFacts
<1>7. SameClock(k3, r)
  BY <1>1, <1>6 DEF HasClock, SameClock, IsSleeping
<1> QED
  BY <1>5, <1>7, SameTicking

LEMMA ResumeKeeps ==
    ASSUME NEW k, HasClock(k), NEW t \in Task PROVE KeepsTime(k, task_resume(k, t))
<1> DEFINE k1 == [k EXCEPT !.state[t] = @ \ {"SUSPENDED"}]
<1>1. SameClock(k, k1)
  BY DEF HasClock, SameClock, IsSleeping
<1>2. task_resume(k, t) \in {k1, readyqueue_add(k1, t)}
  BY DEF task_resume
<1> HIDE DEF k1
<1>3. SameClock(k, task_resume(k, t))
  BY <1>1, <1>2, AddedClock, SameClockTwice DEF SameClock
<1> QED
  BY <1>3, ClockKeeps

LEMMA AbortKeeps ==
    ASSUME NEW k, NEW t \in Task, IsSleeping(k, t)
    PROVE  KeepsTime(k, readyqueue_add(tick_list_remove(k, t), t))
<1> DEFINE a == tick_list_remove(k, t)
<1> SUFFICES ASSUME NEW R \in [Task -> SleepTimes], Ticking(k, R)
             PROVE  Ticking(readyqueue_add(a, t), R)
  BY DEF KeepsTime
<1>1. Ticking(a, R)
  BY TimesNat, WakeTicks DEF Sleepers
<1> HIDE DEF a
<1>2. SameClock(a, readyqueue_add(a, t))
  BY <1>1, ClockFacts, AddedClock
<1> QED
  BY <1>1, <1>2, SameTicking

LEMMA CreateKeepsTime ==
    ASSUME NEW k, HasClock(k), NEW t \in Task, ~IsSleeping(k, t), NEW p, NEW slice
    PROVE  KeepsTime(k, readyqueue_add_tail(NewTask(k, t, p, slice), t))
<1> DEFINE a == TaskReset(k, t)
           b == NewTask(k, t, p, slice)
<1>1. SameClock(k, a)
  BY DEF HasClock, SameClock, IsSleeping, TaskReset
<1>2. b = [a EXCEPT !.obj = @ \cup {t}, !.prio[t] = p, !.state[t] = {},
                    !.timesliceReload[t] = IF RoundRobin THEN slice ELSE 0,
                    !.timeslice[t] = IF ~RoundRobin THEN 0
                                     ELSE IF slice = 0 THEN RobinDefault ELSE slice]
  BY DEF NewTask
<1> HIDE DEF a, b
<1>3. SameClock(a, b)
  BY <1>1, <1>2 DEF HasClock, SameClock, IsSleeping
<1>4. HasClock(b)
  BY <1>3 DEF SameClock
<1>5. SameClock(b, readyqueue_add_tail(b, t))
  BY <1>4, AddedClock
<1> QED
  BY <1>1, <1>3, <1>5, SameClockTwice, ClockKeeps DEF b
=============================================================================
