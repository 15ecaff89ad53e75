---------------------------- MODULE BufferLemmas ----------------------------
(***************************************************************************)
(* The buffers of the kernel, for every size and every content: the ring   *)
(* queue keeps its items from head to tail, and the priority queue keeps   *)
(* its slots, each free or ranked, and the order of its binary heap.       *)
(***************************************************************************)
EXTENDS PrioQueue, TLAPS, FiniteSetTheorems, SequenceTheorems

(* Induction over the natural numbers for a set W.                         *)
LEMMA NatSteps ==
    ASSUME NEW W \in SUBSET Nat, 0 \in W, \A m \in W : m + 1 \in W
    PROVE  \A n \in Nat : n \in W
<1> SUFFICES ASSUME NEW n \in Nat, n \notin W PROVE FALSE
  OBVIOUS
<1> DEFINE V == {x \in 0 .. n : x \in W}
           f == [x \in V |-> x + 1]
<1>1. IsFiniteSet(V)
  BY FS_Interval, FS_Subset, n \in Int, 0 \in Int, V \subseteq 0 .. n
<1>2. 0 \in V
  OBVIOUS
<1>3. IsFiniteSet(V \ {0}) /\ Cardinality(V \ {0}) = Cardinality(V) - 1
  BY <1>1, <1>2, FS_RemoveElement
<1>4. Cardinality(V) \in Nat
  BY <1>1, FS_CardinalityType
<1>5. f \in [V -> V \ {0}]
  OBVIOUS
<1>6. Cardinality(V \ {0}) < Cardinality(V)
  BY <1>3, <1>4
<1>7. \E x, y \in V : x # y /\ f[x] = f[y]
  <2> HIDE DEF f, V
  <2> QED
    BY <1>1, <1>3, <1>5, <1>6, FS_PigeonHole
<1> QED
  BY <1>7

----------------------------------------------------------------------------
(* The ring: it is sound when its items lie from head to tail.             *)

Rem(size, x) == x % size

LEMMA Wrap ==
    ASSUME NEW m \in Nat \ {0}, NEW x \in Nat, x < 2 * m
    PROVE  x % m = IF x < m THEN x ELSE x - m
  OBVIOUS

LEMMA RemFacts ==
    ASSUME NEW size \in Nat \ {0}
    PROVE  \A x \in Nat : x < 2 * size =>
              /\ Rem(size, x) = IF x < size THEN x ELSE x - size
              /\ Rem(size, x) \in 0 .. size - 1
<1>1. size \in Nat \ {0}
  OBVIOUS
<1>2. ASSUME NEW m, m \in Nat \ {0}
      PROVE  \A x \in Nat : x < 2 * m => x % m = IF x < m THEN x ELSE x - m
  BY <1>2, Wrap
<1>3. \A x \in Nat : x < 2 * size => Rem(size, x) = IF x < size THEN x ELSE x - size
  BY <1>1, <1>2 DEF Rem
<1> QED
  BY <1>1, <1>3

Sane(size, r) ==
    /\ r = [ head |-> r.head, tail |-> r.tail, total |-> r.total, cnt |-> size,
             pool |-> r.pool ]
    /\ r.head \in 0 .. size - 1 /\ r.total \in 0 .. size
    /\ r.tail = Rem(size, r.head + r.total)
    /\ r.pool \in [0 .. size - 1 -> Item \cup {NoItem}]
    /\ \A i \in 0 .. size - 1 :
          r.pool[i] # NoItem <=> \E n \in 0 .. r.total - 1 : i = Rem(size, r.head + n)

LEMMA SaneSound ==
    ASSUME NEW size \in Nat \ {0}, NEW r, Sane(size, r)
    PROVE  RingSound(r) /\ r.cnt = size
<1>1. /\ r.cnt = size /\ DOMAIN r.pool = 0 .. size - 1
      /\ r.tail = (r.head + r.total) % r.cnt
  BY DEF Sane, Rem
<1>2. \A i \in 0 .. size - 1 :
          r.pool[i] # NoItem <=> \E n \in 0 .. r.total - 1 : i = (r.head + n) % size
  BY DEF Sane, Rem
<1> QED
  BY <1>1, <1>2 DEF RingSound

LEMMA CreateSane ==
    ASSUME NEW size \in Nat \ {0}
    PROVE  LET q == tos_ring_q_create(size)
           IN  Sane(size, q) /\ q.total = 0 /\ RingItems(q) = << >>
<1> DEFINE q == tos_ring_q_create(size)
<1>1. /\ q.head = 0 /\ q.tail = 0 /\ q.total = 0 /\ q.cnt = size
      /\ q.pool = [i \in 0 .. size - 1 |-> NoItem]
      /\ q = [ head |-> q.head, tail |-> q.tail, total |-> q.total, cnt |-> size,
               pool |-> q.pool ]
  BY DEF tos_ring_q_create
<1> HIDE DEF q
<1>2. Rem(size, 0 + 0) = 0
  BY RemFacts
<1>3. Sane(size, q)
  BY <1>1, <1>2, RemFacts DEF Sane
<1>4. RingItems(q) = << >>
  BY <1>1 DEF RingItems
<1> QED
  BY <1>1, <1>3, <1>4 DEF q

LEMMA ItemsList ==
    ASSUME NEW size \in Nat \ {0}, NEW r, Sane(size, r)
    PROVE  /\ RingItems(r) \in Seq(Item) /\ Len(RingItems(r)) = r.total
           /\ \A i \in 1 .. r.total : RingItems(r)[i] = r.pool[Rem(size, r.head + (i - 1))]
<1>1. /\ size \in Nat \ {0} /\ r.head \in 0 .. size - 1 /\ r.total \in 0 .. size
      /\ r.cnt = size /\ r.pool \in [0 .. size - 1 -> Item \cup {NoItem}]
  BY RemFacts DEF Sane
<1>2. RingItems(r) = [i \in 1 .. r.total |-> r.pool[Rem(size, r.head + i - 1)]]
  BY <1>1 DEF RingItems, Rem
<1>3. ASSUME NEW i \in 1 .. r.total
      PROVE  r.head + i - 1 = r.head + (i - 1) /\ r.pool[Rem(size, r.head + (i - 1))] \in Item
  <2>1. /\ i - 1 \in 0 .. r.total - 1
        /\ r.head + (i - 1) \in Nat /\ r.head + (i - 1) < 2 * size
    BY <1>1
  <2>2. Rem(size, r.head + (i - 1)) \in 0 .. size - 1
    BY <1>1, <2>1, RemFacts
  <2>3. r.pool[Rem(size, r.head + (i - 1))] # NoItem
    BY <2>1, <2>2 DEF Sane
  <2> QED
    BY <1>1, <2>2, <2>3
<1>4. RingItems(r) \in [1 .. r.total -> Item]
  BY <1>2, <1>3
<1>5. RingItems(r) \in Seq(Item) /\ Len(RingItems(r)) = r.total
  <2>1. r.total \in Nat
    BY <1>1
  <2> DEFINE n == r.total
             s == RingItems(r)
  <2> HIDE DEF n, s
  <2> QED
    BY <1>4, <2>1 DEF n, s
<1>6. ASSUME NEW i \in 1 .. r.total
      PROVE  RingItems(r)[i] = r.pool[Rem(size, r.head + (i - 1))]
  BY <1>2, <1>3
<1> QED
  BY <1>5, <1>6

LEMMA EnqueueSane ==
    ASSUME NEW size \in Nat \ {0}, NEW r, Sane(size, r), r.total < size, NEW x \in Item
    PROVE  LET q == tos_ring_q_enqueue(r, x)
           IN  Sane(size, q) /\ q.total = r.total + 1 /\ RingItems(q) = Append(RingItems(r), x)
<1> DEFINE q == tos_ring_q_enqueue(r, x)
<1>1. /\ size \in Nat \ {0} /\ r.head \in 0 .. size - 1 /\ r.total \in 0 .. size - 1
      /\ r.cnt = size /\ r.tail = Rem(size, r.head + r.total)
      /\ r.pool \in [0 .. size - 1 -> Item \cup {NoItem}]
  BY RemFacts DEF Sane
<1>2. /\ q.head = r.head /\ q.tail = Rem(size, r.tail + 1) /\ q.total = r.total + 1
      /\ q.cnt = size /\ q.pool = [r.pool EXCEPT ![r.tail] = x]
      /\ q = [head |-> q.head, tail |-> q.tail, total |-> q.total, cnt |-> size, pool |-> q.pool]
  <2>1. r = [ head |-> r.head, tail |-> r.tail, total |-> r.total, cnt |-> size,
              pool |-> r.pool ]
    BY DEF Sane
  <2> DEFINE s == [ head |-> r.head, tail |-> r.tail, total |-> r.total, cnt |-> size,
                    pool |-> r.pool ]
             p == [r.pool EXCEPT ![r.tail] = x]
  <2>0. q = [s EXCEPT !.pool[s.tail] = x, !.tail = (@ + 1) % s.cnt, !.total = @ + 1]
    BY <2>1 DEF tos_ring_q_enqueue, RING_NEXT
  <2>2. q = [ head |-> r.head, tail |-> (r.tail + 1) % size, total |-> r.total + 1,
              cnt |-> size, pool |-> p ]
    <3> HIDE DEF q
    <3> QED
      BY <2>0
  <2> HIDE DEF q
  <2> QED
    BY <1>1, <2>2 DEF Rem
<1> HIDE DEF q
<1> DEFINE h == r.head
           t == r.total
           N == size
<1>3. /\ h \in Nat /\ t \in Nat /\ N \in Nat /\ h < N /\ t < N
      /\ h + t \in Nat /\ h + t < 2 * N /\ h + (t + 1) \in Nat /\ h + (t + 1) < 2 * N
  BY <1>1
<1> HIDE DEF h, t, N
<1>4. /\ r.tail = IF h + t < N THEN h + t ELSE h + t - N
      /\ r.tail \in 0 .. N - 1 /\ Rem(size, r.tail + 1) = Rem(size, h + (t + 1))
  <2>1. r.tail = (IF h + t < N THEN h + t ELSE h + t - N) /\ r.tail \in 0 .. N - 1
    BY <1>1, <1>3, RemFacts DEF h, t, N
  <2>2. r.tail \in Nat /\ r.tail + 1 \in Nat /\ r.tail + 1 < 2 * N
    BY <1>3, <2>1
  <2>3. Rem(size, r.tail + 1) = IF r.tail + 1 < N THEN r.tail + 1 ELSE r.tail + 1 - N
    BY <2>2, RemFacts DEF N
  <2>4. Rem(size, h + (t + 1)) = IF h + (t + 1) < N THEN h + (t + 1) ELSE h + (t + 1) - N
    BY <1>3, RemFacts DEF N
  <2> QED
    BY <1>3, <2>1, <2>2, <2>3, <2>4
<1>5. ASSUME NEW n \in 0 .. t - 1
      PROVE  Rem(size, h + n) \in 0 .. N - 1 /\ Rem(size, h + n) # r.tail
  <2> DEFINE y == h + n
  <2>1. n \in Nat /\ n < t /\ y \in Nat /\ y < 2 * N /\ y < h + t /\ h <= y
    BY <1>3
  <2> HIDE DEF y
  <2>2. Rem(size, y) = (IF y < N THEN y ELSE y - N) /\ Rem(size, y) \in 0 .. N - 1
    BY <2>1, RemFacts DEF N
  <2> QED
    BY <1>3, <1>4, <2>1, <2>2 DEF y
<1> USE DEF h, t, N
<1>6. q.pool[r.tail] = x /\ \A i \in 0 .. size - 1 : i # r.tail => q.pool[i] = r.pool[i]
  BY <1>1, <1>2, <1>4
<1>7. \A i \in 0 .. size - 1 :
         q.pool[i] # NoItem <=> \E n \in 0 .. q.total - 1 : i = Rem(size, q.head + n)
  <2> TAKE i \in 0 .. size - 1
  <2>1. r.pool[i] # NoItem <=> \E n \in 0 .. r.total - 1 : i = Rem(size, r.head + n)
    BY DEF Sane
  <2>2. (\E n \in 0 .. q.total - 1 : i = Rem(size, q.head + n))
           <=> i = r.tail \/ \E n \in 0 .. r.total - 1 : i = Rem(size, r.head + n)
    <3>1. 0 .. q.total - 1 = 0 .. r.total - 1 \cup {r.total}
      BY <1>1, <1>2
    <3>2. q.head = r.head /\ Rem(size, r.head + r.total) = r.tail
      BY <1>1, <1>2
    <3> QED
      BY <3>1, <3>2
  <2> QED
    BY <1>6, <2>1, <2>2, ItemAssumption
<1>8. Sane(size, q)
  <2>1. q.pool \in [0 .. size - 1 -> Item \cup {NoItem}] /\ q.total \in 0 .. size
    BY <1>1, <1>2, <1>4
  <2>2. q.tail = Rem(size, q.head + q.total)
    BY <1>2, <1>4
  <2> QED
    BY <1>1, <1>2, <1>7, <2>1, <2>2 DEF Sane
<1>9. RingItems(q) = Append(RingItems(r), x)
  <2> DEFINE a == RingItems(r)
             b == RingItems(q)
  <2>1. /\ a \in Seq(Item) /\ Len(a) = r.total /\ b \in Seq(Item) /\ Len(b) = r.total + 1
        /\ \A i \in 1 .. r.total : a[i] = r.pool[Rem(size, r.head + (i - 1))]
        /\ \A i \in 1 .. r.total + 1 : b[i] = q.pool[Rem(size, r.head + (i - 1))]
    <3>1. /\ a \in Seq(Item) /\ Len(a) = r.total
          /\ \A i \in 1 .. r.total : a[i] = r.pool[Rem(size, r.head + (i - 1))]
      BY ItemsList
    <3>2. /\ b \in Seq(Item) /\ Len(b) = q.total
          /\ \A i \in 1 .. q.total : b[i] = q.pool[Rem(size, q.head + (i - 1))]
      BY <1>8, ItemsList
    <3> HIDE DEF a, b
    <3> QED
      BY <1>2, <3>1, <3>2
  <2> HIDE DEF a, b
  <2>2. ASSUME NEW i \in 1 .. r.total
        PROVE  b[i] = a[i]
    <3>1. i - 1 \in 0 .. r.total - 1 /\ i \in 1 .. r.total + 1
      BY <1>1
    <3> QED
      BY <1>5, <1>6, <2>1, <3>1
  <2>3. b[r.total + 1] = x
    <3>1. r.total + 1 \in 1 .. r.total + 1 /\ (r.total + 1) - 1 = r.total
      BY <1>1
    <3> QED
      BY <1>1, <1>6, <2>1, <3>1
  <2>4. /\ Append(a, x) \in Seq(Item) /\ Len(Append(a, x)) = r.total + 1
        /\ Append(a, x)[r.total + 1] = x
        /\ \A i \in 1 .. r.total : Append(a, x)[i] = a[i]
    BY <2>1
  <2>5. \A i \in 1 .. r.total + 1 : b[i] = Append(a, x)[i]
    <3> TAKE i \in 1 .. r.total + 1
    <3>1. i = r.total + 1 \/ i \in 1 .. r.total
      BY <1>1
    <3> QED
      BY <2>2, <2>3, <2>4, <3>1
  <2>6. b = Append(a, x)
    BY <2>1, <2>4, <2>5, SeqEqual
  <2> QED
    BY <2>6 DEF a, b
<1> QED
  BY <1>2, <1>8, <1>9 DEF q

LEMMA DequeueSane ==
    ASSUME NEW size \in Nat \ {0}, NEW r, Sane(size, r), r.total > 0
    PROVE  LET q == tos_ring_q_dequeue(r)
           IN  /\ Sane(size, q) /\ q.total = r.total - 1
               /\ RING_HEAD_ITEM(r) = RingItems(r)[1] /\ RING_HEAD_ITEM(r) \in Item
               /\ \A i \in 1 .. q.total : RingItems(q)[i] = RingItems(r)[i + 1]
<1> DEFINE q == tos_ring_q_dequeue(r)
           h == r.head
           t == r.total
           N == size
<1>1. /\ N \in Nat \ {0} /\ h \in 0 .. N - 1 /\ t \in 1 .. N
      /\ r.cnt = N /\ r.tail = Rem(size, h + t)
      /\ r.pool \in [0 .. N - 1 -> Item \cup {NoItem}]
  BY RemFacts DEF Sane
<1>2. /\ q.head = Rem(size, h + 1) /\ q.tail = r.tail /\ q.total = t - 1
      /\ q.cnt = N /\ q.pool = [r.pool EXCEPT ![h] = NoItem]
      /\ q = [head |-> q.head, tail |-> q.tail, total |-> q.total, cnt |-> N, pool |-> q.pool]
  <2> DEFINE s == [ head |-> h, tail |-> r.tail, total |-> t, cnt |-> N, pool |-> r.pool ]
             p == [r.pool EXCEPT ![h] = NoItem]
  <2>1. r = s
    BY DEF Sane
  <2>2. q = [s EXCEPT !.pool[s.head] = NoItem, !.head = (@ + 1) % s.cnt, !.total = @ - 1]
    BY <2>1 DEF tos_ring_q_dequeue, RING_NEXT
  <2>3. q = [ head |-> (h + 1) % N, tail |-> r.tail, total |-> t - 1, cnt |-> N, pool |-> p ]
    <3> HIDE DEF q
    <3> QED
      BY <2>2
  <2> HIDE DEF q
  <2> QED
    BY <1>1, <2>3 DEF Rem
<1> HIDE DEF q
<1>3. /\ h \in Nat /\ t \in Nat /\ N \in Nat /\ h < N /\ 0 < t /\ t <= N
      /\ h + 1 \in Nat /\ h + 1 < 2 * N
  BY <1>1
<1>4. r.pool[h] # NoItem /\ Rem(size, h + 0) = h /\ h + 0 = h
  <2>1. h + 0 = h /\ 0 \in 0 .. r.total - 1
    BY <1>1
  <2>2. Rem(size, h) = h
    <3>1. h \in Nat /\ h < 2 * size /\ h < size
      BY <1>3
    <3> QED
      BY <3>1, RemFacts
  <2> QED
    BY <1>1, <2>1, <2>2 DEF Sane
<1> HIDE DEF h, t, N
<1>5. /\ q.head = (IF h + 1 < N THEN h + 1 ELSE h + 1 - N) /\ q.head \in 0 .. N - 1
  BY <1>2, <1>3, RemFacts DEF N
<1>6. ASSUME NEW n \in 0 .. t - 2
      PROVE  /\ Rem(size, q.head + n) = Rem(size, h + (n + 1))
             /\ Rem(size, h + (n + 1)) \in 0 .. N - 1 \ {h}
  <2> DEFINE y == q.head + n
             z == h + (n + 1)
  <2>1. /\ y \in Nat /\ y < 2 * N /\ z \in Nat /\ z < 2 * N /\ h < z /\ z < h + N
        /\ y = IF h + 1 < N THEN z ELSE z - N
    BY <1>3, <1>5
  <2> HIDE DEF y, z
  <2>2. /\ Rem(size, y) = (IF y < N THEN y ELSE y - N)
        /\ Rem(size, z) = (IF z < N THEN z ELSE z - N) /\ Rem(size, z) \in 0 .. N - 1
    BY <2>1, RemFacts DEF N
  <2>3. h + 1 < N \/ h + 1 = N
    BY <1>3
  <2>4. Rem(size, y) = Rem(size, z) /\ Rem(size, z) # h
    BY <1>3, <2>1, <2>2, <2>3
  <2> QED
    BY <2>2, <2>4 DEF y, z
<1>7. r.tail = Rem(size, q.head + q.total)
  <2> DEFINE y == q.head + (t - 1)
             z == h + t
  <2>1. /\ y \in Nat /\ y < 2 * N /\ z \in Nat /\ z < 2 * N
        /\ y = IF h + 1 < N THEN z ELSE z - N
    BY <1>3, <1>5
  <2> HIDE DEF y, z
  <2>2. /\ Rem(size, y) = (IF y < N THEN y ELSE y - N)
        /\ Rem(size, z) = (IF z < N THEN z ELSE z - N)
    BY <2>1, RemFacts DEF N
  <2>3. (h + 1 < N \/ h + 1 = N) /\ z >= h + 1
    BY <1>3 DEF z
  <2>4. Rem(size, y) = Rem(size, z)
    BY <1>3, <2>1, <2>2, <2>3
  <2> QED
    BY <1>1, <1>2, <2>4 DEF y, z
<1>8. q.pool[h] = NoItem /\ \A i \in 0 .. N - 1 : i # h => q.pool[i] = r.pool[i]
  BY <1>1, <1>2
<1>9. \A i \in 0 .. N - 1 :
         q.pool[i] # NoItem <=> \E n \in 0 .. q.total - 1 : i = Rem(size, q.head + n)
  <2> TAKE i \in 0 .. N - 1
  <2>1. r.pool[i] # NoItem <=> \E n \in 0 .. t - 1 : i = Rem(size, h + n)
    BY DEF Sane, h, t, N
  <2>2. q.total - 1 = t - 2
    BY <1>2, <1>3
  <2>3. CASE i = h
    BY <1>6, <1>8, <2>2, <2>3
  <2>4. CASE i # h
    <3>1. ASSUME NEW n \in 0 .. t - 1, i = Rem(size, h + n)
          PROVE  \E m \in 0 .. t - 2 : i = Rem(size, q.head + m)
      <4>1. n # 0
        BY <1>4, <2>4, <3>1
      <4>2. n - 1 \in 0 .. t - 2 /\ (n - 1) + 1 = n
        BY <1>3, <4>1
      <4>3. i = Rem(size, q.head + (n - 1))
        BY <1>6, <3>1, <4>2
      <4> QED
        BY <4>2, <4>3
    <3>2. ASSUME NEW m \in 0 .. t - 2, i = Rem(size, q.head + m)
          PROVE  \E n \in 0 .. t - 1 : i = Rem(size, h + n)
      <4>1. m + 1 \in 0 .. t - 1 /\ i = Rem(size, h + (m + 1))
        BY <1>3, <1>6, <3>2
      <4> QED
        BY <4>1
    <3> QED
      BY <1>8, <2>1, <2>2, <2>4, <3>1, <3>2
  <2> QED
    BY <2>3, <2>4
<1>10. Sane(size, q)
  <2>1. q.pool \in [0 .. N - 1 -> Item \cup {NoItem}] /\ q.total \in 0 .. N
    BY <1>1, <1>2, <1>3
  <2> QED
    BY <1>2, <1>5, <1>7, <1>9, <2>1 DEF Sane, N
<1>11. /\ RingItems(r)[1] = r.pool[h]
       /\ \A i \in 1 .. t : RingItems(r)[i] = r.pool[Rem(size, h + (i - 1))]
  <2>1. \A i \in 1 .. t : RingItems(r)[i] = r.pool[Rem(size, h + (i - 1))]
    BY ItemsList DEF h, t
  <2>2. 1 \in 1 .. t /\ 1 - 1 = 0
    BY <1>3
  <2> QED
    BY <1>4, <2>1, <2>2
<1>12. ASSUME NEW i \in 1 .. q.total
       PROVE  RingItems(q)[i] = RingItems(r)[i + 1]
  <2>1. /\ i - 1 \in 0 .. t - 2 /\ (i - 1) + 1 = (i + 1) - 1 /\ i + 1 \in 1 .. t
    BY <1>2, <1>3
  <2>2. RingItems(q)[i] = q.pool[Rem(size, q.head + (i - 1))]
    BY <1>10, ItemsList
  <2>3. RingItems(r)[i + 1] = r.pool[Rem(size, h + ((i - 1) + 1))]
    BY <1>11, <2>1
  <2> QED
    BY <1>6, <1>8, <2>1, <2>2, <2>3
<1>13. RING_HEAD_ITEM(r) = r.pool[h] /\ r.pool[h] \in Item
  BY <1>1, <1>3, <1>4 DEF RING_HEAD_ITEM, h
<1> QED
  BY <1>2, <1>10, <1>11, <1>12, <1>13 DEF q, t

----------------------------------------------------------------------------
(* The binary heap, as a sequence of any length.                           *)

Entry == [prio : Nat, slot : Nat]

(* Entries a to b are not better than their parents.                       *)
Rising(h, a, b) == \A j \in a .. b : Ent(h, BIN_HEAP_PARENT(j)).prio <= Ent(h, j).prio

(* The entries from index a to index b.                                    *)
Part(h, a, b) == {Ent(h, j) : j \in a .. b}

LEMMA ParentIs ==
    ASSUME NEW i \in Nat \ {0}
    PROVE  /\ BIN_HEAP_PARENT(i) \in Nat /\ BIN_HEAP_PARENT(i) < i
           /\ i = 2 * BIN_HEAP_PARENT(i) + 1 \/ i = 2 * BIN_HEAP_PARENT(i) + 2
  BY DEF BIN_HEAP_PARENT

LEMMA PutEntry ==
    ASSUME NEW h \in Seq(Entry), NEW i \in Nat, i < Len(h), NEW e \in Entry
    PROVE  /\ Put(h, i, e) \in Seq(Entry) /\ Len(Put(h, i, e)) = Len(h)
           /\ \A j \in 0 .. Len(h) - 1 :
                 Ent(Put(h, i, e), j) = IF j = i THEN e ELSE Ent(h, j)
<1>1. i + 1 \in 1 .. Len(h)
  OBVIOUS
<1>2. Put(h, i, e) \in Seq(Entry) /\ Len(Put(h, i, e)) = Len(h)
  BY <1>1 DEF Put
<1>3. ASSUME NEW j \in 0 .. Len(h) - 1
      PROVE  Ent(Put(h, i, e), j) = IF j = i THEN e ELSE Ent(h, j)
  <2>1. j + 1 \in 1 .. Len(h) /\ (j + 1 = i + 1 <=> j = i)
    OBVIOUS
  <2> QED
    BY <1>1, <2>1 DEF Put, Ent
<1> QED
  BY <1>2, <1>3

LEMMA EntryType ==
    ASSUME NEW h \in Seq(Entry), NEW j \in 0 .. Len(h) - 1
    PROVE  Ent(h, j) \in Entry /\ Ent(h, j).prio \in Nat /\ Ent(h, j).slot \in Nat
<1>1. j + 1 \in 1 .. Len(h)
  OBVIOUS
<1>2. Ent(h, j) \in Entry
  BY <1>1 DEF Ent
<1> QED
  BY <1>2 DEF Entry

(* The recursion of bin_heap_do_percolate_up, step by step.                *)
UpStep(h, e, i, x) ==
    IF i > 0 /\ prio_q_mgr_entry_cmp(e, Ent(h, BIN_HEAP_PARENT(i)))
    THEN Put(x, i, Ent(h, BIN_HEAP_PARENT(i)))
    ELSE Put(h, i, e)

LEMMA UpUnfolds ==
    ASSUME NEW h, NEW hole \in Nat, NEW e
    PROVE  \E f : /\ \A i \in 0 .. hole : f[i] = UpStep(h, e, i, f[BIN_HEAP_PARENT(i)])
                  /\ bin_heap_do_percolate_up(h, hole, e) = f[hole]
<1> DEFINE s(i, x) == UpStep(h, e, i, x)
           p(i)    == BIN_HEAP_PARENT(i)
           Steps(m, g) == /\ g = [i \in 0 .. m |-> g[i]]
                          /\ \A i \in 0 .. m : g[i] = s(i, g[p(i)])
           W == {m \in Nat : \E g : Steps(m, g)}
<1>0. \A i \in Nat \ {0} : p(i) \in Nat /\ p(i) < i
  BY ParentIs
<1>1. \A x, y : s(0, x) = s(0, y)
  BY DEF UpStep
<1> HIDE DEF s, p
<1>2. 0 \in W
  <2> DEFINE g == [i \in 0 .. 0 |-> s(0, 0)]
  <2>1. g = [i \in 0 .. 0 |-> g[i]] /\ g[0] = s(0, g[p(0)])
    BY <1>1
  <2>2. Steps(0, g)
    BY <2>1
  <2> HIDE DEF Steps
  <2> QED
    BY <2>2
<1>3. ASSUME NEW m \in W PROVE m + 1 \in W
  <2>1. m \in Nat
    OBVIOUS
  <2>2. PICK g : Steps(m, g)
    OBVIOUS
  <2> DEFINE r == [i \in 0 .. m + 1 |-> IF i = m + 1 THEN s(m + 1, g[p(m + 1)]) ELSE g[i]]
  <2>3. r = [i \in 0 .. m + 1 |-> r[i]]
    OBVIOUS
  <2>4. ASSUME NEW i \in 0 .. m + 1 PROVE r[i] = s(i, r[p(i)])
    <3>1. CASE i = m + 1
      <4>1. p(i) \in 0 .. m /\ r[p(i)] = g[p(i)]
        BY <1>0, <2>1, <3>1
      <4> QED
        BY <3>1, <4>1, <2>1
    <3>2. CASE i # m + 1 /\ i # 0
      <4>1. i \in 0 .. m /\ p(i) \in 0 .. m
        BY <1>0, <2>1, <3>2
      <4>2. r[i] = g[i] /\ r[p(i)] = g[p(i)]
        BY <2>1, <4>1
      <4> QED
        BY <2>2, <4>1, <4>2
    <3>3. CASE i = 0
      <4>1. r[0] = g[0] /\ g[0] = s(0, g[p(0)])
        BY <2>1, <2>2
      <4> QED
        BY <1>1, <3>3, <4>1
    <3> QED
      BY <2>1, <3>1, <3>2, <3>3
  <2> HIDE DEF r
  <2>5. Steps(m + 1, r)
    BY <2>3, <2>4
  <2> HIDE DEF Steps
  <2> QED
    BY <2>1, <2>5
<1>4. hole \in W
  <2>1. W \in SUBSET Nat
    OBVIOUS
  <2> HIDE DEF W
  <2> QED
    BY <1>2, <1>3, <2>1, NatSteps
<1>5. PICK g : Steps(hole, g)
  <2> HIDE DEF Steps
  <2> QED
    BY <1>4
<1> DEFINE Rec(f) == f = [i \in 0 .. hole |-> s(i, f[p(i)])]
<1>6. Rec(g)
  BY <1>5
<1> DEFINE d == CHOOSE f : Rec(f)
<1>7. bin_heap_do_percolate_up(h, hole, e) = d[hole]
  BY DEF bin_heap_do_percolate_up, s, p, UpStep
<1>8. Rec(d)
  <2> HIDE DEF Rec
  <2> QED
    BY <1>6
<1> HIDE DEF d
<1>9. \A i \in 0 .. hole : d[i] = s(i, d[p(i)])
  BY <1>8
<1> QED
  BY <1>7, <1>9 DEF s, p

(* An entry that moves up from a leaf leaves a heap in which nothing below *)
(* the leaf has moved.                                                     *)
UpDone(h, e, i, r) ==
    /\ r \in Seq(Entry) /\ Len(r) = Len(h)
    /\ \A j \in i + 1 .. Len(h) - 1 : Ent(r, j) = Ent(h, j)
    /\ \A j \in 0 .. i - 1 : Ent(r, j).prio <= Ent(h, j).prio
    /\ Ent(r, i) = e \/ (i > 0 /\ Ent(r, i) = Ent(h, BIN_HEAP_PARENT(i)))
    /\ Rising(r, 1, i)
    /\ Part(r, 0, i) = Part(h, 0, i - 1) \cup {e}

LEMMA UpRests ==
    ASSUME NEW h \in Seq(Entry), NEW e \in Entry, NEW i \in Nat, i < Len(h),
           Rising(h, 1, i - 1),
           ~(i > 0 /\ prio_q_mgr_entry_cmp(e, Ent(h, BIN_HEAP_PARENT(i))))
    PROVE  UpDone(h, e, i, Put(h, i, e))
<1> DEFINE r == Put(h, i, e)
           n == Len(h)
<1>1. n \in Nat /\ e.prio \in Nat /\ \A j \in 0 .. n - 1 : Ent(h, j).prio \in Nat
  BY EntryType DEF Entry
<1>2. /\ r \in Seq(Entry) /\ Len(r) = n
      /\ \A j \in 0 .. n - 1 : Ent(r, j) = IF j = i THEN e ELSE Ent(h, j)
  BY PutEntry
<1> HIDE DEF r, n
<1>3. \A j \in 1 .. i : BIN_HEAP_PARENT(j) \in 0 .. j - 1
  BY ParentIs
<1>4. i < n
  BY DEF n
<1>5. Rising(r, 1, i)
  <2> SUFFICES ASSUME NEW j \in 1 .. i
               PROVE  Ent(r, BIN_HEAP_PARENT(j)).prio <= Ent(r, j).prio
    BY DEF Rising
  <2> DEFINE p == BIN_HEAP_PARENT(j)
  <2>1. p \in 0 .. j - 1 /\ p \in 0 .. n - 1 /\ p # i /\ j \in 0 .. n - 1
    BY <1>1, <1>3, <1>4
  <2>2. Ent(r, p) = Ent(h, p)
    BY <1>2, <2>1
  <2>3. CASE j = i
    <3>1. Ent(r, j) = e /\ ~(e.prio < Ent(h, p).prio)
      BY <1>2, <2>1, <2>3 DEF prio_q_mgr_entry_cmp
    <3>2. Ent(h, p).prio \in Nat
      BY <1>1, <2>1
    <3> QED
      BY <1>1, <2>2, <3>1, <3>2
  <2>4. CASE j # i
    <3>1. Ent(r, j) = Ent(h, j) /\ j \in 1 .. i - 1
      BY <1>2, <2>1, <2>4
    <3>2. Ent(h, p).prio <= Ent(h, j).prio
      BY <3>1 DEF Rising
    <3> QED
      BY <2>2, <3>1, <3>2
  <2> QED
    BY <2>3, <2>4
<1>6. Part(r, 0, i) = Part(h, 0, i - 1) \cup {e}
  <2>1. 0 .. i = 0 .. i - 1 \cup {i} /\ 0 .. i \subseteq 0 .. n - 1
    BY <1>1, <1>4
  <2>2. Ent(r, i) = e /\ \A j \in 0 .. i - 1 : Ent(r, j) = Ent(h, j)
    BY <1>1, <1>2, <1>4
  <2> QED
    BY <2>1, <2>2 DEF Part
<1>7. \A j \in i + 1 .. n - 1 : Ent(r, j) = Ent(h, j)
  BY <1>1, <1>2
<1>8. \A j \in 0 .. i - 1 : Ent(r, j).prio <= Ent(h, j).prio
  BY <1>1, <1>2, <1>4
<1>9. Ent(r, i) = e
  BY <1>1, <1>2, <1>4
<1> QED
  BY <1>2, <1>5, <1>6, <1>7, <1>8, <1>9 DEF UpDone, r, n

LEMMA UpMoves ==
    ASSUME NEW h \in Seq(Entry), NEW e \in Entry, NEW i \in Nat \ {0}, i < Len(h),
           Rising(h, 1, i - 1), NEW x,
           prio_q_mgr_entry_cmp(e, Ent(h, BIN_HEAP_PARENT(i))),
           UpDone(h, e, BIN_HEAP_PARENT(i), x)
    PROVE  UpDone(h, e, i, Put(x, i, Ent(h, BIN_HEAP_PARENT(i))))
<1> DEFINE n == Len(h)
           p == BIN_HEAP_PARENT(i)
           a == Ent(h, p)
           r == Put(x, i, a)
<1>1. n \in Nat /\ e.prio \in Nat /\ \A j \in 0 .. n - 1 : Ent(h, j).prio \in Nat
  BY EntryType DEF Entry
<1>2. p \in Nat /\ p < i /\ i < n /\ a \in Entry /\ Rising(h, 1, i - 1)
  BY ParentIs, EntryType
<1>3. x \in Seq(Entry) /\ Len(x) = n /\ UpDone(h, e, p, x)
  BY DEF UpDone
<1>4. /\ r \in Seq(Entry) /\ Len(r) = n
      /\ \A j \in 0 .. n - 1 : Ent(r, j) = IF j = i THEN a ELSE Ent(x, j)
  <2>1. a \in Entry /\ i \in Nat /\ i < Len(x) /\ x \in Seq(Entry) /\ Len(x) = n
    BY <1>2, <1>3
  <2> HIDE DEF a, n
  <2> HIDE DEF p, r
  <2>2. /\ Put(x, i, a) \in Seq(Entry) /\ Len(Put(x, i, a)) = Len(x)
        /\ \A j \in 0 .. Len(x) - 1 :
              Ent(Put(x, i, a), j) = IF j = i THEN a ELSE Ent(x, j)
    BY <2>1, PutEntry, ZenonT(30)
  <2> QED
    BY <2>1, <2>2 DEF r
<1>5. \A j \in 0 .. n - 1 : Ent(x, j).prio \in Nat
  BY <1>3, EntryType
<1>6. Ent(x, p).prio <= a.prio
  <2>1. CASE Ent(x, p) = e
    BY <1>1, <1>2, <2>1 DEF prio_q_mgr_entry_cmp, Entry
  <2>2. CASE p > 0 /\ Ent(x, p) = Ent(h, BIN_HEAP_PARENT(p))
    <3>1. p \in 1 .. i - 1
      BY <1>2, <2>2
    <3> QED
      BY <1>2, <2>2, <3>1 DEF Rising
  <2> QED
    BY <1>3, <2>1, <2>2 DEF UpDone
<1>7. /\ \A j \in p + 1 .. n - 1 : Ent(x, j) = Ent(h, j)
      /\ \A j \in 0 .. p : Ent(x, j).prio <= Ent(h, j).prio
      /\ Rising(x, 1, p) /\ Part(x, 0, p) = Part(h, 0, p - 1) \cup {e}
  <2>1. \A j \in 0 .. p - 1 : Ent(x, j).prio <= Ent(h, j).prio
    BY <1>3 DEF UpDone
  <2>2. \A j \in 0 .. p : j \in 0 .. p - 1 \/ j = p
    BY <1>2
  <2> QED
    BY <1>3, <1>6, <2>1, <2>2 DEF UpDone
<1>8. a.prio \in Nat /\ Ent(h, p) = a /\ \A j \in 1 .. i : BIN_HEAP_PARENT(j) \in 0 .. j - 1
  <2>1. a.prio \in Nat
    BY <1>2 DEF Entry
  <2>2. \A j \in 1 .. i : BIN_HEAP_PARENT(j) \in 0 .. j - 1
    BY ParentIs
  <2> QED
    BY <2>1, <2>2
<1>9. BIN_HEAP_PARENT(i) = p
  OBVIOUS
<1> HIDE DEF n, p, a, r
<1>10. \A j \in 0 .. i - 1 : Ent(r, j) = Ent(x, j) /\ Ent(x, j).prio <= Ent(h, j).prio
  <2> TAKE j \in 0 .. i - 1
  <2>1. j \in 0 .. n - 1 /\ j # i /\ (j \in 0 .. p \/ j \in p + 1 .. n - 1)
    BY <1>1, <1>2
  <2> QED
    BY <1>1, <1>4, <1>7, <2>1
<1>11. Rising(r, 1, i)
  <2> SUFFICES ASSUME NEW j \in 1 .. i
               PROVE  Ent(r, BIN_HEAP_PARENT(j)).prio <= Ent(r, j).prio
    BY DEF Rising
  <2> DEFINE m == BIN_HEAP_PARENT(j)
  <2>1. m \in 0 .. j - 1 /\ m \in 0 .. i - 1 /\ j \in 0 .. n - 1 /\ m \in 0 .. n - 1
    BY <1>1, <1>2, <1>8
  <2>2. Ent(r, m) = Ent(x, m) /\ Ent(x, m).prio <= Ent(h, m).prio
    BY <1>10, <2>1
  <2>3. CASE j = i
    <3>1. Ent(r, j) = a /\ m = p
      BY <1>4, <1>9, <2>1, <2>3
    <3> QED
      BY <1>6, <2>2, <3>1
  <2>4. CASE j # i /\ j > p
    <3>1. Ent(r, j) = Ent(h, j) /\ j \in 1 .. i - 1
      <4>1. j \in p + 1 .. n - 1 /\ j \in 1 .. i - 1
        BY <1>2, <2>1, <2>4
      <4> QED
        BY <1>4, <1>7, <2>1, <2>4, <4>1
    <3>2. Ent(h, m).prio <= Ent(h, j).prio
      BY <1>2, <3>1 DEF Rising
    <3>3. Ent(x, m).prio \in Nat /\ Ent(h, m).prio \in Nat /\ Ent(h, j).prio \in Nat
      BY <1>1, <1>5, <2>1
    <3> QED
      BY <2>2, <3>1, <3>2, <3>3
  <2>5. CASE j <= p
    <3>1. Ent(r, j) = Ent(x, j) /\ j \in 1 .. p
      BY <1>2, <1>10, <2>5
    <3>2. Ent(x, m).prio <= Ent(x, j).prio
      BY <1>7, <3>1 DEF Rising
    <3> QED
      BY <2>2, <3>1, <3>2
  <2> QED
    BY <1>2, <2>3, <2>4, <2>5
<1>12. Part(r, 0, i) = Part(h, 0, i - 1) \cup {e}
  <2>1. /\ 0 .. i = 0 .. p \cup (p + 1 .. i - 1) \cup {i}
        /\ 0 .. i - 1 = 0 .. p - 1 \cup {p} \cup (p + 1 .. i - 1)
    BY <1>2
  <2>2. Part(r, 0, p) = Part(x, 0, p)
    BY <1>2, <1>10 DEF Part
  <2>3. \A j \in p + 1 .. i - 1 : Ent(r, j) = Ent(h, j)
    <3> TAKE j \in p + 1 .. i - 1
    <3>1. j \in p + 1 .. n - 1 /\ j \in 0 .. i - 1
      BY <1>1, <1>2
    <3> QED
      BY <1>7, <1>10, <3>1
  <2>4. Part(r, p + 1, i - 1) = Part(h, p + 1, i - 1)
    BY <2>3 DEF Part
  <2>5. Part(r, 0, i) = Part(r, 0, p) \cup Part(r, p + 1, i - 1) \cup {Ent(r, i)}
    BY <2>1 DEF Part
  <2>6. Part(h, 0, i - 1) = Part(h, 0, p - 1) \cup {Ent(h, p)} \cup Part(h, p + 1, i - 1)
    BY <2>1 DEF Part
  <2>7. Ent(r, i) = a
    BY <1>1, <1>2, <1>4
  <2> QED
    BY <1>7, <1>8, <2>2, <2>4, <2>5, <2>6, <2>7
<1>13. \A j \in i + 1 .. n - 1 : Ent(r, j) = Ent(h, j)
  <2> TAKE j \in i + 1 .. n - 1
  <2>1. j \in p + 1 .. n - 1 /\ j \in 0 .. n - 1 /\ j # i
    BY <1>1, <1>2
  <2> QED
    BY <1>4, <1>7, <2>1
<1>14. Ent(r, i) = Ent(h, BIN_HEAP_PARENT(i)) /\ i > 0
  BY <1>1, <1>2, <1>4, <1>8, <1>9
<1> QED
  BY <1>4, <1>10, <1>11, <1>12, <1>13, <1>14 DEF UpDone, n, p, a, r

LEMMA UpRight ==
    ASSUME NEW h \in Seq(Entry), NEW e \in Entry, NEW hole \in Nat, hole < Len(h),
           Rising(h, 1, hole - 1)
    PROVE  UpDone(h, e, hole, bin_heap_do_percolate_up(h, hole, e))
<1>1. PICK f : /\ \A i \in 0 .. hole : f[i] = UpStep(h, e, i, f[BIN_HEAP_PARENT(i)])
               /\ bin_heap_do_percolate_up(h, hole, e) = f[hole]
  BY UpUnfolds
<1> DEFINE W == {m \in Nat : \A i \in 0 .. m : i <= hole => UpDone(h, e, i, f[i])}
<1>2. ASSUME NEW i \in 0 .. hole,
             \A j \in 0 .. i - 1 : UpDone(h, e, j, f[j])
      PROVE  UpDone(h, e, i, f[i])
  <2>1. i \in Nat /\ i < Len(h) /\ Rising(h, 1, i - 1)
    BY DEF Rising
  <2>2. f[i] = UpStep(h, e, i, f[BIN_HEAP_PARENT(i)])
    BY <1>1
  <2>3. CASE i > 0 /\ prio_q_mgr_entry_cmp(e, Ent(h, BIN_HEAP_PARENT(i)))
    <3>1. BIN_HEAP_PARENT(i) \in 0 .. i - 1
      BY <2>1, <2>3, ParentIs
    <3>2. UpDone(h, e, BIN_HEAP_PARENT(i), f[BIN_HEAP_PARENT(i)])
      BY <1>2, <3>1
    <3> QED
      BY <2>1, <2>2, <2>3, <3>2, UpMoves DEF UpStep
  <2>4. CASE ~(i > 0 /\ prio_q_mgr_entry_cmp(e, Ent(h, BIN_HEAP_PARENT(i))))
    BY <2>1, <2>2, <2>4, UpRests DEF UpStep
  <2> QED
    BY <2>3, <2>4
<1>3. 0 \in W
  <2>1. \A j \in 0 .. 0 - 1 : UpDone(h, e, j, f[j])
    OBVIOUS
  <2>2. UpDone(h, e, 0, f[0])
    BY <1>2, <2>1
  <2> QED
    BY <2>2
<1>4. ASSUME NEW m \in W PROVE m + 1 \in W
  <2>1. m \in Nat /\ \A i \in 0 .. m : i <= hole => UpDone(h, e, i, f[i])
    OBVIOUS
  <2>2. m + 1 <= hole => UpDone(h, e, m + 1, f[m + 1])
    <3> SUFFICES ASSUME m + 1 <= hole PROVE UpDone(h, e, m + 1, f[m + 1])
      OBVIOUS
    <3>1. m + 1 \in 0 .. hole /\ \A j \in 0 .. (m + 1) - 1 : UpDone(h, e, j, f[j])
      BY <2>1
    <3> QED
      BY <1>2, <3>1
  <2>3. \A i \in 0 .. m + 1 : i \in 0 .. m \/ i = m + 1
    BY <2>1
  <2> QED
    BY <2>1, <2>2, <2>3
<1>5. hole \in W
  <2>1. W \in SUBSET Nat
    OBVIOUS
  <2> HIDE DEF W
  <2> QED
    BY <1>3, <1>4, <2>1, NatSteps
<1>6. UpDone(h, e, hole, f[hole])
  BY <1>5
<1> QED
  BY <1>1, <1>6

(* The recursion of bin_heap_percolate_down, step by step: n is the last   *)
(* entry, which is no longer part of the heap.                             *)
BestChild(h, n, i) ==
    LET r == BIN_HEAP_RCHILD(i)
    IN  IF r < n /\ ~prio_q_mgr_entry_cmp(Ent(h, r - 1), Ent(h, r)) THEN r ELSE r - 1

DownStep(h, n, i, x) ==
    LET c == BestChild(h, n, i)
    IN  IF BIN_HEAP_RCHILD(i) < n THEN [x EXCEPT !.heap = Put(@, i, Ent(h, c))]
        ELSE IF BIN_HEAP_RCHILD(i) = n THEN [hole |-> c, heap |-> Put(h, i, Ent(h, c))]
        ELSE [hole |-> i, heap |-> h]

LEMMA BestChildIs ==
    ASSUME NEW h, NEW n \in Nat, NEW i \in Nat
    PROVE  /\ BIN_HEAP_RCHILD(i) = 2 * i + 2
           /\ BestChild(h, n, i) \in Nat /\ BestChild(h, n, i) > i
           /\ BestChild(h, n, i) \in {2 * i + 1, 2 * i + 2}
           /\ 2 * i + 2 <= n => BestChild(h, n, i) < n
<1> DEFINE c == BestChild(h, n, i)
<1>1. BIN_HEAP_RCHILD(i) = 2 * i + 2
  BY DEF BIN_HEAP_RCHILD
<1>2. (c = 2 * i + 2 /\ 2 * i + 2 < n) \/ c = 2 * i + 1
  BY <1>1 DEF BestChild
<1> HIDE DEF c
<1>3. c \in Nat /\ c > i /\ c \in {2 * i + 1, 2 * i + 2} /\ (2 * i + 2 <= n => c < n)
  BY <1>2
<1> QED
  BY <1>1, <1>3 DEF c

LEMMA DownUnfolds ==
    ASSUME NEW h, NEW n \in Nat
    PROVE  \E f : /\ \A i \in 0 .. n : f[i] = DownStep(h, n, i, f[BestChild(h, n, i)])
                  /\ bin_heap_percolate_down(h, 0, n)
                        = bin_heap_do_percolate_up(f[0].heap, f[0].hole, Ent(h, n))
<1> DEFINE s(i, x) == DownStep(h, n, i, x)
           c(i)    == BestChild(h, n, i)
           Steps(m, g) == /\ g = [i \in n - m .. n |-> g[i]]
                          /\ \A i \in n - m .. n : g[i] = s(i, g[c(i)])
           W == {m \in Nat : m <= n => \E g : Steps(m, g)}
<1>0. \A i \in 0 .. n : c(i) \in Nat /\ c(i) > i /\ (2 * i + 2 <= n => c(i) < n)
  BY BestChildIs
<1>1. \A i \in 0 .. n : ~(2 * i + 2 <= n) => \A x, y : s(i, x) = s(i, y)
  BY BestChildIs DEF DownStep
<1> HIDE DEF s, c
<1>2. 0 \in W
  <2>1. \E x : \A y : s(n, y) = x
    <3>1. CASE ~(2 * n + 2 <= n)
      BY <1>1, <3>1
    <3> QED
      BY <3>1
  <2>2. PICK x : \A y : s(n, y) = x
    BY <2>1
  <2> DEFINE g == [i \in n - 0 .. n |-> x]
  <2>3. g = [i \in n - 0 .. n |-> g[i]] /\ \A i \in n - 0 .. n : i = n /\ g[i] = x
    OBVIOUS
  <2> HIDE DEF g
  <2>4. Steps(0, g)
    BY <2>2, <2>3
  <2> HIDE DEF Steps
  <2> QED
    BY <2>4
<1>3. ASSUME NEW m \in W PROVE m + 1 \in W
  <2> SUFFICES ASSUME m + 1 <= n PROVE \E g : Steps(m + 1, g)
    OBVIOUS
  <2>1. m \in Nat /\ m <= n
    OBVIOUS
  <2>2. PICK g : Steps(m, g)
    BY <2>1
  <2> DEFINE k == n - (m + 1)
             r == [i \in k .. n |-> IF i = k THEN s(k, g[c(k)]) ELSE g[i]]
  <2>3. /\ k \in 0 .. n /\ k < n /\ \A i \in k .. n : i = k \/ i \in n - m .. n
        /\ \A i \in Nat : i > k /\ i <= n => i \in n - m .. n
        /\ n - m .. n \subseteq k .. n /\ k \notin n - m .. n
    BY <2>1
  <2>4. r = [i \in k .. n |-> r[i]]
    OBVIOUS
  <2>5. ASSUME NEW i \in k .. n PROVE r[i] = s(i, r[c(i)])
    <3>1. i \in 0 .. n
      BY <2>3
    <3>2. r[i] = s(i, g[c(i)])
      BY <2>2, <2>3
    <3>3. CASE 2 * i + 2 <= n
      <4>1. c(i) \in n - m .. n
        BY <1>0, <2>3, <3>1, <3>3
      <4>2. r[c(i)] = g[c(i)]
        BY <2>3, <4>1
      <4> QED
        BY <3>2, <4>2
    <3>4. CASE ~(2 * i + 2 <= n)
      BY <1>1, <3>1, <3>2, <3>4
    <3> QED
      BY <3>3, <3>4
  <2>6. Steps(m + 1, r)
    <3> HIDE DEF r
    <3> QED
      BY <2>4, <2>5
  <2> HIDE DEF Steps, r
  <2> QED
    BY <2>6
<1>4. n \in W
  <2>1. W \in SUBSET Nat
    OBVIOUS
  <2> HIDE DEF W
  <2> QED
    BY <1>2, <1>3, <2>1, NatSteps
<1>5. PICK g : Steps(n, g)
  <2> HIDE DEF Steps
  <2> QED
    BY <1>4
<1> DEFINE Rec(f) == f = [i \in 0 .. n |-> s(i, f[c(i)])]
<1>6. Rec(g)
  <2>1. n - n = 0
    OBVIOUS
  <2> QED
    BY <1>5, <2>1
<1> DEFINE d == CHOOSE f : Rec(f)
<1>7. bin_heap_percolate_down(h, 0, n)
         = bin_heap_do_percolate_up(d[0].heap, d[0].hole, Ent(h, n))
  BY DEF bin_heap_percolate_down, s, c, DownStep, BestChild
<1>8. Rec(d)
  <2> HIDE DEF Rec
  <2> QED
    BY <1>6
<1> HIDE DEF d
<1>9. \A i \in 0 .. n : d[i] = s(i, d[c(i)])
  BY <1>8
<1> QED
  BY <1>7, <1>9 DEF s, c

(* The hole has moved from i to a leaf: entries have only moved up, so     *)
(* that every place but the hole holds one that is no better than before.  *)
But(h, a, b, q) == {Ent(h, j) : j \in (a .. b) \ {q}}

DownDone(h, n, i, d) ==
    /\ d = [hole |-> d.hole, heap |-> d.heap]
    /\ d.heap \in Seq(Entry) /\ Len(d.heap) = Len(h)
    /\ d.hole \in i .. n - 1 /\ 2 * d.hole + 1 >= n
    /\ \A j \in 0 .. i - 1 : Ent(d.heap, j) = Ent(h, j)
    /\ \A j \in 0 .. n - 1 : Ent(h, j).prio <= Ent(d.heap, j).prio
    /\ \A j \in 1 .. n - 1 : j # d.hole /\ BIN_HEAP_PARENT(j) >= i =>
          Ent(d.heap, BIN_HEAP_PARENT(j)).prio <= Ent(d.heap, j).prio
    /\ But(d.heap, i, n - 1, d.hole) = Part(h, i + 1, n - 1)

LEMMA DownRests ==
    ASSUME NEW h \in Seq(Entry), NEW n \in Nat, n < Len(h), Rising(h, 1, n - 1),
           NEW i \in Nat, i < n, 2 * i + 1 >= n
    PROVE  DownDone(h, n, i, [hole |-> i, heap |-> h])
<1> DEFINE d == [hole |-> i, heap |-> h]
<1>1. d.heap = h /\ d.hole = i /\ d = [hole |-> d.hole, heap |-> d.heap]
  OBVIOUS
<1> HIDE DEF d
<1>2. \A j \in 0 .. n - 1 : Ent(h, j).prio \in Nat
  BY EntryType
<1>3. But(h, i, n - 1, i) = Part(h, i + 1, n - 1)
  <2>1. (i .. n - 1) \ {i} = i + 1 .. n - 1
    OBVIOUS
  <2> QED
    BY <2>1 DEF But, Part
<1>4. \A j \in 1 .. n - 1 : Ent(h, BIN_HEAP_PARENT(j)).prio <= Ent(h, j).prio
  BY DEF Rising
<1>5. \A j \in 0 .. n - 1 : Ent(h, j).prio <= Ent(h, j).prio
  BY <1>2
<1> QED
  BY <1>1, <1>3, <1>4, <1>5 DEF DownDone, d

LEMMA DownMoves ==
    ASSUME NEW h \in Seq(Entry), NEW n \in Nat, n < Len(h), Rising(h, 1, n - 1),
           NEW i \in Nat, 2 * i + 2 <= n, NEW x,
           DownDone(h, n, BestChild(h, n, i), x)
    PROVE  LET b == Ent(h, BestChild(h, n, i))
           IN  DownDone(h, n, i, [hole |-> x.hole, heap |-> Put(x.heap, i, b)])
<1> DEFINE c == BestChild(h, n, i)
           b == Ent(h, c)
           y == x.heap
           q == x.hole
           r == Put(y, i, b)
           d == [hole |-> q, heap |-> r]
<1>1. c \in Nat /\ c > i /\ c < n /\ c \in {2 * i + 1, 2 * i + 2}
  BY BestChildIs
<1>2. \A j \in 0 .. n - 1 : Ent(h, j) \in Entry /\ Ent(h, j).prio \in Nat
  BY EntryType
<1>3. /\ y \in Seq(Entry) /\ Len(y) = Len(h) /\ q \in c .. n - 1 /\ 2 * q + 1 >= n
      /\ \A j \in 0 .. c - 1 : Ent(y, j) = Ent(h, j)
      /\ \A j \in 0 .. n - 1 : Ent(h, j).prio <= Ent(y, j).prio
      /\ \A j \in 1 .. n - 1 : j # q /\ BIN_HEAP_PARENT(j) >= c =>
            Ent(y, BIN_HEAP_PARENT(j)).prio <= Ent(y, j).prio
      /\ But(y, c, n - 1, q) = Part(h, c + 1, n - 1)
  BY DEF DownDone
<1>4. \A j \in 0 .. n - 1 : Ent(y, j).prio \in Nat
  <2>1. \A j \in 0 .. n - 1 : j \in 0 .. Len(y) - 1
    BY <1>3
  <2> HIDE DEF y
  <2> QED
    BY <1>3, <2>1, EntryType
<1>5. \A j \in 1 .. n - 1 : BIN_HEAP_PARENT(j) = i => b.prio <= Ent(h, j).prio
  <2> TAKE j \in 1 .. n - 1
  <2> SUFFICES ASSUME BIN_HEAP_PARENT(j) = i PROVE b.prio <= Ent(h, j).prio
    OBVIOUS
  <2>1. j = 2 * i + 1 \/ j = 2 * i + 2
    <3>1. j \in Nat \ {0}
      OBVIOUS
    <3> QED
      BY <3>1, ParentIs
  <2>2. /\ 2 * i + 1 \in 0 .. n - 1 /\ (2 * i + 2) - 1 = 2 * i + 1
        /\ BIN_HEAP_RCHILD(i) = 2 * i + 2
    BY DEF BIN_HEAP_RCHILD
  <2> DEFINE l == Ent(h, 2 * i + 1).prio
             g == Ent(h, 2 * i + 2).prio
  <2>3. l \in Nat
    BY <1>2, <2>2
  <2>4. CASE 2 * i + 2 < n
    <3>1. g \in Nat
      BY <1>2, <2>4
    <3>2. c = IF ~(l < g) THEN 2 * i + 2 ELSE 2 * i + 1
      BY <2>2, <2>4 DEF BestChild, prio_q_mgr_entry_cmp
    <3> HIDE DEF c
    <3>3. b.prio <= l /\ b.prio <= g
      BY <2>3, <3>1, <3>2
    <3> QED
      BY <2>1, <3>3
  <2>5. CASE ~(2 * i + 2 < n)
    <3>1. j = 2 * i + 1 /\ c = 2 * i + 1
      BY <1>1, <2>1, <2>5
    <3> HIDE DEF c
    <3> QED
      BY <2>3, <3>1
  <2> QED
    BY <2>4, <2>5
<1>6. b \in Entry /\ b.prio \in Nat /\ Ent(h, i).prio <= b.prio
  <2>1. c \in 1 .. n - 1 /\ BIN_HEAP_PARENT(c) = i
    BY <1>1 DEF BIN_HEAP_PARENT
  <2> HIDE DEF c
  <2> QED
    BY <1>2, <2>1 DEF Rising
<1> HIDE DEF c, b, y, q
<1>7. /\ r \in Seq(Entry) /\ Len(r) = Len(h)
      /\ \A j \in 0 .. n - 1 : Ent(r, j) = IF j = i THEN b ELSE Ent(y, j)
  <2>1. i < Len(y) /\ n <= Len(y) /\ Len(y) \in Nat
    BY <1>1, <1>3
  <2>2. /\ r \in Seq(Entry) /\ Len(r) = Len(y)
        /\ \A j \in 0 .. Len(y) - 1 : Ent(r, j) = IF j = i THEN b ELSE Ent(y, j)
    BY <1>3, <1>6, <2>1, PutEntry, ZenonT(30)
  <2> HIDE DEF r
  <2> QED
    BY <1>3, <2>1, <2>2
<1> HIDE DEF r
<1>8. \A j \in 0 .. n - 1 : Ent(h, j).prio <= Ent(r, j).prio
  BY <1>1, <1>3, <1>6, <1>7
<1>9. \A j \in 0 .. i - 1 : Ent(r, j) = Ent(h, j)
  BY <1>1, <1>3, <1>7
<1>10. ASSUME NEW j \in 1 .. n - 1, j # q, BIN_HEAP_PARENT(j) >= i
       PROVE  Ent(r, BIN_HEAP_PARENT(j)).prio <= Ent(r, j).prio
  <2> DEFINE m == BIN_HEAP_PARENT(j)
  <2>1. m \in Nat /\ m < j /\ m >= i /\ m \in 0 .. n - 1 /\ j \in 0 .. n - 1 /\ j # i
    BY <1>10, ParentIs
  <2>2. Ent(r, j) = Ent(y, j) /\ Ent(h, j).prio <= Ent(y, j).prio
    BY <1>3, <1>7, <2>1
  <2>3. CASE m = i
    <3>1. Ent(r, m) = b /\ b.prio <= Ent(h, j).prio
      BY <1>5, <1>7, <2>1, <2>3
    <3>2. Ent(h, j).prio \in Nat /\ Ent(y, j).prio \in Nat
      BY <1>2, <1>4, <2>1
    <3> QED
      BY <1>6, <2>2, <3>1, <3>2
  <2>4. CASE m # i /\ m < c
    <3>1. Ent(r, m) = Ent(h, m)
      <4>1. m \in 0 .. c - 1
        BY <1>1, <2>1, <2>4
      <4> QED
        BY <1>3, <1>7, <2>1, <2>4, <4>1
    <3>2. Ent(h, m).prio <= Ent(h, j).prio
      BY DEF Rising
    <3>3. Ent(h, m).prio \in Nat /\ Ent(h, j).prio \in Nat /\ Ent(y, j).prio \in Nat
      BY <1>2, <1>4, <2>1
    <3> QED
      BY <2>2, <3>1, <3>2, <3>3
  <2>5. CASE m >= c
    <3>1. Ent(y, m).prio <= Ent(y, j).prio
      BY <1>3, <1>10, <2>5
    <3>2. Ent(r, m) = Ent(y, m)
      BY <1>1, <1>7, <2>1, <2>5
    <3> QED
      BY <2>2, <3>1, <3>2
  <2> QED
    BY <1>1, <2>1, <2>3, <2>4, <2>5
<1>11. But(r, i, n - 1, q) = Part(h, i + 1, n - 1)
  <2>1. /\ (i .. n - 1) \ {q} = {i} \cup (i + 1 .. c - 1) \cup ((c .. n - 1) \ {q})
        /\ i + 1 .. n - 1 = (i + 1 .. c - 1) \cup {c} \cup (c + 1 .. n - 1)
    BY <1>1, <1>3
  <2>2. But(r, i, n - 1, q) = {Ent(r, i)} \cup Part(r, i + 1, c - 1) \cup But(r, c, n - 1, q)
    BY <2>1 DEF But, Part
  <2>3. Part(h, i + 1, n - 1) = Part(h, i + 1, c - 1) \cup {b} \cup Part(h, c + 1, n - 1)
    BY <2>1 DEF Part, b
  <2>4. Part(r, i + 1, c - 1) = Part(h, i + 1, c - 1)
    <3>1. \A j \in i + 1 .. c - 1 : Ent(r, j) = Ent(h, j)
      BY <1>1, <1>3, <1>7
    <3> QED
      BY <3>1 DEF Part
  <2>5. But(r, c, n - 1, q) = But(y, c, n - 1, q)
    <3>1. \A j \in c .. n - 1 : Ent(r, j) = Ent(y, j)
      BY <1>1, <1>7
    <3> QED
      BY <3>1 DEF But
  <2>6. Ent(r, i) = b
    BY <1>1, <1>7
  <2> QED
    BY <1>3, <2>2, <2>3, <2>4, <2>5, <2>6
<1>12. q \in i .. n - 1 /\ 2 * q + 1 >= n
  BY <1>1, <1>3
<1>13. d.heap = r /\ d.hole = q /\ d = [hole |-> d.hole, heap |-> d.heap]
  OBVIOUS
<1> HIDE DEF d
<1>14. DownDone(h, n, i, d)
  BY <1>7, <1>8, <1>9, <1>10, <1>11, <1>12, <1>13 DEF DownDone
<1> QED
  BY <1>14 DEF d, r, b, c, y, q

LEMMA DownRight ==
    ASSUME NEW h \in Seq(Entry), NEW n \in Nat \ {0}, n < Len(h), Rising(h, 1, n - 1)
    PROVE  \E d : /\ DownDone(h, n, 0, d)
                  /\ bin_heap_percolate_down(h, 0, n)
                        = bin_heap_do_percolate_up(d.heap, d.hole, Ent(h, n))
<1>1. PICK f : /\ \A i \in 0 .. n : f[i] = DownStep(h, n, i, f[BestChild(h, n, i)])
               /\ bin_heap_percolate_down(h, 0, n)
                     = bin_heap_do_percolate_up(f[0].heap, f[0].hole, Ent(h, n))
  BY DownUnfolds
<1> DEFINE Fine(i) == DownDone(h, n, i, f[i])
<1>2. ASSUME NEW i \in 0 .. n - 1, \A j \in i + 1 .. n - 1 : Fine(j)
      PROVE  Fine(i)
  <2> DEFINE c == BestChild(h, n, i)
             b == Ent(h, c)
  <2>1. /\ i \in Nat /\ i < n /\ BIN_HEAP_RCHILD(i) = 2 * i + 2
        /\ f[i] = DownStep(h, n, i, f[c])
        /\ c \in Nat /\ c > i /\ c \in {2 * i + 1, 2 * i + 2} /\ (2 * i + 2 <= n => c < n)
    <3>1. i \in 0 .. n
      OBVIOUS
    <3> QED
      BY <1>1, <3>1, BestChildIs
  <2>2. CASE 2 * i + 2 < n
    <3>1. Fine(c)
      BY <1>2, <2>1, <2>2
    <3> DEFINE x == f[c]
    <3>2. x = [hole |-> x.hole, heap |-> x.heap]
      BY <3>1 DEF DownDone
    <3>3. f[i] = [x EXCEPT !.heap = Put(x.heap, i, b)]
      BY <2>1, <2>2 DEF DownStep
    <3>4. DownDone(h, n, i, [hole |-> x.hole, heap |-> Put(x.heap, i, b)])
      BY <2>1, <2>2, <3>1, DownMoves
    <3>5. f[i] = [hole |-> x.hole, heap |-> Put(x.heap, i, b)]
      <4> HIDE DEF x, b
      <4> QED
        BY <3>2, <3>3
    <3> QED
      BY <3>4, <3>5
  <2>3. CASE 2 * i + 2 = n
    <3>1. f[i] = [hole |-> c, heap |-> Put(h, i, b)]
      BY <2>1, <2>3 DEF DownStep
    <3>2. c < n /\ 2 * c + 1 >= n
      BY <2>1, <2>3
    <3>3. DownDone(h, n, c, [hole |-> c, heap |-> h])
      BY <2>1, <3>2, DownRests
    <3>4. DownDone(h, n, i, [hole |-> c, heap |-> Put(h, i, b)])
      BY <2>1, <2>3, <3>3, DownMoves
    <3> QED
      BY <3>1, <3>4
  <2>4. CASE 2 * i + 2 > n
    <3>1. f[i] = [hole |-> i, heap |-> h]
      BY <2>1, <2>4 DEF DownStep
    <3>2. DownDone(h, n, i, [hole |-> i, heap |-> h])
      BY <2>1, <2>4, DownRests
    <3> QED
      BY <3>1, <3>2
  <2> QED
    BY <2>1, <2>2, <2>3, <2>4
<1> HIDE DEF Fine
<1> DEFINE W == {m \in Nat : \A i \in 0 .. n - 1 : i >= n - 1 - m => Fine(i)}
<1>3. 0 \in W
  <2>1. \A j \in (n - 1) + 1 .. n - 1 : Fine(j)
    OBVIOUS
  <2>2. n - 1 \in 0 .. n - 1 /\ \A i \in 0 .. n - 1 : i >= n - 1 - 0 => i = n - 1
    OBVIOUS
  <2> QED
    BY <1>2, <2>1, <2>2
<1>4. ASSUME NEW m \in W PROVE m + 1 \in W
  <2> SUFFICES ASSUME NEW i \in 0 .. n - 1, i >= n - 1 - (m + 1) PROVE Fine(i)
    OBVIOUS
  <2>1. \A j \in i + 1 .. n - 1 : Fine(j)
    <3> TAKE j \in i + 1 .. n - 1
    <3>1. m \in Nat /\ j \in 0 .. n - 1 /\ j >= n - 1 - m
      OBVIOUS
    <3> QED
      BY <3>1
  <2> QED
    BY <1>2, <2>1
<1>5. n - 1 \in W
  <2>1. W \in SUBSET Nat
    OBVIOUS
  <2> HIDE DEF W
  <2> QED
    BY <1>3, <1>4, <2>1, NatSteps
<1>6. Fine(0)
  <2>1. 0 \in 0 .. n - 1 /\ 0 >= n - 1 - (n - 1)
    OBVIOUS
  <2> QED
    BY <1>5, <2>1
<1> QED
  BY <1>1, <1>6 DEF Fine

(* The whole of bin_heap_percolate_down: the last entry replaces the first *)
(* one, and the others make room.                                          *)
LEMMA PercolateRight ==
    ASSUME NEW h \in Seq(Entry), NEW n \in Nat \ {0}, n < Len(h), Rising(h, 1, n - 1)
    PROVE  LET r == bin_heap_percolate_down(h, 0, n)
           IN  /\ r \in Seq(Entry) /\ Len(r) = Len(h)
               /\ Rising(r, 1, n - 1)
               /\ Part(r, 0, n - 1) = Part(h, 1, n)
<1> DEFINE e == Ent(h, n)
           r == bin_heap_percolate_down(h, 0, n)
<1>1. PICK d : DownDone(h, n, 0, d) /\ r = bin_heap_do_percolate_up(d.heap, d.hole, e)
  BY DownRight
<1> DEFINE y == d.heap
           q == d.hole
<1>2. /\ y \in Seq(Entry) /\ Len(y) = Len(h) /\ q \in 0 .. n - 1 /\ 2 * q + 1 >= n
      /\ \A j \in 1 .. n - 1 : j # q => Ent(y, BIN_HEAP_PARENT(j)).prio <= Ent(y, j).prio
      /\ But(y, 0, n - 1, q) = Part(h, 1, n - 1)
  <2>1. \A j \in 1 .. n - 1 : BIN_HEAP_PARENT(j) >= 0
    BY ParentIs
  <2> QED
    BY <1>1, <2>1 DEF DownDone
<1>3. e \in Entry /\ Len(h) \in Nat
  BY EntryType
<1> HIDE DEF y, q, e
<1>4. UpDone(y, e, q, r)
  <2>1. Rising(y, 1, q - 1)
    BY <1>2 DEF Rising
  <2>2. q \in Nat /\ q < Len(y)
    BY <1>2, <1>3
  <2> QED
    BY <1>1, <1>2, <1>3, <2>1, <2>2, UpRight DEF y, q
<1> HIDE DEF r
<1>5. /\ r \in Seq(Entry) /\ Len(r) = Len(h)
      /\ \A j \in q + 1 .. n - 1 : Ent(r, j) = Ent(y, j)
      /\ \A j \in 0 .. q - 1 : Ent(r, j).prio <= Ent(y, j).prio
      /\ Rising(r, 1, q) /\ Part(r, 0, q) = Part(y, 0, q - 1) \cup {e}
  <2>1. q + 1 .. n - 1 \subseteq q + 1 .. Len(y) - 1
    BY <1>2, <1>3
  <2> QED
    BY <1>2, <1>4, <2>1 DEF UpDone
<1>6. \A j \in 0 .. n - 1 : Ent(r, j).prio \in Nat /\ Ent(y, j).prio \in Nat
  <2>1. \A j \in 0 .. n - 1 : j \in 0 .. Len(y) - 1 /\ j \in 0 .. Len(r) - 1
    BY <1>2, <1>3, <1>5
  <2> QED
    BY <1>2, <1>5, <2>1, EntryType
<1>7. Rising(r, 1, n - 1)
  <2> SUFFICES ASSUME NEW j \in 1 .. n - 1
               PROVE  Ent(r, BIN_HEAP_PARENT(j)).prio <= Ent(r, j).prio
    BY DEF Rising
  <2> DEFINE m == BIN_HEAP_PARENT(j)
  <2>1. m \in Nat /\ m < j /\ (j = 2 * m + 1 \/ j = 2 * m + 2)
    <3>1. j \in Nat \ {0}
      OBVIOUS
    <3> QED
      BY <3>1, ParentIs
  <2>2. CASE j \in 1 .. q
    BY <1>5, <2>2 DEF Rising
  <2>3. CASE j > q
    <3>1. Ent(r, j) = Ent(y, j) /\ Ent(y, m).prio <= Ent(y, j).prio
      BY <1>2, <1>5, <2>3
    <3>2. m # q /\ m \in 0 .. n - 1 /\ j \in 0 .. n - 1
      BY <1>2, <2>1
    <3>3. Ent(r, m).prio <= Ent(y, m).prio
      <4>1. CASE m \in 0 .. q - 1
        BY <1>5, <4>1
      <4>2. CASE m \in q + 1 .. n - 1
        BY <1>5, <1>6, <3>2, <4>2
      <4> QED
        BY <1>2, <2>1, <3>2, <4>1, <4>2
    <3>4. Ent(r, m).prio \in Nat /\ Ent(y, m).prio \in Nat /\ Ent(y, j).prio \in Nat
      BY <1>6, <3>2
    <3> QED
      BY <3>1, <3>3, <3>4
  <2> QED
    BY <1>2, <2>2, <2>3
<1>8. Part(r, 0, n - 1) = Part(h, 1, n)
  <2>1. /\ 0 .. n - 1 = (0 .. q) \cup (q + 1 .. n - 1)
        /\ (0 .. n - 1) \ {q} = (0 .. q - 1) \cup (q + 1 .. n - 1)
        /\ 1 .. n = (1 .. n - 1) \cup {n}
    BY <1>2
  <2>2. Part(r, 0, n - 1) = Part(r, 0, q) \cup Part(r, q + 1, n - 1)
    BY <2>1 DEF Part
  <2>3. Part(r, q + 1, n - 1) = Part(y, q + 1, n - 1)
    BY <1>5 DEF Part
  <2>4. But(y, 0, n - 1, q) = Part(y, 0, q - 1) \cup Part(y, q + 1, n - 1)
    BY <2>1 DEF But, Part
  <2>5. Part(h, 1, n) = Part(h, 1, n - 1) \cup {e}
    BY <2>1 DEF Part, e
  <2>6. But(y, 0, n - 1, q) = Part(h, 1, n - 1) /\ Part(r, 0, q) = Part(y, 0, q - 1) \cup {e}
    BY <1>2, <1>5
  <2>7. Part(r, 0, n - 1) = (Part(y, 0, q - 1) \cup {e}) \cup Part(y, q + 1, n - 1)
    BY <2>2, <2>3, <2>6
  <2>8. Part(h, 1, n) = (Part(y, 0, q - 1) \cup Part(y, q + 1, n - 1)) \cup {e}
    BY <2>4, <2>5, <2>6
  <2> QED
    BY <2>7, <2>8
<1> QED
  BY <1>5, <1>7, <1>8 DEF r

(* tos_bin_heap_push and tos_bin_heap_pop keep a heap, and its entries.    *)
LEMMA PushRight ==
    ASSUME NEW h \in Seq(Entry), Rising(h, 1, Len(h) - 1), NEW e \in Entry
    PROVE  LET r == tos_bin_heap_push(h, e)
           IN  /\ r \in Seq(Entry) /\ Len(r) = Len(h) + 1
               /\ Rising(r, 1, Len(r) - 1)
               /\ Part(r, 0, Len(r) - 1) = Part(h, 0, Len(h) - 1) \cup {e}
<1> DEFINE n == Len(h)
           a == Append(h, e)
           r == tos_bin_heap_push(h, e)
<1>1. n \in Nat /\ a \in Seq(Entry) /\ Len(a) = n + 1
  OBVIOUS
<1>2. \A j \in 0 .. n - 1 : Ent(a, j) = Ent(h, j)
  BY DEF Ent
<1>3. r = bin_heap_do_percolate_up(a, n, e)
  BY DEF tos_bin_heap_push
<1>4. \A j \in 1 .. n - 1 : BIN_HEAP_PARENT(j) \in 0 .. n - 1
  BY ParentIs
<1>5. Rising(h, 1, n - 1)
  OBVIOUS
<1> HIDE DEF n, a, r
<1>6. Rising(a, 1, n - 1)
  BY <1>1, <1>2, <1>4, <1>5 DEF Rising
<1>7. UpDone(a, e, n, r)
  BY <1>1, <1>3, <1>6, UpRight
<1>8. Part(a, 0, n - 1) = Part(h, 0, n - 1)
  BY <1>2 DEF Part
<1>9. r \in Seq(Entry) /\ Len(r) = n + 1 /\ Rising(r, 1, n)
      /\ Part(r, 0, n) = Part(h, 0, n - 1) \cup {e}
  BY <1>1, <1>7, <1>8 DEF UpDone
<1>10. Len(r) - 1 = n
  BY <1>1, <1>9
<1> QED
  BY <1>9, <1>10 DEF n, r

LEMMA PopRight ==
    ASSUME NEW h \in Seq(Entry), Len(h) > 0, Rising(h, 1, Len(h) - 1)
    PROVE  LET r == tos_bin_heap_pop(h)
           IN  /\ r \in Seq(Entry) /\ Len(r) = Len(h) - 1
               /\ Rising(r, 1, Len(r) - 1)
               /\ Part(r, 0, Len(r) - 1) = Part(h, 1, Len(h) - 1)
<1> DEFINE n == Len(h) - 1
           a == bin_heap_percolate_down(h, 0, n)
           r == tos_bin_heap_pop(h)
<1>1. n \in Nat /\ n < Len(h) /\ Len(h) \in Nat /\ Len(h) = n + 1 /\ Rising(h, 1, n)
  OBVIOUS
<1>2. r = SubSeq(a, 1, n)
  BY DEF tos_bin_heap_pop
<1> HIDE DEF n, a, r
<1>3. CASE n = 0
  <2>1. r = << >>
    BY <1>2, <1>3
  <2>2. Part(r, 0, 0 - 1) = {} /\ Part(h, 1, 0) = {} /\ Rising(r, 1, 0 - 1)
    BY DEF Part, Rising
  <2>3. r \in Seq(Entry) /\ Len(r) = 0
    BY <2>1
  <2>4. Len(r) = n /\ Rising(r, 1, Len(r) - 1) /\ Part(r, 0, Len(r) - 1) = Part(h, 1, n)
    BY <1>3, <2>2, <2>3
  <2> QED
    BY <2>3, <2>4 DEF r, n
<1>4. CASE n # 0
  <2>1. Rising(h, 1, n - 1)
    BY <1>1 DEF Rising
  <2>2. /\ a \in Seq(Entry) /\ Len(a) = n + 1
        /\ Rising(a, 1, n - 1) /\ Part(a, 0, n - 1) = Part(h, 1, n)
    BY <1>1, <1>4, <2>1, PercolateRight DEF a
  <2>3. r \in Seq(Entry) /\ Len(r) = n /\ \A j \in 1 .. n : r[j] = a[j]
    BY <1>1, <1>2, <2>2
  <2>4. \A j \in 0 .. n - 1 : Ent(r, j) = Ent(a, j)
    <3>1. \A j \in 0 .. n - 1 : j + 1 \in 1 .. n
      BY <1>1
    <3> QED
      BY <2>3, <3>1 DEF Ent
  <2>5. \A j \in 1 .. n - 1 : BIN_HEAP_PARENT(j) \in 0 .. n - 1
    <3>1. \A j \in 1 .. n - 1 : j \in Nat \ {0}
      BY <1>1
    <3> QED
      BY <1>1, <3>1, ParentIs
  <2>6. Rising(r, 1, n - 1) /\ Part(r, 0, n - 1) = Part(a, 0, n - 1)
    BY <1>1, <2>2, <2>4, <2>5 DEF Rising, Part
  <2> QED
    BY <1>1, <2>2, <2>3, <2>6 DEF r, n
<1> QED
  BY <1>3, <1>4
----------------------------------------------------------------------------
(* The priority queue: a slot is free, or the heap has an entry for it and *)
(* it holds an item.                                                       *)

Members(s)  == {s[i] : i \in 1 .. Len(s)}
SlotSet(h) == {e.slot : e \in Part(h, 0, Len(h) - 1)}

PrioOK(size, q) ==
    /\ q = [ free |-> q.free, heap |-> q.heap, total |-> q.total, cnt |-> size,
             pool |-> q.pool ]
    /\ q.free \in Seq(Nat) /\ q.heap \in Seq(Entry) /\ q.total = Len(q.heap)
    /\ Len(q.free) + Len(q.heap) = size
    /\ Members(q.free) \cup SlotSet(q.heap) = 0 .. size - 1
    /\ Rising(q.heap, 1, Len(q.heap) - 1)
    /\ q.pool \in [0 .. size - 1 -> Item \cup {NoItem}]
    /\ \A s \in SlotSet(q.heap) : q.pool[s] \in Item

LEMMA PrioType ==
    ASSUME NEW size \in Nat, NEW q, PrioOK(size, q)
    PROVE  q.total \in 0 .. size /\ q.cnt = size
<1>1. q.free \in Seq(Nat) /\ q.heap \in Seq(Entry) /\ q.total = Len(q.heap)
      /\ Len(q.free) + Len(q.heap) = size /\ q.cnt = size
  BY DEF PrioOK
<1>2. Len(q.free) \in Nat /\ Len(q.heap) \in Nat
  BY <1>1
<1>3. ASSUME NEW a \in Nat, NEW b \in Nat, a + b = size PROVE b \in 0 .. size
  BY <1>3
<1>4. q.total \in 0 .. size
  BY <1>1, <1>2, <1>3
<1> QED
  BY <1>1, <1>4

(* The chain of free slots and the slots of the heap, one after the other. *)
Slots(q) == q.free \o [i \in DOMAIN q.heap |-> q.heap[i].slot]

LEMMA SlotsAre ==
    ASSUME NEW size \in Nat, NEW q, PrioOK(size, q)
    PROVE  /\ Slots(q) \in Seq(Nat) /\ Len(Slots(q)) = size
           /\ DOMAIN Slots(q) = 1 .. size
           /\ Members(Slots(q)) = 0 .. size - 1
           /\ \A i \in 1 .. Len(q.free) : i \in 1 .. size /\ Slots(q)[i] = q.free[i]
           /\ \A j \in 0 .. Len(q.heap) - 1 :
                 /\ Len(q.free) + (j + 1) \in 1 .. size
                 /\ Slots(q)[Len(q.free) + (j + 1)] = Ent(q.heap, j).slot
<1> DEFINE f == q.free
           h == q.heap
           r == [i \in DOMAIN h |-> h[i].slot]
           m == Len(f)
           n == Len(h)
<1>1. /\ f \in Seq(Nat) /\ h \in Seq(Entry) /\ m \in Nat /\ n \in Nat /\ m + n = size
      /\ Members(f) \cup SlotSet(h) = 0 .. size - 1
  BY DEF PrioOK
<1>2. Slots(q) = f \o r
  BY DEF Slots
<1> HIDE DEF f, h, m, n
<1>3. \A j \in 0 .. n - 1 : Ent(h, j) = h[j + 1] /\ j + 1 \in 1 .. n
  BY <1>1 DEF Ent
<1>4. DOMAIN h = 1 .. n /\ \A i \in 1 .. n : h[i].slot \in Nat
  <2>1. DOMAIN h = 1 .. n /\ \A i \in 1 .. n : h[i] \in Entry
    BY <1>1, LenProperties, ElementOfSeq DEF n
  <2> QED
    BY <2>1 DEF Entry
<1>5. r \in Seq(Nat) /\ Len(r) = n /\ \A i \in 1 .. n : r[i] = h[i].slot
  <2>1. r \in [1 .. n -> Nat] /\ \A i \in 1 .. n : r[i] = h[i].slot
    BY <1>4
  <2> HIDE DEF r
  <2> QED
    BY <1>1, <2>1
<1> HIDE DEF r
<1>6. /\ f \o r \in Seq(Nat) /\ Len(f \o r) = size
      /\ \A i \in 1 .. size : (f \o r)[i] = IF i <= m THEN f[i] ELSE r[i - m]
  BY <1>1, <1>5, ConcatProperties DEF m
<1>7. \A j \in 0 .. n - 1 : m + (j + 1) \in 1 .. size /\ (f \o r)[m + (j + 1)] = Ent(h, j).slot
  <2> TAKE j \in 0 .. n - 1
  <2>1. m + (j + 1) \in 1 .. size /\ ~(m + (j + 1) <= m) /\ (m + (j + 1)) - m = j + 1
    BY <1>1
  <2>2. (f \o r)[m + (j + 1)] = r[j + 1]
    BY <1>6, <2>1
  <2> QED
    BY <1>3, <1>5, <2>1, <2>2
<1>8. Members(f \o r) = Members(f) \cup SlotSet(h)
  <2>1. ASSUME NEW i \in 1 .. size
        PROVE  (f \o r)[i] \in Members(f) \cup SlotSet(h)
    <3>1. CASE i <= m
      <4>1. i \in 1 .. m
        BY <3>1
      <4> QED
        BY <1>6, <3>1, <4>1 DEF Members, m
    <3>2. CASE ~(i <= m)
      <4>1. i - m \in 1 .. n /\ (i - m) - 1 \in 0 .. n - 1 /\ ((i - m) - 1) + 1 = i - m
        BY <1>1, <3>2
      <4>2. (f \o r)[i] = Ent(h, (i - m) - 1).slot
        BY <1>3, <1>5, <1>6, <3>2, <4>1
      <4> QED
        BY <4>1, <4>2 DEF SlotSet, Part, n
    <3> QED
      BY <3>1, <3>2
  <2>2. ASSUME NEW i \in 1 .. m PROVE f[i] \in Members(f \o r)
    <3>1. i \in 1 .. size /\ (f \o r)[i] = f[i]
      BY <1>1, <1>6
    <3> QED
      BY <1>6, <3>1 DEF Members
  <2>3. ASSUME NEW j \in 0 .. n - 1 PROVE Ent(h, j).slot \in Members(f \o r)
    BY <1>6, <1>7 DEF Members
  <2>4. Members(f \o r) \subseteq Members(f) \cup SlotSet(h)
    BY <1>6, <2>1 DEF Members
  <2>5. Members(f) \subseteq Members(f \o r)
    BY <2>2 DEF Members, m
  <2>6. SlotSet(h) \subseteq Members(f \o r)
    BY <2>3 DEF SlotSet, Part, n
  <2> QED
    BY <2>4, <2>5, <2>6
<1>9. DOMAIN (f \o r) = 1 .. size
  BY <1>6, LenProperties
<1>10. \A i \in 1 .. m : i \in 1 .. size /\ (f \o r)[i] = f[i]
  BY <1>1, <1>6
<1> QED
  BY <1>1, <1>2, <1>6, <1>7, <1>8, <1>9, <1>10 DEF f, h, m, n

LEMMA PrioOKSound ==
    ASSUME NEW size \in Nat, NEW q, PrioOK(size, q)
    PROVE  PrioSound(q)
<1>1. /\ q.total = Len(q.heap) /\ q.cnt = size /\ q.heap \in Seq(Entry)
      /\ Rising(q.heap, 1, Len(q.heap) - 1)
  BY DEF PrioOK
<1>2. /\ Len(Slots(q)) = q.cnt
      /\ {Slots(q)[i] : i \in DOMAIN Slots(q)} = 0 .. q.cnt - 1
  <2>1. /\ Len(Slots(q)) = size /\ DOMAIN Slots(q) = 1 .. size
        /\ Members(Slots(q)) = 0 .. size - 1
    BY SlotsAre
  <2> QED
    BY <1>1, <2>1 DEF Members
<1>3. ASSUME NEW i \in 1 .. Len(q.heap) - 1
      PROVE  ~prio_q_mgr_entry_cmp(Ent(q.heap, i), Ent(q.heap, BIN_HEAP_PARENT(i)))
  <2>1. i \in Nat \ {0}
    OBVIOUS
  <2>2. BIN_HEAP_PARENT(i) \in 0 .. Len(q.heap) - 1 /\ i \in 0 .. Len(q.heap) - 1
    BY <1>1, <2>1, ParentIs
  <2>3. Ent(q.heap, i).prio \in Nat /\ Ent(q.heap, BIN_HEAP_PARENT(i)).prio \in Nat
    BY <1>1, <2>2, EntryType
  <2>4. Ent(q.heap, BIN_HEAP_PARENT(i)).prio <= Ent(q.heap, i).prio
    BY <1>1 DEF Rising
  <2> QED
    BY <2>3, <2>4 DEF prio_q_mgr_entry_cmp
<1> QED
  BY <1>1, <1>2, <1>3 DEF PrioSound, Slots

(* As many slots as names for them: no slot is listed twice.               *)
LEMMA SlotsOnce ==
    ASSUME NEW size \in Nat, NEW q, PrioOK(size, q),
           NEW a \in 1 .. size, NEW b \in 1 .. size, Slots(q)[a] = Slots(q)[b]
    PROVE  a = b
<1> DEFINE s == Slots(q)
<1>1. s \in Seq(Nat) /\ DOMAIN s = 1 .. size /\ Members(s) = 0 .. size - 1 /\ Len(s) = size
  BY SlotsAre
<1> HIDE DEF s
<1>2. s \in Surjection(1 .. size, 0 .. size - 1)
  <2>1. \A k \in 1 .. size : s[k] \in 0 .. size - 1
    BY <1>1 DEF Members
  <2>2. s \in [1 .. size -> 0 .. size - 1]
    BY <1>1, <2>1
  <2>3. \A x \in 0 .. size - 1 : \E k \in 1 .. size : s[k] = x
    BY <1>1 DEF Members
  <2> QED
    BY <2>2, <2>3 DEF Surjection
<1>3. IsFiniteSet(1 .. size) /\ Cardinality(1 .. size) = Cardinality(0 .. size - 1)
  <2>1. /\ IsFiniteSet(1 .. size)
        /\ Cardinality(1 .. size) = IF 1 > size THEN 0 ELSE size - 1 + 1
    BY FS_Interval
  <2>2. Cardinality(0 .. size - 1) = IF 0 > size - 1 THEN 0 ELSE (size - 1) - 0 + 1
    BY FS_Interval
  <2> QED
    BY <2>1, <2>2
<1>4. s \in Injection(1 .. size, 0 .. size - 1)
  BY <1>2, <1>3, FS_SurjSameCardinalityImpliesInj
<1> QED
  BY <1>4 DEF Injection, IsInjective, s

(* No slot has two entries, and no free slot has one.                      *)
LEMMA SlotOnce ==
    ASSUME NEW size \in Nat, NEW q, PrioOK(size, q),
           NEW i \in 0 .. Len(q.heap) - 1, NEW j \in 0 .. Len(q.heap) - 1,
           Ent(q.heap, i).slot = Ent(q.heap, j).slot
    PROVE  i = j
<1> DEFINE s == Slots(q)
           m == Len(q.free)
<1>1. /\ m + (i + 1) \in 1 .. size /\ s[m + (i + 1)] = Ent(q.heap, i).slot
      /\ m + (j + 1) \in 1 .. size /\ s[m + (j + 1)] = Ent(q.heap, j).slot
  BY SlotsAre
<1>2. m \in Nat
  BY DEF PrioOK
<1>3. m + (i + 1) = m + (j + 1)
  <2> HIDE DEF m
  <2> QED
    BY <1>1, SlotsOnce
<1> HIDE DEF m
<1> QED
  BY <1>2, <1>3

LEMMA FreeIsFree ==
    ASSUME NEW size \in Nat, NEW q, PrioOK(size, q), q.free # << >>
    PROVE  Head(q.free) \notin SlotSet(q.heap)
<1> DEFINE s == Slots(q)
           m == Len(q.free)
<1>1. /\ m \in Nat /\ 1 \in 1 .. m /\ Head(q.free) = q.free[1]
      /\ Len(q.heap) \in Nat
  BY DEF PrioOK
<1>2. /\ 1 \in 1 .. size /\ s[1] = Head(q.free)
      /\ \A j \in 0 .. Len(q.heap) - 1 :
            m + (j + 1) \in 1 .. size /\ s[m + (j + 1)] = Ent(q.heap, j).slot
  <2> HIDE DEF s, m
  <2>1. /\ \A i \in 1 .. m : i \in 1 .. size /\ s[i] = q.free[i]
        /\ \A j \in 0 .. Len(q.heap) - 1 :
              m + (j + 1) \in 1 .. size /\ s[m + (j + 1)] = Ent(q.heap, j).slot
    BY SlotsAre DEF s, m
  <2> QED
    BY <1>1, <2>1
<1>3. ASSUME NEW j \in 0 .. Len(q.heap) - 1, Ent(q.heap, j).slot = Head(q.free)
      PROVE  FALSE
  <2>1. 1 = m + (j + 1)
    BY <1>2, <1>3, SlotsOnce
  <2> HIDE DEF m
  <2> QED
    BY <1>1, <2>1
<1> QED
  BY <1>3 DEF SlotSet, Part

LEMMA PrioCreateOK ==
    ASSUME NEW size \in Nat
    PROVE  LET q == tos_prio_q_create(size) IN PrioOK(size, q) /\ q.total = 0
<1> DEFINE f == [i \in 1 .. size |-> i - 1]
<1>1. f \in Seq(Nat) /\ Len(f) = size /\ \A i \in 1 .. size : f[i] = i - 1
  <2>1. f \in [1 .. size -> Nat] /\ \A i \in 1 .. size : f[i] = i - 1
    OBVIOUS
  <2> HIDE DEF f
  <2> QED
    BY <2>1
<1> HIDE DEF f
<1>2. Members(f) = 0 .. size - 1
  <2>1. \A x \in 0 .. size - 1 : x + 1 \in 1 .. size /\ f[x + 1] = x
    BY <1>1
  <2> QED
    BY <1>1, <2>1 DEF Members
<1>3. Part(<< >>, 0, 0 - 1) = {} /\ Len(<< >>) = 0 /\ << >> \in Seq(Entry)
  BY DEF Part
<1>4. SlotSet(<< >>) = {} /\ Rising(<< >>, 1, Len(<< >>) - 1)
  BY <1>3 DEF SlotSet, Rising
<1> DEFINE q == [ free |-> f, heap |-> << >>, total |-> 0, cnt |-> size,
                  pool |-> [i \in 0 .. size - 1 |-> NoItem] ]
<1>5. q = tos_prio_q_create(size)
  BY DEF tos_prio_q_create, f
<1>6. q.pool \in [0 .. size - 1 -> Item \cup {NoItem}]
  OBVIOUS
<1>7. /\ q.free = f /\ q.heap = << >> /\ q.total = 0 /\ q.cnt = size
      /\ q = [ free |-> q.free, heap |-> q.heap, total |-> q.total, cnt |-> size,
               pool |-> q.pool ]
  OBVIOUS
<1> HIDE DEF q
<1>8. PrioOK(size, q)
  BY <1>1, <1>2, <1>3, <1>4, <1>6, <1>7 DEF PrioOK
<1> QED
  BY <1>5, <1>7, <1>8

LEMMA FreeSlot ==
    ASSUME NEW size \in Nat, NEW q, PrioOK(size, q), q.total # size
    PROVE  /\ q.free # << >> /\ Head(q.free) \in 0 .. size - 1
           /\ Tail(q.free) \in Seq(Nat) /\ Len(Tail(q.free)) = Len(q.free) - 1
           /\ Members(q.free) = {Head(q.free)} \cup Members(Tail(q.free))
<1> DEFINE f == q.free
<1>1. /\ f \in Seq(Nat) /\ q.heap \in Seq(Entry) /\ Len(f) + Len(q.heap) = size
      /\ q.total = Len(q.heap) /\ Members(f) \subseteq 0 .. size - 1
  BY DEF PrioOK
<1> HIDE DEF f
<1>2. Len(f) \in Nat /\ Len(f) # 0 /\ f # << >>
  BY <1>1
<1>3. /\ Head(f) = f[1] /\ Tail(f) \in Seq(Nat) /\ Len(Tail(f)) = Len(f) - 1
      /\ \A i \in 1 .. Len(f) - 1 : Tail(f)[i] = f[i + 1]
  BY <1>1, <1>2, HeadTailProperties
<1>4. Members(f) = {f[1]} \cup Members(Tail(f))
  <2>1. \A i \in 1 .. Len(f) : i = 1 \/ (i - 1 \in 1 .. Len(f) - 1 /\ (i - 1) + 1 = i)
    BY <1>2
  <2>2. 1 \in 1 .. Len(f) /\ \A i \in 1 .. Len(f) - 1 : i + 1 \in 1 .. Len(f)
    BY <1>2
  <2>3. \A i \in 1 .. Len(f) : f[i] \in {f[1]} \cup Members(Tail(f))
    BY <1>3, <2>1 DEF Members
  <2>4. \A i \in 1 .. Len(f) - 1 : Tail(f)[i] \in Members(f)
    BY <1>3, <2>2 DEF Members
  <2> QED
    BY <1>3, <2>2, <2>3, <2>4 DEF Members
<1> QED
  BY <1>1, <1>2, <1>3, <1>4 DEF f

LEMMA PrioEnqueued ==
    ASSUME NEW size \in Nat, NEW q, PrioOK(size, q), q.total # size,
           NEW x \in Item, NEW prio \in Nat
    PROVE  LET p == tos_prio_q_enqueue(q, x, prio)
               e == [prio |-> prio, slot |-> Head(q.free)]
           IN  /\ PrioOK(size, p) /\ p.total = q.total + 1
               /\ p.pool = [q.pool EXCEPT ![Head(q.free)] = x]
               /\ Part(p.heap, 0, Len(p.heap) - 1) = Part(q.heap, 0, Len(q.heap) - 1) \cup {e}
<1> DEFINE f == q.free
           h == q.heap
           slot == Head(f)
           e == [prio |-> prio, slot |-> slot]
           g == tos_bin_heap_push(h, e)
           p == tos_prio_q_enqueue(q, x, prio)
<1>1. /\ f \in Seq(Nat) /\ h \in Seq(Entry) /\ q.total = Len(h)
      /\ Len(f) + Len(h) = size /\ Members(f) \cup SlotSet(h) = 0 .. size - 1
      /\ Rising(h, 1, Len(h) - 1) /\ q.pool \in [0 .. size - 1 -> Item \cup {NoItem}]
      /\ \A s \in SlotSet(h) : q.pool[s] \in Item
  BY DEF PrioOK
<1>2. /\ f # << >> /\ slot \in 0 .. size - 1
      /\ Tail(f) \in Seq(Nat) /\ Len(Tail(f)) = Len(f) - 1
      /\ Members(f) = {slot} \cup Members(Tail(f))
  BY FreeSlot
<1>3. e \in Entry /\ e.slot = slot
  BY <1>2 DEF Entry
<1>4. p = [ free |-> Tail(f), heap |-> g, total |-> q.total + 1, cnt |-> size,
            pool |-> [q.pool EXCEPT ![slot] = x] ]
  <2> DEFINE o == [ free |-> f, heap |-> h, total |-> q.total, cnt |-> size,
                    pool |-> q.pool ]
  <2>1. q = o
    BY DEF PrioOK
  <2>2. p = [o EXCEPT !.free = Tail(@), !.pool[slot] = x, !.total = @ + 1,
                      !.heap = tos_bin_heap_push(@, e)]
    BY <2>1 DEF tos_prio_q_enqueue
  <2> HIDE DEF p
  <2> QED
    BY <2>2
<1> HIDE DEF f, h, slot, e, g, p
<1>5. /\ g \in Seq(Entry) /\ Len(g) = Len(h) + 1 /\ Rising(g, 1, Len(g) - 1)
      /\ Part(g, 0, Len(g) - 1) = Part(h, 0, Len(h) - 1) \cup {e}
  BY <1>1, <1>3, PushRight DEF g
<1>6. SlotSet(g) = SlotSet(h) \cup {slot}
  BY <1>3, <1>5 DEF SlotSet
<1>7. Len(h) \in Nat /\ Len(f) \in Nat
  BY <1>1
<1>8. Len(Tail(f)) + Len(g) = size /\ q.total + 1 = Len(g)
  <2>1. Len(f) + Len(h) = size /\ Len(Tail(f)) = Len(f) - 1 /\ Len(g) = Len(h) + 1
    BY <1>1, <1>2, <1>5
  <2>2. q.total = Len(h)
    BY <1>1
  <2>3. ASSUME NEW a \in Nat, NEW b \in Nat, a + b = size PROVE (a - 1) + (b + 1) = size
    BY <2>3
  <2>4. (Len(f) - 1) + (Len(h) + 1) = size
    BY <1>7, <2>1, <2>3
  <2> QED
    BY <2>1, <2>2, <2>4, Zenon
<1>9. Members(Tail(f)) \cup SlotSet(g) = 0 .. size - 1
  BY <1>1, <1>2, <1>6
<1>10. /\ [q.pool EXCEPT ![slot] = x] \in [0 .. size - 1 -> Item \cup {NoItem}]
       /\ \A s \in SlotSet(g) : [q.pool EXCEPT ![slot] = x][s] \in Item
  BY <1>1, <1>2, <1>6
<1>11. PrioOK(size, p)
  BY <1>2, <1>4, <1>5, <1>8, <1>9, <1>10 DEF PrioOK
<1> QED
  BY <1>4, <1>5, <1>11 DEF p, e, h, f, slot

LEMMA PrioEnqueueOK ==
    ASSUME NEW size \in Nat, NEW q, PrioOK(size, q), q.total # size,
           NEW x \in Item, NEW prio \in Nat
    PROVE  /\ PrioOK(size, tos_prio_q_enqueue(q, x, prio))
           /\ tos_prio_q_enqueue(q, x, prio).total = q.total + 1
<1> DEFINE p == tos_prio_q_enqueue(q, x, prio)
           e == [prio |-> prio, slot |-> Head(q.free)]
<1>1. /\ PrioOK(size, p) /\ p.total = q.total + 1
      /\ p.pool = [q.pool EXCEPT ![Head(q.free)] = x]
      /\ Part(p.heap, 0, Len(p.heap) - 1) = Part(q.heap, 0, Len(q.heap) - 1) \cup {e}
  BY PrioEnqueued
<1>2. PrioOK(size, p)
  BY <1>1
<1>3. p.total = q.total + 1
  <2> HIDE DEF p, e
  <2> QED
    BY <1>1
<1> HIDE DEF p, e
<1> QED
  BY <1>2, <1>3 DEF p

(* The top of the heap is one of the best; its slot becomes the next free  *)
(* one.                                                                    *)
LEMMA PrioDequeueOK ==
    ASSUME NEW size \in Nat, NEW q, PrioOK(size, q), q.total > 0
    PROVE  LET p == tos_prio_q_dequeue(q)
           IN  /\ PrioOK(size, p) /\ p.total = q.total - 1
               /\ p.pool = [q.pool EXCEPT ![Ent(q.heap, 0).slot] = NoItem]
               /\ Part(p.heap, 0, Len(p.heap) - 1) = Part(q.heap, 1, Len(q.heap) - 1)
               /\ PrioFirst(q) \in Item
<1> DEFINE f == q.free
           h == q.heap
           slot == Ent(h, 0).slot
           g == tos_bin_heap_pop(h)
           p == tos_prio_q_dequeue(q)
<1>1. /\ f \in Seq(Nat) /\ h \in Seq(Entry) /\ q.total = Len(h)
      /\ Len(f) + Len(h) = size /\ Members(f) \cup SlotSet(h) = 0 .. size - 1
      /\ Rising(h, 1, Len(h) - 1) /\ q.pool \in [0 .. size - 1 -> Item \cup {NoItem}]
      /\ \A s \in SlotSet(h) : q.pool[s] \in Item
  BY DEF PrioOK
<1>2. p = [ free |-> <<slot>> \o f, heap |-> g, total |-> q.total - 1, cnt |-> size,
            pool |-> [q.pool EXCEPT ![slot] = NoItem] ]
  <2> DEFINE o == [ free |-> f, heap |-> h, total |-> q.total, cnt |-> size,
                    pool |-> q.pool ]
  <2>1. q = o
    BY DEF PrioOK
  <2>2. p = [o EXCEPT !.free = <<slot>> \o @, !.pool[slot] = NoItem, !.total = @ - 1,
                      !.heap = tos_bin_heap_pop(@)]
    BY <2>1 DEF tos_prio_q_dequeue
  <2> HIDE DEF p
  <2> QED
    BY <2>2
<1>3. \A i, j \in 0 .. Len(h) - 1 : Ent(h, i).slot = Ent(h, j).slot => i = j
  BY SlotOnce
<1>4. PrioFirst(q) = q.pool[slot]
  BY DEF PrioFirst
<1> HIDE DEF f, h, slot, g, p
<1>5. /\ Len(h) \in Nat /\ Len(f) \in Nat /\ Len(h) > 0 /\ 0 \in 0 .. Len(h) - 1
  <2>1. Len(h) \in Nat /\ Len(f) \in Nat /\ Len(h) > 0
    BY <1>1
  <2> QED
    BY <2>1
<1>6. /\ g \in Seq(Entry) /\ Len(g) = Len(h) - 1 /\ Rising(g, 1, Len(g) - 1)
      /\ Part(g, 0, Len(g) - 1) = Part(h, 1, Len(h) - 1)
  BY <1>1, <1>5, PopRight DEF g
<1>7. slot \in SlotSet(h) /\ slot \in 0 .. size - 1 /\ slot \in Nat
  <2>1. slot \in SlotSet(h)
    BY <1>5 DEF slot, SlotSet, Part
  <2> QED
    BY <1>1, <2>1
<1>8. SlotSet(h) = {slot} \cup SlotSet(g)
  <2>1. \A i \in 0 .. Len(h) - 1 : i = 0 \/ i \in 1 .. Len(h) - 1
    BY <1>5
  <2>2. \A i \in 1 .. Len(h) - 1 : i \in 0 .. Len(h) - 1
    BY <1>5
  <2>3. Part(h, 0, Len(h) - 1) = {Ent(h, 0)} \cup Part(h, 1, Len(h) - 1)
    BY <1>5, <2>1, <2>2 DEF Part
  <2> QED
    BY <1>6, <2>3 DEF SlotSet, slot
<1>9. slot \notin SlotSet(g)
  <2>1. ASSUME NEW i \in 1 .. Len(h) - 1 PROVE Ent(h, i).slot # slot
    <3>1. i \in 0 .. Len(h) - 1 /\ i # 0
      BY <1>5
    <3> QED
      BY <1>3, <1>5, <3>1 DEF slot
  <2> QED
    BY <1>6, <2>1 DEF SlotSet, Part
<1>10. /\ <<slot>> \o f \in Seq(Nat) /\ Len(<<slot>> \o f) = Len(f) + 1
       /\ Members(<<slot>> \o f) = {slot} \cup Members(f)
  <2> DEFINE u == <<slot>> \o f
  <2>1. <<slot>> \in Seq(Nat) /\ Len(<<slot>>) = 1 /\ <<slot>>[1] = slot
    BY <1>7
  <2>2. /\ u \in Seq(Nat) /\ Len(u) = 1 + Len(f)
        /\ \A i \in 1 .. 1 + Len(f) : u[i] = IF i <= 1 THEN <<slot>>[i] ELSE f[i - 1]
    BY <1>1, <2>1, ConcatProperties
  <2> HIDE DEF u
  <2>3. Len(u) = Len(f) + 1 /\ 1 \in 1 .. Len(u) /\ u[1] = slot
    BY <1>5, <2>1, <2>2
  <2>4. \A i \in 1 .. Len(u) : i = 1 \/ (i - 1 \in 1 .. Len(f) /\ u[i] = f[i - 1])
    BY <1>5, <2>2, <2>3
  <2>5. \A i \in 1 .. Len(f) : i + 1 \in 1 .. Len(u) /\ u[i + 1] = f[i]
    <3> TAKE i \in 1 .. Len(f)
    <3>1. i + 1 \in 1 .. 1 + Len(f) /\ ~(i + 1 <= 1) /\ (i + 1) - 1 = i
      BY <1>5
    <3> QED
      BY <2>2, <3>1
  <2>6. Members(u) \subseteq {slot} \cup Members(f)
    BY <2>3, <2>4 DEF Members
  <2>7. Members(f) \subseteq Members(u) /\ slot \in Members(u)
    BY <2>3, <2>5 DEF Members
  <2> QED
    BY <2>2, <2>3, <2>6, <2>7 DEF u
<1>11. Len(<<slot>> \o f) + Len(g) = size /\ q.total - 1 = Len(g)
  <2>1. Len(f) + Len(h) = size /\ Len(<<slot>> \o f) = Len(f) + 1 /\ Len(g) = Len(h) - 1
        /\ q.total = Len(h)
    BY <1>1, <1>6, <1>10
  <2>2. ASSUME NEW a \in Nat, NEW b \in Nat, a + b = size PROVE (a + 1) + (b - 1) = size
    BY <2>2
  <2>3. (Len(f) + 1) + (Len(h) - 1) = size
    BY <1>5, <2>1, <2>2
  <2> QED
    BY <2>1, <2>3, Zenon
<1>12. Members(<<slot>> \o f) \cup SlotSet(g) = 0 .. size - 1
  BY <1>1, <1>8, <1>10
<1>13. /\ [q.pool EXCEPT ![slot] = NoItem] \in [0 .. size - 1 -> Item \cup {NoItem}]
       /\ \A s \in SlotSet(g) : [q.pool EXCEPT ![slot] = NoItem][s] \in Item
  BY <1>1, <1>7, <1>8, <1>9
<1>14. PrioOK(size, p)
  BY <1>2, <1>6, <1>10, <1>11, <1>12, <1>13 DEF PrioOK
<1> QED
  BY <1>1, <1>2, <1>4, <1>6, <1>7, <1>14 DEF p, h, slot

LEMMA TopIsBest ==
    ASSUME NEW h \in Seq(Entry), Rising(h, 1, Len(h) - 1)
    PROVE  \A j \in 0 .. Len(h) - 1 : Ent(h, 0).prio <= Ent(h, j).prio
<1> DEFINE n == Len(h)
           Best(j) == j < n => Ent(h, 0).prio <= Ent(h, j).prio
           V == {m \in Nat : \A j \in 0 .. m - 1 : Best(j)}
<1>1. n \in Nat /\ \A j \in 0 .. n - 1 : Ent(h, j).prio \in Nat
  BY EntryType
<1> HIDE DEF n
<1>2. 0 \in V
  OBVIOUS
<1>3. ASSUME NEW m \in V PROVE m + 1 \in V
  <2>1. m \in Nat /\ \A j \in 0 .. m - 1 : Best(j)
    OBVIOUS
  <2>2. Best(m)
    <3> SUFFICES ASSUME m < n PROVE Ent(h, 0).prio <= Ent(h, m).prio
      OBVIOUS
    <3>1. CASE m = 0
      <4>1. 0 \in 0 .. n - 1
        BY <1>1, <3>1
      <4>2. Ent(h, 0).prio \in Nat
        BY <1>1, <4>1
      <4> QED
        BY <3>1, <4>2
    <3>2. CASE m # 0
      <4> DEFINE p == BIN_HEAP_PARENT(m)
      <4>1. p \in Nat /\ p < m
        BY <2>1, <3>2, ParentIs
      <4>2. m \in 1 .. n - 1
        BY <1>1, <2>1, <3>2
      <4>3. Ent(h, p).prio <= Ent(h, m).prio
        BY <4>2 DEF Rising, n
      <4> HIDE DEF p
      <4>4. p \in 0 .. m - 1 /\ p < n /\ p \in 0 .. n - 1 /\ m \in 0 .. n - 1 /\ 0 \in 0 .. n - 1
        BY <1>1, <2>1, <4>1
      <4>5. Ent(h, 0).prio <= Ent(h, p).prio
        BY <2>1, <4>4
      <4>6. Ent(h, 0).prio \in Nat /\ Ent(h, p).prio \in Nat /\ Ent(h, m).prio \in Nat
        BY <1>1, <4>4
      <4> QED
        BY <4>3, <4>5, <4>6
    <3> QED
      BY <3>1, <3>2
  <2>3. \A j \in 0 .. (m + 1) - 1 : j \in 0 .. m - 1 \/ j = m
    BY <2>1
  <2> HIDE DEF Best
  <2>4. \A j \in 0 .. (m + 1) - 1 : Best(j)
    BY <2>1, <2>2, <2>3
  <2>5. m + 1 \in Nat
    BY <2>1
  <2> QED
    BY <2>4, <2>5
<1>4. \A m \in Nat : m \in V
  <2>1. V \in SUBSET Nat
    OBVIOUS
  <2> HIDE DEF V
  <2> QED
    BY <1>2, <1>3, <2>1, NatSteps
<1>5. \A j \in 0 .. n - 1 : Best(j)
  <2> HIDE DEF Best
  <2>1. n \in V
    BY <1>1, <1>4
  <2> QED
    BY <2>1
<1> QED
  BY <1>1, <1>5 DEF n

(* What a priority queue holds, when an item is put in and when the best   *)
(* is taken.                                                               *)
Holding(q, e) == [place |-> e.slot, rank |-> e.prio, item |-> q.pool[e.slot]]

LEMMA PrioItemsAre ==
    ASSUME NEW q, q.heap \in Seq(Entry)
    PROVE  PrioItems(q) = {Holding(q, e) : e \in Part(q.heap, 0, Len(q.heap) - 1)}
<1> DEFINE h == q.heap
           n == Len(h)
<1>1. n \in Nat /\ DOMAIN h = 1 .. n
  OBVIOUS
<1>2. PrioItems(q) = {Holding(q, h[i]) : i \in 1 .. n}
  BY <1>1 DEF PrioItems, Holding
<1> HIDE DEF h, n
<1>3. \A i \in 1 .. n : i - 1 \in 0 .. n - 1 /\ (i - 1) + 1 = i
  BY <1>1
<1>4. \A j \in 0 .. n - 1 : j + 1 \in 1 .. n
  BY <1>1
<1>5. Part(h, 0, n - 1) = {h[i] : i \in 1 .. n}
  BY <1>3, <1>4 DEF Part, Ent
<1> QED
  BY <1>2, <1>5 DEF h, n

LEMMA EnqueueItems ==
    ASSUME NEW size \in Nat, NEW q, PrioOK(size, q), q.total # size,
           NEW x \in Item, NEW prio \in Nat
    PROVE  LET p == tos_prio_q_enqueue(q, x, prio)
               n == Head(q.free)
           IN  /\ n \in 0 .. size - 1 /\ \A e \in PrioItems(q) : e.place # n
               /\ PrioItems(p) = PrioItems(q) \cup {[place |-> n, rank |-> prio, item |-> x]}
<1> DEFINE p == tos_prio_q_enqueue(q, x, prio)
           n == Head(q.free)
           e == [prio |-> prio, slot |-> n]
           H == Part(q.heap, 0, Len(q.heap) - 1)
           G == Part(p.heap, 0, Len(p.heap) - 1)
<1>1. n \in 0 .. size - 1 /\ n \notin SlotSet(q.heap)
  BY FreeSlot, FreeIsFree
<1>2. PrioOK(size, p) /\ p.pool = [q.pool EXCEPT ![n] = x] /\ G = H \cup {e}
  BY PrioEnqueued
<1>3. /\ PrioItems(q) = {Holding(q, d) : d \in H}
      /\ PrioItems(p) = {Holding(p, d) : d \in G}
  <2>1. q.heap \in Seq(Entry) /\ p.heap \in Seq(Entry)
    BY <1>2 DEF PrioOK
  <2> QED
    BY <2>1, PrioItemsAre
<1>4. \A d \in H : d.slot # n /\ d.slot \in 0 .. size - 1
  BY <1>1 DEF SlotSet, PrioOK
<1>5. q.pool \in [0 .. size - 1 -> Item \cup {NoItem}]
  BY DEF PrioOK
<1> HIDE DEF p, n, H, G
<1>6. Holding(p, e) = [place |-> n, rank |-> prio, item |-> x]
  BY <1>1, <1>2, <1>5 DEF Holding
<1>7. \A d \in H : Holding(p, d) = Holding(q, d) /\ Holding(q, d).place # n
  BY <1>2, <1>4, <1>5 DEF Holding
<1> HIDE DEF e
<1>8. PrioItems(p) = PrioItems(q) \cup {Holding(p, e)}
  BY <1>2, <1>3, <1>7
<1> QED
  BY <1>1, <1>3, <1>6, <1>7, <1>8 DEF p, n

LEMMA DequeueItems ==
    ASSUME NEW size \in Nat, NEW q, PrioOK(size, q), q.total > 0
    PROVE  \E e \in PrioItems(q) :
              /\ \A f \in PrioItems(q) : e.rank <= f.rank
              /\ e.item = PrioFirst(q)
              /\ PrioItems(tos_prio_q_dequeue(q)) = PrioItems(q) \ {e}
<1> DEFINE p == tos_prio_q_dequeue(q)
           h == q.heap
           n == Len(h)
           b == Ent(h, 0)
           H == Part(h, 0, n - 1)
           G == Part(p.heap, 0, Len(p.heap) - 1)
           e == Holding(q, b)
<1>1. /\ h \in Seq(Entry) /\ n \in Nat /\ n > 0 /\ Rising(h, 1, n - 1)
      /\ q.pool \in [0 .. size - 1 -> Item \cup {NoItem}]
      /\ \A d \in H : d.slot \in 0 .. size - 1
  BY DEF PrioOK, SlotSet
<1>2. PrioOK(size, p) /\ p.pool = [q.pool EXCEPT ![b.slot] = NoItem] /\ G = Part(h, 1, n - 1)
  BY PrioDequeueOK
<1>3. /\ PrioItems(q) = {Holding(q, d) : d \in H}
      /\ PrioItems(p) = {Holding(p, d) : d \in G}
  <2>1. p.heap \in Seq(Entry)
    BY <1>2 DEF PrioOK
  <2> QED
    BY <1>1, <2>1, PrioItemsAre
<1>4. \A d \in H : b.prio <= d.prio
  BY <1>1, TopIsBest DEF Part
<1>5. \A i, j \in 0 .. n - 1 : Ent(h, i).slot = Ent(h, j).slot => i = j
  BY SlotOnce
<1>6. e.item = PrioFirst(q)
  BY DEF Holding, PrioFirst
<1> HIDE DEF p, h, n, G
<1>7. H = {b} \cup G /\ b \in H
  <2>1. 0 \in 0 .. n - 1 /\ \A i \in 0 .. n - 1 : i = 0 \/ i \in 1 .. n - 1
    BY <1>1
  <2>2. \A i \in 1 .. n - 1 : i \in 0 .. n - 1
    BY <1>1
  <2> QED
    BY <1>2, <2>1, <2>2 DEF Part
<1>8. \A d \in G : d.slot # b.slot
  <2>1. ASSUME NEW i \in 1 .. n - 1 PROVE Ent(h, i).slot # b.slot
    <3>1. i \in 0 .. n - 1 /\ 0 \in 0 .. n - 1 /\ i # 0
      BY <1>1
    <3> QED
      BY <1>5, <3>1
  <2> QED
    BY <1>2, <2>1 DEF Part
<1> HIDE DEF b, H
<1>9. \A d \in G : Holding(p, d) = Holding(q, d) /\ Holding(q, d).place # b.slot
  BY <1>1, <1>2, <1>7, <1>8 DEF Holding
<1>10. e.place = b.slot /\ e.rank = b.prio /\ \A d \in H : Holding(q, d).rank = d.prio
  BY DEF Holding
<1> HIDE DEF e
<1>11. PrioItems(q) = {e} \cup PrioItems(p) /\ e \notin PrioItems(p) /\ e \in PrioItems(q)
  BY <1>3, <1>7, <1>9, <1>10 DEF e
<1>12. \A f \in PrioItems(q) : e.rank <= f.rank
  BY <1>3, <1>4, <1>10
<1> QED
  BY <1>6, <1>11, <1>12 DEF p
=============================================================================
