---------------------------- MODULE StoreProofs -----------------------------
(***************************************************************************)
(* The block pool hands each block out once, the byte FIFO keeps the order *)
(* of the bytes, a checked priority queue stays as it was checked, and the *)
(* bitmap holds what was asked for, whatever their sizes.                  *)
(***************************************************************************)
EXTENDS Store, BufferLemmas

----------------------------------------------------------------------------
(* The block pool: its free blocks in the order of the chain.              *)

Blks == 0 .. mbp.blk_max - 1

Chain(link) ==
    /\ link \in [0 .. mbp.blk_free -> Blks \cup {Null}]
    /\ link[0] = mbp.free_list /\ link[mbp.blk_free] = Null
    /\ \A n \in 0 .. mbp.blk_free - 1 :
          link[n] \in Blks \ held /\ word[link[n]] = link[n + 1]
    /\ \A n, o \in 0 .. mbp.blk_free - 1 : link[n] = link[o] => n = o
    /\ \A b \in Blks \ held : \E n \in 0 .. mbp.blk_free - 1 : link[n] = b

BlkInv ==
    /\ mbp.blk_free \in Nat /\ mbp.blk_max \in Nat
    /\ mbp = [free_list |-> mbp.free_list, blk_free |-> mbp.blk_free, blk_max |-> mbp.blk_max]
    /\ word = [b \in Blks |-> word[b]] /\ held \subseteq Blks
    /\ mbp.blk_free + Cardinality(held) = mbp.blk_max
    /\ \E link : Chain(link)

LEMMA HeldFinite ==
    ASSUME BlkInv
    PROVE  IsFiniteSet(held) /\ Cardinality(held) \in Nat
<1>1. 0 \in Int /\ mbp.blk_max - 1 \in Int /\ held \subseteq 0 .. mbp.blk_max - 1
  BY DEF BlkInv, Blks
<1>2. IsFiniteSet(0 .. mbp.blk_max - 1)
  BY <1>1, FS_Interval
<1> QED
  BY <1>1, <1>2, FS_Subset, FS_CardinalityType

LEMMA BlkInitInv == BlkInit => BlkInv
<1> SUFFICES ASSUME BlkInit PROVE BlkInv
  OBVIOUS
<1>1. /\ mbp = [free_list |-> Null, blk_free |-> 0, blk_max |-> 0]
      /\ word = << >> /\ held = {}
  BY DEF BlkInit
<1>2. Blks = {} /\ Cardinality(held) = 0
  BY <1>1, FS_EmptySet DEF Blks
<1>3. Chain([n \in 0 .. 0 |-> Null])
  BY <1>1, <1>2 DEF Chain
<1>4. word = [b \in Blks |-> word[b]]
  BY <1>1, <1>2
<1> QED
  BY <1>1, <1>2, <1>3, <1>4 DEF BlkInv

LEMMA BlkCreateStep ==
    ASSUME NEW num \in BlkNums
    PROVE  BlkInv /\ tos_mmblk_pool_create(num) => BlkInv'
<1> SUFFICES ASSUME BlkInv, tos_mmblk_pool_create(num) PROVE BlkInv'
  OBVIOUS
<1>1. /\ mbp' = [free_list |-> 0, blk_free |-> num, blk_max |-> num]
      /\ word' = [b \in 0 .. num - 1 |-> IF b < num - 1 THEN b + 1 ELSE Null]
      /\ held' = held /\ mbp.blk_max = 0
  BY DEF tos_mmblk_pool_create
<1>2. num \in Nat \ {0} /\ Null \notin Int
  BY BlkAssumption
<1>3. held = {} /\ held' = {} /\ Cardinality(held') = 0 /\ Blks' = 0 .. num - 1
  <2>1. held \subseteq 0 .. 0 - 1
    BY <1>1 DEF BlkInv, Blks
  <2>2. held = {}
    BY <2>1
  <2> QED
    BY <1>1, <2>2, FS_EmptySet DEF Blks
<1> DEFINE link == [n \in 0 .. num |-> IF n < num THEN n ELSE Null]
<1>4. Chain(link)'
  <2>1. link \in [0 .. num -> Blks' \cup {Null}]
    BY <1>2, <1>3
  <2>2. \A n \in 0 .. num - 1 : /\ link[n] = n /\ n \in Blks' \ held'
                                /\ word'[n] = link[n + 1]
    BY <1>1, <1>2, <1>3
  <2>3. link[0] = 0 /\ link[num] = Null
    BY <1>2
  <2> HIDE DEF link
  <2> QED
    BY <1>1, <1>3, <2>1, <2>2, <2>3 DEF Chain
<1> HIDE DEF link
<1>5. word' = [b \in Blks' |-> word'[b]]
  BY <1>1, <1>3
<1> QED
  BY <1>1, <1>2, <1>3, <1>4, <1>5 DEF BlkInv

LEMMA BlkDestroyStep == BlkInv /\ tos_mmblk_pool_destroy => BlkInv'
<1> SUFFICES ASSUME BlkInv, tos_mmblk_pool_destroy PROVE BlkInv'
  OBVIOUS
<1>1. BlkInit'
  BY DEF tos_mmblk_pool_destroy, BlkInit
<1>2. (BlkInit => BlkInv)'
  BY BlkInitInv, PTL
<1> QED
  BY <1>1, <1>2

LEMMA BlkAllocStep == BlkInv /\ tos_mmblk_alloc => BlkInv'
<1> SUFFICES ASSUME BlkInv, tos_mmblk_alloc PROVE BlkInv'
  OBVIOUS
<1> DEFINE b == mbp.free_list
           n == mbp.blk_free
<1>1. /\ n > 0 /\ held' = held \cup {b}
      /\ word' = [word EXCEPT ![b] = AppData]
      /\ mbp' = [mbp EXCEPT !.free_list = word[b], !.blk_free = n - 1]
  BY DEF tos_mmblk_alloc
<1>2. n \in Nat /\ mbp.blk_max \in Nat
  BY DEF BlkInv
<1>3. PICK link : Chain(link)
  BY DEF BlkInv
<1>4. link[0] = b /\ b \in Blks \ held /\ word[b] = link[1]
  <2>1. 0 \in 0 .. n - 1 /\ 0 + 1 = 1
    BY <1>1, <1>2
  <2> QED
    BY <1>3, <2>1 DEF Chain
<1>5. /\ mbp'.free_list = link[1] /\ mbp'.blk_free = n - 1 /\ mbp'.blk_max = mbp.blk_max
      /\ mbp' = [free_list |-> link[1], blk_free |-> n - 1, blk_max |-> mbp.blk_max]
      /\ Blks' = Blks
  BY <1>1, <1>4 DEF BlkInv, Blks
<1>6. word' = [c \in Blks |-> word'[c]] /\ \A c \in Blks \ {b} : word'[c] = word[c]
  BY <1>1, <1>4 DEF BlkInv
<1>7. Cardinality(held') = Cardinality(held) + 1
  BY <1>1, <1>4, HeldFinite, FS_AddElement
<1>. PICK next : next = [i \in 0 .. n - 1 |-> link[i + 1]]
  OBVIOUS
<1>8. ASSUME NEW i \in 0 .. n - 2
      PROVE  /\ i + 1 \in 0 .. n - 1 /\ i \in 0 .. n - 1
             /\ next[i] = link[i + 1] /\ link[i + 1] \in Blks \ held
             /\ link[i + 1] # b /\ word[link[i + 1]] = next[i + 1]
  <2>1. /\ i + 1 \in 0 .. n - 1 /\ i \in 0 .. n - 1 /\ 0 \in 0 .. n - 1
        /\ i + 1 # 0 /\ (i + 1) + 1 = i + 2
    BY <1>1, <1>2
  <2>2. next[i] = link[i + 1] /\ next[i + 1] = link[(i + 1) + 1]
    BY <2>1
  <2>3. /\ link[i + 1] \in Blks \ held /\ word[link[i + 1]] = link[(i + 1) + 1]
        /\ link[i + 1] # link[0]
    BY <1>3, <2>1 DEF Chain
  <2> QED
    BY <1>4, <2>1, <2>2, <2>3
<1>9. next[0] = link[1] /\ next[n - 1] = Null
  BY <1>1, <1>2, <1>3 DEF Chain
<1>10. ASSUME NEW i \in 0 .. n - 2, NEW o \in 0 .. n - 2, next[i] = next[o]
       PROVE  i = o
  <2>1. link[i + 1] = link[o + 1] /\ i + 1 \in 0 .. n - 1 /\ o + 1 \in 0 .. n - 1
    BY <1>8, <1>10
  <2>2. i + 1 = o + 1
    BY <1>3, <2>1 DEF Chain
  <2> QED
    BY <1>2, <2>2
<1>11. ASSUME NEW c \in Blks \ held'
       PROVE  \E i \in 0 .. n - 2 : next[i] = c
  <2>1. PICK i \in 0 .. n - 1 : link[i] = c
    BY <1>1, <1>3 DEF Chain
  <2>2. i # 0
    BY <1>1, <1>4, <2>1
  <2>3. i - 1 \in 0 .. n - 2 /\ next[i - 1] = c
    BY <1>2, <1>8, <2>1, <2>2
  <2> QED
    BY <2>3
<1>12. Chain(next)'
  <2>1. next \in [0 .. n - 1 -> Blks \cup {Null}] /\ (n - 1) - 1 = n - 2
    BY <1>2, <1>3 DEF Chain
  <2> HIDE DEF n
  <2>2. \A i \in 0 .. n - 2 : next[i] \in Blks' \ held' /\ word'[next[i]] = next[i + 1]
    BY <1>1, <1>5, <1>6, <1>8
  <2> SUFFICES /\ next \in [0 .. mbp'.blk_free -> Blks' \cup {Null}]
               /\ next[0] = mbp'.free_list /\ next[mbp'.blk_free] = Null
               /\ \A i \in 0 .. mbp'.blk_free - 1 :
                     next[i] \in Blks' \ held' /\ word'[next[i]] = next[i + 1]
               /\ \A i, o \in 0 .. mbp'.blk_free - 1 : next[i] = next[o] => i = o
               /\ \A c \in Blks' \ held' : \E i \in 0 .. mbp'.blk_free - 1 : next[i] = c
    BY DEF Chain
  <2>3. mbp'.blk_free - 1 = n - 2 /\ mbp'.blk_free = n - 1 /\ mbp'.free_list = link[1]
    BY <1>5, <2>1
  <2>4. next \in [0 .. mbp'.blk_free -> Blks' \cup {Null}]
    BY <1>5, <2>1, <2>3
  <2>5. \A i, o \in 0 .. mbp'.blk_free - 1 : next[i] = next[o] => i = o
    BY <1>10, <2>3
  <2>6. \A c \in Blks' \ held' : \E i \in 0 .. mbp'.blk_free - 1 : next[i] = c
    BY <1>5, <1>11, <2>3
  <2> QED
    BY <1>9, <2>2, <2>3, <2>4, <2>5, <2>6
<1>13. mbp'.blk_free + Cardinality(held') = mbp'.blk_max /\ n - 1 \in Nat
  BY <1>1, <1>2, <1>5, <1>7, HeldFinite DEF BlkInv
<1> QED
  BY <1>1, <1>2, <1>4, <1>5, <1>6, <1>12, <1>13 DEF BlkInv

LEMMA BlkFreeStep ==
    ASSUME NEW b \in held
    PROVE  BlkInv /\ tos_mmblk_free(b) => BlkInv'
<1> SUFFICES ASSUME BlkInv, tos_mmblk_free(b) PROVE BlkInv'
  OBVIOUS
<1> DEFINE n == mbp.blk_free
<1>1. /\ held' = held \ {b}
      /\ word' = [word EXCEPT ![b] = mbp.free_list]
      /\ mbp' = [mbp EXCEPT !.free_list = b, !.blk_free = n + 1]
  BY DEF tos_mmblk_free
<1>2. n \in Nat /\ mbp.blk_max \in Nat /\ b \in Blks
  BY DEF BlkInv
<1>3. PICK link : Chain(link)
  BY DEF BlkInv
<1>4. /\ mbp'.free_list = b /\ mbp'.blk_free = n + 1 /\ mbp'.blk_max = mbp.blk_max
      /\ mbp' = [free_list |-> b, blk_free |-> n + 1, blk_max |-> mbp.blk_max]
      /\ Blks' = Blks
  BY <1>1 DEF BlkInv, Blks
<1>5. /\ word' = [c \in Blks |-> word'[c]] /\ word'[b] = link[0]
      /\ \A c \in Blks \ {b} : word'[c] = word[c]
  BY <1>1, <1>2, <1>3 DEF BlkInv, Chain
<1>6. Cardinality(held') = Cardinality(held) - 1
  BY <1>1, HeldFinite, FS_RemoveElement
<1>. PICK next : next = [i \in 0 .. n + 1 |-> IF i = 0 THEN b ELSE link[i - 1]]
  OBVIOUS
<1>7. /\ next[0] = b /\ next[n + 1] = Null /\ next[1] = link[0] /\ 1 = 0 + 1
      /\ \A i \in 1 .. n : /\ next[i] = link[i - 1] /\ next[i] \in Blks \ held
                           /\ word[next[i]] = next[i + 1]
  <2>1. next[0] = b /\ next[n + 1] = link[n] /\ next[1] = link[0]
    BY <1>2
  <2>2. ASSUME NEW i \in 1 .. n
        PROVE  /\ next[i] = link[i - 1] /\ next[i] \in Blks \ held
               /\ word[next[i]] = next[i + 1]
    <3>1. i - 1 \in 0 .. n - 1 /\ (i - 1) + 1 = i /\ (i + 1) - 1 = i
      BY <1>2
    <3>2. next[i] = link[i - 1] /\ next[i + 1] = link[i]
      BY <1>2, <3>1
    <3>3. link[i - 1] \in Blks \ held /\ word[link[i - 1]] = link[(i - 1) + 1]
      BY <1>3, <3>1 DEF Chain
    <3> QED
      BY <3>1, <3>2, <3>3
  <2> QED
    BY <1>3, <2>1, <2>2 DEF Chain
<1>8. ASSUME NEW i \in 0 .. n, NEW o \in 0 .. n, next[i] = next[o]
      PROVE  i = o
  <2>1. CASE i = 0 \/ o = 0
    <3>1. (i = 0 \/ i \in 1 .. n) /\ (o = 0 \/ o \in 1 .. n)
      BY <1>2
    <3>2. \A j \in 1 .. n : next[j] # b
      BY <1>7
    <3> QED
      BY <1>7, <1>8, <2>1, <3>1, <3>2
  <2>2. CASE i # 0 /\ o # 0
    <3>1. link[i - 1] = link[o - 1] /\ i - 1 \in 0 .. n - 1 /\ o - 1 \in 0 .. n - 1
      BY <1>2, <1>7, <1>8, <2>2
    <3>2. i - 1 = o - 1
      BY <1>3, <3>1 DEF Chain
    <3> QED
      BY <1>2, <3>2
  <2> QED
    BY <2>1, <2>2
<1>9. ASSUME NEW c \in Blks \ held'
      PROVE  \E i \in 0 .. n : next[i] = c
  <2>1. CASE c = b
    BY <1>2, <1>7, <2>1
  <2>2. CASE c # b
    <3>1. PICK i \in 0 .. n - 1 : link[i] = c
      BY <1>1, <1>3, <2>2 DEF Chain
    <3>2. i + 1 \in 0 .. n /\ next[i + 1] = c
      BY <1>2, <3>1
    <3> QED
      BY <3>2
  <2> QED
    BY <2>1, <2>2
<1>10. Chain(next)'
  <2>1. next \in [0 .. n + 1 -> Blks \cup {Null}] /\ (n + 1) - 1 = n
    BY <1>2, <1>3 DEF Chain
  <2>2. ASSUME NEW i \in 0 .. n
        PROVE  next[i] \in Blks' \ held' /\ word'[next[i]] = next[i + 1]
    <3>1. CASE i = 0
      BY <1>1, <1>2, <1>4, <1>5, <1>7, <3>1
    <3>2. CASE i # 0
      <4>1. i \in 1 .. n
        BY <1>2, <3>2
      <4>2. next[i] \in Blks \ held /\ next[i] # b /\ word[next[i]] = next[i + 1]
        BY <1>7, <4>1
      <4> QED
        BY <1>1, <1>4, <1>5, <4>2
    <3> QED
      BY <3>1, <3>2
  <2> HIDE DEF n
  <2> SUFFICES /\ next \in [0 .. mbp'.blk_free -> Blks' \cup {Null}]
               /\ next[0] = mbp'.free_list /\ next[mbp'.blk_free] = Null
               /\ \A i \in 0 .. mbp'.blk_free - 1 :
                     next[i] \in Blks' \ held' /\ word'[next[i]] = next[i + 1]
               /\ \A i, o \in 0 .. mbp'.blk_free - 1 : next[i] = next[o] => i = o
               /\ \A c \in Blks' \ held' : \E i \in 0 .. mbp'.blk_free - 1 : next[i] = c
    BY DEF Chain
  <2>3. mbp'.blk_free - 1 = n /\ mbp'.blk_free = n + 1 /\ mbp'.free_list = b
    BY <1>4, <2>1
  <2> QED
    BY <1>4, <1>7, <1>8, <1>9, <2>1, <2>2, <2>3
<1>11. mbp'.blk_free + Cardinality(held') = mbp'.blk_max /\ n + 1 \in Nat
  BY <1>2, <1>4, <1>6, HeldFinite DEF BlkInv
<1> QED
  BY <1>1, <1>2, <1>4, <1>5, <1>10, <1>11 DEF BlkInv

LEMMA BlkNextInv == BlkInv /\ (BlkNext \/ UNCHANGED blkVars) => BlkInv'
<1>1. ASSUME BlkInv, UNCHANGED blkVars PROVE BlkInv'
  <2>1. mbp' = mbp /\ word' = word /\ held' = held /\ Blks' = Blks
    BY <1>1 DEF blkVars, Blks
  <2>2. PICK link : Chain(link)
    BY <1>1 DEF BlkInv
  <2>3. Chain(link)'
    BY <2>1, <2>2 DEF Chain
  <2> QED
    BY <1>1, <2>1, <2>3 DEF BlkInv
<1> QED
  BY <1>1, BlkCreateStep, BlkDestroyStep, BlkAllocStep, BlkFreeStep DEF BlkNext

(* The links followed from free_list are the chain.                        *)
LEMMA ChainFollowed == BlkInv => BlocksHandedOnce
<1> SUFFICES ASSUME BlkInv PROVE BlocksHandedOnce
  OBVIOUS
<1> DEFINE N == mbp.blk_free
           Rec(f) == f = [n \in 0 .. N |-> IF n = 0 THEN mbp.free_list ELSE word[f[n - 1]]]
           d == CHOOSE f : Rec(f)
<1>1. PICK link : Chain(link)
  BY DEF BlkInv
<1>2. N \in Nat /\ DOMAIN word = Blks
  BY DEF BlkInv
<1>3. \A n \in 0 .. N : link[n] = IF n = 0 THEN mbp.free_list ELSE word[link[n - 1]]
  <2>1. ASSUME NEW n \in 0 .. N, n # 0 PROVE link[n] = word[link[n - 1]]
    <3>1. n - 1 \in 0 .. N - 1 /\ (n - 1) + 1 = n
      BY <1>2, <2>1
    <3> QED
      BY <1>1, <3>1 DEF Chain
  <2> QED
    BY <1>1, <2>1 DEF Chain
<1>4. Rec(link)
  <2>1. link = [n \in 0 .. N |-> link[n]]
    BY <1>1 DEF Chain
  <2> QED
    BY <1>3, <2>1
<1>5. Rec(d)
  <2> HIDE DEF Rec
  <2> QED
    BY <1>4
<1> HIDE DEF d
<1>6. \A n \in 0 .. N : d[n] = link[n]
  <2> DEFINE W == {n \in Nat : n <= N => d[n] = link[n]}
  <2>1. 0 \in W
    <3>1. 0 \in 0 .. N
      BY <1>2
    <3> QED
      BY <1>3, <1>5, <3>1
  <2>2. ASSUME NEW m \in W PROVE m + 1 \in W
    <3> SUFFICES ASSUME m + 1 <= N PROVE d[m + 1] = link[m + 1]
      OBVIOUS
    <3>1. m \in Nat /\ m <= N /\ m + 1 \in 0 .. N /\ m + 1 # 0 /\ (m + 1) - 1 = m
      BY <1>2
    <3>2. d[m + 1] = word[d[m]]
      BY <1>5, <3>1
    <3>3. link[m + 1] = word[link[m]]
      BY <1>3, <3>1
    <3> QED
      BY <3>1, <3>2, <3>3
  <2>3. W \in SUBSET Nat
    OBVIOUS
  <2> HIDE DEF W
  <2>4. \A n \in Nat : n \in W
    BY <2>1, <2>2, <2>3, NatSteps
  <2> QED
    BY <1>2, <2>4 DEF W
<1>7. d[N] = Null /\ \A n \in 0 .. N - 1 : d[n] = link[n]
  BY <1>1, <1>2, <1>6 DEF Chain
<1>8. {d[n] : n \in 0 .. N - 1} = Blks \ held
  BY <1>1, <1>7 DEF Chain
<1>9. N + Cardinality(held) = mbp.blk_max
  BY DEF BlkInv
<1> QED
  BY <1>2, <1>7, <1>8, <1>9 DEF BlocksHandedOnce, d

LEMMA BlkAlways == StoreSpec => []BlkInv
<1>1. StoreInit => BlkInv
  BY BlkInitInv DEF StoreInit
<1>2. BlkInv /\ [StoreNext]_storeVars => BlkInv'
  BY BlkNextInv
  DEF StoreNext, storeVars, HeapStep, BlkStep, FifoStep, UseStep, BitStep
<1> QED
  BY <1>1, <1>2, PTL DEF StoreSpec

(* However blocks are taken and given back, the chain through the free     *)
(* ones ends after as many links as the pool counts and passes through     *)
(* each of them once, and through none the application holds.              *)
THEOREM BlocksAlwaysHandedOnce == StoreSpec => []BlocksHandedOnce
  BY ChainFollowed, BlkAlways, PTL

----------------------------------------------------------------------------
(* The byte FIFO.                                                          *)

(* The table of a loop's rounds: as the recursive function of the action.  *)

PopRec(f, r, k) == f = [i \in 0 .. k |-> IF i = 0 THEN r ELSE tos_ring_q_dequeue(f[i - 1])]

PushRec(f, r, s, k) == f = [i \in 0 .. k |-> IF i = 0 THEN r ELSE Pushed(f[i - 1], s[i])]

LEMMA PopTable ==
    ASSUME NEW r, NEW k \in Nat
    PROVE  \E f : PopRec(f, r, k)
<1> DEFINE W == {m \in Nat : \E f : PopRec(f, r, m)}
<1>1. 0 \in W
  <2>1. PopRec([i \in 0 .. 0 |-> r], r, 0)
    BY DEF PopRec
  <2> QED
    BY <2>1
<1>2. ASSUME NEW m \in W PROVE m + 1 \in W
  <2>1. PICK f : PopRec(f, r, m)
    OBVIOUS
  <2>. PICK e : e = [i \in 0 .. m + 1 |-> IF i <= m THEN f[i] ELSE tos_ring_q_dequeue(f[m])]
    OBVIOUS
  <2>2. ASSUME NEW i \in 0 .. m + 1
        PROVE  e[i] = IF i = 0 THEN r ELSE tos_ring_q_dequeue(e[i - 1])
    <3>1. CASE i = 0
      BY <2>1, <3>1 DEF PopRec
    <3>2. CASE i \in 1 .. m
      <4>1. i - 1 \in 0 .. m /\ i - 1 \in 0 .. m + 1 /\ i \in 0 .. m /\ i # 0
        BY <3>2
      <4>2. e[i - 1] = f[i - 1] /\ e[i] = f[i]
        BY <4>1
      <4> QED
        BY <2>1, <4>1, <4>2 DEF PopRec
    <3>3. CASE i = m + 1
      <4>1. i - 1 = m /\ m \in 0 .. m + 1 /\ i # 0 /\ ~(i <= m)
        BY <3>3
      <4>2. e[i - 1] = f[m] /\ e[i] = tos_ring_q_dequeue(f[m])
        BY <4>1
      <4> QED
        BY <4>1, <4>2
    <3> QED
      BY <3>1, <3>2, <3>3
  <2>3. PopRec(e, r, m + 1)
    <3>1. e = [i \in 0 .. m + 1 |-> e[i]]
      OBVIOUS
    <3> QED
      BY <2>2, <3>1 DEF PopRec
  <2> QED
    BY <2>3
<1>3. W \in SUBSET Nat
  OBVIOUS
<1> HIDE DEF W
<1>4. \A n \in Nat : n \in W
  BY <1>1, <1>2, <1>3, NatSteps
<1>5. \E f : PopRec(f, r, k)
  BY <1>4 DEF W
<1> QED
  BY <1>5

(* The loop of a pop takes the oldest bytes, one a round.                  *)
Took(r, i, q) ==
    /\ Sane(FifoSize, q) /\ q.total = r.total - i
    /\ \A j \in 1 .. r.total - i : RingItems(q)[j] = RingItems(r)[i + j]

LEMMA PopRounds ==
    ASSUME NEW r, Sane(FifoSize, r), NEW k \in 0 .. r.total, NEW d,
           PopRec(d, r, k)
    PROVE  \A i \in 0 .. k : Took(r, i, d[i])
<1>1. k \in Nat /\ r.total \in Nat /\ k <= r.total
  BY FifoAssumption DEF Sane
<1>2. d[0] = r
  <2>1. 0 \in 0 .. k
    BY <1>1
  <2> QED
    BY <2>1 DEF PopRec
<1>3. ASSUME NEW i \in Nat, i + 1 <= k
      PROVE  d[i + 1] = tos_ring_q_dequeue(d[i])
  <2>1. i + 1 \in 0 .. k /\ i + 1 # 0 /\ (i + 1) - 1 = i
    BY <1>1, <1>3
  <2> QED
    BY <2>1 DEF PopRec
<1> DEFINE P(i) == /\ Sane(FifoSize, d[i]) /\ d[i].total = r.total - i
                   /\ \A j \in 1 .. r.total - i : RingItems(d[i])[j] = RingItems(r)[i + j]
           V == {i \in Nat : i <= k => P(i)}
<1>4. 0 \in V
  <2>3. r.total - 0 = r.total /\ \A j \in 1 .. r.total : 0 + j = j
    BY <1>1
  <2> QED
    BY <1>2, <2>3
<1>5. ASSUME NEW i \in V PROVE i + 1 \in V
  <2> SUFFICES ASSUME i + 1 <= k PROVE P(i + 1)
    OBVIOUS
  <2>1. i \in Nat /\ i <= k /\ i + 1 \in 0 .. k /\ i + 1 # 0 /\ (i + 1) - 1 = i
    BY <1>1
  <2>2. d[i + 1] = tos_ring_q_dequeue(d[i])
    BY <1>3, <2>1
  <2>3. P(i)
    BY <2>1
  <2> DEFINE q == tos_ring_q_dequeue(d[i])
  <2>4. d[i].total > 0 /\ d[i].total - 1 = r.total - (i + 1)
    BY <1>1, <2>1, <2>3
  <2>5. /\ Sane(FifoSize, q) /\ q.total = d[i].total - 1
        /\ \A j \in 1 .. q.total : RingItems(q)[j] = RingItems(d[i])[j + 1]
    BY <2>3, <2>4, DequeueSane, FifoAssumption
  <2> HIDE DEF q
  <2>6. ASSUME NEW j \in 1 .. r.total - (i + 1)
        PROVE  RingItems(q)[j] = RingItems(r)[(i + 1) + j]
    <3>1. j \in 1 .. q.total /\ j + 1 \in 1 .. r.total - i /\ i + (j + 1) = (i + 1) + j
      BY <1>1, <2>1, <2>4, <2>5
    <3> QED
      BY <2>3, <2>5, <3>1
  <2> QED
    BY <2>2, <2>4, <2>5, <2>6 DEF q
<1>6. V \in SUBSET Nat
  OBVIOUS
<1> HIDE DEF V
<1>7. \A i \in Nat : i \in V
  BY <1>4, <1>5, <1>6, NatSteps
<1> QED
  BY <1>1, <1>7 DEF V, Took

LEMMA PushTable ==
    ASSUME NEW r, NEW k \in Nat, NEW s
    PROVE  \E f : PushRec(f, r, s, k)
<1> DEFINE W == {m \in Nat : \E f : PushRec(f, r, s, m)}
<1>1. 0 \in W
  <2>1. PushRec([i \in 0 .. 0 |-> r], r, s, 0)
    BY DEF PushRec
  <2> QED
    BY <2>1
<1>2. ASSUME NEW m \in W PROVE m + 1 \in W
  <2>1. PICK f : PushRec(f, r, s, m)
    OBVIOUS
  <2>. PICK e : e = [i \in 0 .. m + 1 |-> IF i <= m THEN f[i] ELSE Pushed(f[m], s[i])]
    OBVIOUS
  <2>2. ASSUME NEW i \in 0 .. m + 1
        PROVE  e[i] = IF i = 0 THEN r ELSE Pushed(e[i - 1], s[i])
    <3>1. CASE i = 0
      BY <2>1, <3>1 DEF PushRec
    <3>2. CASE i \in 1 .. m
      <4>1. i - 1 \in 0 .. m /\ i - 1 \in 0 .. m + 1 /\ i \in 0 .. m /\ i # 0
        BY <3>2
      <4>2. e[i - 1] = f[i - 1] /\ e[i] = f[i]
        BY <4>1
      <4> QED
        BY <2>1, <4>1, <4>2 DEF PushRec
    <3>3. CASE i = m + 1
      <4>1. i - 1 = m /\ m \in 0 .. m + 1 /\ i # 0 /\ ~(i <= m)
        BY <3>3
      <4>2. e[i - 1] = f[m] /\ e[i] = Pushed(f[m], s[i])
        BY <4>1
      <4> QED
        BY <4>1, <4>2
    <3> QED
      BY <3>1, <3>2, <3>3
  <2>3. PushRec(e, r, s, m + 1)
    <3>1. e = [i \in 0 .. m + 1 |-> e[i]]
      OBVIOUS
    <3> QED
      BY <2>2, <3>1 DEF PushRec
  <2> QED
    BY <2>3
<1>3. W \in SUBSET Nat
  OBVIOUS
<1> HIDE DEF W
<1>4. \A n \in Nat : n \in W
  BY <1>1, <1>2, <1>3, NatSteps
<1>5. \E f : PushRec(f, r, s, k)
  BY <1>4 DEF W
<1> QED
  BY <1>5

(* The loop of a push adds bytes until one does not fit.                   *)
Fit(r, i) == IF i <= FifoSize - r.total THEN i ELSE FifoSize - r.total

Added(r, s, i, q) ==
    /\ Sane(FifoSize, q) /\ q.total = r.total + Fit(r, i)
    /\ \A j \in 1 .. r.total + Fit(r, i) :
          RingItems(q)[j] = IF j <= r.total THEN RingItems(r)[j] ELSE s[j - r.total]

LEMMA PushRounds ==
    ASSUME NEW r, Sane(FifoSize, r), NEW k \in Nat, NEW s \in [1 .. k -> Item], NEW d,
           PushRec(d, r, s, k)
    PROVE  \A i \in 0 .. k : Added(r, s, i, d[i])
<1>1. /\ FifoSize \in Nat /\ r.total \in Nat /\ r.total <= FifoSize
  BY FifoAssumption DEF Sane
<1>2. d[0] = r
  <2>1. 0 \in 0 .. k
    BY <1>1
  <2> QED
    BY <2>1 DEF PushRec
<1>3. ASSUME NEW i \in Nat, i + 1 <= k
      PROVE  d[i + 1] = Pushed(d[i], s[i + 1])
  <2>1. i + 1 \in 0 .. k /\ i + 1 # 0 /\ (i + 1) - 1 = i
    BY <1>1, <1>3
  <2> QED
    BY <2>1 DEF PushRec
<1> DEFINE room == FifoSize - r.total
           N(i) == IF i <= room THEN i ELSE room
<1>r. room \in Nat /\ r.total + room = FifoSize
  BY <1>1
<1> HIDE DEF room
<1> DEFINE
           P(i) == /\ Sane(FifoSize, d[i]) /\ d[i].total = r.total + N(i)
                   /\ \A j \in 1 .. r.total + N(i) :
                         RingItems(d[i])[j] = IF j <= r.total THEN RingItems(r)[j]
                                              ELSE s[j - r.total]
           V == {i \in Nat : i <= k => P(i)}
<1>4. 0 \in V
  <2>3. r.total + N(0) = r.total
    BY <1>1, <1>r
  <2> HIDE DEF N
  <2>4. \A j \in 1 .. r.total : j <= r.total
    BY <1>1
  <2>5. \A j \in 1 .. r.total + N(0) :
           RingItems(d[0])[j] = IF j <= r.total THEN RingItems(r)[j] ELSE s[j - r.total]
    BY <1>2, <2>3, <2>4
  <2>6. P(0)
    BY <1>2, <2>3, <2>5
  <2> QED
    BY <2>6
<1>5. ASSUME NEW i \in V PROVE i + 1 \in V
  <2> SUFFICES ASSUME i + 1 <= k PROVE P(i + 1)
    OBVIOUS
  <2>1. /\ i \in Nat /\ i <= k /\ i + 1 \in 0 .. k /\ i + 1 # 0 /\ (i + 1) - 1 = i
        /\ i + 1 \in 1 .. k
    OBVIOUS
  <2>2. d[i + 1] = Pushed(d[i], s[i + 1])
    BY <1>3, <2>1
  <2>3. P(i)
    BY <2>1
  <2>4. d[i].cnt = FifoSize
    BY <2>3, SaneSound, FifoAssumption
  <2>5. CASE i >= room
    <3>1. N(i + 1) = room /\ N(i) = room /\ r.total + room = FifoSize
      BY <1>r, <2>1, <2>5
    <3> HIDE DEF N
    <3>2. d[i + 1] = d[i]
      BY <2>2, <2>3, <2>4, <3>1 DEF Pushed, tos_ring_q_is_full
    <3> QED
      BY <2>3, <3>1, <3>2
  <2>6. CASE i < room
    <3> DEFINE q == tos_ring_q_enqueue(d[i], s[i + 1])
    <3>1. /\ N(i) = i /\ N(i + 1) = i + 1 /\ d[i].total = r.total + i
          /\ d[i].total < FifoSize /\ d[i].total \in Nat /\ s[i + 1] \in Item
      BY <1>1, <1>r, <2>1, <2>3, <2>6
    <3> HIDE DEF N
    <3>2. d[i + 1] = q
      <4>1. d[i].total # d[i].cnt
        BY <1>1, <2>4, <3>1
      <4> QED
        BY <2>2, <4>1 DEF Pushed, tos_ring_q_is_full
    <3>3. /\ Sane(FifoSize, q) /\ q.total = d[i].total + 1
          /\ RingItems(q) = Append(RingItems(d[i]), s[i + 1])
      BY <2>3, <3>1, EnqueueSane, FifoAssumption
    <3> HIDE DEF q
    <3> DEFINE a == RingItems(d[i])
    <3>4. a \in Seq(Item) /\ Len(a) = r.total + i
      BY <2>3, <3>1, ItemsList, FifoAssumption
    <3> HIDE DEF a
    <3>5. /\ \A j \in 1 .. r.total + i : Append(a, s[i + 1])[j] = a[j]
          /\ Append(a, s[i + 1])[(r.total + i) + 1] = s[i + 1]
      BY <3>4
    <3>6. ASSUME NEW j \in 1 .. r.total + (i + 1)
          PROVE  RingItems(q)[j] = IF j <= r.total THEN RingItems(r)[j] ELSE s[j - r.total]
      <4>1. CASE j \in 1 .. r.total + i
        <5>1. RingItems(q)[j] = RingItems(d[i])[j]
          BY <3>3, <3>5, <4>1 DEF a
        <5> QED
          BY <2>3, <3>1, <4>1, <5>1
      <4>2. CASE j = (r.total + i) + 1
        <5>1. ~(j <= r.total) /\ j - r.total = i + 1
          BY <1>1, <2>1, <4>2
        <5> QED
          BY <3>3, <3>5, <4>2, <5>1 DEF a
      <4>3. j \in 1 .. r.total + i \/ j = (r.total + i) + 1
        <5>1. /\ j \in Int /\ 1 <= j /\ j <= r.total + (i + 1)
              /\ r.total \in Int /\ i \in Int
          BY <1>1, <2>1
        <5> QED
          BY <5>1
      <4> QED
        BY <4>1, <4>2, <4>3
    <3>7. q.total = r.total + (i + 1)
      <4> HIDE DEF P
      <4>1. q.total = (r.total + i) + 1
        BY <3>1, <3>3
      <4> QED
        BY <1>1, <2>1, <4>1
    <3> QED
      BY <3>1, <3>2, <3>3, <3>6, <3>7
  <2>7. i >= room \/ i < room
    BY <1>r, <2>1
  <2> QED
    BY <2>5, <2>6, <2>7
<1>6. V \in SUBSET Nat
  OBVIOUS
<1> HIDE DEF V
<1>7. \A i \in Nat : i \in V
  BY <1>4, <1>5, <1>6, NatSteps
<1>8. \A i \in 0 .. k : P(i)
  <2> HIDE DEF P
  <2> QED
    BY <1>7 DEF V
<1> QED
  BY <1>8 DEF room, Added, Fit

FifoInv ==
    /\ Sane(FifoSize, chrFifo) /\ sent \in Seq(Item) /\ got \in Seq(Item)
    /\ sent = got \o RingItems(chrFifo)

LEMMA PushInv ==
    ASSUME FifoInv, NEW n \in Nat, NEW s \in [1 .. n -> Item], tos_chr_fifo_push_stream(s)
    PROVE  FifoInv'
<1> DEFINE r == chrFifo
           room == FifoSize - r.total
           taken == IF n <= room THEN n ELSE room
           d == CHOOSE f : PushRec(f, r, s, n)
           u == SubSeq(s, 1, taken)
           b == RingItems(r)
           c == RingItems(chrFifo')
<1>1. Len(s) = n /\ s \in Seq(Item)
  OBVIOUS
<1>2. chrFifo' = d[n] /\ sent' = sent \o u /\ got' = got
  BY <1>1 DEF tos_chr_fifo_push_stream, PushRec
<1>3. Sane(FifoSize, r) /\ sent = got \o b /\ sent \in Seq(Item) /\ got \in Seq(Item)
  BY DEF FifoInv
<1>4. /\ r.total \in Nat /\ room \in Nat /\ taken \in 0 .. n
      /\ b \in Seq(Item) /\ Len(b) = r.total
  <2>1. r.total \in Nat /\ room \in Nat
    BY <1>3, FifoAssumption DEF Sane
  <2>2. taken \in 0 .. n
    <3> HIDE DEF room
    <3> QED
      BY <2>1
  <2> QED
    BY <1>3, <2>1, <2>2, ItemsList, FifoAssumption
<1>5. /\ Sane(FifoSize, chrFifo') /\ chrFifo'.total = r.total + taken
      /\ \A j \in 1 .. r.total + taken :
            c[j] = IF j <= r.total THEN b[j] ELSE s[j - r.total]
  <2>1. n \in 0 .. n
    OBVIOUS
  <2> HIDE DEF d
  <2> HIDE DEF r
  <2>2. \E f : PushRec(f, r, s, n)
    BY PushTable
  <2>3. PushRec(d, r, s, n)
    BY <2>2 DEF d
  <2>4. Added(r, s, n, d[n])
    BY <1>3, <2>1, <2>3, PushRounds
  <2>5. Fit(r, n) = taken
    BY DEF Fit
  <2> HIDE DEF taken
  <2> QED
    BY <1>2, <2>4, <2>5 DEF Added
<1>6. c \in Seq(Item) /\ Len(c) = r.total + taken
  BY <1>5, ItemsList, FifoAssumption
<1>7. u \in Seq(Item) /\ Len(u) = taken /\ \A i \in 1 .. taken : u[i] = s[i]
  <2> HIDE DEF taken
  <2> QED
    BY <1>1, <1>4
<1> HIDE DEF r, room, taken, d, u, b, c
<1>8. c = b \o u
  <2>1. b \o u \in Seq(Item) /\ Len(b \o u) = r.total + taken
    BY <1>4, <1>7
  <2>2. ASSUME NEW j \in 1 .. r.total + taken
        PROVE  (b \o u)[j] = IF j <= r.total THEN b[j] ELSE s[j - r.total]
    <3>1. (b \o u)[j] = IF j <= r.total THEN b[j] ELSE u[j - r.total]
      <4>1. j \in 1 .. Len(b) + Len(u)
        BY <1>4, <1>7
      <4>2. b \in Seq(Item) /\ u \in Seq(Item) /\ Len(b) = r.total
        BY <1>4, <1>7
      <4> QED
        BY <4>1, <4>2, ConcatProperties
    <3>2. ~(j <= r.total) => j - r.total \in 1 .. taken
      BY <1>4
    <3> QED
      BY <1>7, <3>1, <3>2
  <2>3. \A j \in 1 .. r.total + taken : c[j] = (b \o u)[j]
    BY <1>5, <2>2
  <2> QED
    BY <1>6, <2>1, <2>3, SeqEqual
<1>9. sent' = got' \o c
  <2>1. got \in Seq(Item) /\ b \in Seq(Item) /\ u \in Seq(Item)
    BY <1>3, <1>4, <1>7
  <2>2. (got \o b) \o u = got \o (b \o u)
    BY <2>1, ConcatAssociative
  <2> QED
    BY <1>2, <1>3, <1>8, <2>2
<1>10. sent' \in Seq(Item) /\ got' \in Seq(Item)
  BY <1>2, <1>3, <1>7
<1> QED
  BY <1>5, <1>9, <1>10 DEF FifoInv, c

LEMMA PopInv ==
    ASSUME FifoInv, NEW n \in Nat, tos_chr_fifo_pop_stream(n)
    PROVE  FifoInv'
<1> DEFINE r == chrFifo
           taken == IF n <= r.total THEN n ELSE r.total
           d == CHOOSE f : PopRec(f, r, taken)
           v == [i \in 1 .. taken |-> RING_HEAD_ITEM(d[i - 1])]
           b == RingItems(r)
           c == RingItems(chrFifo')
<1>2. chrFifo' = d[taken] /\ got' = got \o v /\ sent' = sent
  BY DEF tos_chr_fifo_pop_stream, PopRec
<1>3. Sane(FifoSize, r) /\ sent = got \o b /\ sent \in Seq(Item) /\ got \in Seq(Item)
  BY DEF FifoInv
<1>4. /\ r.total \in Nat /\ taken \in 0 .. r.total
      /\ b \in Seq(Item) /\ Len(b) = r.total
  <2>1. r.total \in Nat
    BY <1>3, FifoAssumption DEF Sane
  <2>2. taken \in 0 .. r.total
    <3> HIDE DEF r
    <3> QED
      BY <2>1
  <2> QED
    BY <1>3, <2>1, <2>2, ItemsList, FifoAssumption
<1>5. \A i \in 0 .. taken : Took(r, i, d[i])
  <2> HIDE DEF d, taken
  <2> HIDE DEF r
  <2>0. taken \in Nat
    BY <1>4
  <2>1. \E f : PopRec(f, r, taken)
    BY <2>0, PopTable
  <2>2. PopRec(d, r, taken)
    BY <2>1 DEF d
  <2> QED
    BY <1>3, <1>4, <2>2, PopRounds
<1> HIDE DEF taken, d
<1>6. ASSUME NEW i \in 1 .. taken
      PROVE  RING_HEAD_ITEM(d[i - 1]) = b[i] /\ b[i] \in Item
  <2>1. /\ i - 1 \in 0 .. taken /\ r.total - (i - 1) > 0 /\ (i - 1) + 1 = i
        /\ 1 \in 1 .. r.total - (i - 1) /\ i \in 1 .. r.total
    BY <1>4
  <2>2. Sane(FifoSize, d[i - 1]) /\ d[i - 1].total > 0 /\ RingItems(d[i - 1])[1] = b[i]
    BY <1>5, <2>1 DEF Took
  <2>3. RING_HEAD_ITEM(d[i - 1]) = RingItems(d[i - 1])[1]
    BY <2>2, DequeueSane, FifoAssumption
  <2>4. b[i] \in Item
    <3> HIDE DEF b
    <3> QED
      BY <1>4, <2>1
  <2> QED
    BY <2>2, <2>3, <2>4
<1>7. v \in Seq(Item) /\ Len(v) = taken /\ \A i \in 1 .. taken : v[i] = b[i]
  <2>1. v \in [1 .. taken -> Item] /\ \A i \in 1 .. taken : v[i] = b[i]
    BY <1>6
  <2> HIDE DEF v
  <2> QED
    BY <1>4, <2>1
<1>8. /\ Sane(FifoSize, chrFifo') /\ c \in Seq(Item) /\ Len(c) = r.total - taken
      /\ \A j \in 1 .. r.total - taken : c[j] = b[taken + j]
  <2>1. taken \in 0 .. taken
    BY <1>4
  <2>2. /\ Sane(FifoSize, chrFifo') /\ chrFifo'.total = r.total - taken
        /\ \A j \in 1 .. r.total - taken : c[j] = b[taken + j]
    BY <1>2, <1>5, <2>1 DEF Took
  <2> QED
    BY <2>2, ItemsList, FifoAssumption
<1> HIDE DEF r, v, b, c
<1>9. b = v \o c
  <2>1. v \o c \in Seq(Item) /\ Len(v \o c) = r.total
    <3>0. v \in Seq(Item) /\ c \in Seq(Item)
      BY <1>7, <1>8
    <3>1. v \o c \in Seq(Item) /\ Len(v \o c) = Len(v) + Len(c)
      BY <3>0, ConcatProperties
    <3> QED
      BY <1>4, <1>7, <1>8, <3>1
  <2>2. ASSUME NEW j \in 1 .. r.total
        PROVE  b[j] = (v \o c)[j]
    <3>1. (v \o c)[j] = IF j <= taken THEN v[j] ELSE c[j - taken]
      <4>1. Len(v) + Len(c) = r.total
        BY <1>4, <1>7, <1>8
      <4>2. v \in Seq(Item) /\ c \in Seq(Item) /\ Len(v) = taken
        BY <1>7, <1>8
      <4> QED
        BY <4>1, <4>2, ConcatProperties
    <3>2. CASE j <= taken
      BY <1>4, <1>7, <3>1, <3>2
    <3>3. CASE ~(j <= taken)
      <4>1. j - taken \in 1 .. r.total - taken /\ taken + (j - taken) = j
        BY <1>4, <3>3
      <4> QED
        BY <1>8, <3>1, <3>3, <4>1
    <3> QED
      BY <3>2, <3>3
  <2> QED
    BY <1>4, <2>1, <2>2, SeqEqual
<1>10. sent' = got' \o c
  <2>1. got \in Seq(Item) /\ v \in Seq(Item) /\ c \in Seq(Item)
    BY <1>3, <1>7, <1>8
  <2>2. (got \o v) \o c = got \o (v \o c)
    BY <2>1, ConcatAssociative
  <2> QED
    BY <1>2, <1>3, <1>9, <2>2
<1>11. sent' \in Seq(Item) /\ got' \in Seq(Item)
  BY <1>2, <1>3, <1>7
<1> QED
  BY <1>8, <1>10, <1>11 DEF FifoInv, c

LEMMA EmptyFifoInv ==
    ASSUME FifoSize \in Nat, NEW r, r = tos_ring_q_create(FifoSize)
    PROVE  Sane(FifoSize, r) /\ << >> = << >> \o RingItems(r)
<1>1. Sane(FifoSize, r) /\ RingItems(r) = << >>
  BY CreateSane, FifoAssumption
<1> QED
  BY <1>1

LEMMA FifoAlways == StoreSpec => []FifoInv
<1>1. StoreInit => FifoInv
  BY EmptyFifoInv, FifoAssumption DEF StoreInit, FifoInit, FifoInv
<1>2. ASSUME FifoInv, FifoNext PROVE FifoInv'
  <2>1. CASE tos_chr_fifo_flush
    <3>1. chrFifo.cnt = FifoSize
      BY <1>2, SaneSound, FifoAssumption DEF FifoInv
    <3> QED
      BY <2>1, <3>1, EmptyFifoInv, FifoAssumption
      DEF tos_chr_fifo_flush, tos_ring_q_flush, FifoInv
  <2>2. ASSUME NEW n \in 1 .. StreamLen, tos_chr_fifo_pop_stream(n) PROVE FifoInv'
    BY <1>2, <2>2, PopInv
  <2>3. ASSUME NEW n \in 1 .. StreamLen, NEW s \in [1 .. n -> Item],
               tos_chr_fifo_push_stream(s)
        PROVE  FifoInv'
    BY <1>2, <2>3, PushInv
  <2> QED
    BY <1>2, <2>1, <2>2, <2>3 DEF FifoNext
<1>3. ASSUME FifoInv, UNCHANGED fifoVars PROVE FifoInv'
  BY <1>3 DEF FifoInv, fifoVars, Sane, RingItems
<1>4. FifoInv /\ [StoreNext]_storeVars => FifoInv'
  BY <1>2, <1>3 DEF StoreNext, storeVars, HeapStep, BlkStep, FifoStep, UseStep, BitStep
<1> QED
  BY <1>1, <1>4, PTL DEF StoreSpec

(* Whatever the size of the FIFO and the streams: bytes come out in the    *)
(* order they were told to have gone in, none lost and none twice.         *)
THEOREM BytesAlwaysInOrder == StoreSpec => []BytesInOrder
<1>1. FifoInv => BytesInOrder
  BY SaneSound, FifoAssumption DEF FifoInv, BytesInOrder
<1> QED
  BY <1>1, FifoAlways, PTL

----------------------------------------------------------------------------
(* The priority queue used directly: one producer and one consumer find    *)
(* what they saw before they disabled interrupts, or better.               *)

OneEach == \E p, c : p # c /\ Producers \subseteq {p} /\ Consumers \subseteq {c}

UseInv ==
    /\ PrioOK(UseSize, prioq) /\ ~asserted /\ checked \subseteq Producers \cup Consumers
    /\ \A c \in checked \cap Producers : prioq.total # UseSize
    /\ \A c \in checked \cap Consumers : prioq.total > 0

LEMMA UseNextInv ==
    ASSUME OneEach, UseInv, UseNext
    PROVE  UseInv'
<1>1. UseSize \in Nat \ {0} /\ UsePrios \subseteq Nat
  BY UseAssumption
<1>2. PICK p, c : p # c /\ Producers \subseteq {p} /\ Consumers \subseteq {c}
  BY DEF OneEach
<1>3. prioq.total \in 0 .. UseSize /\ prioq.cnt = UseSize /\ PrioOK(UseSize, prioq)
  BY <1>1, PrioType DEF UseInv
<1>4. ASSUME NEW d \in Producers, EnqueueCheck(d) PROVE UseInv'
  <2>1. prioq.total # UseSize
    BY <1>3, <1>4 DEF EnqueueCheck, tos_prio_q_is_full
  <2> QED
    BY <1>2, <1>4, <2>1 DEF EnqueueCheck, UseInv
<1>5. ASSUME NEW d \in Consumers, DequeueCheck(d) PROVE UseInv'
  <2>1. prioq.total > 0
    BY <1>1, <1>3, <1>5 DEF DequeueCheck, tos_prio_q_is_empty
  <2> QED
    BY <1>2, <1>5, <2>1 DEF DequeueCheck, UseInv
<1>6. ASSUME NEW d \in Producers, NEW x \in Item, NEW prio \in UsePrios, Enqueue(d, x, prio)
      PROVE  UseInv'
  <2>1. d = p /\ d \in checked /\ prioq.total # UseSize /\ prio \in Nat
    BY <1>1, <1>2, <1>6 DEF Enqueue, UseInv
  <2>2. SlotLeft(prioq)
    BY <1>1, <1>3, <2>1, FreeSlot DEF SlotLeft
  <2>3. /\ PrioOK(UseSize, prioq') /\ prioq'.total = prioq.total + 1
    <3>1. prioq' = tos_prio_q_enqueue(prioq, x, prio)
      BY <1>6, <2>2 DEF Enqueue
    <3>2. UseSize \in Nat /\ PrioOK(UseSize, prioq) /\ prioq.total # UseSize /\ prio \in Nat
      BY <1>1, <1>3, <2>1
    <3> QED
      BY <1>6, <3>1, <3>2, PrioEnqueueOK
  <2>4. prioq'.total > 0
    BY <1>3, <2>3
  <2>5. checked' = checked \ {p} /\ ~asserted'
    BY <1>6, <2>1, <2>2 DEF Enqueue, UseInv
  <2> QED
    BY <1>2, <2>3, <2>4, <2>5 DEF UseInv
<1>7. ASSUME NEW d \in Consumers, Dequeue(d) PROVE UseInv'
  <2>1. d = c /\ d \in checked /\ prioq.total > 0
    BY <1>2, <1>7 DEF Dequeue, UseInv
  <2>2. prioq.heap # << >>
    BY <1>3, <2>1 DEF PrioOK
  <2>3. /\ PrioOK(UseSize, prioq') /\ prioq'.total = prioq.total - 1
    BY <1>1, <1>3, <1>7, <2>1, <2>2, PrioDequeueOK DEF Dequeue
  <2>4. prioq'.total # UseSize
    BY <1>1, <1>3, <2>3
  <2>5. checked' = checked \ {c} /\ ~asserted'
    BY <1>7, <2>1, <2>2 DEF Dequeue, UseInv
  <2> QED
    BY <1>2, <2>3, <2>4, <2>5 DEF UseInv
<1>8. ASSUME NEW d \in Consumers, Flush(d) PROVE UseInv'
  <2>1. PrioOK(UseSize, prioq') /\ prioq'.total = 0
    BY <1>1, <1>3, <1>8, PrioCreateOK DEF Flush, tos_prio_q_flush
  <2>2. checked \cap Consumers = {}
    BY <1>2, <1>8 DEF Flush
  <2> QED
    BY <1>1, <1>8, <2>1, <2>2 DEF Flush, UseInv
<1> QED
  BY <1>4, <1>5, <1>6, <1>7, <1>8 DEF UseNext

(* With one producer and one consumer, whatever the size of the queue, the *)
(* items and their priorities: neither assertion behind the two checks can *)
(* fail, and every slot stays free or ranked, in the order of the heap.    *)
THEOREM CheckAlwaysHolds == OneEach /\ StoreSpec => []CheckStillHolds
<1>1. StoreInit => UseInv
  BY UseAssumption, PrioCreateOK DEF StoreInit, UseInit, UseInv
<1>2. OneEach /\ UseInv /\ [StoreNext]_storeVars => UseInv'
  <2>1. UseInv /\ UNCHANGED useVars => UseInv'
    BY DEF UseInv, useVars
  <2> QED
    BY <2>1, UseNextInv
    DEF StoreNext, storeVars, HeapStep, BlkStep, FifoStep, UseStep, BitStep
<1>3. OneEach => [](OneEach)
  <2>1. OneEach => OneEach'
    BY DEF OneEach
  <2> QED
    BY <2>1, PTL
<1>4. UseInv => CheckStillHolds
  BY UseAssumption, PrioOKSound DEF UseInv, CheckStillHolds
<1> QED
  BY <1>1, <1>2, <1>3, <1>4, PTL DEF StoreSpec

----------------------------------------------------------------------------
(* The bitmap: the bits in the table are those the application asked for.  *)

BitInv ==
    \/ bitMax = 0 /\ memory = {} /\ wanted = {}
    \/ /\ bitMax \in BitMaxes
       /\ memory \ Table \subseteq (IF LastBitOutside THEN {bitMax} ELSE {})
       /\ memory \cap BitsInTable = wanted \cap BitsInTable

LEMMA DivFacts ==
    ASSUME NEW s \in Nat \ {0}, NEW n \in Nat
    PROVE  /\ n \div s \in Nat /\ n % s \in 0 .. s - 1
           /\ n = s * (n \div s) + (n % s)
  OBVIOUS

LEMMA Products ==
    ASSUME NEW s \in Nat \ {0}, NEW i \in Nat, NEW j \in Nat
    PROVE  /\ i * s \in Nat /\ s * i = i * s /\ (i + 1) * s = i * s + s
           /\ i < j => (i + 1) * s <= j * s
<1>1. i * s \in Nat /\ s * i = i * s /\ (i + 1) * s = i * s + s
  OBVIOUS
<1>2. ASSUME i < j PROVE (i + 1) * s <= j * s
  <2>1. PICK d \in Nat : j = i + 1 + d
    <3>1. j - i - 1 \in Nat /\ j = i + 1 + (j - i - 1)
      BY <1>2
    <3> QED
      BY <3>1
  <2>2. j * s = (i + 1) * s + d * s /\ d * s >= 0 /\ (i + 1) * s \in Nat /\ d * s \in Nat
    BY <2>1
  <2> QED
    BY <2>2
<1> QED
  BY <1>1, <1>2

(* The table has a word for each bit but, at a multiple of the word size,  *)
(* the last, and none to spare.                                            *)
LEMMA TableSize ==
    ASSUME NEW max \in BitMaxes
    PROVE  /\ K_BITMAP_TBL_SIZE(max) \in Nat \ {0} /\ max \in Nat \ {0}
           /\ K_BITMAP_TBL_SIZE(max) * SlotSize \in Nat
           /\ max <= K_BITMAP_TBL_SIZE(max) * SlotSize
           /\ max % SlotSize # 0 => max < K_BITMAP_TBL_SIZE(max) * SlotSize
           /\ max % SlotSize = 0 => max = K_BITMAP_TBL_SIZE(max) * SlotSize
<1> DEFINE s == SlotSize
           k == K_BITMAP_TBL_SIZE(max)
           n == max + s - 1
<1>1. s \in Nat \ {0} /\ max \in Nat \ {0}
  BY BitmapAssumption
<1>2. n \in Nat /\ k = n \div s
  BY <1>1 DEF K_BITMAP_TBL_SIZE
<1>3. k \in Nat /\ n % s \in 0 .. s - 1 /\ n = s * k + (n % s)
  <2>1. \A t \in Nat \ {0}, m \in Nat :
          m \div t \in Nat /\ m % t \in 0 .. t - 1 /\ m = t * (m \div t) + (m % t)
    BY DivFacts
  <2> QED
    BY <1>1, <1>2, <2>1
<1>4. k * s \in Nat /\ s * k = k * s
  <2> HIDE DEF k, n, s
  <2> QED
    BY <1>1, <1>3
<1>5. max <= k * s
  <2> DEFINE r == n % s
             p == k * s
  <2>1. r \in 0 .. s - 1 /\ max + s - 1 = p + r /\ p \in Nat
    BY <1>3, <1>4
  <2> HIDE DEF k, s, r, p
  <2>2. max <= p
    BY <1>1, <2>1
  <2> QED
    BY <2>2 DEF p
<1>6. k # 0
  <2> HIDE DEF k, s
  <2> QED
    BY <1>1, <1>3, <1>5
<1>7. ASSUME max = k * s PROVE max % s = 0
  <2> HIDE DEF k, s, n
  <2>1. ASSUME NEW a \in Nat, NEW b \in Nat \ {0}, NEW c, c = a * b PROVE c % b = 0
    BY <2>1
  <2> QED
    BY <1>1, <1>3, <1>7, <2>1
<1>8. max % s # 0 => max < k * s
  <2> HIDE DEF k, s, n
  <2> QED
    BY <1>1, <1>4, <1>5, <1>7
<1>9. ASSUME max % s = 0 PROVE max = k * s
  <2> DEFINE q == max \div s
             r == n % s
             a == k * s
             c == q * s
  <2>1. q \in Nat /\ c \in Nat /\ a \in Nat /\ max = c
    <3>1. q \in Nat /\ max = s * q + (max % s)
      <4> HIDE DEF s
      <4> QED
        BY <1>1, DivFacts
    <3>2. s * q = c /\ c \in Nat
      <4> HIDE DEF s, q
      <4> QED
        BY <1>1, <3>1, Products
    <3> HIDE DEF c, q
    <3> QED
      BY <1>1, <1>4, <1>9, <3>1, <3>2
  <2>2. r \in 0 .. s - 1 /\ max + s - 1 = a + r
    BY <1>3, <1>4
  <2>3. ~(q < k)
    <3>1. ASSUME q < k PROVE c + s <= a
      <4> HIDE DEF k, s, q
      <4> QED
        BY <1>1, <1>3, <2>1, <3>1, Products
    <3> HIDE DEF a, c, k, q, r, s
    <3> QED
      BY <1>1, <2>1, <2>2, <3>1
  <2>4. ~(k < q)
    <3>1. ASSUME k < q PROVE a + s <= c
      <4> HIDE DEF k, s, q
      <4> QED
        BY <1>1, <1>3, <2>1, <3>1, Products
    <3>2. max <= a
      BY <1>5
    <3> HIDE DEF a, c, k, q, r, s
    <3> QED
      BY <1>1, <2>1, <3>1, <3>2
  <2>5. k = q
    <3> HIDE DEF k, q
    <3> QED
      BY <1>3, <2>1, <2>3, <2>4
  <2> HIDE DEF k, q
  <2> QED
    BY <2>1, <2>5
<1> QED
  BY <1>1, <1>3, <1>4, <1>5, <1>6, <1>8, <1>9

(* Each bit lies in the word K_BITMAP_NDX tells.                           *)
LEMMA WordOf ==
    ASSUME NEW k \in Nat, NEW b \in 0 .. k * SlotSize - 1
    PROVE  \E i \in 0 .. k - 1 : b \in Word(i)
<1> DEFINE s == SlotSize
           i == b \div s
<1>1. s \in Nat \ {0}
  BY BitmapAssumption
<1>0. k * s \in Nat /\ b \in Nat /\ b < k * s
  <2>1. k * s \in Nat
    <3> HIDE DEF s
    <3> QED
      BY <1>1
  <2> QED
    BY <2>1
<1>2. i \in Nat /\ b % s \in 0 .. s - 1 /\ b = s * i + (b % s)
  <2> HIDE DEF s
  <2> QED
    BY <1>0, <1>1, DivFacts
<1> HIDE DEF i
<1>3. i * s \in Nat /\ s * i = i * s /\ (i + 1) * s = i * s + s
  <2> HIDE DEF s
  <2> QED
    BY <1>1, <1>2, Products
<1>4. b \in i * s .. (i + 1) * s - 1
  <2> HIDE DEF s
  <2> QED
    BY <1>0, <1>1, <1>2, <1>3
<1>5. i < k
  <2> HIDE DEF s
  <2>1. ASSUME k <= i PROVE FALSE
    <3>1. k * s <= i * s
      <4>1. CASE k = i
        BY <4>1, <1>3
      <4>2. CASE k < i
        <5>1. (k + 1) * s <= i * s /\ (k + 1) * s = k * s + s
          BY <1>1, <1>2, <4>2, Products
        <5> QED
          BY <1>0, <1>1, <1>3, <5>1
      <4> QED
        BY <1>2, <2>1, <4>1, <4>2
    <3> QED
      BY <1>0, <1>3, <1>4, <3>1
  <2> QED
    BY <1>2, <2>1
<1> QED
  BY <1>2, <1>4, <1>5 DEF Word

(* A set of numbers that is not empty has a least one.                     *)
LEMMA LeastOf ==
    ASSUME NEW S \in SUBSET Nat, S # {}
    PROVE  \E b \in S : \A c \in S : b <= c
<1> SUFFICES ASSUME \A b \in S : \E c \in S : c < b PROVE FALSE
  OBVIOUS
<1> DEFINE W == { n \in Nat : \A c \in S : n < c }
<1>1. 0 \in W
  OBVIOUS
<1>2. ASSUME NEW m \in W PROVE m + 1 \in W
  <2>1. ASSUME NEW c \in S PROVE m + 1 < c
    <3>1. PICK d \in S : d < c
      OBVIOUS
    <3> QED
      BY <1>2, <3>1
  <2> QED
    BY <1>2, <2>1
<1>3. \A n \in Nat : n \in W
  <2>0. W \in SUBSET Nat
    OBVIOUS
  <2> HIDE DEF W
  <2> QED
    BY <1>1, <1>2, <2>0, NatSteps
<1>4. PICK b \in S : b \in Nat
  OBVIOUS
<1>5. b \in W
  BY <1>3, <1>4
<1>6. b < b
  BY <1>4, <1>5
<1> QED
  BY <1>4, <1>6

(* The word the search stops at.                                           *)
LEMMA FirstWordIs ==
    ASSUME bitMax \in BitMaxes
    PROVE  /\ FirstWord \in 0 .. K_BITMAP_TBL_SIZE(bitMax) - 1
           /\ FirstWord < K_BITMAP_TBL_SIZE(bitMax) - 1 => Word(FirstWord) \cap memory # {}
           /\ \A j \in 0 .. FirstWord - 1 : Word(j) \cap memory = {}
<1> DEFINE k == K_BITMAP_TBL_SIZE(bitMax)
           S == { i \in 0 .. k - 1 : Word(i) \cap memory # {} \/ i = k - 1 }
<1>1. k \in Nat \ {0}
  BY TableSize
<1>2. PICK f \in S : \A c \in S : f <= c
  <2>1. S \in SUBSET Nat /\ k - 1 \in S
    <3> HIDE DEF k
    <3> QED
      BY <1>1
  <2> HIDE DEF S
  <2> QED
    BY <2>1, LeastOf
<1>3. /\ f \in 0 .. k - 1
      /\ f < k - 1 => Word(f) \cap memory # {}
      /\ \A j \in 0 .. f - 1 : Word(j) \cap memory = {}
  <2> HIDE DEF k
  <2>1. f \in 0 .. k - 1 /\ (f < k - 1 => Word(f) \cap memory # {})
    BY <1>1, <1>2
  <2>2. ASSUME NEW j \in 0 .. f - 1, Word(j) \cap memory # {} PROVE FALSE
    <3>1. j \in 0 .. k - 1 /\ j < f
      BY <1>1, <2>1
    <3>2. j \in S
      BY <2>2, <3>1
    <3> QED
      BY <1>2, <2>1, <3>1, <3>2
  <2> QED
    BY <2>1, <2>2
<1> QED
  BY <1>3 DEF FirstWord

(* What the table holds, in either case.                                   *)
LEMMA TableBits ==
    ASSUME bitMax \in BitMaxes
    PROVE  LET p == K_BITMAP_TBL_SIZE(bitMax) * SlotSize
           IN  /\ bitMax \in Nat \ {0} /\ p \in Nat /\ bitMax <= p /\ Table = 0 .. p - 1
               /\ BitsInTable = (0 .. p - 1) \cap (0 .. bitMax)
               /\ LastBitOutside <=> p = bitMax
<1> DEFINE p == K_BITMAP_TBL_SIZE(bitMax) * SlotSize
<1>1. /\ bitMax \in Nat \ {0} /\ p \in Nat /\ bitMax <= p /\ Table = 0 .. p - 1
      /\ LastBitOutside => p = bitMax
      /\ ~LastBitOutside => bitMax < p
  BY TableSize DEF Table, LastBitOutside
<1> HIDE DEF p
<1>2. BitsInTable = (0 .. p - 1) \cap (0 .. bitMax)
  BY <1>1 DEF BitsInTable
<1> QED
  BY <1>1, <1>2 DEF p

(* tos_bitmap_lsb finds the first of the bits in the table, if it is one   *)
(* the application may use.                                                *)
LEMMA LsbFirst ==
    ASSUME bitMax \in BitMaxes, BitInv
    PROVE  LET mine == wanted \cap BitsInTable
           IN  IF mine # {} THEN tos_bitmap_lsb \in mine /\ \A b \in mine : tos_bitmap_lsb <= b
               ELSE tos_bitmap_lsb = IF LastBitOutside THEN bitMax ELSE bitMax + 1
<1> DEFINE s == SlotSize
           k == K_BITMAP_TBL_SIZE(bitMax)
           f == FirstWord
           lsb == f * s + clz(f)
           mine == wanted \cap BitsInTable
           inTable == memory \cap (0 .. k * s - 1)
<1>1. /\ s \in Nat \ {0} /\ k \in Nat \ {0} /\ bitMax \in Nat \ {0} /\ k * s \in Nat
      /\ bitMax <= k * s /\ (LastBitOutside <=> k * s = bitMax)
  BY TableSize, TableBits, BitmapAssumption
<1>2. mine = inTable \cap (0 .. bitMax)
  <2>1. BitsInTable = (0 .. k * s - 1) \cap (0 .. bitMax) /\ memory \cap BitsInTable = mine
    BY <1>1, TableBits DEF BitInv
  <2> HIDE DEF k, s
  <2> QED
    BY <2>1
<1>3. /\ f \in 0 .. k - 1 /\ (f < k - 1 => Word(f) \cap memory # {})
      /\ \A j \in 0 .. f - 1 : Word(j) \cap memory = {}
  BY FirstWordIs
<1>4. f * s \in Nat /\ (f + 1) * s = f * s + s
  <2> HIDE DEF f, k, s
  <2> QED
    BY <1>1, <1>3, Products
<1>5. ASSUME NEW b \in inTable PROVE b \in Nat /\ (b \in Word(f) \/ (f + 1) * s <= b)
  <2>1. PICK j \in 0 .. k - 1 : b \in Word(j)
    BY <1>1, <1>2, <1>5, WordOf
  <2>2. b \in j * s .. (j + 1) * s - 1 /\ j \in Nat /\ f \in Nat
    BY <2>1, <1>1, <1>3 DEF Word
  <2>3. ~(j < f)
    <3> HIDE DEF f, k
    <3> QED
      BY <1>3, <2>1, <2>2, <1>5
  <2>4. CASE j = f
    BY <2>1, <2>2, <2>4, <1>2, <1>5
  <2>5. CASE f < j
    <3> HIDE DEF f, s, k
    <3>1. (f + 1) * s <= j * s /\ j * s \in Nat
      BY <1>1, <2>2, <2>5, Products
    <3> QED
      BY <1>4, <1>1, <2>2, <3>1
  <2> HIDE DEF f, s, k
  <2> QED
    BY <2>2, <2>3, <2>4, <2>5
<1>6. tos_bitmap_lsb = IF lsb > bitMax THEN bitMax + 1 ELSE lsb
  BY DEF tos_bitmap_lsb
<1>7. CASE Word(f) \cap memory = {}
  <2>1. clz(f) = s
    BY <1>7 DEF clz
  <2>2. f = k - 1
    <3> HIDE DEF f, k
    <3> QED
      BY <1>1, <1>3, <1>7
  <2>3. lsb = k * s
    <3> HIDE DEF f, k, s
    <3>1. f + 1 = k
      BY <1>1, <2>2
    <3>2. f * s + s = k * s
      BY <1>4, <3>1
    <3> QED
      BY <2>1, <3>2
  <2>4. inTable = {}
    <3>1. ASSUME NEW b \in inTable PROVE FALSE
      <4> DEFINE p == k * s
      <4>1. b \in Nat /\ (f + 1) * s <= b
        BY <1>5, <1>7, <3>1
      <4>2. f + 1 = k
        <5> HIDE DEF f, k
        <5> QED
          BY <1>1, <2>2
      <4>3. p <= b /\ b \in 0 .. p - 1 /\ p \in Nat
        BY <1>1, <1>2, <3>1, <4>1, <4>2
      <4> HIDE DEF p
      <4> QED
        BY <4>3
    <3> QED
      BY <3>1
  <2>5. mine = {}
    BY <1>2, <2>4
  <2> HIDE DEF f, k, s, lsb, mine
  <2>6. lsb > bitMax <=> ~LastBitOutside
    BY <1>1, <2>3
  <2>7. LastBitOutside => lsb = bitMax
    BY <1>1, <2>3
  <2>8. tos_bitmap_lsb = IF LastBitOutside THEN bitMax ELSE bitMax + 1
    BY <1>6, <2>6, <2>7
  <2> QED
    BY <2>5, <2>8 DEF mine
<1>8. CASE Word(f) \cap memory # {}
  <2> DEFINE S == Word(f) \cap memory
  <2>1. S \in SUBSET Nat /\ S \subseteq inTable
    <3>1. (f + 1) * s <= k * s
      <4> HIDE DEF f, s, k
      <4>1. f + 1 = k \/ f + 1 < k
        BY <1>1, <1>3
      <4>2. f + 1 < k => (f + 1) * s <= k * s
        <5>1. ASSUME f + 1 < k PROVE (f + 1 + 1) * s <= k * s /\ (f + 1 + 1) * s = (f + 1) * s + s
          BY <1>1, <1>3, <5>1, Products
        <5> QED
          BY <1>1, <1>3, <1>4, <5>1
      <4> QED
        BY <1>1, <4>1, <4>2
    <3>2. ASSUME NEW c \in S PROVE c \in 0 .. k * s - 1
      <4>1. c \in f * s .. (f + 1) * s - 1
        BY DEF Word
      <4> HIDE DEF f, s, k
      <4> QED
        BY <1>1, <1>4, <3>1, <4>1
    <3> QED
      BY <3>2
  <2>2. \E b \in S : \A c \in S : b <= c
    <3> HIDE DEF S
    <3>1. S # {}
      BY <1>8 DEF S
    <3> QED
      BY <2>1, <3>1, LeastOf
  <2>3. PICK b \in S : lsb = b /\ \A c \in S : b <= c
    <3> DEFINE b == CHOOSE b \in S : \A c \in S : b <= c
    <3>1. b \in S /\ \A c \in S : b <= c
      <4> HIDE DEF S
      <4> QED
        BY <2>2
    <3>2. clz(f) = b - f * s
      BY <1>8 DEF clz
    <3>3. b \in Nat
      BY <2>1, <3>1
    <3> HIDE DEF b, S
    <3>4. lsb = b
      <4> HIDE DEF f, s
      <4> QED
        BY <1>4, <3>2, <3>3
    <3> QED
      BY <3>1, <3>4
  <2>4. b \in inTable /\ b \in Nat /\ b < (f + 1) * s
    <3>1. b \in f * s .. (f + 1) * s - 1
      BY <2>3 DEF Word
    <3> HIDE DEF f, s
    <3> QED
      BY <1>1, <1>4, <2>1, <2>3, <3>1
  <2>5. ASSUME NEW c \in inTable PROVE b <= c
    <3>1. c \in Nat /\ (c \in Word(f) \/ (f + 1) * s <= c)
      BY <1>5, <2>5
    <3>2. CASE c \in Word(f)
      BY <2>3, <2>5, <3>2
    <3>3. CASE (f + 1) * s <= c
      <4> HIDE DEF f, s
      <4> QED
        BY <1>4, <1>1, <2>4, <3>1, <3>3
    <3> QED
      BY <3>1, <3>2, <3>3
  <2> HIDE DEF f, s, k, lsb
  <2>6. CASE b <= bitMax
    <3>1. b \in mine /\ \A c \in mine : b <= c
      BY <1>2, <2>4, <2>5, <2>6
    <3>2. tos_bitmap_lsb = b
      BY <1>1, <1>6, <2>3, <2>4, <2>6
    <3> HIDE DEF mine
    <3> QED
      BY <3>1, <3>2 DEF mine
  <2>7. CASE ~(b <= bitMax)
    <3>1. mine = {}
      BY <1>1, <1>2, <2>4, <2>5, <2>7
    <3>2. b \in 0 .. k * s - 1
      BY <2>4
    <3>3. ~LastBitOutside /\ tos_bitmap_lsb = bitMax + 1
      BY <1>1, <1>6, <2>3, <2>4, <2>7, <3>2
    <3> HIDE DEF mine
    <3> QED
      BY <3>1, <3>3 DEF mine
  <2> QED
    BY <2>6, <2>7
<1> QED
  BY <1>7, <1>8

LEMMA BitNextInv ==
    ASSUME BitInv, BitNext
    PROVE  BitInv'
<1>1. ASSUME NEW max \in BitMaxes, NEW full \in BOOLEAN, tos_bitmap_create(max, full)
      PROVE  BitInv'
  <2>1. bitMax' = max /\ memory' = IF full THEN Table' ELSE {}
    BY <1>1 DEF tos_bitmap_create, Table, K_BITMAP_TBL_SIZE
  <2>2. wanted' = IF full THEN 0 .. bitMax' ELSE {}
    BY <1>1 DEF tos_bitmap_create
  <2>3. BitsInTable' \subseteq Table' /\ BitsInTable' \subseteq 0 .. bitMax'
    <3>1. PICK m : m = bitMax'
      OBVIOUS
    <3> DEFINE p == K_BITMAP_TBL_SIZE(max) * SlotSize
    <3>2. /\ max \in Nat \ {0} /\ p \in Nat /\ max <= p
          /\ (max % SlotSize # 0 => max < p)
          /\ Table' = 0 .. p - 1
      BY <2>1, TableSize DEF Table, K_BITMAP_TBL_SIZE
    <3>3. BitsInTable' = IF max % SlotSize = 0 THEN 0 .. max - 1 ELSE 0 .. max
      BY <2>1 DEF BitsInTable, LastBitOutside
    <3> HIDE DEF p
    <3> QED
      BY <2>1, <3>2, <3>3
  <2>4. memory' \ Table' = {} /\ memory' \cap BitsInTable' = wanted' \cap BitsInTable'
    BY <2>1, <2>2, <2>3
  <2> QED
    BY <2>1, <2>4 DEF BitInv
<1>2. ASSUME NEW bit \in 0 .. bitMax, tos_bitmap_set(bit) \/ tos_bitmap_reset(bit)
      PROVE  BitInv'
  <2>0. bitMax > 0 /\ bitMax' = bitMax
    BY <1>2 DEF tos_bitmap_set, tos_bitmap_reset
  <2>1. /\ bitMax \in BitMaxes
        /\ memory \ Table \subseteq (IF LastBitOutside THEN {bitMax} ELSE {})
        /\ memory \cap BitsInTable = wanted \cap BitsInTable
    BY <2>0 DEF BitInv
  <2>2. bit \in Table \/ (LastBitOutside /\ bit = bitMax)
    <3> DEFINE p == K_BITMAP_TBL_SIZE(bitMax) * SlotSize
    <3>1. /\ bitMax \in Nat \ {0} /\ p \in Nat /\ bitMax <= p /\ Table = 0 .. p - 1
          /\ LastBitOutside <=> p = bitMax
      BY <2>1, TableBits
    <3> HIDE DEF p
    <3> QED
      BY <3>1
  <2>3. Table' = Table /\ BitsInTable' = BitsInTable /\ (LastBitOutside' <=> LastBitOutside)
    BY <2>0 DEF Table, BitsInTable, LastBitOutside, K_BITMAP_TBL_SIZE
  <2>5. \/ memory' = memory \cup {bit} /\ wanted' = wanted \cup {bit}
        \/ memory' = memory \ {bit} /\ wanted' = wanted \ {bit}
    BY <1>2 DEF tos_bitmap_set, tos_bitmap_reset
  <2>6. memory' \cap BitsInTable = wanted' \cap BitsInTable
    BY <2>1, <2>5
  <2>7. memory' \ Table \subseteq (IF LastBitOutside THEN {bitMax} ELSE {})
    BY <2>1, <2>2, <2>5
  <2> QED
    BY <2>0, <2>1, <2>3, <2>6, <2>7 DEF BitInv
<1> QED
  BY <1>1, <1>2 DEF BitNext

(* Whatever the word size and the largest bit: the table holds exactly the *)
(* bits the application asked for among those it has room for, behind it   *)
(* at most the bit bit_max is written, and that only if bit_max is a       *)
(* multiple of the word (K_BITMAP_TBL_SIZE counts the bits                 *)
(* 0 .. bit_max - 1, the bound checks let bit_max pass), and               *)
(* tos_bitmap_lsb finds the first of them.                                 *)
THEOREM BitsAlwaysExact == StoreSpec => []BitsExact
<1>1. StoreInit => BitInv
  BY DEF StoreInit, BitInit, BitInv
<1>2. BitInv /\ [StoreNext]_storeVars => BitInv'
  <2>1. BitInv /\ UNCHANGED bitVars => BitInv'
    BY DEF BitInv, bitVars, Table, K_BITMAP_TBL_SIZE, BitsInTable, LastBitOutside
  <2> QED
    BY <2>1, BitNextInv
    DEF StoreNext, storeVars, HeapStep, BlkStep, FifoStep, UseStep, BitStep
<1>3. BitInv => BitsExact
  <2> DEFINE mine == wanted \cap BitsInTable
  <2> SUFFICES ASSUME BitInv, bitMax > 0 PROVE BitsExact
    BY DEF BitsExact
  <2>1. bitMax \in BitMaxes
    BY DEF BitInv
  <2>2. /\ memory \ Table \subseteq (IF LastBitOutside THEN {bitMax} ELSE {})
        /\ memory \cap BitsInTable = mine
    BY DEF BitInv
  <2>3. IF mine # {} THEN tos_bitmap_lsb \in mine /\ \A b \in mine : tos_bitmap_lsb <= b
        ELSE tos_bitmap_lsb = IF LastBitOutside THEN bitMax ELSE bitMax + 1
    BY <2>1, LsbFirst
  <2> QED
    BY <2>2, <2>3 DEF BitsExact
<1> QED
  BY <1>1, <1>2, <1>3, PTL DEF StoreSpec
=============================================================================
