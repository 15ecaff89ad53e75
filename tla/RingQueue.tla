----------------------------- MODULE RingQueue ------------------------------
(***************************************************************************)
(* The ring queue (tos_ring_queue.c): operators on one k_ring_q_t.  Slots  *)
(* are numbered from 0 as in the code; a slot that holds no item is kept   *)
(* at NoItem, its bytes are dead.                                          *)
(***************************************************************************)
EXTENDS Integers, Sequences

CONSTANTS Item, NoItem

ASSUME ItemAssumption == NoItem \notin Item

Ring(cnt) == [ head : 0 .. cnt, tail : 0 .. cnt, total : 0 .. cnt, cnt : {cnt},
               pool : [0 .. cnt - 1 -> Item \cup {NoItem}] ]

tos_ring_q_create(cnt) ==
    [ head |-> 0, tail |-> 0, total |-> 0, cnt |-> cnt,
      pool |-> [i \in 0 .. cnt - 1 |-> NoItem] ]

RING_NEXT(r, i) == (i + 1) % r.cnt

tos_ring_q_is_empty(r) == r.total = 0
tos_ring_q_is_full(r)  == r.total = r.cnt

(* Copy in, then ring_q_item_increase; only when the ring is not full.     *)
tos_ring_q_enqueue(r, x) ==
    [r EXCEPT !.pool[r.tail] = x, !.tail = RING_NEXT(r, @), !.total = @ + 1]

RING_HEAD_ITEM(r) == r.pool[r.head]

(* Fault: the item at the tail is taken.                                   *)
tos_ring_q_dequeue_Last(r) ==
    LET last == (r.tail + r.cnt - 1) % r.cnt
    IN  [r EXCEPT !.pool[last] = NoItem, !.tail = last, !.total = @ - 1]

(* Copy out, then ring_q_item_decrease; only when the ring is not empty.   *)
tos_ring_q_dequeue(r) ==
    [r EXCEPT !.pool[r.head] = NoItem, !.head = RING_NEXT(r, @), !.total = @ - 1]

tos_ring_q_flush(r) == tos_ring_q_create(r.cnt)

(* What the ring holds, oldest item first.                                 *)
RingItems(r) == [i \in 1 .. r.total |-> r.pool[(r.head + i - 1) % r.cnt]]

(* The counters agree: total items lie between head and tail.              *)
RingSound(r) ==
    /\ r.cnt > 0 => r.tail = (r.head + r.total) % r.cnt
    /\ \A i \in DOMAIN r.pool :
          r.pool[i] # NoItem <=> \E n \in 0 .. r.total - 1 : i = (r.head + n) % r.cnt
=============================================================================
