----------------------------- MODULE PrioQueue ------------------------------
(***************************************************************************)
(* The priority queue (tos_priority_queue.c) and the binary heap it ranks  *)
(* its slots with (tos_binary_heap.c): operators on one k_prio_q_t.        *)
(*                                                                         *)
(* The heap is the sequence of its live entries; entry i of the C array,   *)
(* numbered from 0, is Ent(h, i).  The chain of free slots is the sequence *)
(* first_free, its next, and so on.  A slot that holds no item is kept at  *)
(* NoItem, its bytes are dead.                                             *)
(***************************************************************************)
EXTENDS RingQueue

Ent(h, i)    == h[i + 1]
Put(h, i, e) == [h EXCEPT ![i + 1] = e]

BIN_HEAP_PARENT(i) == (i - 1) \div 2
BIN_HEAP_RCHILD(i) == 2 * (i + 1)

(* A numerically smaller priority is the better one.                       *)
prio_q_mgr_entry_cmp(e, f) == e.prio < f.prio

(* The heap once e has moved up from the hole, for a hole at any i.        *)
bin_heap_do_percolate_up(h, hole, e) ==
    LET up[i \in 0 .. hole] ==
            LET parent == BIN_HEAP_PARENT(i)
            IN  IF i > 0 /\ prio_q_mgr_entry_cmp(e, Ent(h, parent))
                THEN Put(up[parent], i, Ent(h, parent))
                ELSE Put(h, i, e)
    IN  up[hole]

(* The hole moves down to a leaf, each time to the better child; then the  *)
(* old last entry, still at index total, moves up from there.              *)
bin_heap_percolate_down(h, hole, total) ==
    LET down[i \in 0 .. total] ==
            LET rchild == BIN_HEAP_RCHILD(i)
                lchild == rchild - 1
                child  == IF rchild < total
                             /\ ~prio_q_mgr_entry_cmp(Ent(h, lchild), Ent(h, rchild))
                          THEN rchild ELSE lchild
            IN  IF rchild < total THEN [down[child] EXCEPT !.heap = Put(@, i, Ent(h, child))]
                ELSE IF rchild = total THEN [hole |-> child, heap |-> Put(h, i, Ent(h, child))]
                ELSE [hole |-> i, heap |-> h]
    IN  bin_heap_do_percolate_up(down[hole].heap, down[hole].hole, Ent(h, total))

tos_bin_heap_push(h, e) == bin_heap_do_percolate_up(Append(h, e), Len(h), e)

(* Fault: the last entry fills the hole at the top and stays there.        *)
tos_bin_heap_pop_NoSift(h) == SubSeq(Put(h, 0, Ent(h, Len(h) - 1)), 1, Len(h) - 1)

tos_bin_heap_pop(h) == SubSeq(bin_heap_percolate_down(h, 0, Len(h) - 1), 1, Len(h) - 1)

----------------------------------------------------------------------------

tos_prio_q_create(cnt) ==
    [ free |-> [i \in 1 .. cnt |-> i - 1], heap |-> << >>, total |-> 0, cnt |-> cnt,
      pool |-> [s \in 0 .. cnt - 1 |-> NoItem] ]

tos_prio_q_is_empty(q) == q.total = 0
tos_prio_q_is_full(q)  == q.total = q.cnt

(* prio_q_pool_mgr_slot_alloc, then prio_q_do_enqueue.                     *)
tos_prio_q_enqueue(q, x, prio) ==
    LET slot == Head(q.free)
    IN  [q EXCEPT !.free = Tail(@), !.pool[slot] = x, !.total = @ + 1,
                  !.heap = tos_bin_heap_push(@, [prio |-> prio, slot |-> slot])]

PrioFirst(q) == q.pool[Ent(q.heap, 0).slot]

(* Fault: the slot of the item that left is not given back.                *)
tos_prio_q_dequeue_Leak(q) ==
    [q EXCEPT !.pool[Ent(q.heap, 0).slot] = NoItem, !.total = @ - 1,
              !.heap = tos_bin_heap_pop(@)]

(* prio_q_prio_mgr_slot_dequeue, then prio_q_do_dequeue.                   *)
tos_prio_q_dequeue(q) ==
    LET slot == Ent(q.heap, 0).slot
    IN  [q EXCEPT !.free = <<slot>> \o @, !.pool[slot] = NoItem, !.total = @ - 1,
                  !.heap = tos_bin_heap_pop(@)]

tos_prio_q_flush(q) == tos_prio_q_create(q.cnt)

(* The items held, their priorities and where they are.                    *)
PrioItems(q) ==
    { [place |-> q.heap[i].slot, rank |-> q.heap[i].prio, item |-> q.pool[q.heap[i].slot]] :
      i \in DOMAIN q.heap }

(* Every slot is either free or ranked, once; the heap holds no entry that *)
(* beats its parent.                                                       *)
PrioSound(q) ==
    LET ranked == [i \in DOMAIN q.heap |-> q.heap[i].slot]
        slots  == q.free \o ranked
    IN  /\ q.total = Len(q.heap)
        /\ Len(slots) = q.cnt /\ { slots[i] : i \in DOMAIN slots } = 0 .. q.cnt - 1
        /\ \A i \in 1 .. Len(q.heap) - 1 :
              ~prio_q_mgr_entry_cmp(Ent(q.heap, i), Ent(q.heap, BIN_HEAP_PARENT(i)))
=============================================================================
