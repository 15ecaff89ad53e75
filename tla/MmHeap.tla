------------------------------- MODULE MmHeap -------------------------------
(***************************************************************************)
(* The memory heap (tos_mmheap.c), a two-level segregated fit allocator.   *)
(*                                                                         *)
(* Sizes and addresses are counted in words of K_MMHEAP_ALIGN_SIZE bytes.  *)
(* A block header at address b is a size word at b + 1; its payload starts *)
(* at b + 2 and the next header one word after its last word.  The word    *)
(* prev_phys_blk of a header is the last payload word of the block before, *)
(* so that it means something only while that block is free: it is NoBlk   *)
(* here when it belongs to the application.  The lists of free blocks and  *)
(* the two bitmaps over them are kept apart, as in k_mmheap_ctl.           *)
(*                                                                         *)
(* The calls take no lock: a step is a whole call, made by one context at  *)
(* a time.                                                                 *)
(***************************************************************************)
EXTENDS Integers, Sequences, FiniteSets, SequencesExt

CONSTANTS
    SlLog2,    \* K_MMHEAP_SL_INDEX_COUNT_LOG2, 5 in the code
    FlMax,     \* blocks have at most 2^FlMax words, 2^28 in the code
    PoolMax,   \* K_MMHEAP_POOL_MAX, 3 in the code
    PoolSize,  \* sizes of the pools the application has, by their addresses
    Requests,  \* sizes it asks for
    Aligns,    \* alignments it asks for
    MaxOwned,  \* bound: allocations the application holds at a time
    NoBlk

SlCount == 2 ^ SlLog2
FlCount == FlMax - SlLog2 + 1
SizeMax == 2 ^ FlMax
SizeMin == 3  \* size, next_free, prev_free
Header  == 4  \* sizeof(mmheap_blk_t)

ASSUME HeapAssumption ==
    /\ SlLog2 \in Nat \ {0} /\ FlMax \in Nat /\ FlMax > SlLog2 /\ PoolMax \in Nat
    /\ \A p \in DOMAIN PoolSize :
          p \in Nat \ {0} /\ PoolSize[p] - 2 >= SizeMin /\ PoolSize[p] - 2 < SizeMax
    /\ Requests \subseteq 1 .. SizeMax /\ Aligns \subseteq { 2 ^ k : k \in 1 .. FlMax }
    /\ MaxOwned \in Nat

VARIABLES
    heap,  \* k_mmheap_ctl and the headers in the pools
    owned  \* history: what the application holds, size and alignment asked for by pointer

heapVars == <<heap, owned>>

fls(n) == CHOOSE k \in 0 .. FlMax + 1 : 2 ^ k <= n /\ n < 2 ^ (k + 1)

mapping_insert(size) ==
    IF size < SlCount THEN <<0, size>>
    ELSE LET fl == fls(size)
         IN  <<fl - SlLog2 + 1, (size \div 2 ^ (fl - SlLog2)) - SlCount>>

(* Rounded up to the next list, so that all its blocks are large enough.   *)
mapping_search(size) ==
    mapping_insert(IF size < SlCount THEN size ELSE size + 2 ^ (fls(size) - SlLog2) - 1)

HeapInit ==
    /\ heap = [ pools |-> << >>, size |-> << >>, prev |-> << >>,
                free |-> {}, prevFree |-> {},
                blocks |-> [l \in (0 .. FlCount - 1) \X (0 .. SlCount - 1) |-> << >>],
                flMap |-> {}, slMap |-> [fl \in 0 .. FlCount - 1 |-> {}] ]
    /\ owned = << >>

----------------------------------------------------------------------------
(* Blocks: b is the address of a header, h the heap.                       *)

Blocks(h)        == DOMAIN h.size
blk_next(h, b)   == b + 1 + h.size[b]
blk_to_ptr(b)    == b + 2
blk_from_ptr(p)  == p - 2
align_up(n, a)   == ((n + a - 1) \div a) * a

blk_link_next(h, b) == [h EXCEPT !.prev[blk_next(h, b)] = b]

blk_mark_as_free(h, b) ==
    [blk_link_next(h, b) EXCEPT !.prevFree = @ \cup {blk_next(h, b)}, !.free = @ \cup {b}]

(* From here on the word prev of the next header is the application's.     *)
blk_mark_as_used(h, b) ==
    [h EXCEPT !.prevFree = @ \ {blk_next(h, b)}, !.free = @ \ {b},
              !.prev[blk_next(h, b)] = NoBlk]

insert_free_block(h, b, l) ==
    [h EXCEPT !.blocks[l] = <<b>> \o @, !.flMap = @ \cup {l[1]}, !.slMap[l[1]] = @ \cup {l[2]}]

(* Fault: the second-level bit of a list that became empty is left set.    *)
remove_free_block_Keep(h, b, l) == [h EXCEPT !.blocks[l] = SelectSeq(@, LAMBDA c : c # b)]

remove_free_block(h, b, l) ==
    LET left  == SelectSeq(h.blocks[l], LAMBDA c : c # b)
        slMap == IF left = << >> THEN h.slMap[l[1]] \ {l[2]} ELSE h.slMap[l[1]]
    IN  [h EXCEPT !.blocks[l] = left, !.slMap[l[1]] = slMap,
                  !.flMap = IF slMap = {} THEN @ \ {l[1]} ELSE @]

blk_insert(h, b) == insert_free_block(h, b, mapping_insert(h.size[b]))
blk_remove(h, b) == remove_free_block(h, b, mapping_insert(h.size[b]))

blk_can_split(h, b, size) == h.size[b] >= Header + size

(* The second block of the two is free; the callers set its prevFree.      *)
Remaining(b, size) == b + 1 + size
blk_split(h, b, size) ==
    LET rest  == Remaining(b, size)
        sizes == (b :> size) @@ (rest :> h.size[b] - (size + 1)) @@ h.size
    IN  blk_mark_as_free([h EXCEPT !.size = sizes, !.prev = (rest :> NoBlk) @@ @], rest)

(* The header of b disappears in the payload of the block before it.       *)
blk_absorb(h, before, b) ==
    LET kept == Blocks(h) \ {b}
    IN  blk_link_next(
          [h EXCEPT !.size = [c \in kept |-> IF c = before THEN h.size[c] + h.size[b] + 1
                                             ELSE h.size[c]],
                    !.prev = [c \in kept |-> h.prev[c]],
                    !.free = @ \ {b}, !.prevFree = @ \ {b}], before)

(* Fault: a free block in front of the freed one stays a block of its own. *)
blk_merge_prev_Skip(h, b) == [h |-> h, b |-> b]

(* The heap after the merge and the block b has become a part of.          *)
blk_merge_prev(h, b) ==
    IF b \in h.prevFree
    THEN [h |-> blk_absorb(blk_remove(h, h.prev[b]), h.prev[b], b), b |-> h.prev[b]]
    ELSE [h |-> h, b |-> b]

blk_merge_next(h, b) ==
    IF blk_next(h, b) \in h.free
    THEN blk_absorb(blk_remove(h, blk_next(h, b)), b, blk_next(h, b))
    ELSE h

blk_trim_free(h, b, size) ==
    IF blk_can_split(h, b, size)
    THEN LET rest == Remaining(b, size)
             k    == blk_link_next(blk_split(h, b, size), b)
         IN  blk_insert([k EXCEPT !.prevFree = @ \cup {rest}], rest)
    ELSE h

blk_trim_used(h, b, size) ==
    IF blk_can_split(h, b, size)
    THEN LET rest == Remaining(b, size)
             k    == blk_split(h, b, size)
         IN  blk_insert(blk_merge_next([k EXCEPT !.prevFree = @ \ {rest}], rest), rest)
    ELSE h

(* The gap in front of an aligned block goes back; the second block stays. *)
blk_trim_free_leading(h, b, gap) ==
    IF blk_can_split(h, b, gap)
    THEN LET rest == Remaining(b, gap - 1)
             k    == blk_split(h, b, gap - 1)
         IN  [ h |-> blk_insert(blk_link_next([k EXCEPT !.prevFree = @ \cup {rest}], b), b),
               b |-> rest ]
    ELSE [h |-> h, b |-> b]

----------------------------------------------------------------------------
(* Searching.                                                              *)

SetMin(S) == CHOOSE x \in S : \A y \in S : x <= y

(* Fault: the search starts in the list the size itself would go to.       *)
blk_search_suitable_Low(h, size) ==
    LET l == mapping_insert(size)
    IN  IF l[1] < FlCount /\ h.blocks[l] # << >> THEN l ELSE NoBlk

(* The list to take a block from, NoBlk if there is none.                  *)
blk_search_suitable(h, size) ==
    LET from == mapping_search(size)
        sls  == { sl \in h.slMap[from[1]] : sl >= from[2] }
        fls_ == { fl \in h.flMap : fl > from[1] }
    IN  CASE from[1] >= FlCount -> NoBlk
          [] from[1] < FlCount /\ sls # {} -> <<from[1], SetMin(sls)>>
          [] from[1] < FlCount /\ sls = {} /\ fls_ = {} -> NoBlk
          [] OTHER -> <<SetMin(fls_), SetMin(h.slMap[SetMin(fls_)])>>

(* 0 when the size is zero or too large.                                   *)
adjust_request_size(size, align) ==
    LET n == align_up(size, align)
    IN  IF size = 0 \/ n > SizeMax THEN 0 ELSE IF n > SizeMin THEN n ELSE SizeMin

(* The block the search finds, taken off its list.                         *)
blk_locate_free(h, size) ==
    LET l == IF size = 0 THEN NoBlk ELSE blk_search_suitable(h, size)
    IN  IF l = NoBlk THEN [h |-> h, b |-> NoBlk]
        ELSE [h |-> remove_free_block(h, Head(h.blocks[l]), l), b |-> Head(h.blocks[l])]

blk_prepare_used(h, b, size) == blk_mark_as_used(blk_trim_free(h, b, size), b)

----------------------------------------------------------------------------
(* The calls.                                                              *)

Asked(size, align) == [size |-> size, align |-> align]

HeapTake(r, size, asked) ==
    IF r.b = NoBlk THEN UNCHANGED heapVars
    ELSE /\ heap' = blk_prepare_used(r.h, r.b, size)
         /\ owned' = (blk_to_ptr(r.b) :> asked) @@ owned

tos_mmheap_alloc(size) ==
    /\ Cardinality(DOMAIN owned) < MaxOwned
    /\ LET n == adjust_request_size(size, 1) IN HeapTake(blk_locate_free(heap, n), n, Asked(size, 1))

(* From ptr to an aligned address, leaving room for a block in between.    *)
Gap(ptr, align) ==
    LET near == align_up(ptr, align) - ptr
        more == IF Header - near > align THEN Header - near ELSE align
    IN  IF near > 0 /\ near < Header THEN align_up(ptr + near + more, align) - ptr ELSE near

tos_mmheap_aligned_alloc(size, align) ==
    /\ Cardinality(DOMAIN owned) < MaxOwned
    /\ LET n   == adjust_request_size(size, 1)
           r   == blk_locate_free(heap, adjust_request_size(n + align + Header, align))
           gap == Gap(blk_to_ptr(r.b), align)
       IN  HeapTake(IF r.b = NoBlk \/ gap = 0 THEN r ELSE blk_trim_free_leading(r.h, r.b, gap),
                n, Asked(size, align))

Freed(h, b) ==
    LET m == blk_merge_prev(blk_mark_as_free(h, b), b)
    IN  blk_insert(blk_merge_next(m.h, m.b), m.b)

tos_mmheap_free(ptr) ==
    /\ ptr \in DOMAIN owned
    /\ heap' = Freed(heap, blk_from_ptr(ptr))
    /\ owned' = [p \in DOMAIN owned \ {ptr} |-> owned[p]]

(* Fault: the free block behind is taken even if both are too small.       *)
RoomBehind_Any(h, b, n) == blk_next(h, b) \in h.free

RoomBehind(h, b, n) ==
    blk_next(h, b) \in h.free /\ n <= h.size[b] + h.size[blk_next(h, b)] + 1

(* Moved when it does not fit, where it is or with the free block behind;  *)
(* a ptr of NULL and a size of 0 are tos_mmheap_alloc and tos_mmheap_free. *)
tos_mmheap_realloc(ptr, size) ==
    /\ ptr \in DOMAIN owned
    /\ LET b     == blk_from_ptr(ptr)
           n     == adjust_request_size(size, 1)
           grows == n > heap.size[b]
           r     == blk_locate_free(heap, n)
           wide  == IF grows THEN blk_mark_as_used(blk_merge_next(heap, b), b) ELSE heap
           others == [p \in DOMAIN owned \ {ptr} |-> owned[p]]
       IN  IF ~grows \/ RoomBehind(heap, b, n)
           THEN /\ heap' = blk_trim_used(wide, b, n)
                /\ owned' = (ptr :> Asked(size, 1)) @@ owned
           ELSE IF r.b = NoBlk THEN UNCHANGED heapVars
           ELSE /\ heap' = Freed(blk_prepare_used(r.h, r.b, n), b)
                /\ owned' = (blk_to_ptr(r.b) :> Asked(size, 1)) @@ others

(* One free block and, behind it, a block of size 0 that is never freed.   *)
tos_mmheap_pool_add(start) ==
    /\ Len(heap.pools) < PoolMax /\ start \notin ToSet(heap.pools)
    /\ LET b    == start - 1
           last == b + 1 + (PoolSize[start] - 2)
           k    == [heap EXCEPT !.size = (b :> PoolSize[start] - 2) @@ (last :> 0) @@ @,
                                !.prev = (b :> NoBlk) @@ (last :> b) @@ @,
                                !.free = @ \cup {b}, !.prevFree = @ \cup {last},
                                !.pools = Append(@, start)]
       IN  heap' = blk_insert(k, b)
    /\ UNCHANGED owned

(* Nothing of a pool that is removed is in use; the last pool recorded     *)
(* takes its place in the table.                                           *)
tos_mmheap_pool_rmv(start) ==
    /\ start \in ToSet(heap.pools) /\ start - 1 \in heap.free
    /\ heap.size[start - 1] = PoolSize[start] - 2
    /\ LET b    == start - 1
           k    == blk_remove(heap, b)
           kept == Blocks(heap) \ {b, blk_next(heap, b)}
           i    == CHOOSE j \in DOMAIN heap.pools : heap.pools[j] = start
       IN  heap' = [k EXCEPT !.size = [c \in kept |-> @[c]], !.prev = [c \in kept |-> @[c]],
                             !.free = @ \cap kept, !.prevFree = @ \cap kept,
                             !.pools = Front([heap.pools EXCEPT ![i] = Last(heap.pools)])]
    /\ UNCHANGED owned

HeapNext ==
    \/ \E size \in Requests :
          \/ tos_mmheap_alloc(size)
          \/ \E align \in Aligns : tos_mmheap_aligned_alloc(size, align)
          \/ \E ptr \in DOMAIN owned : tos_mmheap_realloc(ptr, size)
    \/ \E ptr \in DOMAIN owned : tos_mmheap_free(ptr)
    \/ \E start \in DOMAIN PoolSize : tos_mmheap_pool_add(start) \/ tos_mmheap_pool_rmv(start)
=============================================================================
