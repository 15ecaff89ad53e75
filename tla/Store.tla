------------------------------- MODULE Store --------------------------------
(***************************************************************************)
(* The containers and allocators of the kernel side by side: the memory    *)
(* heap, a block pool, a byte FIFO, a priority queue used directly and a   *)
(* bitmap.  They share nothing, so a behaviour uses one of them; which one *)
(* is settled by its first step.                                           *)
(***************************************************************************)
EXTENDS MmHeap, MmBlk, CharFifo, PrioUse, Bitmap

storeVars == <<heapVars, blkVars, fifoVars, useVars, bitVars>>

StoreInit == HeapInit /\ BlkInit /\ FifoInit /\ UseInit /\ BitInit

HeapStep == HeapNext /\ BlkInit /\ FifoInit /\ UseInit /\ BitInit
            /\ UNCHANGED <<blkVars, fifoVars, useVars, bitVars>>
BlkStep  == BlkNext /\ HeapInit /\ FifoInit /\ UseInit /\ BitInit
            /\ UNCHANGED <<heapVars, fifoVars, useVars, bitVars>>
FifoStep == FifoNext /\ HeapInit /\ BlkInit /\ UseInit /\ BitInit
            /\ UNCHANGED <<heapVars, blkVars, useVars, bitVars>>
UseStep  == UseNext /\ HeapInit /\ BlkInit /\ FifoInit /\ BitInit
            /\ UNCHANGED <<heapVars, blkVars, fifoVars, bitVars>>
BitStep  == BitNext /\ HeapInit /\ BlkInit /\ FifoInit /\ UseInit
            /\ UNCHANGED <<heapVars, blkVars, fifoVars, useVars>>

StoreNext == HeapStep \/ BlkStep \/ FifoStep \/ UseStep \/ BitStep

StoreSpec == StoreInit /\ [][StoreNext]_storeVars
----------------------------------------------------------------------------
(* What the allocators and containers promise.                             *)

Physical(h) == { b \in Blocks(h) : h.size[b] > 0 }

(* Blocks tile every pool: the first block is where the pool starts, and   *)
(* every other header is the successor of exactly one block.               *)
Tiled(h) ==
    /\ { p - 1 : p \in ToSet(h.pools) } \subseteq Physical(h)
    /\ \A b \in Physical(h) : blk_next(h, b) \in Blocks(h)
    /\ \A c \in Blocks(h) : c + 1 \in ToSet(h.pools)
                            \/ Cardinality({ b \in Physical(h) : blk_next(h, b) = c }) = 1

(* A header knows whether the block in front of it is free, and where that *)
(* block starts; no two free blocks are neighbours.                        *)
Tagged(h) ==
    \A b \in Physical(h) : LET c == blk_next(h, b)
                           IN  IF b \in h.free
                               THEN c \in h.prevFree /\ h.prev[c] = b /\ c \notin h.free
                               ELSE c \notin h.prevFree

(* Each free block is in the list of its size, once; the bitmaps tell      *)
(* which lists hold one.                                                   *)
Filed(h) ==
    /\ \A l \in DOMAIN h.blocks :
          /\ IsInjective(h.blocks[l])
          /\ ToSet(h.blocks[l]) = { b \in h.free : mapping_insert(h.size[b]) = l }
          /\ (l[2] \in h.slMap[l[1]]) = (h.blocks[l] # << >>)
    /\ \A fl \in DOMAIN h.slMap : (fl \in h.flMap) = (h.slMap[fl] # {})

(* What the application holds: a block of its own, large enough, aligned.  *)
Held(h) ==
    \A p \in DOMAIN owned : LET b == blk_from_ptr(p)
                            IN  b \in Physical(h) \ h.free /\ owned[p].size <= h.size[b]
                               /\ p % owned[p].align = 0

(* Whatever the order of allocations, aligned allocations, resizings and   *)
(* releases: the blocks tile the pools, neighbours and lists agree about   *)
(* which are free, and the application's memory is in none of them         *)
(* (blk_split, blk_absorb, the merges and trims of tos_mmheap.c).          *)
HeapSound == Tiled(heap) /\ Tagged(heap) /\ Filed(heap) /\ Held(heap)

(* The search by bitmaps never picks a block that is too small, and comes  *)
(* back empty only if every free block is smaller than the size rounded up *)
(* to its list (mapping_search, blk_search_suitable).                      *)
SearchFits ==
    \A size \in Requests :
        LET n == adjust_request_size(size, 1)
            r == blk_locate_free(heap, n)
        IN  IF r.b # NoBlk THEN heap.size[r.b] >= n
            ELSE \A b \in heap.free :
                    LET l == mapping_insert(heap.size[b])  m == mapping_search(n)
                    IN  l[1] < m[1] \/ (l[1] = m[1] /\ l[2] < m[2])

(* The chain of free blocks has as many links as the pool counts, passes   *)
(* through no block the application holds, and reaches all others          *)
(* (tos_mmblk_alloc, tos_mmblk_free).                                      *)
BlocksHandedOnce ==
    LET link[n \in 0 .. mbp.blk_free] == IF n = 0 THEN mbp.free_list ELSE word[link[n - 1]]
    IN  /\ { link[n] : n \in 0 .. mbp.blk_free - 1 } = DOMAIN word \ held
        /\ mbp.blk_free + Cardinality(held) = mbp.blk_max
        /\ link[mbp.blk_free] = Null

(* Bytes come out in the order their pushers were told they went in, none  *)
(* lost and none twice, partial streams included                           *)
(* (tos_chr_fifo_push_stream, tos_chr_fifo_pop_stream).                    *)
BytesInOrder == RingSound(chrFifo) /\ sent = got \o RingItems(chrFifo)

(* With one producer and one consumer what tos_prio_q_enqueue and          *)
(* tos_prio_q_dequeue saw before interrupts were disabled still holds      *)
(* behind it, no assertion fails, and the queue stays sound.               *)
CheckStillHolds == ~asserted /\ PrioSound(prioq)

(* K_BITMAP_TBL_SIZE, which TOS_BITMAP_SIZE hands to the application, has  *)
(* room for the bits 0 .. bit_max - 1: bit bit_max, which tos_bitmap_set   *)
(* lets pass, is in the table unless bit_max is a multiple of the word.    *)
LastBitOutside == bitMax % SlotSize = 0
BitsInTable    == IF LastBitOutside THEN 0 .. bitMax - 1 ELSE 0 .. bitMax

(* The bits in the table are those the application set, and tos_bitmap_lsb *)
(* finds the first of them.  Behind the table at most bit bit_max is ever  *)
(* written, and that only if bit_max is a multiple of the word; in that    *)
(* case alone a bitmap with no bit set answers bit_max, as if it were set, *)
(* in place of bit_max + 1.                                                *)
BitsExact ==
    LET mine == wanted \cap BitsInTable
    IN  bitMax > 0 =>
        /\ memory \cap BitsInTable = mine
        /\ memory \ Table \subseteq (IF LastBitOutside THEN {bitMax} ELSE {})
        /\ IF mine # {} THEN tos_bitmap_lsb \in mine /\ \A b \in mine : tos_bitmap_lsb <= b
           ELSE tos_bitmap_lsb = IF LastBitOutside THEN bitMax ELSE bitMax + 1
=============================================================================
