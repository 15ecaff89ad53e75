------------------------------- MODULE MmBlk --------------------------------
(***************************************************************************)
(* Pools of blocks of one size (tos_mmblk.c).  The first word of a free    *)
(* block points to the next free one; that of a block in use belongs to    *)
(* the application.  Each call is one interrupts-disabled section, and the *)
(* application gives back what it holds, once.                             *)
(***************************************************************************)
EXTENDS Integers, FiniteSets

CONSTANTS
    BlkNums,      \* blk_num tried at creation
    Null, AppData \* the end of the chain; a word of the application

ASSUME BlkAssumption == BlkNums \subseteq Nat \ {0} /\ Null \notin Int /\ AppData # Null

VARIABLES
    mbp,  \* the pool: free_list, blk_free, blk_max
    word, \* the first word of each block
    held  \* history: the blocks the application holds

blkVars == <<mbp, word, held>>

BlkInit == mbp = [free_list |-> Null, blk_free |-> 0, blk_max |-> 0] /\ word = << >> /\ held = {}

tos_mmblk_pool_create(num) ==
    /\ mbp.blk_max = 0
    /\ mbp' = [free_list |-> 0, blk_free |-> num, blk_max |-> num]
    /\ word' = [b \in 0 .. num - 1 |-> IF b < num - 1 THEN b + 1 ELSE Null]
    /\ UNCHANGED held

tos_mmblk_pool_destroy ==
    /\ mbp.blk_max > 0 /\ held = {}
    /\ mbp' = [free_list |-> Null, blk_free |-> 0, blk_max |-> 0]
    /\ word' = << >> /\ UNCHANGED held

(* Fault: the next block is read after the application has the block.      *)
tos_mmblk_alloc_Late ==
    /\ mbp.blk_free > 0
    /\ held' = held \cup {mbp.free_list}
    /\ word' = [word EXCEPT ![mbp.free_list] = AppData]
    /\ mbp' = [mbp EXCEPT !.free_list = AppData, !.blk_free = @ - 1]

tos_mmblk_alloc ==
    /\ mbp.blk_free > 0
    /\ held' = held \cup {mbp.free_list}
    /\ word' = [word EXCEPT ![mbp.free_list] = AppData]
    /\ mbp' = [mbp EXCEPT !.free_list = word[@], !.blk_free = @ - 1]

tos_mmblk_free(b) ==
    /\ b \in held /\ mbp.blk_free < mbp.blk_max
    /\ held' = held \ {b}
    /\ word' = [word EXCEPT ![b] = mbp.free_list]
    /\ mbp' = [mbp EXCEPT !.free_list = b, !.blk_free = @ + 1]

BlkNext ==
    \/ \E num \in BlkNums : tos_mmblk_pool_create(num)
    \/ tos_mmblk_pool_destroy \/ tos_mmblk_alloc
    \/ \E b \in held : tos_mmblk_free(b)
=============================================================================
