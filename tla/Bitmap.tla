------------------------------- MODULE Bitmap -------------------------------
(***************************************************************************)
(* Bitmaps (tos_bitmap.c).  The memory is the set of the bits set in it,   *)
(* counted from the most significant bit of the first word of the table,   *)
(* as K_BITMAP_NDX and K_BITMAP_BIT do; bits behind the table belong to    *)
(* someone else.                                                           *)
(***************************************************************************)
EXTENDS Integers, FiniteSets

CONSTANTS
    SlotSize, \* K_BITMAP_SLOT_SIZE, 32 in the code
    BitMaxes  \* bit_max tried at creation

ASSUME BitmapAssumption == SlotSize \in Nat \ {0} /\ BitMaxes \subseteq Nat \ {0}

VARIABLES
    memory, \* bits set in the table and behind it
    bitMax, \* bitmap->bit_max, 0 before the bitmap is created
    wanted  \* history: the bits the application has asked to be set

bitVars == <<memory, bitMax, wanted>>

BitInit == memory = {} /\ bitMax = 0 /\ wanted = {}

K_BITMAP_TBL_SIZE(max) == (max + SlotSize - 1) \div SlotSize
Word(i)  == i * SlotSize .. (i + 1) * SlotSize - 1
Table    == 0 .. K_BITMAP_TBL_SIZE(bitMax) * SlotSize - 1

(* tos_bitmap_create_empty and tos_bitmap_create_full.                     *)
tos_bitmap_create(max, full) ==
    /\ bitMax = 0 /\ bitMax' = max
    /\ memory' = IF full THEN 0 .. K_BITMAP_TBL_SIZE(max) * SlotSize - 1 ELSE {}
    /\ wanted' = IF full THEN 0 .. max ELSE {}

tos_bitmap_set(bit) ==
    /\ bitMax > 0 /\ bit <= bitMax
    /\ memory' = memory \cup {bit} /\ wanted' = wanted \cup {bit} /\ UNCHANGED bitMax

tos_bitmap_reset(bit) ==
    /\ bitMax > 0 /\ bit <= bitMax
    /\ memory' = memory \ {bit} /\ wanted' = wanted \ {bit} /\ UNCHANGED bitMax

(* tos_cpu_clz of a word: the number of the first bit set, SlotSize if none *)
clz(i) == IF Word(i) \cap memory = {} THEN SlotSize
          ELSE (CHOOSE b \in Word(i) \cap memory : \A c \in Word(i) \cap memory : b <= c)
               - i * SlotSize

(* The loop of tos_bitmap_lsb stays at the last word.                      *)
FirstWord ==
    CHOOSE i \in 0 .. K_BITMAP_TBL_SIZE(bitMax) - 1 :
        /\ i < K_BITMAP_TBL_SIZE(bitMax) - 1 => Word(i) \cap memory # {}
        /\ \A j \in 0 .. i - 1 : Word(j) \cap memory = {}

(* Fault: bits of the last word beyond bit_max count.                      *)
tos_bitmap_lsb_Raw == FirstWord * SlotSize + clz(FirstWord)

(* bit_max + 1 when no bit is set.                                         *)
tos_bitmap_lsb ==
    LET lsb == FirstWord * SlotSize + clz(FirstWord)
    IN  IF lsb > bitMax THEN bitMax + 1 ELSE lsb

BitNext ==
    \/ \E max \in BitMaxes, full \in BOOLEAN : tos_bitmap_create(max, full)
    \/ \E bit \in 0 .. bitMax : tos_bitmap_set(bit) \/ tos_bitmap_reset(bit)
=============================================================================
