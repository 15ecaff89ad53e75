------------------------------ MODULE CharFifo ------------------------------
(***************************************************************************)
(* The byte FIFO (tos_char_fifo.c) on top of the ring queue; each call is  *)
(* one interrupts-disabled section.                                        *)
(***************************************************************************)
EXTENDS RingQueue

CONSTANTS
    FifoSize,   \* fifo_size
    StreamLen,  \* bound: bytes in a stream
    MaxSent     \* bound: bytes sent between two flushes

ASSUME FifoAssumption == FifoSize \in Nat \ {0} /\ StreamLen \in Nat /\ MaxSent \in Nat

VARIABLES
    chrFifo,   \* chr_fifo->ring_q
    sent, got  \* history: the bytes the callers were told went in, and came out

fifoVars == <<chrFifo, sent, got>>

FifoInit == chrFifo = tos_ring_q_create(FifoSize) /\ sent = << >> /\ got = << >>

(* Fault: a byte that does not fit overwrites the oldest one.              *)
Pushed_Over(r, x) == tos_ring_q_enqueue(IF tos_ring_q_is_full(r) THEN tos_ring_q_dequeue(r)
                                        ELSE r, x)

Pushed(r, x) == IF tos_ring_q_is_full(r) THEN r ELSE tos_ring_q_enqueue(r, x)

(* tos_chr_fifo_push for a stream of one byte.  The loop ends at the first *)
(* byte that does not fit; the caller is told how many bytes went in.      *)
tos_chr_fifo_push_stream(stream) ==
    LET room  == FifoSize - chrFifo.total
        taken == IF Len(stream) <= room THEN Len(stream) ELSE room
        after[i \in 0 .. Len(stream)] ==
            IF i = 0 THEN chrFifo ELSE Pushed(after[i - 1], stream[i])
    IN  /\ Len(sent) + taken <= MaxSent
        /\ chrFifo' = after[Len(stream)]
        /\ sent' = sent \o SubSeq(stream, 1, taken) /\ UNCHANGED got

(* tos_chr_fifo_pop for n = 1.                                             *)
tos_chr_fifo_pop_stream(n) ==
    LET taken == IF n <= chrFifo.total THEN n ELSE chrFifo.total
        after[i \in 0 .. taken] ==
            IF i = 0 THEN chrFifo ELSE tos_ring_q_dequeue(after[i - 1])
    IN  /\ chrFifo' = after[taken]
        /\ got' = got \o [i \in 1 .. taken |-> RING_HEAD_ITEM(after[i - 1])]
        /\ UNCHANGED sent

tos_chr_fifo_flush ==
    /\ chrFifo' = tos_ring_q_flush(chrFifo) /\ sent' = << >> /\ got' = << >>

FifoNext ==
    \/ \E n \in 1 .. StreamLen : \/ tos_chr_fifo_pop_stream(n)
                                \/ \E s \in [1 .. n -> Item] : tos_chr_fifo_push_stream(s)
    \/ tos_chr_fifo_flush
=============================================================================
