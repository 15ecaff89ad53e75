------------------------------ MODULE AbsQueue ------------------------------
(***************************************************************************)
(* What a queue promises, without scheduler, rings or ticks: an item is    *)
(* kept or handed to waiting clients, never both; items kept come out      *)
(* oldest first, or best rank first from a queue that ranks them; a client *)
(* gets what it was handed, once.                                          *)
(***************************************************************************)
EXTENDS Integers, Sequences, FiniteSets

CONSTANTS Queues, Client, Thing, Nothing,
          Ranks   \* ranks of the things kept in order of rank, smallest first

VARIABLES
    kept,    \* items kept in order of age, oldest first
    ranked,  \* items kept in order of rank, each in a place of its own
    size,    \* most items kept
    waiting, \* clients waiting for an item
    handed,  \* the item each client was handed and has not picked up yet
    given    \* the item the last step gave a client

absVars == <<kept, ranked, size, waiting, handed, given>>

AbsInit == /\ kept    = [q \in Queues |-> << >>]
           /\ ranked  = [q \in Queues |-> {}]
           /\ size    = [q \in Queues |-> 0]
           /\ waiting = [q \in Queues |-> {}]
           /\ handed  = [c \in Client |-> Nothing]
           /\ given   = Nothing

IsEmpty(q) == kept[q] = << >> /\ ranked[q] = {}

(* The queue is created, flushed or destroyed.                             *)
Clear(q) ==
    /\ kept' = [kept EXCEPT ![q] = << >>]
    /\ ranked' = [ranked EXCEPT ![q] = {}]
    /\ size' = [size EXCEPT ![q] = size'[q]] /\ size'[q] \in Nat
    /\ waiting' \in {waiting, [waiting EXCEPT ![q] = {}]}
    /\ given' = Nothing /\ UNCHANGED handed

Keep(q) ==
    /\ waiting[q] = {} /\ Len(kept[q]) < size[q] /\ ranked[q] = {}
    /\ \E x \in Thing : kept' = [kept EXCEPT ![q] = Append(@, x)]
    /\ given' = Nothing /\ UNCHANGED <<ranked, size, waiting, handed>>

Rank(q) ==
    /\ waiting[q] = {} /\ kept[q] = << >>
    /\ \E n \in 0 .. size[q] - 1, r \in Ranks, x \in Thing :
          /\ \A e \in ranked[q] : e.place # n
          /\ ranked' = [ranked EXCEPT ![q] = @ \cup {[place |-> n, rank |-> r, item |-> x]}]
    /\ given' = Nothing /\ UNCHANGED <<kept, size, waiting, handed>>

Take(q) ==
    /\ kept[q] # << >>
    /\ given' = Head(kept[q])
    /\ kept' = [kept EXCEPT ![q] = Tail(@)]
    /\ UNCHANGED <<ranked, size, waiting, handed>>

TakeBest(q) ==
    /\ \E e \in ranked[q] :
          /\ \A f \in ranked[q] : e.rank <= f.rank
          /\ given' = e.item
          /\ ranked' = [ranked EXCEPT ![q] = @ \ {e}]
    /\ UNCHANGED <<kept, size, waiting, handed>>

Wait(q, c) ==
    /\ IsEmpty(q) /\ handed[c] = Nothing /\ \A r \in Queues : c \notin waiting[r]
    /\ waiting' = [waiting EXCEPT ![q] = @ \cup {c}]
    /\ given' = Nothing /\ UNCHANGED <<kept, ranked, size, handed>>

HandOver(q, lucky) ==
    /\ lucky # {} /\ lucky \subseteq waiting[q]
    /\ Cardinality(lucky) = 1 \/ lucky = waiting[q]
    /\ waiting' = [waiting EXCEPT ![q] = @ \ lucky]
    /\ \E x \in Thing : handed' = [c \in Client |-> IF c \in lucky THEN x ELSE handed[c]]
    /\ given' = Nothing /\ UNCHANGED <<kept, ranked, size>>

PickUp(c) ==
    /\ handed[c] # Nothing
    /\ given' = handed[c]
    /\ handed' = [handed EXCEPT ![c] = Nothing]
    /\ UNCHANGED <<kept, ranked, size, waiting>>

(* Deadlines, or the client is taken away, with what it had been handed.   *)
GiveUp(quitters) ==
    /\ waiting' = [q \in Queues |-> waiting[q] \ quitters]
    /\ given' = Nothing /\ UNCHANGED <<kept, ranked, size, handed>>

Die(c) ==
    /\ handed' = [handed EXCEPT ![c] = Nothing]
    /\ given' = Nothing /\ UNCHANGED <<kept, ranked, size, waiting>>

AbsNext ==
    \/ \E q \in Queues : Clear(q) \/ Keep(q) \/ Take(q) \/ Rank(q) \/ TakeBest(q)
    \/ \E q \in Queues, c \in Client : Wait(q, c)
    \/ \E q \in Queues, lucky \in SUBSET Client : HandOver(q, lucky)
    \/ \E c \in Client : PickUp(c) \/ Die(c)
    \/ \E quitters \in SUBSET Client : GiveUp(quitters)

AbsSpec == AbsInit /\ [][AbsNext]_absVars
=============================================================================
