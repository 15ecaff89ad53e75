----------------------------- MODULE RwlockInv ------------------------------
(***************************************************************************)
(* What read-write locks promise, over the states of module Rwlock.        *)
(***************************************************************************)
EXTENDS Rwlock, MutexInv, SemInv

(* "Simultaneously writting or read while writting is not allowed"         *)
(* (tos_rwlock.h), as the application sees it: while a task was told that  *)
(* it writes, no other was told that it reads or writes, whatever ran      *)
(* between the sections of their calls.                                    *)
RwExclusive ==
    \A t, u \in Task : t # u /\ share[t] = "write" => share[u] = "none"

(* The counts tell who has the lock and who waits for it: a deadline or a  *)
(* refusal in the middle of a call leaves no writer counted, which would   *)
(* keep readers out for ever, and no reader, which would keep writers out. *)
Has(t, what)  == share[t] = what \/ rwcall[t].got = what
WaitsToWrite(t) == rwcall[t].op = "wpend"
                      /\ rwcall[t].at \notin {"none", "lock", "held", "post"}
Leaves(t)     == rwcall[t].op \in Posting /\ rwcall[t].at \in {"lock", "held"}
RwCountsExact ==
    rw.made /\ (\A t \in Task : ~Leaves(t)) =>
       /\ rw.readers = Cardinality({t \in Task : Has(t, "read")})
       /\ rw.writers = Cardinality({t \in Task : WaitsToWrite(t)})
       /\ rw.writing = \E t \in Task : Has(t, "write")

(* The mutex inside is owned during calls only, on every path through them *)
(* but for calls refused at the limit of a count, which keep it (the later *)
(* calls of such a task fail and take it deeper), and whoever waits for    *)
(* the semaphore owns it.  The nesting is one in every call.               *)
RwMutexReturned ==
    /\ \A t \in Task : Lock \in ToSet(knl.own[t]) => rwcall[t] # NoCall \/ t \in rw.excess
    /\ \A t \in Task : rwcall[t].at \notin {"none", "lock", "sem", "mutex"} =>
          knl.owner[Lock] = t /\ knl.nesting[Lock] = 1
    /\ \A t \in ToSet(knl.pend[Signal]) : knl.owner[Lock] = t

(* "Util no one is writting or waiting to hold the lock" (tos_rwlock.c):   *)
(* whoever waits for that without a deadline does not keep those who would *)
(* give the lock back from doing so.                                       *)
NobodyBarred ==
    \A t \in ToSet(knl.pend[Signal]) : ~IsSleeping(knl, t) =>
        \A u \in ToSet(knl.pend[Lock]) : rwcall[u].op \notin Posting
=============================================================================
