--------------------------- MODULE PthreadProofs ----------------------------
(***************************************************************************)
(* Proofs about the life of POSIX threads, for any number of threads,      *)
(* table entries and values: no thread is reaped alive, the table is       *)
(* exact, and a join gets the value the thread passed to pthread_exit.     *)
(***************************************************************************)
EXTENDS Pthread, FiniteSetTheorems, TLAPS

Exiting   == {"elock", "emark", "epost", "eunlock", "edie"}
Joining   == {"jlock", "jreap", "jlook", "jloop", "jpend", "jwait", "jtake", "jcount",
              "jlock2", "jreap2"}
Detaching == {"dlock", "dpost", "dreap"}
Marked    == {"epost", "eunlock", "edie"}
Unmarked  == {"run", "nap", "elock", "emark"} \cup Joining \cup Detaching
Place     == {"gone"} \cup Unmarked \cup Marked

Ctl   == [id : Nat, state : {"RUNNING", "DETACHED", "JOIN", "EXITED"},
          retval : Values \cup {Null}, joinable : BOOLEAN, sem : Int]
Lib   == [table : [Ids -> Thread \cup {Nobody}], ctl : [Thread -> Ctl], ready2reap : Nat,
          memory : SUBSET Thread]
Whereabouts == [pc : Place, whom : Thread \cup {Nobody}, read : Nat, got : Values \cup {Null}]

Guard == [owner : Thread \cup {Nobody}, pend : [Thread -> Nat]]

ThreadType ==
    /\ lib \in Lib /\ lock \in Guard /\ turn \in Thread
    /\ at \in [Thread -> Whereabouts] /\ passed \in [Thread -> Values \cup {Null}]

(* Those who create, join and detach threads, and reap them on the way.    *)
Users == Makers \cup Joiners

(* The table and the blocks that are allocated are the same.               *)
TableOK(p) ==
    /\ \A i \in Ids : p.table[i] # Nobody =>
                         p.table[i] \in p.memory /\ p.ctl[p.table[i]].id = i
    /\ \A t \in p.memory : p.ctl[t].id \in Ids /\ p.table[p.ctl[t].id] = t

(* A thread that has not marked its end is neither joined nor reaped.      *)
Started(t) == at[t].pc \in Unmarked =>
                 t \in lib.memory /\ lib.ctl[t].state \in {"RUNNING", "DETACHED"}

Valued(t) ==
    /\ at[t].pc \in {"elock", "emark"} => passed[t] \in Values
    /\ t \in lib.memory /\ lib.ctl[t].state = "JOIN" =>
          passed[t] \in Values /\ lib.ctl[t].retval = passed[t]

(* What a call to pthread_join relies on, from check to use.               *)
Sought(t) ==
    LET i == at[t].read
        u == at[t].whom
    IN  /\ at[t].pc \in Joining \cup Detaching => t \in Joiners
        /\ at[t].pc \in {"jlock", "jreap", "jlook", "dlock"} => i \in Ids
        /\ at[t].pc \in {"jlock", "jreap", "jlook"} /\ lib.table[i] # Nobody =>
              lib.ctl[lib.table[i]].state # "DETACHED"
        /\ at[t].pc \in {"jloop", "jpend", "jwait", "jtake", "jcount"} => u \in lib.memory
        /\ at[t].pc \in {"jloop", "jpend", "jwait"} => lib.ctl[u].state \in {"RUNNING", "JOIN"}
        /\ at[t].pc = "jtake" => lib.ctl[u].state = "JOIN"
        /\ at[t].pc = "jcount" => /\ lib.ctl[u].state = "EXITED"
                                  /\ at[t].got \in Values /\ at[t].got = passed[u]
        /\ at[t].pc = "dpost" => u \in Thread

ThreadIInv ==
    /\ ThreadType /\ TableOK(lib)
    /\ \A t \in Thread : Started(t) /\ Valued(t) /\ Sought(t)

(* One thread creates, joins and detaches the others.                      *)
OneUser == \A t, u \in Users : t = u

(* Nobody outranks the threads it does so with, and no time slice ends     *)
(* while they run.                                                         *)
NoneAbove == ~RoundRobin /\ \A t \in Thread \ Users, u \in Thread : Rank[t] <= Rank[u]

(* A thread that has marked its end runs until it is gone.                 *)
DiesAtOnce ==
    /\ Alive \subseteq lib.memory
    /\ \A t \in Thread \ Users : at[t].pc \in Marked => turn = t
----------------------------------------------------------------------------
(* The helpers.                                                            *)

LEMMA StatesDiffer == Unmarked \cap Marked = {} /\ "gone" \notin Unmarked \cup Marked
  BY DEF Unmarked, Marked, Joining, Detaching

(* No more are reaped than were counted: each has a place of its own among *)
(* those that may be.                                                      *)
LEMMA VictimsCounted ==
    ASSUME lib \in Lib
    PROVE  IsFiniteSet(Victims(lib)) /\ Cardinality(Victims(lib)) \in 0 .. lib.ready2reap
<1> DEFINE V == Victims(lib)
           E == Exited(lib)
           n == lib.ready2reap
           below(i) == {j \in E : j < i}
           f == [i \in V |-> Cardinality(below(i))]
<1>1. E \subseteq Ids /\ V \subseteq E /\ IsFiniteSet(Ids) /\ Ids \subseteq Nat /\ n \in Nat
  BY PthreadAssumption DEF Victims, Exited, Lib
<1>2. IsFiniteSet(V) /\ IsFiniteSet(E)
  BY <1>1, FS_Subset
<1>3. Cardinality(V) \in Nat
  BY <1>2, FS_CardinalityType
<1>4. \A i \in Ids : IsFiniteSet(below(i)) /\ Cardinality(below(i)) \in Nat
  <2> TAKE i \in Ids
  <2>1. below(i) \subseteq E
    OBVIOUS
  <2> QED
    BY <2>1, <1>2, FS_Subset, FS_CardinalityType
<1>5. \A i \in V : Cardinality(below(i)) < n
  BY DEF Victims
<1>e. \A i \in V : i \in E /\ i \in Ids /\ i \in Nat
  BY <1>1
<1> HIDE DEF V, E, n
<1>6. IsFiniteSet(0 .. n - 1) /\ Cardinality(0 .. n - 1) = n
  <2>1. 0 \in Int /\ n - 1 \in Int /\ (0 <= n - 1 \/ n = 0)
    BY <1>1
  <2>2. Cardinality(0 .. n - 1) = IF 0 > n - 1 THEN 0 ELSE n - 1 - 0 + 1
    BY <2>1, FS_Interval
  <2> QED
    BY <2>1, <2>2, <1>1, FS_Interval
<1>7. f \in [V -> 0 .. n - 1]
  <2>1. \A i \in V : Cardinality(below(i)) \in 0 .. n - 1
    <3> TAKE i \in V
    <3>1. Cardinality(below(i)) \in Nat /\ Cardinality(below(i)) < n
      BY <1>e, <1>4, <1>5
    <3> QED
      BY <3>1, <1>1
  <2> QED
    BY <2>1
<1>8. \A i, j \in V : i < j => Cardinality(below(i)) # Cardinality(below(j))
  <2> TAKE i, j \in V
  <2> HAVE i < j
  <2>1. i \in E /\ i \in Ids /\ j \in Ids /\ i \in Nat /\ j \in Nat
    BY <1>e
  <2>2. i \in below(j) /\ below(i) \subseteq below(j) \ {i}
    <3>1. \A x \in E : x \in Nat
      BY <1>1
    <3>2. \A x \in E : x < i => x < j /\ x # i
      BY <3>1, <2>1
    <3> QED
      BY <3>2, <2>1
  <2>3. IsFiniteSet(below(j) \ {i}) /\ Cardinality(below(j) \ {i}) = Cardinality(below(j)) - 1
    BY <2>1, <2>2, <1>4, FS_RemoveElement
  <2>4. Cardinality(below(i)) <= Cardinality(below(j) \ {i})
    BY <2>2, <2>3, FS_Subset
  <2> QED
    BY <2>1, <2>3, <2>4, <1>4
<1>9. ~\E i, j \in V : i # j /\ f[i] = f[j]
  <2>1. \A i, j \in V : i # j => i < j \/ j < i
    BY <1>e
  <2>2. \A i, j \in V : i # j => f[i] # f[j]
    <3> TAKE i, j \in V
    <3>1. ASSUME i # j PROVE Cardinality(below(i)) # Cardinality(below(j))
      BY <3>1, <2>1, <1>8
    <3> QED
      BY <3>1
  <2> QED
    BY <2>2
<1>10. ~(n < Cardinality(V))
  <2>1. ASSUME n < Cardinality(V) PROVE FALSE
    <3> HIDE DEF f
    <3> QED
      BY <2>1, <1>2, <1>6, <1>7, <1>9, FS_PigeonHole
  <2> QED
    BY <2>1
<1> QED
  BY <1>1, <1>2, <1>3, <1>10 DEF V, n

(* What reaping does to the table and to those who stay.                   *)
LEMMA ReapedRight ==
    ASSUME lib \in Lib, TableOK(lib)
    PROVE  LET p == Reaped(lib)
           IN  /\ p \in Lib /\ TableOK(p) /\ p.memory \subseteq lib.memory
               /\ \A t \in p.memory : p.ctl[t] = lib.ctl[t]
               /\ \A t \in lib.memory : lib.ctl[t].state # "EXITED" => t \in p.memory
               /\ \A i \in Ids : p.table[i] \in {Nobody, lib.table[i]}
<1> DEFINE p    == Reaped(lib)
           V    == Victims(lib)
           dead == {lib.table[i] : i \in V}
<1>1. /\ p.table = [i \in Ids |-> IF i \in V THEN Nobody ELSE lib.table[i]]
      /\ p.ctl = [t \in Thread |-> IF t \in dead THEN Freed ELSE lib.ctl[t]]
      /\ p.memory = lib.memory \ dead
      /\ p.ready2reap = lib.ready2reap - Cardinality(V)
      /\ p = [table |-> p.table, ctl |-> p.ctl, ready2reap |-> p.ready2reap,
              memory |-> p.memory]
  <2>1. p = [[[[lib EXCEPT !.table = pthread_id_free(lib.table, V)]
                    EXCEPT !.ctl = [t \in Thread |-> IF t \in dead THEN Freed ELSE lib.ctl[t]]]
                    EXCEPT !.memory = lib.memory \ dead]
                    EXCEPT !.ready2reap = lib.ready2reap - Cardinality(V)]
    BY DEF Reaped, Lib
  <2>2. lib = [table |-> lib.table, ctl |-> lib.ctl, ready2reap |-> lib.ready2reap,
               memory |-> lib.memory]
    BY DEF Lib
  <2> HIDE DEF p, V, dead
  <2> QED
    BY <2>1, <2>2 DEF pthread_id_free
<1>2. V \subseteq Ids /\ \A i \in V : lib.table[i] \in Thread /\ lib.ctl[lib.table[i]].state = "EXITED"
  BY DEF Victims, Exited, Lib
<1>3. Cardinality(V) \in 0 .. lib.ready2reap /\ lib.ready2reap \in Nat
  BY VictimsCounted DEF Lib
<1>4. p.ready2reap \in Nat
  BY <1>1, <1>3
<1>5. Freed \in Ctl
  BY DEF Freed, NewCtl, Ctl
<1>6. p \in Lib
  BY <1>1, <1>4, <1>5 DEF Lib
<1>7. \A t \in lib.memory : t \in Thread
  BY DEF Lib
<1>8. \A t \in p.memory : p.ctl[t] = lib.ctl[t] /\ t \in lib.memory /\ t \notin dead
  BY <1>1, <1>7
<1>9. \A i \in Ids : p.table[i] # Nobody => i \notin V /\ p.table[i] = lib.table[i]
  BY <1>1
<1>10. \A i \in Ids : i \notin V => \/ p.table[i] = lib.table[i] /\ lib.table[i] \notin dead
                                  \/ p.table[i] = Nobody
  <2> TAKE i \in Ids
  <2> HAVE i \notin V
  <2>1. p.table[i] = lib.table[i]
    BY <1>1
  <2>2. ASSUME lib.table[i] # Nobody, lib.table[i] \in dead PROVE FALSE
    <3>1. PICK j \in V : lib.table[j] = lib.table[i]
      BY <2>2
    <3>2. lib.ctl[lib.table[i]].id = i /\ lib.ctl[lib.table[j]].id = j
      BY <3>1, <2>2, <1>2 DEF TableOK
    <3> QED
      BY <3>1, <3>2
  <2> QED
    BY <2>1, <2>2
<1>11. TableOK(p)
  <2> HIDE DEF p, V, dead
  <2>1. \A i \in Ids : p.table[i] # Nobody =>
                         p.table[i] \in p.memory /\ p.ctl[p.table[i]].id = i
    <3> TAKE i \in Ids
    <3> HAVE p.table[i] # Nobody
    <3>1. p.table[i] = lib.table[i] /\ lib.table[i] \notin dead
      BY <1>9, <1>10
    <3>2. lib.table[i] \in lib.memory /\ lib.ctl[lib.table[i]].id = i
      BY <3>1 DEF TableOK
    <3> QED
      BY <3>1, <3>2, <1>1, <1>8
  <2>2. \A t \in p.memory : p.ctl[t].id \in Ids /\ p.table[p.ctl[t].id] = t
    <3> TAKE t \in p.memory
    <3>1. lib.ctl[t].id \in Ids /\ lib.table[lib.ctl[t].id] = t /\ p.ctl[t] = lib.ctl[t]
      BY <1>8 DEF TableOK
    <3>2. lib.ctl[t].id \notin V
      BY <3>1, <1>8 DEF dead
    <3> QED
      BY <3>1, <3>2, <1>1
  <2> QED
    BY <2>1, <2>2 DEF TableOK
<1>12. \A t \in lib.memory : lib.ctl[t].state # "EXITED" => t \in p.memory
  BY <1>1, <1>2
<1> QED
  BY <1>1, <1>6, <1>8, <1>9, <1>11, <1>12

----------------------------------------------------------------------------
(* Steps that only move one thread.                                        *)

LEMMA Moved ==
    ASSUME ThreadType, NEW t \in Thread, NEW w \in Whereabouts, at' = [at EXCEPT ![t] = w]
    PROVE  /\ at' \in [Thread -> Whereabouts] /\ at'[t] = w
           /\ \A s \in Thread : s # t => at'[s] = at[s]
  BY DEF ThreadType

LEMMA Went ==
    ASSUME ThreadType, NEW t \in Thread, NEW pc \in Place, Goto(t, pc)
    PROVE  /\ at' \in [Thread -> Whereabouts]
           /\ at'[t].pc = pc /\ at'[t].whom = at[t].whom
           /\ at'[t].read = at[t].read /\ at'[t].got = at[t].got
           /\ \A s \in Thread : s # t => at'[s] = at[s]
<1> DEFINE w == [at[t] EXCEPT !.pc = pc]
<1>1. at[t] \in Whereabouts
  BY DEF ThreadType
<1>2. w \in Whereabouts
  BY <1>1 DEF Whereabouts
<1>3. at' = [at EXCEPT ![t] = w]
  BY DEF Goto, ThreadType
<1>4. at' \in [Thread -> Whereabouts] /\ at'[t] = w /\ \A s \in Thread : s # t => at'[s] = at[s]
  BY <1>2, <1>3, Moved
<1>5. w.pc = pc /\ w.whom = at[t].whom /\ w.read = at[t].read /\ w.got = at[t].got
  BY <1>1 DEF Whereabouts
<1> QED
  BY <1>4, <1>5

LEMMA IdleType == Idle \in Whereabouts /\ \A pc \in Place : At(pc) \in Whereabouts /\ At(pc).pc = pc
  BY DEF Idle, At, Whereabouts, Place

LEMMA LockType ==
    ASSUME ThreadType
    PROVE  /\ Unlock => lock' \in Guard /\ Waiters' \subseteq Waiters
           /\ \A t \in Thread : Lock(t) => lock' \in Guard /\ Waiters' \subseteq Waiters
           /\ \A t \in Thread, pc \in Place : Runs(t, pc) => at[t].pc = pc /\ turn' \in Thread
<1>1. ASSUME Unlock PROVE lock' \in Guard /\ Waiters' \subseteq Waiters
  <2>1. PICK t \in Waiters \cup {Nobody} :
            lock' = [owner |-> t,
                     pend  |-> [u \in Thread |-> IF u \in Waiters THEN lock.pend[u] - 1 ELSE 0]]
    BY <1>1 DEF Unlock
  <2>2. \A u \in Waiters : lock.pend[u] - 1 \in Nat
    BY DEF Waiters, ThreadType, Guard
  <2>3. lock' \in Guard
    BY <2>1, <2>2 DEF Waiters, Guard
  <2>4. \A u \in Thread : u \notin Waiters => lock'.pend[u] = 0
    BY <2>1
  <2> QED
    BY <2>3, <2>4 DEF Waiters
<1>2. ASSUME NEW t \in Thread, Lock(t) PROVE lock' \in Guard /\ Waiters' \subseteq Waiters
  BY <1>2 DEF Lock, ThreadType, Guard, Waiters
<1> QED
  BY <1>1, <1>2 DEF Runs

(* What waiting for the mutex does to its pend list.                       *)
LEMMA PendType ==
    ASSUME ThreadType, NEW t \in Thread, LockPend(t)
    PROVE  lock' \in Guard /\ Waiters' \subseteq Waiters \cup {t}
<1> DEFINE place == 1 + Cardinality({ u \in Waiters : Rank[u] <= Rank[t] })
           p(u)  == IF u = t THEN place
                    ELSE IF lock.pend[u] >= place THEN lock.pend[u] + 1 ELSE lock.pend[u]
<1>1. { u \in Waiters : Rank[u] <= Rank[t] } \subseteq Thread
  BY DEF Waiters
<1>2. Cardinality({ u \in Waiters : Rank[u] <= Rank[t] }) \in Nat
  BY <1>1, PthreadAssumption, FS_Subset, FS_CardinalityType
<1>3. place \in Nat /\ place > 0
  BY <1>2
<1>4. lock' = [lock EXCEPT !.pend = [u \in Thread |-> p(u)]]
  BY DEF LockPend
<1> HIDE DEF place
<1>5. \A u \in Thread : p(u) \in Nat /\ (u # t /\ p(u) > 0 => lock.pend[u] > 0)
  BY <1>3 DEF ThreadType, Guard
<1> HIDE DEF p
<1>6. lock'.pend = [u \in Thread |-> p(u)] /\ lock' \in Guard
  BY <1>4, <1>5 DEF ThreadType, Guard
<1> QED
  BY <1>5, <1>6 DEF Waiters

LEMMA QuietStep ==
    ASSUME ThreadIInv, NEW t \in Thread, UNCHANGED <<lib, passed>>,
           lock' \in Guard, turn' \in Thread,
           at' \in [Thread -> Whereabouts], \A s \in Thread : s # t => at'[s] = at[s],
           Started(t)', Valued(t)', Sought(t)'
    PROVE  ThreadIInv'
<1>1. ThreadType' /\ TableOK(lib)'
  BY DEF ThreadIInv, ThreadType, TableOK
<1>2. ASSUME NEW s \in Thread, s # t PROVE Started(s)' /\ Valued(s)' /\ Sought(s)'
  BY <1>2 DEF ThreadIInv, Started, Valued, Sought
<1> QED
  BY <1>1, <1>2 DEF ThreadIInv

(* A thread waits for the mutex.                                           *)
LEMMA LockPendKeeps ==
    ASSUME ThreadIInv, NEW t \in Thread, LockPend(t) PROVE ThreadIInv'
<1> ThreadType /\ Started(t) /\ Valued(t) /\ Sought(t)
  BY DEF ThreadIInv
<1>1. UNCHANGED <<lib, at, passed>> /\ turn' = t /\ lock' \in Guard
  BY PendType DEF LockPend, Runs
<1>2. at' \in [Thread -> Whereabouts]
  BY <1>1 DEF ThreadType
<1>3. Started(t)' /\ Valued(t)' /\ Sought(t)'
  BY <1>1 DEF Started, Valued, Sought
<1> QED
  BY <1>1, <1>2, <1>3, QuietStep

(* Those that call, leave the mutex or the processor, or go on.            *)
LEMMA GoingKeeps ==
    ASSUME ThreadIInv, NEW t \in Thread,
           \/ Nap(t) \/ Wake(t) \/ ExitLocked(t) \/ ExitUnlock(t)
           \/ JoinLocked(t, "jlock", "jreap") \/ JoinLocked(t, "jlock2", "jreap2")
    PROVE  ThreadIInv'
<1> ThreadType /\ Started(t) /\ Valued(t) /\ Sought(t)
  BY DEF ThreadIInv
<1>1. ASSUME NEW pc \in Place, NEW next \in Place, at[t].pc = pc, Goto(t, next),
             UNCHANGED <<lib, passed>>, lock' \in Guard, turn' \in Thread,
             <<pc, next>> \in {<<"run", "nap">>, <<"nap", "run">>, <<"elock", "emark">>,
                               <<"eunlock", "edie">>, <<"jlock", "jreap">>,
                               <<"jlock2", "jreap2">>}
      PROVE  ThreadIInv'
  <2>1. /\ at' \in [Thread -> Whereabouts] /\ \A s \in Thread : s # t => at'[s] = at[s]
        /\ at'[t].pc = next /\ at'[t].whom = at[t].whom
        /\ at'[t].read = at[t].read /\ at'[t].got = at[t].got
    BY <1>1, Went
  <2>2. Started(t)'
    BY <2>1, <1>1 DEF Started, Unmarked, Joining, Detaching
  <2>3. Valued(t)'
    BY <2>1, <1>1 DEF Valued
  <2>4. Sought(t)'
    BY <2>1, <1>1 DEF Sought, Joining, Detaching
  <2> QED
    BY <1>1, <2>1, <2>2, <2>3, <2>4, QuietStep
<1>2. {"run", "nap", "elock", "emark", "eunlock", "edie", "jlock", "jreap", "jlock2", "jreap2"}
        \subseteq Place
  BY DEF Place, Unmarked, Marked, Joining
<1>3. lock \in Guard /\ turn \in Thread
  BY DEF ThreadType
<1>4. CASE Nap(t)
  BY <1>1, <1>2, <1>3, <1>4, LockType DEF Nap
<1>5. CASE Wake(t)
  BY <1>1, <1>2, <1>3, <1>5 DEF Wake
<1>6. CASE ExitLocked(t)
  BY <1>1, <1>2, <1>3, <1>6, LockType DEF ExitLocked
<1>7. CASE ExitUnlock(t)
  BY <1>1, <1>2, <1>3, <1>7, LockType DEF ExitUnlock
<1>8. CASE JoinLocked(t, "jlock", "jreap")
  BY <1>1, <1>2, <1>3, <1>8, LockType DEF JoinLocked
<1>9. CASE JoinLocked(t, "jlock2", "jreap2")
  BY <1>1, <1>2, <1>3, <1>9, LockType DEF JoinLocked
<1> QED
  BY <1>4, <1>5, <1>6, <1>7, <1>8, <1>9

LEMMA DieKeeps ==
    ASSUME ThreadIInv, NEW t \in Thread, ExitDie(t)
    PROVE  ThreadIInv'
<1> ThreadType /\ Valued(t)
  BY DEF ThreadIInv
<1>1. at' \in [Thread -> Whereabouts] /\ at'[t].pc = "gone" /\ \A s \in Thread : s # t => at'[s] = at[s]
  BY Moved, IdleType DEF ExitDie, Idle
<1>2. turn' \in Thread /\ lock' \in Guard
  BY DEF ExitDie, Runs, ThreadType
<1>3. UNCHANGED <<lib, passed>>
  BY DEF ExitDie
<1>4. Started(t)' /\ Valued(t)' /\ Sought(t)'
  BY <1>1, <1>3 DEF Started, Valued, Sought, Unmarked, Joining, Detaching
<1> QED
  BY <1>1, <1>2, <1>3, <1>4, QuietStep

LEMMA Arrived ==
    ASSUME ThreadType, NEW t \in Thread, NEW pc \in Place, NEW i \in Nat,
           at' = [at EXCEPT ![t] = [At(pc) EXCEPT !.read = i]]
    PROVE  /\ at' \in [Thread -> Whereabouts] /\ at'[t].pc = pc /\ at'[t].read = i
           /\ \A s \in Thread : s # t => at'[s] = at[s]
<1> DEFINE w == [At(pc) EXCEPT !.read = i]
<1>1. w \in Whereabouts /\ w.pc = pc /\ w.read = i
  BY IdleType DEF Whereabouts
<1> QED
  BY <1>1, Moved

LEMMA Chosen ==
    ASSUME ThreadType, NEW t \in Thread, NEW pc \in Place, NEW u \in Thread,
           at' = [at EXCEPT ![t] = [At(pc) EXCEPT !.whom = u]]
    PROVE  /\ at' \in [Thread -> Whereabouts] /\ at'[t].pc = pc /\ at'[t].whom = u
           /\ \A s \in Thread : s # t => at'[s] = at[s]
<1> DEFINE w == [At(pc) EXCEPT !.whom = u]
<1>1. w \in Whereabouts /\ w.pc = pc /\ w.whom = u
  BY IdleType DEF Whereabouts
<1> QED
  BY <1>1, Moved

LEMMA AskedKeeps ==
    ASSUME ThreadIInv, NEW t \in Thread, NEW i \in Ids, Join(t, i) \/ Detach(t, i)
    PROVE  ThreadIInv'
<1> ThreadType /\ Started(t) /\ Valued(t) /\ TableOK(lib)
  BY DEF ThreadIInv
<1>1. i \in Nat
  BY PthreadAssumption
<1>2. /\ at[t].pc = "run" /\ turn' \in Thread /\ lock' \in Guard
      /\ UNCHANGED <<lib, passed>> /\ t \in Joiners
  BY DEF Join, Detach, Runs, ThreadType
<1>3. CASE Join(t, i)
  <2>1. "jlock" \in Place
    BY DEF Place, Unmarked, Joining
  <2>2. /\ at' \in [Thread -> Whereabouts] /\ at'[t].pc = "jlock" /\ at'[t].read = i
        /\ \A s \in Thread : s # t => at'[s] = at[s]
    BY <1>1, <1>3, <2>1, Arrived DEF Join
  <2>3. Started(t)' /\ Valued(t)' /\ Sought(t)'
    BY <1>2, <1>3, <2>2 DEF Join, Started, Valued, Sought, Unmarked, Joining, Detaching
  <2> QED
    BY <1>2, <2>2, <2>3, QuietStep
<1>4. CASE Detach(t, i)
  <2>1. "dlock" \in Place
    BY DEF Place, Unmarked, Detaching
  <2>2. /\ at' \in [Thread -> Whereabouts] /\ at'[t].pc = "dlock" /\ at'[t].read = i
        /\ \A s \in Thread : s # t => at'[s] = at[s]
    BY <1>1, <1>4, <2>1, Arrived DEF Detach
  <2>3. Started(t)' /\ Valued(t)' /\ Sought(t)'
    BY <1>2, <1>4, <2>2 DEF Detach, Started, Valued, Sought, Unmarked, Joining, Detaching
  <2> QED
    BY <1>2, <2>2, <2>3, QuietStep
<1> QED
  BY <1>3, <1>4

(* The lookup finds a thread that is still allocated and was not detached. *)
LEMMA LookKeeps ==
    ASSUME ThreadIInv, NEW t \in Thread, JoinLook(t)
    PROVE  ThreadIInv'
<1> ThreadType /\ Started(t) /\ Valued(t) /\ Sought(t) /\ TableOK(lib)
  BY DEF ThreadIInv
<1> DEFINE i == at[t].read
           u == pthread_ctl_by_id(i)
<1>1. /\ at[t].pc = "jlook" /\ turn' \in Thread /\ lock' \in Guard
      /\ UNCHANGED <<lib, passed>> /\ t \in Joiners /\ i \in Ids
  BY DEF JoinLook, Runs, ThreadType, Sought, Joining
<1>2. "run" \in Place /\ "jloop" \in Place
  BY DEF Place, Unmarked, Joining
<1>3. CASE u \in {Nobody, t} \/ ~lib.ctl[u].joinable
  <2>1. at' \in [Thread -> Whereabouts] /\ at'[t].pc = "run"
        /\ \A s \in Thread : s # t => at'[s] = at[s]
    BY <1>2, <1>3, Moved, IdleType DEF JoinLook
  <2>2. Started(t)' /\ Valued(t)' /\ Sought(t)'
    BY <1>1, <2>1 DEF Started, Valued, Sought, Unmarked, Joining, Detaching
  <2> QED
    BY <1>1, <2>1, <2>2, QuietStep
<1>4. CASE u \notin {Nobody, t} /\ lib.ctl[u].joinable
  <2>1. u = lib.table[i] /\ lib.table[i] # Nobody /\ lib.ctl[u].state # "EXITED"
    BY <1>4 DEF pthread_ctl_by_id
  <2>2. u \in lib.memory /\ u \in Thread /\ lib.ctl[u] \in Ctl
    BY <1>1, <2>1 DEF TableOK, ThreadType, Lib
  <2>3. lib.ctl[u].state \in {"RUNNING", "JOIN"}
    BY <1>1, <2>1, <2>2 DEF Sought, Ctl
  <2>4. /\ at' \in [Thread -> Whereabouts] /\ at'[t].pc = "jloop" /\ at'[t].whom = u
        /\ \A s \in Thread : s # t => at'[s] = at[s]
    BY <1>2, <1>4, <2>2, Chosen DEF JoinLook
  <2> HIDE DEF u
  <2>5. Started(t)' /\ Valued(t)' /\ Sought(t)'
    BY <1>1, <2>2, <2>3, <2>4 DEF Started, Valued, Sought, Unmarked, Joining, Detaching
  <2> QED
    BY <1>1, <2>4, <2>5, QuietStep
<1> QED
  BY <1>3, <1>4

LEMMA LoopKeeps ==
    ASSUME ThreadIInv, NEW t \in Thread, JoinLoop(t)
    PROVE  ThreadIInv'
<1> ThreadType /\ Started(t) /\ Valued(t) /\ Sought(t)
  BY DEF ThreadIInv
<1> DEFINE u    == at[t].whom
           next == IF lib.ctl[u].state = "RUNNING" THEN "jpend" ELSE "jtake"
<1>1. /\ at[t].pc = "jloop" /\ turn' \in Thread /\ lock' \in Guard
      /\ UNCHANGED <<lib, passed>> /\ Goto(t, next)
  BY DEF JoinLoop, Runs, ThreadType
<1>2. next \in Place
  BY DEF Place, Unmarked, Joining
<1>3. /\ at' \in [Thread -> Whereabouts] /\ at'[t].pc = next /\ at'[t].whom = u
      /\ \A s \in Thread : s # t => at'[s] = at[s]
  BY <1>1, <1>2, Went
<1>4. t \in Joiners /\ u \in lib.memory /\ lib.ctl[u].state \in {"RUNNING", "JOIN"}
  BY <1>1 DEF Sought, Joining
<1>5. Started(t)' /\ Valued(t)' /\ Sought(t)'
  BY <1>1, <1>3, <1>4 DEF Started, Valued, Sought, Unmarked, Joining, Detaching
<1> QED
  BY <1>1, <1>3, <1>5, QuietStep

----------------------------------------------------------------------------
(* Steps that change the values that were passed or the control blocks.    *)

SameBlocks ==
    /\ lib' \in Lib /\ lib'.table = lib.table /\ lib'.memory = lib.memory
    /\ \A s \in Thread : /\ lib'.ctl[s].id = lib.ctl[s].id
                         /\ lib'.ctl[s].state = lib.ctl[s].state
                         /\ lib'.ctl[s].retval = lib.ctl[s].retval

(* Counts may change, and who waits for a thread may be told of its end.   *)
LEMMA CountKeeps ==
    ASSUME ThreadIInv, NEW t \in Thread, SameBlocks, passed' = passed,
           lock' \in Guard, turn' \in Thread, at' \in [Thread -> Whereabouts],
           \A s \in Thread : s # t => \/ at'[s] = at[s]
                                      \/ /\ at[s].pc = "jwait"
                                         /\ at'[s] = [at[s] EXCEPT !.pc = "jloop"],
           Started(t)', Valued(t)', Sought(t)'
    PROVE  ThreadIInv'
<1>1. ThreadType'
  BY DEF ThreadIInv, ThreadType, SameBlocks
<1>2. lib.memory \subseteq Thread /\ \A i \in Ids : lib.table[i] \in Thread \cup {Nobody}
  BY DEF ThreadIInv, ThreadType, Lib
<1>3. TableOK(lib)'
  BY <1>2 DEF ThreadIInv, TableOK, SameBlocks
<1>4. ASSUME NEW s \in Thread, s # t PROVE Started(s)' /\ Valued(s)' /\ Sought(s)'
  <2>1. Started(s) /\ Valued(s) /\ Sought(s) /\ at[s] \in Whereabouts
    BY DEF ThreadIInv, ThreadType
  <2>2. CASE at'[s] = at[s]
    <3>1. Started(s)' /\ Valued(s)'
      BY <2>1, <2>2 DEF SameBlocks, Started, Valued
    <3>2. Sought(s)'
      BY <2>1, <2>2, <1>2 DEF SameBlocks, Sought
    <3> QED
      BY <3>1, <3>2
  <2>3. CASE at[s].pc = "jwait" /\ at'[s] = [at[s] EXCEPT !.pc = "jloop"]
    <3>1. at'[s].pc = "jloop" /\ at'[s].whom = at[s].whom
      BY <2>1, <2>3 DEF Whereabouts
    <3>2. Started(s)' /\ Valued(s)'
      BY <2>1, <2>3, <3>1 DEF SameBlocks, Started, Valued, Unmarked, Joining
    <3>3. Sought(s)'
      BY <2>1, <2>3, <3>1, <1>2 DEF SameBlocks, Sought, Joining
    <3> QED
      BY <3>2, <3>3
  <2> QED
    BY <2>2, <2>3, <1>4
<1> QED
  BY <1>1, <1>3, <1>4 DEF ThreadIInv

LEMMA PostedRight ==
    ASSUME ThreadType, NEW t \in Thread, NEW u \in Thread, NEW pc \in Place,
           at[t].pc # "jwait", lib' = PostAll(lib, u), Posted(t, u, pc)
    PROVE  /\ SameBlocks /\ at' \in [Thread -> Whereabouts] /\ at'[t].pc = pc
           /\ \A s \in Thread : s # t => \/ at'[s] = at[s]
                                         \/ /\ at[s].pc = "jwait"
                                            /\ at'[s] = [at[s] EXCEPT !.pc = "jloop"]
<1>1. lib \in Lib /\ at \in [Thread -> Whereabouts]
  BY DEF ThreadType
<1>2. SameBlocks
  <2>1. CASE lib' = lib
    BY <2>1, <1>1 DEF SameBlocks
  <2>2. CASE lib' = [lib EXCEPT !.ctl[u].sem = @ + 1]
    <3> DEFINE c == [lib.ctl[u] EXCEPT !.sem = @ + 1]
               f == [lib.ctl EXCEPT ![u] = c]
    <3>1. lib.ctl[u] \in Ctl /\ lib.ctl \in [Thread -> Ctl]
      BY <1>1 DEF Lib
    <3>2. c \in Ctl /\ c.id = lib.ctl[u].id /\ c.state = lib.ctl[u].state
            /\ c.retval = lib.ctl[u].retval
      BY <3>1 DEF Ctl
    <3>3. lib' = [lib EXCEPT !.ctl = f]
      BY <2>2, <1>1 DEF Lib
    <3>4. f \in [Thread -> Ctl]
      BY <3>1, <3>2
    <3>5. lib'.ctl = f /\ lib' \in Lib /\ lib'.table = lib.table /\ lib'.memory = lib.memory
      <4> HIDE DEF f
      <4> QED
        BY <1>1, <3>3, <3>4 DEF Lib
    <3> QED
      BY <3>1, <3>2, <3>5 DEF SameBlocks
  <2> QED
    BY <2>1, <2>2 DEF PostAll
<1>3. t \notin JoinersOf(u)
  BY DEF JoinersOf
<1>4. \A s \in Thread : at'[s] = IF s \in JoinersOf(u) /\ lib.ctl[u].sem >= 0
                                 THEN [at[s] EXCEPT !.pc = "jloop"]
                                 ELSE IF s = t THEN [at[s] EXCEPT !.pc = pc] ELSE at[s]
  BY DEF Posted
<1>5. \A s \in Thread : [at[s] EXCEPT !.pc = "jloop"] \in Whereabouts
                        /\ [at[s] EXCEPT !.pc = pc] \in Whereabouts
  BY <1>1 DEF Whereabouts, Place, Unmarked, Joining
<1>6. at' \in [Thread -> Whereabouts]
  <2>1. \A s \in Thread : at'[s] \in Whereabouts
    BY <1>1, <1>4, <1>5
  <2>2. at' = [s \in Thread |-> at'[s]]
    BY DEF Posted
  <2> QED
    BY <2>1, <2>2
<1>7. at'[t].pc = pc
  BY <1>1, <1>3, <1>4 DEF Whereabouts
<1> QED
  BY <1>2, <1>3, <1>4, <1>6, <1>7 DEF JoinersOf

LEMMA ToldKeeps ==
    ASSUME ThreadIInv, NEW t \in Thread, ExitPost(t) \/ DetachPost(t)
    PROVE  ThreadIInv'
<1> ThreadType /\ Started(t) /\ Valued(t) /\ Sought(t)
  BY DEF ThreadIInv
<1>1. /\ turn' \in Thread /\ lock' \in Guard /\ passed' = passed
      /\ at[t].pc \in {"epost", "dpost"}
  BY DEF ExitPost, DetachPost, Runs, ThreadType
<1>2. "eunlock" \in Place /\ "dreap" \in Place
  BY DEF Place, Marked, Unmarked, Detaching
<1>3. CASE ExitPost(t)
  <2>1. /\ SameBlocks /\ at' \in [Thread -> Whereabouts] /\ at'[t].pc = "eunlock"
        /\ \A s \in Thread : s # t => \/ at'[s] = at[s]
                                      \/ /\ at[s].pc = "jwait"
                                         /\ at'[s] = [at[s] EXCEPT !.pc = "jloop"]
    BY <1>1, <1>2, <1>3, PostedRight DEF ExitPost
  <2>2. Started(t)' /\ Valued(t)' /\ Sought(t)'
    BY <1>1, <2>1 DEF SameBlocks, Started, Valued, Sought, Unmarked, Joining, Detaching
  <2> QED
    BY <1>1, <2>1, <2>2, CountKeeps
<1>4. CASE DetachPost(t)
  <2>1. at[t].pc = "dpost" /\ at[t].whom \in Thread /\ t \in Joiners
    BY <1>4 DEF DetachPost, Runs, Sought, Detaching
  <2>2. /\ SameBlocks /\ at' \in [Thread -> Whereabouts] /\ at'[t].pc = "dreap"
        /\ \A s \in Thread : s # t => \/ at'[s] = at[s]
                                      \/ /\ at[s].pc = "jwait"
                                         /\ at'[s] = [at[s] EXCEPT !.pc = "jloop"]
    BY <1>2, <1>4, <2>1, PostedRight DEF DetachPost
  <2>3. Started(t)' /\ Valued(t)' /\ Sought(t)'
    BY <2>1, <2>2 DEF SameBlocks, Started, Valued, Sought, Unmarked, Joining, Detaching
  <2> QED
    BY <1>1, <2>2, <2>3, CountKeeps
<1> QED
  BY <1>3, <1>4

(* A step that writes one control block, and maybe the count.              *)
LEMMA WithBlock ==
    ASSUME lib \in Lib, NEW u \in Thread, NEW c \in Ctl, NEW n \in Nat,
           lib' = [lib EXCEPT !.ctl = [lib.ctl EXCEPT ![u] = c], !.ready2reap = n]
    PROVE  /\ lib' \in Lib /\ lib'.table = lib.table /\ lib'.memory = lib.memory
           /\ lib'.ctl[u] = c /\ \A s \in Thread : s # u => lib'.ctl[s] = lib.ctl[s]
<1> DEFINE f == [lib.ctl EXCEPT ![u] = c]
<1>1. lib.ctl \in [Thread -> Ctl]
  BY DEF Lib
<1>2. f \in [Thread -> Ctl] /\ f[u] = c /\ \A s \in Thread : s # u => f[s] = lib.ctl[s]
  BY <1>1
<1>3. lib' = [lib EXCEPT !.ctl = f, !.ready2reap = n]
  OBVIOUS
<1> HIDE DEF f
<1>4. lib'.ctl = f /\ lib' \in Lib /\ lib'.table = lib.table /\ lib'.memory = lib.memory
  BY <1>2, <1>3 DEF Lib
<1> QED
  BY <1>2, <1>4

LEMMA PendKeeps ==
    ASSUME ThreadIInv, NEW t \in Thread, JoinPend(t)
    PROVE  ThreadIInv'
<1> ThreadType /\ Started(t) /\ Valued(t) /\ Sought(t)
  BY DEF ThreadIInv
<1> DEFINE u == at[t].whom
           c == [lib.ctl[u] EXCEPT !.sem = @ - 1]
           next == IF lib.ctl[u].sem > 0 THEN "jloop" ELSE "jwait"
<1>1. /\ at[t].pc = "jpend" /\ turn' \in Thread /\ lock' \in Guard
      /\ passed' = passed /\ Goto(t, next)
  BY DEF JoinPend, Runs, ThreadType
<1>2. next \in Place
  BY DEF Place, Unmarked, Joining
<1>3. t \in Joiners /\ u \in lib.memory /\ u \in Thread /\ lib.ctl[u].state \in {"RUNNING", "JOIN"}
  BY <1>1 DEF Sought, Joining, ThreadType, Lib
<1>4. lib \in Lib /\ lib.ctl[u] \in Ctl
  BY <1>3 DEF ThreadType, Lib
<1>5. SameBlocks
  <2>1. CASE lib' = lib
    BY <2>1, <1>4 DEF SameBlocks
  <2>2. CASE lib' = [lib EXCEPT !.ctl[u].sem = @ - 1]
    <3>1. c \in Ctl /\ c.id = lib.ctl[u].id /\ c.state = lib.ctl[u].state
            /\ c.retval = lib.ctl[u].retval
      BY <1>4 DEF Ctl
    <3>2. lib' = [lib EXCEPT !.ctl = [lib.ctl EXCEPT ![u] = c], !.ready2reap = lib.ready2reap]
      BY <2>2, <1>4 DEF Lib
    <3>3. lib.ready2reap \in Nat
      BY <1>4 DEF Lib
    <3> HIDE DEF c, u
    <3> QED
      BY <3>1, <3>2, <3>3, <1>3, <1>4, WithBlock DEF SameBlocks
  <2> QED
    BY <2>1, <2>2 DEF JoinPend
<1>6. /\ at' \in [Thread -> Whereabouts] /\ at'[t].pc = next /\ at'[t].whom = u
      /\ \A s \in Thread : s # t => at'[s] = at[s]
  BY <1>1, <1>2, Went
<1>7. Started(t)' /\ Valued(t)' /\ Sought(t)'
  BY <1>1, <1>3, <1>5, <1>6 DEF SameBlocks, Started, Valued, Sought, Unmarked, Joining, Detaching
<1> QED
  BY <1>1, <1>5, <1>6, <1>7, CountKeeps

LEMMA TallyKeeps ==
    ASSUME ThreadIInv, NEW t \in Thread, JoinCount(t)
    PROVE  ThreadIInv'
<1> ThreadType /\ Started(t) /\ Valued(t) /\ Sought(t)
  BY DEF ThreadIInv
<1>1. /\ at[t].pc = "jcount" /\ turn' \in Thread /\ lock' \in Guard
      /\ passed' = passed /\ Goto(t, "jlock2") /\ t \in Joiners
  BY DEF JoinCount, Runs, ThreadType, Sought, Joining
<1>2. "jlock2" \in Place
  BY DEF Place, Unmarked, Joining
<1>3. at[t].read \in Nat /\ lib \in Lib
  BY DEF ThreadType, Whereabouts
<1>4. at[t].read + 1 \in Nat
  BY <1>3
<1>5. SameBlocks
  BY <1>3, <1>4 DEF JoinCount, SameBlocks, Lib
<1>6. /\ at' \in [Thread -> Whereabouts] /\ at'[t].pc = "jlock2"
      /\ \A s \in Thread : s # t => at'[s] = at[s]
  BY <1>1, <1>2, Went
<1>7. Started(t)' /\ Valued(t)' /\ Sought(t)'
  BY <1>1, <1>5, <1>6 DEF SameBlocks, Started, Valued, Sought, Unmarked, Joining, Detaching
<1> QED
  BY <1>1, <1>5, <1>6, <1>7, CountKeeps

----------------------------------------------------------------------------
(* Steps that end a thread, or see to it that it is reaped.                *)

LEMMA ExitKeeps ==
    ASSUME ThreadIInv, NEW t \in Thread, NEW v \in Values, Exit(t, v)
    PROVE  ThreadIInv'
<1> ThreadType /\ Started(t) /\ TableOK(lib)
  BY DEF ThreadIInv
<1>1. /\ at[t].pc = "run" /\ turn' \in Thread /\ lock' \in Guard
      /\ lib' = lib /\ Goto(t, "elock") /\ passed' = [passed EXCEPT ![t] = v]
  BY DEF Exit, Runs, ThreadType
<1>2. "elock" \in Place /\ "run" \in Unmarked
  BY DEF Place, Unmarked
<1>3. /\ at' \in [Thread -> Whereabouts] /\ at'[t].pc = "elock"
      /\ \A s \in Thread : s # t => at'[s] = at[s]
  BY <1>1, <1>2, Went
<1>4. /\ passed' \in [Thread -> Values \cup {Null}] /\ passed'[t] = v
      /\ \A s \in Thread : s # t => passed'[s] = passed[s]
  BY <1>1 DEF ThreadType
<1>5. t \in lib.memory /\ lib.ctl[t].state \in {"RUNNING", "DETACHED"}
  BY <1>1, <1>2 DEF Started
<1>6. ThreadType' /\ TableOK(lib)'
  BY <1>1, <1>3, <1>4 DEF ThreadType, TableOK
<1>7. ASSUME NEW s \in Thread, s # t PROVE Started(s)' /\ Valued(s)' /\ Sought(s)'
  <2>1. Started(s) /\ Valued(s) /\ Sought(s) /\ at'[s] = at[s] /\ passed'[s] = passed[s]
    BY <1>3, <1>4, <1>7 DEF ThreadIInv
  <2>2. Started(s)' /\ Valued(s)'
    BY <2>1, <1>1 DEF Started, Valued
  <2>3. at[s].pc = "jcount" => passed'[at[s].whom] = passed[at[s].whom]
    BY <2>1, <1>4, <1>5 DEF Sought, ThreadType, Lib
  <2>4. Sought(s)'
    BY <2>1, <2>3, <1>1 DEF Sought
  <2> QED
    BY <2>2, <2>4
<1>8. Started(t)' /\ Valued(t)' /\ Sought(t)'
  BY <1>1, <1>3, <1>4, <1>5 DEF Started, Valued, Sought, Joining, Detaching
<1> QED
  BY <1>6, <1>7, <1>8 DEF ThreadIInv

LEMMA MarkKeeps ==
    ASSUME ThreadIInv, NEW t \in Thread, ExitMark(t)
    PROVE  ThreadIInv'
<1> ThreadType /\ Started(t) /\ Valued(t) /\ TableOK(lib)
  BY DEF ThreadIInv
<1> DEFINE st == IF lib.ctl[t].state = "DETACHED" THEN "EXITED" ELSE "JOIN"
           c  == [lib.ctl[t] EXCEPT !.retval = passed[t], !.state = st]
           n  == IF lib.ctl[t].state = "DETACHED" THEN lib.ready2reap + 1 ELSE lib.ready2reap
<1>1. /\ at[t].pc = "emark" /\ turn' \in Thread /\ lock' \in Guard
      /\ passed' = passed /\ Goto(t, "epost")
  BY DEF ExitMark, Runs, ThreadType
<1>2. "epost" \in Place /\ "emark" \in Unmarked
  BY DEF Place, Marked, Unmarked
<1>3. /\ at' \in [Thread -> Whereabouts] /\ at'[t].pc = "epost"
      /\ \A s \in Thread : s # t => at'[s] = at[s]
  BY <1>1, <1>2, Went
<1>4. /\ t \in lib.memory /\ lib.ctl[t].state \in {"RUNNING", "DETACHED"}
      /\ passed[t] \in Values /\ lib.ctl[t] \in Ctl /\ lib \in Lib /\ lib.ready2reap \in Nat
  BY <1>1, <1>2 DEF Started, Valued, ThreadType, Lib
<1>5. /\ c \in Ctl /\ c.id = lib.ctl[t].id /\ c.state = st /\ c.retval = passed[t] /\ n \in Nat
  <2>1. n \in Nat
    BY <1>4
  <2>2. st \in {"EXITED", "JOIN"}
    OBVIOUS
  <2> HIDE DEF st
  <2>3. c \in Ctl /\ c.id = lib.ctl[t].id /\ c.state = st /\ c.retval = passed[t]
    BY <1>4, <2>2 DEF Ctl
  <2> QED
    BY <2>1, <2>3
<1>6. lib' = [lib EXCEPT !.ctl = [lib.ctl EXCEPT ![t] = c], !.ready2reap = n]
  <2>1. lib' = [lib EXCEPT !.ctl[t].retval = passed[t], !.ctl[t].state = st, !.ready2reap = n]
    BY DEF ExitMark
  <2> QED
    BY <2>1, <1>4 DEF Lib, Ctl
<1> HIDE DEF c, n
<1>7. /\ lib' \in Lib /\ lib'.table = lib.table /\ lib'.memory = lib.memory
      /\ lib'.ctl[t] = c /\ \A s \in Thread : s # t => lib'.ctl[s] = lib.ctl[s]
  BY <1>4, <1>5, <1>6, WithBlock
<1>8. lib.memory \subseteq Thread /\ \A i \in Ids : lib.table[i] \in Thread \cup {Nobody}
  BY <1>4 DEF Lib
<1>9. ThreadType' /\ TableOK(lib)'
  <2>1. \A s \in Thread : lib'.ctl[s].id = lib.ctl[s].id
    BY <1>5, <1>7
  <2>2. TableOK(lib)'
    BY <2>1, <1>7, <1>8 DEF TableOK
  <2> QED
    BY <2>2, <1>1, <1>3, <1>7 DEF ThreadType
<1>10. ASSUME NEW s \in Thread, s # t PROVE Started(s)' /\ Valued(s)' /\ Sought(s)'
  <2>1. Started(s) /\ Valued(s) /\ Sought(s) /\ at'[s] = at[s] /\ lib'.ctl[s] = lib.ctl[s]
    BY <1>3, <1>7, <1>10 DEF ThreadIInv
  <2>2. Started(s)' /\ Valued(s)'
    BY <2>1, <1>1, <1>7 DEF Started, Valued
  <2>3. \A u \in Thread : /\ lib.ctl[u].state # "DETACHED" => lib'.ctl[u].state # "DETACHED"
                          /\ lib.ctl[u].state \in {"RUNNING", "JOIN"} =>
                                lib'.ctl[u].state \in {"RUNNING", "JOIN"}
                          /\ lib.ctl[u].state \in {"JOIN", "EXITED"} => lib'.ctl[u] = lib.ctl[u]
    BY <1>4, <1>5, <1>7
  <2>4. Sought(s)'
    BY <2>1, <2>3, <1>1, <1>7, <1>8 DEF Sought
  <2> QED
    BY <2>2, <2>4
<1>11. Started(t)' /\ Valued(t)' /\ Sought(t)'
  BY <1>1, <1>3, <1>4, <1>5, <1>7 DEF Started, Valued, Sought, Unmarked, Joining, Detaching
<1> QED
  BY <1>9, <1>10, <1>11 DEF ThreadIInv

----------------------------------------------------------------------------
(* Steps of the one thread that joins, detaches and creates.               *)

LEMMA OnlyUser ==
    ASSUME OneUser, ThreadIInv, NEW t \in Users
    PROVE  \A s \in Thread : s # t => at[s].pc \notin Joining \cup Detaching
  BY DEF OneUser, Users, ThreadIInv, Sought

(* Nothing is sought but by the user.                                      *)
LEMMA NotSeeking ==
    ASSUME NEW s \in Thread, at'[s].pc \notin Joining \cup Detaching
    PROVE  Sought(s)'
  BY DEF Sought, Joining, Detaching

LEMMA TakeKeeps ==
    ASSUME OneUser, ThreadIInv, NEW t \in Thread, JoinTake(t)
    PROVE  ThreadIInv'
<1> ThreadType /\ Started(t) /\ Valued(t) /\ Sought(t) /\ TableOK(lib)
  BY DEF ThreadIInv
<1> DEFINE u == at[t].whom
           c == [lib.ctl[u] EXCEPT !.state = "EXITED"]
           w == [at[t] EXCEPT !.pc = "jcount", !.read = lib.ready2reap, !.got = lib.ctl[u].retval]
<1>1. /\ at[t].pc = "jtake" /\ turn' \in Thread /\ lock' \in Guard
      /\ passed' = passed
  BY DEF JoinTake, Runs, ThreadType
<1>2. /\ t \in Joiners /\ u \in lib.memory /\ lib.ctl[u].state = "JOIN" /\ lib \in Lib
      /\ "jtake" \in Unmarked
  BY <1>1 DEF Sought, ThreadType, Joining, Unmarked
<1>3. u \in Thread /\ lib.ctl[u] \in Ctl /\ lib.ready2reap \in Nat
  BY <1>2 DEF Lib
<1>4. Started(u) /\ passed[u] \in Values /\ lib.ctl[u].retval = passed[u]
  BY <1>2, <1>3 DEF ThreadIInv, Valued
<1>5. at[u].pc \notin Unmarked /\ u # t
  BY <1>1, <1>2, <1>4 DEF Started
<1>6. c \in Ctl /\ c.id = lib.ctl[u].id /\ c.state = "EXITED"
  BY <1>3 DEF Ctl
<1>7. lib' = [lib EXCEPT !.ctl = [lib.ctl EXCEPT ![u] = c], !.ready2reap = lib.ready2reap]
  BY <1>2 DEF JoinTake, Lib
<1>8. at' = [at EXCEPT ![t] = w] /\ at[t] \in Whereabouts
  BY DEF JoinTake, ThreadType
<1>9. w \in Whereabouts /\ w.pc = "jcount" /\ w.whom = u /\ w.got = passed[u]
  BY <1>3, <1>4, <1>8 DEF Whereabouts, Place, Unmarked, Joining
<1> HIDE DEF c, w, u
<1>10. /\ lib' \in Lib /\ lib'.table = lib.table /\ lib'.memory = lib.memory
       /\ lib'.ctl[u] = c /\ \A s \in Thread : s # u => lib'.ctl[s] = lib.ctl[s]
  BY <1>2, <1>3, <1>6, <1>7, WithBlock
<1>11. /\ at' \in [Thread -> Whereabouts] /\ at'[t] = w
       /\ \A s \in Thread : s # t => at'[s] = at[s]
  BY <1>8, <1>9, Moved
<1>12. ThreadType' /\ TableOK(lib)'
  <2>1. \A s \in Thread : lib'.ctl[s].id = lib.ctl[s].id
    BY <1>6, <1>10
  <2>2. lib.memory \subseteq Thread /\ \A i \in Ids : lib.table[i] \in Thread \cup {Nobody}
    BY <1>2 DEF Lib
  <2>3. TableOK(lib)'
    BY <2>1, <2>2, <1>10 DEF TableOK
  <2> QED
    BY <2>3, <1>1, <1>10, <1>11 DEF ThreadType
<1>13. ASSUME NEW s \in Thread PROVE Started(s)' /\ Valued(s)'
  <2>1. Started(s) /\ Valued(s)
    BY DEF ThreadIInv
  <2>2. CASE s = u
    BY <2>1, <2>2, <1>1, <1>5, <1>6, <1>10, <1>11 DEF Started, Valued
  <2>3. CASE s = t
    BY <2>1, <2>3, <1>1, <1>2, <1>5, <1>9, <1>10, <1>11 DEF Started, Valued
  <2>4. CASE s \notin {t, u}
    BY <2>1, <2>4, <1>1, <1>10, <1>11 DEF Started, Valued
  <2> QED
    BY <2>2, <2>3, <2>4
<1>14. ASSUME NEW s \in Thread, s # t PROVE Sought(s)'
  <2>1. at'[s].pc \notin Joining \cup Detaching
    BY <1>2, <1>11, <1>14, OnlyUser DEF Users
  <2> QED
    BY <2>1, NotSeeking
<1>15. Sought(t)'
  BY <1>1, <1>2, <1>4, <1>6, <1>9, <1>10, <1>11 DEF Sought
<1> QED
  BY <1>12, <1>13, <1>14, <1>15 DEF ThreadIInv

(* Reaping forgets the values of those it reaps.                           *)
LEMMA ReapKeeps ==
    ASSUME OneUser, ThreadIInv, NEW t \in Thread, NEW pc \in Place, NEW next \in Place,
           <<pc, next>> \in {<<"jreap", "jlook">>, <<"jreap2", "run">>, <<"dreap", "run">>},
           JoinReap(t, pc, next)
    PROVE  ThreadIInv'
<1> ThreadType /\ Started(t) /\ Valued(t) /\ Sought(t) /\ TableOK(lib)
  BY DEF ThreadIInv
<1> DEFINE w == IF next = "run" THEN At("run") ELSE [at[t] EXCEPT !.pc = next]
<1>1. at[t].pc = pc /\ turn' \in Thread /\ lock' \in Guard /\ lib' = Reaped(lib)
  BY LockType DEF JoinReap
<1>2. lib \in Lib /\ t \in Joiners /\ pc \in Joining \cup Detaching
  BY <1>1 DEF ThreadType, Sought, Joining, Detaching
<1>3. /\ lib' \in Lib /\ TableOK(lib') /\ lib'.memory \subseteq lib.memory
      /\ \A s \in lib'.memory : lib'.ctl[s] = lib.ctl[s]
      /\ \A s \in lib.memory : lib.ctl[s].state # "EXITED" => s \in lib'.memory
      /\ \A i \in Ids : lib'.table[i] \in {Nobody, lib.table[i]}
  BY <1>1, <1>2, ReapedRight
<1>4. at[t] \in Whereabouts /\ at' = [at EXCEPT ![t] = w]
  BY DEF JoinReap, ThreadType
<1>5. w \in Whereabouts /\ w.pc = next /\ (next = "jlook" => w.read = at[t].read)
  BY <1>4, IdleType DEF Whereabouts
<1> HIDE DEF w
<1>6. /\ at' \in [Thread -> Whereabouts] /\ at'[t] = w
      /\ \A s \in Thread : s # t => at'[s] = at[s]
  BY <1>4, <1>5, Moved
<1>7. passed' = [s \in Thread |-> IF s \in lib'.memory THEN passed[s] ELSE Null]
  BY DEF JoinReap
<1>8. ThreadType' /\ TableOK(lib)'
  <2>1. passed' \in [Thread -> Values \cup {Null}]
    BY <1>7 DEF ThreadType
  <2>2. TableOK(lib)'
    BY <1>3 DEF TableOK
  <2> QED
    BY <2>1, <2>2, <1>1, <1>3, <1>6 DEF ThreadType
<1>9. ASSUME NEW s \in Thread PROVE Started(s)' /\ Valued(s)'
  <2>1. Started(s) /\ Valued(s)
    BY DEF ThreadIInv
  <2>2. at'[s].pc \in Unmarked => at[s].pc \in Unmarked
    BY <1>1, <1>2, <1>6 DEF Unmarked
  <2>3. at'[s].pc \in {"elock", "emark"} => at[s].pc = at'[s].pc
    BY <1>5, <1>6
  <2>4. Started(s)'
    BY <2>1, <2>2, <1>3 DEF Started
  <2>5. at'[s].pc \in {"elock", "emark"} => passed'[s] \in Values
    BY <2>1, <2>3, <2>4, <1>7 DEF Started, Valued, Unmarked
  <2>6. Valued(s)'
    BY <2>1, <2>5, <1>3, <1>7 DEF Valued
  <2> QED
    BY <2>4, <2>6
<1>10. ASSUME NEW s \in Thread, s # t PROVE Sought(s)'
  <2>1. at'[s].pc \notin Joining \cup Detaching
    BY <1>2, <1>6, <1>10, OnlyUser DEF Users
  <2> QED
    BY <2>1, NotSeeking
<1>11. Sought(t)'
  <2>1. CASE next = "run"
    BY <2>1, <1>5, <1>6, NotSeeking DEF Joining, Detaching
  <2>2. CASE next = "jlook"
    <3>1. pc = "jreap" /\ at[t].read \in Ids
      BY <2>2, <1>1 DEF Sought
    <3>2. ASSUME lib'.table[at[t].read] # Nobody
          PROVE  lib'.ctl[lib'.table[at[t].read]].state # "DETACHED"
      <4>1. lib'.table[at[t].read] = lib.table[at[t].read] /\ lib'.table[at[t].read] \in lib'.memory
        BY <3>1, <3>2, <1>3 DEF TableOK
      <4> QED
        BY <4>1, <3>1, <3>2, <1>1, <1>3 DEF Sought
    <3> QED
      BY <3>1, <3>2, <2>2, <1>2, <1>5, <1>6 DEF Sought
  <2> QED
    BY <2>1, <2>2
<1> QED
  BY <1>8, <1>9, <1>10, <1>11 DEF ThreadIInv

LEMMA DetachKeeps ==
    ASSUME OneUser, ThreadIInv, NEW t \in Thread, DetachMark(t)
    PROVE  ThreadIInv'
<1> ThreadType /\ Started(t) /\ Valued(t) /\ Sought(t) /\ TableOK(lib)
  BY DEF ThreadIInv
<1> DEFINE u == pthread_ctl_by_id(at[t].read)
           c == [lib.ctl[u] EXCEPT !.state = "DETACHED"]
           none == u = Nobody \/ lib.ctl[u].state = "DETACHED"
<1>1. /\ at[t].pc = "dlock" /\ turn' \in Thread /\ lock' \in Guard
      /\ passed' = passed
  BY LockType DEF DetachMark, Runs, ThreadType
<1>2. t \in Joiners /\ at[t].read \in Ids /\ lib \in Lib
  BY <1>1 DEF Sought, Detaching, ThreadType
<1>3. "dreap" \in Place /\ "dpost" \in Place /\ "dlock" \in Unmarked
  BY DEF Place, Unmarked, Detaching
<1>4. CASE none
  <2>1. Goto(t, "dreap") /\ lib' = lib
    BY <1>4 DEF DetachMark
  <2>2. /\ at' \in [Thread -> Whereabouts] /\ at'[t].pc = "dreap"
        /\ \A s \in Thread : s # t => at'[s] = at[s]
    BY <1>3, <2>1, Went
  <2>3. Started(t)' /\ Valued(t)' /\ Sought(t)'
    BY <1>1, <1>2, <1>3, <2>1, <2>2 DEF Started, Valued, Sought
  <2> QED
    BY <1>1, <2>1, <2>2, <2>3, QuietStep
<1>5. CASE ~none
  <2>1. u = lib.table[at[t].read] /\ u \in Thread /\ u \in lib.memory /\ lib.ctl[u] \in Ctl
    BY <1>2, <1>5 DEF pthread_ctl_by_id, TableOK, Lib
  <2>2. /\ lib' = [lib EXCEPT !.ctl[u].state = "DETACHED"]
        /\ at' = [at EXCEPT ![t] = [At("dpost") EXCEPT !.whom = u]]
    BY <1>5 DEF DetachMark
  <2> HIDE DEF u
  <2>3. c \in Ctl /\ c.id = lib.ctl[u].id /\ c.state = "DETACHED" /\ lib.ready2reap \in Nat
    BY <1>2, <2>1 DEF Ctl, Lib
  <2>4. lib' = [lib EXCEPT !.ctl = [lib.ctl EXCEPT ![u] = c], !.ready2reap = lib.ready2reap]
    BY <1>2, <2>2 DEF Lib
  <2> HIDE DEF c
  <2>5. /\ lib' \in Lib /\ lib'.table = lib.table /\ lib'.memory = lib.memory
        /\ lib'.ctl[u] = c /\ \A s \in Thread : s # u => lib'.ctl[s] = lib.ctl[s]
    BY <1>2, <2>1, <2>3, <2>4, WithBlock
  <2>6. /\ at' \in [Thread -> Whereabouts] /\ at'[t].pc = "dpost" /\ at'[t].whom = u
        /\ \A s \in Thread : s # t => at'[s] = at[s]
    <3>1. u \in Thread /\ "dpost" \in Place /\ at' = [at EXCEPT ![t] = [At("dpost") EXCEPT !.whom = u]]
      BY <1>3, <2>1, <2>2
    <3> QED
      BY <3>1, Chosen
  <2>7. ThreadType' /\ TableOK(lib)'
    <3>1. \A s \in Thread : lib'.ctl[s].id = lib.ctl[s].id
      BY <2>3, <2>5
    <3>2. lib.memory \subseteq Thread /\ \A i \in Ids : lib.table[i] \in Thread \cup {Nobody}
      BY <1>2 DEF Lib
    <3>3. TableOK(lib)'
      BY <3>1, <3>2, <2>5 DEF TableOK
    <3> QED
      BY <3>3, <1>1, <2>5, <2>6 DEF ThreadType
  <2>8. ASSUME NEW s \in Thread PROVE Started(s)' /\ Valued(s)'
    <3>1. Started(s) /\ Valued(s)
      BY DEF ThreadIInv
    <3>2. /\ at'[s].pc \in Unmarked => at[s].pc \in Unmarked
          /\ at'[s].pc \in {"elock", "emark"} => at[s].pc = at'[s].pc
      BY <1>1, <1>3, <2>6
    <3>3. CASE s = u
      BY <3>1, <3>2, <3>3, <1>1, <2>1, <2>3, <2>5 DEF Started, Valued
    <3>4. CASE s # u
      BY <3>1, <3>2, <3>4, <1>1, <2>5 DEF Started, Valued
    <3> QED
      BY <3>3, <3>4
  <2>9. ASSUME NEW s \in Thread, s # t PROVE Sought(s)'
    <3>1. at'[s].pc \notin Joining \cup Detaching
      BY <1>2, <2>6, <2>9, OnlyUser DEF Users
    <3> QED
      BY <3>1, NotSeeking
  <2>10. Sought(t)'
    BY <1>2, <2>1, <2>6 DEF Sought
  <2> QED
    BY <2>7, <2>8, <2>9, <2>10 DEF ThreadIInv
<1> QED
  BY <1>4, <1>5

LEMMA CreateKeeps ==
    ASSUME OneUser, ThreadIInv, NEW t \in Thread, NEW u \in Thread,
           NEW state \in {"RUNNING", "DETACHED"}, Create(t, u, state)
    PROVE  ThreadIInv'
<1> ThreadType /\ Started(t) /\ TableOK(lib)
  BY DEF ThreadIInv
<1>1. /\ at[t].pc = "run" /\ turn' \in Thread /\ lock' \in Guard
      /\ t \in Makers /\ u \notin lib.memory /\ at[u].pc = "gone" /\ lib \in Lib
  BY DEF Create, Runs, ThreadType
<1> DEFINE p == Reaped(lib)
<1>2. PICK i \in Ids : /\ lib.table[i] = Nobody
                       /\ lib' = [p EXCEPT !.table[i] = u, !.ctl[u] = NewCtl(i, state),
                                           !.memory = @ \cup {u}]
  BY DEF Create
<1>3. /\ p \in Lib /\ TableOK(p) /\ p.memory \subseteq lib.memory
      /\ \A s \in p.memory : p.ctl[s] = lib.ctl[s]
      /\ \A s \in lib.memory : lib.ctl[s].state # "EXITED" => s \in p.memory
      /\ \A j \in Ids : p.table[j] \in {Nobody, lib.table[j]}
  BY <1>1, ReapedRight
<1> HIDE DEF p
<1>4. NewCtl(i, state) \in Ctl /\ NewCtl(i, state).id = i /\ NewCtl(i, state).state = state
  BY PthreadAssumption DEF NewCtl, Ctl
<1>5. /\ lib' \in Lib /\ lib'.memory = p.memory \cup {u}
      /\ lib'.table = [p.table EXCEPT ![i] = u] /\ lib'.ctl = [p.ctl EXCEPT ![u] = NewCtl(i, state)]
  BY <1>2, <1>3, <1>4 DEF Lib
<1>6. /\ lib'.ctl[u] = NewCtl(i, state) /\ u \notin p.memory /\ u # Nobody
      /\ \A s \in p.memory : s \in Thread /\ s # u /\ lib'.ctl[s] = lib.ctl[s]
      /\ lib'.table[i] = u /\ \A j \in Ids : j # i => lib'.table[j] = p.table[j]
  BY <1>1, <1>3, <1>5, PthreadAssumption DEF Lib
<1>7. TableOK(lib')
  <2>1. \A j \in Ids : lib'.table[j] # Nobody =>
                         lib'.table[j] \in lib'.memory /\ lib'.ctl[lib'.table[j]].id = j
    <3> TAKE j \in Ids
    <3> HAVE lib'.table[j] # Nobody
    <3>1. CASE j = i
      BY <3>1, <1>4, <1>5, <1>6
    <3>2. CASE j # i
      BY <3>2, <1>3, <1>5, <1>6 DEF TableOK
    <3> QED
      BY <3>1, <3>2
  <2>2. \A s \in lib'.memory : lib'.ctl[s].id \in Ids /\ lib'.table[lib'.ctl[s].id] = s
    <3> TAKE s \in lib'.memory
    <3>1. CASE s = u
      BY <3>1, <1>4, <1>6
    <3>2. CASE s # u
      <4>1. s \in p.memory /\ lib'.ctl[s] = lib.ctl[s] /\ p.ctl[s] = lib.ctl[s] /\ s # Nobody
        BY <3>2, <1>3, <1>5, <1>6, PthreadAssumption
      <4>2. p.ctl[s].id \in Ids /\ p.table[p.ctl[s].id] = s
        BY <4>1, <1>3 DEF TableOK
      <4>3. p.ctl[s].id # i
        BY <4>1, <4>2, <1>2, <1>3
      <4> QED
        BY <4>1, <4>2, <4>3, <1>6
    <3> QED
      BY <3>1, <3>2
  <2> QED
    BY <2>1, <2>2 DEF TableOK
<1>8. /\ at' \in [Thread -> Whereabouts] /\ at'[u].pc = "run"
      /\ \A s \in Thread : s # u => at'[s] = at[s]
  <2>1. "run" \in Place
    BY DEF Place, Unmarked
  <2> QED
    BY <2>1, IdleType, Moved DEF Create
<1>9. /\ passed' \in [Thread -> Values \cup {Null}]
      /\ \A s \in Thread : s # u => passed'[s] = passed[s]
  BY DEF Create, ThreadType
<1>10. ThreadType' /\ TableOK(lib)'
  <2>1. TableOK(lib)'
    BY <1>7 DEF TableOK
  <2> QED
    BY <2>1, <1>1, <1>5, <1>8, <1>9 DEF ThreadType
<1>11. ASSUME NEW s \in Thread, s # u PROVE Started(s)' /\ Valued(s)'
  <2>1. Started(s) /\ Valued(s) /\ at'[s] = at[s] /\ passed'[s] = passed[s]
    BY <1>8, <1>9, <1>11 DEF ThreadIInv
  <2>2. Started(s)'
    BY <2>1, <1>3, <1>5, <1>6 DEF Started
  <2>3. Valued(s)'
    BY <2>1, <1>3, <1>5, <1>6, <1>11 DEF Valued
  <2> QED
    BY <2>2, <2>3
<1>12. Started(u)' /\ Valued(u)'
  BY <1>4, <1>5, <1>6, <1>8 DEF Started, Valued
<1>13. ASSUME NEW s \in Thread PROVE Sought(s)'
  <2>1. at[s].pc \notin Joining \cup Detaching
    BY <1>1, OnlyUser DEF Users, Joining, Detaching
  <2>2. at'[s].pc \notin Joining \cup Detaching
    BY <2>1, <1>8 DEF Joining, Detaching
  <2> QED
    BY <2>2, NotSeeking
<1> QED
  BY <1>10, <1>11, <1>12, <1>13 DEF ThreadIInv

(* A creation that is refused has reaped all the same.                     *)
LEMMA RefusedKeeps ==
    ASSUME OneUser, ThreadIInv, NEW t \in Thread, CreateRefused(t)
    PROVE  ThreadIInv'
<1> ThreadType /\ TableOK(lib)
  BY DEF ThreadIInv
<1>1. /\ at[t].pc = "run" /\ turn' \in Thread /\ lock' \in Guard
      /\ t \in Users /\ lib \in Lib /\ lib' = Reaped(lib) /\ at' = at
  BY DEF CreateRefused, Runs, ThreadType, Users
<1>2. /\ lib' \in Lib /\ TableOK(lib')
      /\ \A s \in lib'.memory : lib'.ctl[s] = lib.ctl[s] /\ s \in lib.memory
      /\ \A s \in lib.memory : lib.ctl[s].state # "EXITED" => s \in lib'.memory
  BY <1>1, ReapedRight
<1>3. passed' = [s \in Thread |-> IF s \in lib'.memory THEN passed[s] ELSE Null]
  BY DEF CreateRefused
<1>4. ThreadType' /\ TableOK(lib)'
  BY <1>1, <1>2, <1>3 DEF ThreadType, TableOK
<1>5. ASSUME NEW s \in Thread PROVE Started(s)' /\ Valued(s)'
  <2>1. Started(s) /\ Valued(s)
    BY DEF ThreadIInv
  <2>2. Started(s)'
    BY <2>1, <1>1, <1>2 DEF Started
  <2>3. at[s].pc \in {"elock", "emark"} => s \in lib'.memory
    BY <2>2, <1>1 DEF Started, Unmarked
  <2>4. Valued(s)'
    BY <2>1, <2>3, <1>1, <1>2, <1>3 DEF Valued
  <2> QED
    BY <2>2, <2>4
<1>6. ASSUME NEW s \in Thread PROVE Sought(s)'
  <2>1. at'[s].pc \notin Joining \cup Detaching
    BY <1>1, OnlyUser DEF Joining, Detaching
  <2> QED
    BY <2>1, NotSeeking
<1> QED
  BY <1>4, <1>5, <1>6 DEF ThreadIInv

----------------------------------------------------------------------------
(* The theorems.                                                           *)

LEMMA ThreadStarts == ThreadInit => ThreadIInv
<1> SUFFICES ASSUME ThreadInit PROVE ThreadIInv
  OBVIOUS
<1>1. Freed \in Ctl /\ NewCtl(0, "RUNNING") \in Ctl /\ NewCtl(0, "EXITED") \in Ctl
      /\ NewCtl(0, "RUNNING").id = 0 /\ NewCtl(0, "RUNNING").state = "RUNNING"
  BY DEF Freed, NewCtl, Ctl
<1>2. lib \in Lib
  BY <1>1, PthreadAssumption DEF ThreadInit, Lib
<1>3. at \in [Thread -> Whereabouts] /\ at[Main].pc = "run"
      /\ \A t \in Thread : t # Main => at[t].pc = "gone"
  <2>1. "run" \in Place
    BY DEF Place, Unmarked
  <2> QED
    BY <2>1, IdleType, PthreadAssumption DEF ThreadInit, Idle
<1>4. ThreadType
  BY <1>2, <1>3, PthreadAssumption DEF ThreadInit, ThreadType, Guard
<1>5. TableOK(lib)
  BY <1>1, PthreadAssumption DEF ThreadInit, TableOK
<1>6. ASSUME NEW t \in Thread PROVE Started(t) /\ Valued(t) /\ Sought(t)
  BY <1>1, <1>3, PthreadAssumption DEF ThreadInit, Started, Valued, Sought, Unmarked, Joining, Detaching
<1> QED
  BY <1>4, <1>5, <1>6 DEF ThreadIInv

LEMMA ThreadStep ==
    ASSUME OneUser, ThreadIInv, [ThreadNext]_threadVars
    PROVE  ThreadIInv'
<1>1. CASE UNCHANGED threadVars
  BY <1>1 DEF threadVars, ThreadIInv, ThreadType, TableOK, Started, Valued, Sought
<1>2. ASSUME NEW t \in Thread, Proceed(t) PROVE ThreadIInv'
  <2>1. {"jreap", "jreap2", "dreap", "jlook", "run"} \subseteq Place
    BY DEF Place, Unmarked, Joining, Detaching
  <2>2. CASE JoinReap(t, "jreap", "jlook") \/ JoinReap(t, "jreap2", "run")
                \/ JoinReap(t, "dreap", "run")
    BY <2>1, <2>2, ReapKeeps
  <2>3. CASE JoinLocked(t, "jlock", "jreap") \/ JoinLocked(t, "jlock2", "jreap2")
                \/ ExitLocked(t) \/ ExitUnlock(t)
    BY <2>3, GoingKeeps
  <2> QED
    BY <1>2, <2>2, <2>3, LockPendKeeps, MarkKeeps, ToldKeeps, DieKeeps, LookKeeps, LoopKeeps, PendKeeps,
       TakeKeeps, TallyKeeps, DetachKeeps DEF Proceed
<1>3. ASSUME NEW t \in Thread, Ends(t) \/ Calls(t) \/ Wake(t) PROVE ThreadIInv'
  BY <1>3, GoingKeeps, ExitKeeps, CreateKeeps, RefusedKeeps, AskedKeeps DEF Ends, Calls
<1> QED
  BY <1>1, <1>2, <1>3 DEF ThreadNext

(* Every reachable state of the threads satisfies ThreadIInv, if one       *)
(* thread creates, joins and detaches the others.                          *)
THEOREM ThreadInvariant == OneUser /\ ThreadSpec => []ThreadIInv
<1>1. OneUser => OneUser'
  BY DEF OneUser, Users
<1>2. OneUser /\ ThreadIInv /\ [ThreadNext]_threadVars => ThreadIInv'
  BY ThreadStep
<1> QED
  BY <1>1, <1>2, ThreadStarts, PTL DEF ThreadSpec

(* For any number of threads and values: a join that succeeds gets the     *)
(* value the thread passed to pthread_exit, and only after it did.         *)
THEOREM JoinAlwaysGetsValue == OneUser /\ ThreadSpec => []JoinGetsValue
<1>1. ThreadIInv => JoinGetsValue
  BY PthreadAssumption DEF ThreadIInv, Sought, JoinGetsValue
<1> QED
  BY <1>1, ThreadInvariant, PTL

----------------------------------------------------------------------------
(* Whom nobody outranks runs until it is gone.                             *)

LEMMA LentRank ==
    ASSUME OneUser, NoneAbove, NEW t \in Thread \ Users, NEW u \in Thread
    PROVE  Rank[t] <= Lent(u) /\ Lent(t) = Rank[t]
<1>1. \A v \in Thread : Rank[v] \in Nat /\ Rank[t] <= Rank[v]
  BY PthreadAssumption DEF NoneAbove
<1>2. Waiters \subseteq Thread
  BY DEF Waiters
<1>3. ASSUME NEW v \in Thread
      PROVE  LET S == { Rank[x] : x \in Waiters \cup {v} }
             IN  Min(S) \in S /\ (Rank[t] \in S => Min(S) = Rank[t])
  <2> DEFINE S == { Rank[x] : x \in Waiters \cup {v} }
  <2>1. \A y \in S : y \in Nat /\ Rank[t] <= y
    BY <1>1, <1>2
  <2>2. Rank[v] \in S
    OBVIOUS
  <2>3. \E x \in S : \A y \in S : x <= y
    <3>1. CASE Rank[t] \in S
      BY <2>1, <3>1
    <3>2. CASE Rank[t] \notin S
      <4>1. \A x \in Waiters \cup {v} : x \in Users
        <5> TAKE x \in Waiters \cup {v}
        <5>1. ASSUME x \in Thread \ Users PROVE Rank[x] = Rank[t]
          BY <5>1, <1>1, PthreadAssumption DEF NoneAbove
        <5> QED
          BY <5>1, <1>2, <3>2
      <4>2. \A x \in Waiters \cup {v} : x = v
        BY <4>1 DEF OneUser
      <4>3. S = {Rank[v]}
        BY <4>2
      <4> QED
        BY <4>3, <1>1
    <3> QED
      BY <3>1, <3>2
  <2> HIDE DEF S
  <2>4. Min(S) \in S /\ \A y \in S : Min(S) <= y
    BY <2>3 DEF Min
  <2>5. Rank[t] \in S => Min(S) = Rank[t]
    BY <2>1, <2>4, <1>1
  <2> QED
    BY <2>4, <2>5 DEF S
<1>4. Rank[t] <= Lent(u)
  <2>1. CASE u = lock.owner
    <3> DEFINE S == { Rank[x] : x \in Waiters \cup {u} }
    <3>1. Min(S) \in S
      BY <1>3
    <3>2. \A y \in S : Rank[t] <= y
      BY <1>1, <1>2
    <3> QED
      BY <2>1, <3>1, <3>2 DEF Lent
  <2>2. CASE u # lock.owner
    BY <2>2, <1>1 DEF Lent
  <2> QED
    BY <2>1, <2>2
<1>5. Lent(t) = Rank[t]
  <2>1. CASE t = lock.owner
    <3> DEFINE S == { Rank[x] : x \in Waiters \cup {t} }
    <3>1. Rank[t] \in S
      OBVIOUS
    <3>2. Min(S) = Rank[t]
      BY <1>3, <3>1
    <3> QED
      BY <2>1, <3>2 DEF Lent
  <2>2. CASE t # lock.owner
    BY <2>2 DEF Lent
  <2> QED
    BY <2>1, <2>2
<1> QED
  BY <1>4, <1>5

(* Who is in the pend list is in pthread_lock.                             *)
Queued == \A x \in Waiters : at[x].pc \in WantsLock

LEMMA MarkedRuns ==
    ASSUME OneUser, NoneAbove, ThreadType, Queued, DiesAtOnce,
           NEW t \in Thread \ Users, at[t].pc \in Marked,
           NEW s \in Thread, NEW pc, Runs(s, pc)
    PROVE  s = t
<1>1. CanRun(t)
  BY DEF CanRun, Queued, WantsLock, Marked
<1>2. \A u \in Thread : Lent(t) <= Lent(u)
  BY LentRank
<1>3. First(t)
  BY <1>1, <1>2 DEF First
<1>4. turn = t
  BY DEF DiesAtOnce
<1> QED
  BY <1>3, <1>4 DEF Runs, NoneAbove

(* What a step of thread s does to itself and to others.                   *)
StepOf(s) ==
    /\ \/ lib'.memory = lib.memory
       \/ s \in Users /\ at[s].pc \notin Marked /\ at'[s].pc \notin Marked
    /\ \A x \in Thread : x # s => \/ at'[x] = at[x]
                                  \/ at[x].pc \in {"gone", "jwait"} /\ at'[x].pc \in {"run", "jloop"}
    /\ at'[s].pc \in Marked => at[s].pc \in Marked \cup {"emark"}
    /\ \/ turn' = s /\ \E pc \in Place : Runs(s, pc)
       \/ turn' = turn /\ lib' = lib /\ at[s].pc = "nap" /\ at'[s].pc = "run"

LEMMA AllSteps ==
    ASSUME ThreadIInv, NEW s \in Thread, Proceed(s) \/ Ends(s) \/ Calls(s) \/ Wake(s)
    PROVE  StepOf(s)
<1> ThreadType /\ Sought(s)
  BY DEF ThreadIInv
<1>1. at \in [Thread -> Whereabouts] /\ lib \in Lib
  BY DEF ThreadType
<1>2. \A pc \in Place : Goto(s, pc) => /\ at'[s].pc = pc
                                       /\ \A x \in Thread : x # s => at'[x] = at[x]
  BY Went
<1>3. \A pc \in Place : Runs(s, pc) => turn' = s /\ at[s].pc = pc
  BY DEF Runs
<1>4. {"run", "nap", "elock", "emark", "epost", "eunlock", "edie", "jlock", "jreap", "jlook",
       "jloop", "jpend", "jwait", "jtake", "jcount", "jlock2", "jreap2", "dlock", "dpost",
       "dreap"} \subseteq Place
  BY DEF Place, Unmarked, Marked, Joining, Detaching
<1>5. CASE Wake(s)
  BY <1>2, <1>4, <1>5 DEF Wake, StepOf, Marked
<1>6. ASSUME NEW pc \in Place, NEW next \in Place, Runs(s, pc), Goto(s, next),
             lib'.memory = lib.memory, next \in Marked => pc \in Marked \cup {"emark"}
      PROVE  StepOf(s)
  <2>1. /\ at'[s].pc = next /\ at[s].pc = pc /\ turn' = s
        /\ \A x \in Thread : x # s => at'[x] = at[x]
    BY <1>2, <1>3, <1>6
  <2>2. \E q \in Place : Runs(s, q)
    BY <1>6
  <2>3. at'[s].pc \in Marked => at[s].pc \in Marked \cup {"emark"}
    BY <2>1, <1>6
  <2> QED
    BY <2>1, <2>2, <2>3, <1>6 DEF StepOf
<1>7. CASE Nap(s) \/ ExitLocked(s) \/ ExitMark(s) \/ ExitUnlock(s)
             \/ JoinLocked(s, "jlock", "jreap") \/ JoinLocked(s, "jlock2", "jreap2")
  <2>1. lib'.memory = lib.memory
    BY <1>1, <1>7 DEF Nap, ExitLocked, ExitMark, ExitUnlock, JoinLocked, Lib
  <2>2. {"nap", "elock", "jreap", "jreap2"} \cap Marked = {} /\ "emark" \notin Marked
          /\ {"epost", "eunlock"} \subseteq Marked
    BY DEF Marked
  <2> QED
    BY <1>4, <1>6, <1>7, <2>1, <2>2 DEF Nap, ExitLocked, ExitMark, ExitUnlock, JoinLocked
<1>8. CASE \E v \in Values : Exit(s, v)
  BY <1>4, <1>6, <1>8 DEF Exit, Marked
<1>9. CASE JoinLoop(s)
  BY <1>4, <1>6, <1>9 DEF JoinLoop, Marked
<1>10. CASE JoinPend(s) \/ JoinCount(s)
  <2>1. lib'.memory = lib.memory
    BY <1>1, <1>10 DEF JoinPend, JoinCount, Lib
  <2> QED
    BY <1>4, <1>6, <1>10, <2>1 DEF JoinPend, JoinCount, Marked
<1>11. ASSUME NEW pc \in Place, Runs(s, pc), NEW w, at' = [at EXCEPT ![s] = w],
              w.pc \notin Marked,
              lib'.memory = lib.memory \/ (s \in Users /\ pc \notin Marked)
       PROVE  StepOf(s)
  BY <1>1, <1>3, <1>11 DEF StepOf
<1>12. CASE ExitDie(s)
  <2>1. /\ Runs(s, "edie") /\ at' = [at EXCEPT ![s] = Idle] /\ lib'.memory = lib.memory
        /\ Idle.pc \notin Marked
    BY <1>12 DEF ExitDie, Idle, Marked
  <2> QED
    BY <1>4, <1>11, <2>1
<1>13. CASE \E i \in Ids : Join(s, i) \/ Detach(s, i)
  <2>1. PICK i \in Ids : Join(s, i) \/ Detach(s, i)
    BY <1>13
  <2>2. \A pc : [At(pc) EXCEPT !.read = i].pc = pc
    BY DEF At, Idle
  <2>3. PICK pc \in {"jlock", "dlock"} :
              at' = [at EXCEPT ![s] = [At(pc) EXCEPT !.read = i]]
    BY <2>1 DEF Join, Detach
  <2>4. Runs(s, "run") /\ lib'.memory = lib.memory
    BY <2>1 DEF Join, Detach
  <2>5. [At(pc) EXCEPT !.read = i].pc \notin Marked
    BY <2>2 DEF Marked
  <2> QED
    BY <1>4, <1>11, <2>3, <2>4, <2>5
<1>14. CASE JoinLook(s)
  <2>1. \A pc : At(pc).pc = pc /\ \A u : [At(pc) EXCEPT !.whom = u].pc = pc
    BY DEF At, Idle
  <2> DEFINE u == pthread_ctl_by_id(at[s].read)
             w == IF u \in {Nobody, s} \/ ~lib.ctl[u].joinable THEN At("run")
                  ELSE [At("jloop") EXCEPT !.whom = u]
  <2>2. Runs(s, "jlook") /\ lib'.memory = lib.memory /\ at' = [at EXCEPT ![s] = w]
    BY <1>14 DEF JoinLook
  <2>3. w.pc \notin Marked
    BY <2>1 DEF Marked
  <2> HIDE DEF w
  <2> QED
    BY <1>4, <1>11, <2>2, <2>3
<1>15. CASE JoinTake(s)
  <2> DEFINE w == [at[s] EXCEPT !.pc = "jcount", !.read = lib.ready2reap,
                                !.got = lib.ctl[at[s].whom].retval]
  <2>1. at' = [at EXCEPT ![s] = w] /\ lib'.memory = lib.memory
    BY <1>1, <1>15 DEF JoinTake, Lib
  <2>2. w.pc = "jcount"
    BY <1>1 DEF Whereabouts
  <2>3. w.pc \notin Marked /\ Runs(s, "jtake")
    BY <1>15, <2>2 DEF JoinTake, Marked
  <2> HIDE DEF w
  <2> QED
    BY <1>4, <1>11, <2>1, <2>3
<1>16. ASSUME NEW pc \in {"jreap", "jreap2", "dreap"}, NEW next \in {"jlook", "run"},
              JoinReap(s, pc, next)
       PROVE  StepOf(s)
  <2> DEFINE w == IF next = "run" THEN At("run") ELSE [at[s] EXCEPT !.pc = next]
  <2>1. at' = [at EXCEPT ![s] = w] /\ Runs(s, pc) /\ pc \in Place
    BY <1>1, <1>4, <1>16 DEF JoinReap
  <2>2. w.pc = next
    BY <1>1 DEF Whereabouts, At, Idle
  <2>3. s \in Users
    BY <2>1, <1>3 DEF Sought, Users, Joining, Detaching
  <2>4. pc \notin Marked /\ next \notin Marked
    BY DEF Marked
  <2> QED
    BY <1>11, <2>1, <2>2, <2>3, <2>4
<1>17. CASE DetachMark(s)
  <2>1. \A pc, u : [At(pc) EXCEPT !.whom = u].pc = pc
    BY DEF At, Idle
  <2>2. lib'.memory = lib.memory /\ Runs(s, "dlock")
    BY <1>1, <1>17 DEF DetachMark, Lib
  <2>3. CASE Goto(s, "dreap")
    BY <1>4, <1>6, <2>2, <2>3 DEF Marked
  <2>4. CASE ~Goto(s, "dreap")
    <3>1. PICK u : at' = [at EXCEPT ![s] = [At("dpost") EXCEPT !.whom = u]]
      BY <1>17, <2>4 DEF DetachMark
    <3> DEFINE w == [At("dpost") EXCEPT !.whom = u]
    <3>2. w.pc \notin Marked
      BY <2>1 DEF Marked
    <3>3. at' = [at EXCEPT ![s] = w]
      BY <3>1
    <3> HIDE DEF w
    <3> QED
      BY <1>4, <1>11, <2>2, <3>2, <3>3
  <2> QED
    BY <2>3, <2>4
<1>18. ASSUME NEW pc \in {"epost", "dpost"}, NEW next \in {"eunlock", "dreap"}, NEW u,
              Runs(s, pc), Posted(s, u, next), lib' = PostAll(lib, u),
              next = "eunlock" => pc = "epost"
       PROVE  StepOf(s)
  <2>1. lib'.memory = lib.memory
    BY <1>1, <1>18 DEF PostAll, Lib
  <2>2. pc \in Place /\ at[s].pc = pc /\ turn' = s
    BY <1>3, <1>4, <1>18
  <2>3. s \notin JoinersOf(u)
    BY <2>2 DEF JoinersOf
  <2>4. \A x \in Thread : at'[x] = IF x \in JoinersOf(u) /\ lib.ctl[u].sem >= 0
                                   THEN [at[x] EXCEPT !.pc = "jloop"]
                                   ELSE IF x = s THEN [at[x] EXCEPT !.pc = next] ELSE at[x]
    BY <1>18 DEF Posted
  <2>9. \A x \in JoinersOf(u) : [at[x] EXCEPT !.pc = "jloop"].pc = "jloop" /\ at[x].pc = "jwait"
    BY <1>1 DEF Whereabouts, JoinersOf
  <2>10. [at[s] EXCEPT !.pc = next].pc = next
    BY <1>1 DEF Whereabouts
  <2>5. /\ at'[s].pc = next
        /\ \A x \in Thread : x # s => \/ at'[x] = at[x]
                                      \/ at[x].pc = "jwait" /\ at'[x].pc = "jloop"
    BY <2>3, <2>4, <2>9, <2>10
  <2>6. next \in Marked => pc \in Marked
    BY <1>18 DEF Marked
  <2>7. \E q \in Place : Runs(s, q)
    BY <1>18, <2>2
  <2>8. at'[s].pc \in Marked => at[s].pc \in Marked
    BY <2>2, <2>5, <2>6
  <2> QED
    BY <2>1, <2>2, <2>5, <2>7, <2>8 DEF StepOf
<1>19. CASE ExitPost(s)
  BY <1>18, <1>19 DEF ExitPost
<1>20. CASE DetachPost(s)
  BY <1>18, <1>20 DEF DetachPost
<1>21. CASE \E u \in Thread, state \in {"RUNNING", "DETACHED"} : Create(s, u, state)
  <2>1. PICK u \in Thread : /\ s \in Makers /\ Runs(s, "run") /\ at[u].pc = "gone"
                            /\ at' = [at EXCEPT ![u] = At("run")]
    BY <1>21 DEF Create
  <2>2. turn' = s /\ at[s].pc = "run" /\ s # u /\ s \in Users
    BY <1>3, <1>4, <2>1 DEF Users
  <2>3. at'[s] = at[s] /\ at'[u].pc = "run" /\ \A x \in Thread : x # u => at'[x] = at[x]
    BY <1>1, <2>1, <2>2 DEF At, Idle
  <2> QED
    BY <1>4, <2>1, <2>2, <2>3 DEF StepOf, Marked
<1>23. CASE CreateRefused(s)
  <2>1. /\ s \in Users /\ Runs(s, "run") /\ at' = at /\ turn' = s /\ at[s].pc = "run"
    BY <1>3, <1>4, <1>23 DEF CreateRefused, Users
  <2> QED
    BY <1>4, <2>1 DEF StepOf, Marked
<1>24. CASE LockPend(s)
  <2>1. PICK pc \in WantsLock : Runs(s, pc)
    BY <1>24 DEF LockPend
  <2>2. pc \in Place /\ pc \notin Marked /\ at' = at /\ lib' = lib
    BY <1>4, <1>24 DEF LockPend, WantsLock, Marked
  <2>3. at[s].pc = pc /\ turn' = s
    BY <1>3, <2>1, <2>2
  <2> QED
    BY <2>1, <2>2, <2>3 DEF StepOf
<1>22. CASE Proceed(s)
  BY <1>7, <1>9, <1>10, <1>12, <1>14, <1>15, <1>16, <1>17, <1>19, <1>20, <1>22, <1>24
  DEF Proceed
<1> QED
  BY <1>5, <1>7, <1>8, <1>13, <1>21, <1>22, <1>23 DEF Ends, Calls

(* Nobody but who pends comes into the pend list.                          *)
LEMMA WaitersStep ==
    ASSUME ThreadType, NEW s \in Thread, Proceed(s) \/ Ends(s) \/ Calls(s) \/ Wake(s), ~LockPend(s)
    PROVE  Waiters' \subseteq Waiters
<1>1. lock' = lock => Waiters' = Waiters
  BY DEF Waiters
<1>2. Unlock \/ Lock(s) => Waiters' \subseteq Waiters
  BY LockType
<1>3. CASE Ends(s) \/ Calls(s) \/ Wake(s)
  BY <1>1, <1>3 DEF Ends, Calls, Wake, Nap, Exit, Create, CreateRefused, Join, Detach
<1>4. CASE Proceed(s)
  BY <1>1, <1>2, <1>4
  DEF Proceed, ExitLocked, ExitMark, ExitPost, ExitUnlock, ExitDie, JoinLocked, JoinReap,
      JoinLook, JoinLoop, JoinPend, JoinTake, JoinCount, DetachMark, DetachPost
<1> QED
  BY <1>3, <1>4

LEMMA QueuedStep ==
    ASSUME ThreadIInv, Queued, [ThreadNext]_threadVars PROVE Queued'
<1>1. CASE UNCHANGED threadVars
  BY <1>1 DEF threadVars, Queued, Waiters
<1>2. CASE ThreadNext
  <2>1. PICK s \in Thread : Proceed(s) \/ Ends(s) \/ Calls(s) \/ Wake(s)
    BY <1>2 DEF ThreadNext
  <2>2. StepOf(s) /\ ThreadType
    BY <2>1, AllSteps DEF ThreadIInv
  <2>3. Waiters' \subseteq Waiters \/ (Waiters' \subseteq Waiters \cup {s} /\ LockPend(s))
    BY <2>1, <2>2, WaitersStep, PendType
  <2>4. s \notin Waiters
    <3>1. (\E pc \in Place : Runs(s, pc)) \/ at[s].pc = "nap"
      BY <2>2 DEF StepOf
    <3> QED
      BY <3>1 DEF Runs, First, CanRun, Queued, WantsLock
  <2>5. LockPend(s) => at'[s].pc \in WantsLock
    BY DEF LockPend, Runs
  <2>6. ASSUME NEW x \in Waiters' PROVE at'[x].pc \in WantsLock
    <3>1. x \in Thread
      BY <2>6 DEF Waiters
    <3>2. CASE x = s
      BY <2>3, <2>4, <2>5, <2>6, <3>2
    <3>3. CASE x # s
      <4>1. x \in Waiters /\ at[x].pc \in WantsLock
        BY <2>3, <2>6, <3>3 DEF Queued
      <4> QED
        BY <2>2, <3>1, <3>3, <4>1 DEF StepOf, WantsLock
    <3> QED
      BY <3>2, <3>3
  <2> QED
    BY <2>6 DEF Queued
<1> QED
  BY <1>1, <1>2

LEMMA DiesStep ==
    ASSUME OneUser, NoneAbove, ThreadIInv, ThreadIInv', Queued, DiesAtOnce,
           [ThreadNext]_threadVars
    PROVE  DiesAtOnce'
<1> ThreadType
  BY DEF ThreadIInv
<1>1. CASE UNCHANGED threadVars
  BY <1>1 DEF threadVars, DiesAtOnce, Alive
<1>2. CASE ThreadNext
  <2>1. PICK s \in Thread : Proceed(s) \/ Ends(s) \/ Calls(s) \/ Wake(s)
    BY <1>2 DEF ThreadNext
  <2>2. StepOf(s)
    BY <2>1, AllSteps
  <2>3. \A x \in Thread : /\ at[x].pc \in Place /\ at'[x].pc \in Place
                          /\ Started(x) /\ Started(x)'
    BY DEF ThreadIInv, ThreadType, Whereabouts
  <2>4. \A x \in Thread : at[x].pc \in Marked \cup {"emark"} => x \in lib.memory
    BY DEF DiesAtOnce, Alive, Marked
  <2>5. ASSUME NEW x \in Thread, at'[x].pc \in Marked
        PROVE  at[x].pc \in Marked \/ (x = s /\ at[x].pc = "emark")
    <3>1. CASE x = s
      BY <2>2, <2>5, <3>1 DEF StepOf
    <3>2. CASE x # s
      BY <2>2, <2>5, <3>2 DEF StepOf, Marked
    <3> QED
      BY <3>1, <3>2
  <2>6. ASSUME NEW x \in Thread \ Users, at'[x].pc \in Marked PROVE turn' = x
    <3>1. CASE at[x].pc \in Marked
      <4>1. turn = x
        BY <3>1 DEF DiesAtOnce
      <4>2. CASE turn' = turn
        BY <4>1, <4>2
      <4>3. CASE turn' = s /\ \E pc \in Place : Runs(s, pc)
        BY <3>1, <4>3, MarkedRuns
      <4> QED
        BY <2>2, <4>2, <4>3 DEF StepOf
    <3>2. CASE x = s /\ at[x].pc = "emark"
      BY <2>2, <2>6, <3>2 DEF StepOf, Marked
    <3> QED
      BY <2>5, <2>6, <3>1, <3>2
  <2>7. ASSUME NEW x \in Thread, at'[x].pc # "gone" PROVE x \in lib'.memory
    <3>1. CASE at'[x].pc \in Unmarked
      BY <2>3, <3>1 DEF Started
    <3>2. CASE at'[x].pc \in Marked
      <4>1. x \in lib.memory
        BY <2>4, <2>5, <3>2
      <4>2. ASSUME lib'.memory # lib.memory PROVE FALSE
        <5>1. s \in Users /\ x # s /\ at'[x] = at[x] /\ at[x].pc \in Marked
          BY <2>2, <2>5, <3>2, <4>2 DEF StepOf, Marked
        <5>2. x \in Thread \ Users
          BY <5>1 DEF OneUser
        <5>3. \E pc \in Place : Runs(s, pc)
          BY <2>2, <4>2 DEF StepOf
        <5> QED
          BY <5>1, <5>2, <5>3, MarkedRuns
      <4> QED
        BY <4>1, <4>2
    <3> QED
      BY <2>3, <2>7, <3>1, <3>2 DEF Place
  <2> QED
    BY <2>6, <2>7 DEF DiesAtOnce, Alive
<1> QED
  BY <1>1, <1>2

LEMMA ThreadsDie ==
    OneUser /\ NoneAbove /\ ThreadSpec => [](ThreadIInv /\ Queued /\ DiesAtOnce)
<1>1. NoneAbove => NoneAbove'
  BY DEF NoneAbove, Users
<1>2. OneUser => OneUser'
  BY DEF OneUser, Users
<1>3. ThreadInit => DiesAtOnce
  BY PthreadAssumption DEF ThreadInit, DiesAtOnce, Alive, Marked, At, Idle
<1>4. OneUser /\ NoneAbove /\ ThreadIInv /\ ThreadIInv' /\ Queued /\ DiesAtOnce
        /\ [ThreadNext]_threadVars => DiesAtOnce'
  BY DiesStep
<1>5. ThreadInit => Queued
  BY DEF ThreadInit, Queued, Waiters
<1>6. ThreadIInv /\ Queued /\ [ThreadNext]_threadVars => Queued'
  BY QueuedStep
<1> QED
  BY <1>1, <1>2, <1>3, <1>4, <1>5, <1>6, ThreadInvariant, PTL DEF ThreadSpec

(* Without time slices, and with nobody above those that only exit, no     *)
(* thread is reaped alive.                                                 *)
THEOREM ReapedAlwaysDead == OneUser /\ NoneAbove /\ ThreadSpec => []ReapedIsDead
<1>1. DiesAtOnce => ReapedIsDead
  BY DEF DiesAtOnce, ReapedIsDead
<1> QED
  BY <1>1, ThreadsDie, PTL

(* Then every live thread has one entry in the table, and every entry is a *)
(* control block that is allocated.                                        *)
THEOREM TableAlwaysExact == OneUser /\ NoneAbove /\ ThreadSpec => []TableExact
<1>1. ThreadIInv /\ DiesAtOnce => TableExact
  BY DEF ThreadIInv, TableOK, DiesAtOnce, TableExact
<1> QED
  BY <1>1, ThreadsDie, PTL
=============================================================================
