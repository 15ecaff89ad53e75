----------------------------- MODULE TimeProofs -----------------------------
(***************************************************************************)
(* Time: tickless idling and software timers.  The invariants of the       *)
(* scheduler hold with both, the idle task never plans to sleep past a     *)
(* deadline, every sleeper keeps its time, and the list of timers stays    *)
(* exact whatever calls, callbacks and ticks come between the sections of  *)
(* a call.                                                                 *)
(***************************************************************************)
EXTENDS Tickless, TimerInv, TaskProofs

(* Rounding: products first, then quotients of opaque products.            *)

LEMMA ProductNat == ASSUME NEW a \in Nat, NEW b \in Nat PROVE a * b \in Nat
  OBVIOUS

LEMMA QuotientNat == ASSUME NEW p \in Nat, NEW m \in Nat \ {0} PROVE p \div m \in Nat
  OBVIOUS

LEMMA QuotientBelow ==
    ASSUME NEW p \in Nat, NEW m \in Nat \ {0}
    PROVE  m * (p \div m) <= p
  OBVIOUS

LEMMA QuotientBound ==
    ASSUME NEW p \in Nat, NEW n \in Nat, NEW m \in Nat \ {0}, p <= n * m
    PROVE  p \div m <= n
  OBVIOUS

LEMMA ProductMonotone ==
    ASSUME NEW a \in Nat, NEW b \in Nat, NEW c \in Nat, a <= b
    PROVE  c * a <= c * b
  OBVIOUS

NapType == nap \in [phase : {"awake", "asleep", "woken"}, timeSleep : Nat, slept : Nat]

(* The ticks the idle task sleeps for do not pass the first deadline.      *)
NoOversleep ==
    nap.phase # "awake" /\ knl.tick # << >> /\ knl.expires[Head(knl.tick)] # Forever
        => Ticks(nap.timeSleep) <= knl.expires[Head(knl.tick)]

NapInv == IInv /\ NapType /\ NoOversleep

----------------------------------------------------------------------------
(* The time the idle task chooses, and the ticks that are made up for.     *)

LEMMA TicksNat == ASSUME NEW ms \in Nat PROVE Ticks(ms) \in Nat
<1>1. TicksPerSec * ms \in Nat
  BY TicklessAssumption, ProductNat
<1> QED
  BY <1>1, TicklessAssumption, QuotientNat DEF Ticks

LEMMA SleepTime ==
    ASSUME TypeOK
    PROVE  /\ tickless_cpu_sleep_time_get(knl) \in Nat
           /\ knl.tick # << >> /\ knl.expires[Head(knl.tick)] # Forever
                 => Ticks(tickless_cpu_sleep_time_get(knl)) <= knl.expires[Head(knl.tick)]
<1> DEFINE next == knl_next_expires_get(knl)
           ms   == next * MsPerSec
           time == ms \div TicksPerSec
           s    == tickless_cpu_sleep_time_get(knl)
<1>1. /\ TicksPerSec \in Nat \ {0} /\ MsPerSec \in Nat \ {0} /\ MaxDelay \in Nat
      /\ TicksPerSec \in Nat /\ MsPerSec \in Nat
  BY TicklessAssumption
<1>2. next \in Nat
  <2>1. knl.tick \in Seq(Task) /\ knl.expires \in [Task -> Nat]
    BY DEF TypeOK, KernelType
  <2>2. Forever \in Nat
    BY TimeAssumption DEF Forever
  <2>3. knl.tick # << >> => Head(knl.tick) \in Task
    BY <2>1, HeadInList
  <2> QED
    BY <2>1, <2>2, <2>3 DEF knl_next_expires_get
<1>3. s = IF next = Forever \/ time > MaxDelay THEN MaxDelay ELSE time
  BY DEF tickless_cpu_sleep_time_get
<1>4. knl.tick # << >> => next = knl.expires[Head(knl.tick)]
  BY DEF knl_next_expires_get
<1> HIDE DEF next, s
<1>5. ms \in Nat
  BY <1>1, <1>2, ProductNat
<1> HIDE DEF ms
<1>6. time \in Nat /\ TicksPerSec * time <= ms
  BY <1>1, <1>5, QuotientNat, QuotientBelow
<1> HIDE DEF time
<1>7. s \in Nat /\ (next # Forever => s <= time)
  BY <1>1, <1>3, <1>6
<1>8. ASSUME next # Forever PROVE Ticks(s) <= next
  <2> DEFINE p == TicksPerSec * s
             q == TicksPerSec * time
  <2>1. p \in Nat /\ q \in Nat /\ p <= q
    BY <1>1, <1>6, <1>7, <1>8, ProductNat, ProductMonotone
  <2>2. p <= ms
    <3> HIDE DEF p
    <3>1. q <= ms
      BY <1>6
    <3> HIDE DEF q
    <3> QED
      BY <1>5, <2>1, <3>1
  <2>3. Ticks(s) = p \div MsPerSec
    BY DEF Ticks
  <2>4. p <= next * MsPerSec
    BY <2>2 DEF ms
  <2> HIDE DEF p
  <2> QED
    BY <1>1, <1>2, <2>1, <2>3, <2>4, QuotientBound
<1> QED
  BY <1>4, <1>7, <1>8 DEF s

----------------------------------------------------------------------------
(* The steps.                                                              *)

LEMMA NapFacts ==
    ASSUME NapType
    PROVE  /\ nap.timeSleep \in Nat /\ nap.slept \in Nat
           /\ nap.phase \in {"awake", "asleep", "woken"}
  BY DEF NapType

LEMMA SameKernel ==
    ASSUME IInv, UNCHANGED vars
    PROVE  IInv'
  BY DEF vars, IInv, Safe, Quiet, TypeOK, HighestRuns, Settled, Chosen, LockHolds,
         ChosenReady, ChosenOK, Decisive

LEMMA TicklessEnterStep == NapInv /\ TicklessEnter => NapInv'
<1> SUFFICES ASSUME NapInv, TicklessEnter PROVE NapInv'
  OBVIOUS
<1> DEFINE time == tickless_cpu_sleep_time_get(knl)
<1>1. /\ IInv' /\ knl' = knl
      /\ nap' = [phase |-> "asleep", timeSleep |-> time, slept |-> 0]
  BY SameKernel DEF NapInv, TicklessEnter, vars
<1>2. /\ time \in Nat
      /\ knl.tick # << >> /\ knl.expires[Head(knl.tick)] # Forever
            => Ticks(time) <= knl.expires[Head(knl.tick)]
  BY SleepTime DEF NapInv, IInv, Safe
<1> HIDE DEF time
<1> QED
  BY <1>1, <1>2 DEF NapInv, NapType, NoOversleep

LEMMA TimePassesStep == NapInv /\ TimePasses => NapInv'
<1> SUFFICES ASSUME NapInv, TimePasses PROVE NapInv'
  OBVIOUS
<1>1. /\ IInv' /\ knl' = knl /\ nap.phase = "asleep"
      /\ nap' = [nap EXCEPT !.slept = @ + 1]
  BY SameKernel DEF NapInv, TimePasses, vars
<1>2. NapType' /\ nap'.phase = nap.phase /\ nap'.timeSleep = nap.timeSleep
  BY <1>1, NapFacts DEF NapInv, NapType
<1> QED
  BY <1>1, <1>2 DEF NapInv, NoOversleep

LEMMA AlarmRingsStep == NapInv /\ AlarmRings => NapInv'
<1> SUFFICES ASSUME NapInv, AlarmRings PROVE NapInv'
  OBVIOUS
<1>1. IInv'
  BY NestStep DEF AlarmRings, NapInv, Handler, IInv, Kept
<1>2. /\ nap' = [nap EXCEPT !.phase = "woken"] /\ nap.phase = "asleep"
      /\ knl' = [knl EXCEPT !.irqNest = @ + 1]
  BY DEF AlarmRings
<1>3. NapType' /\ nap'.timeSleep = nap.timeSleep
  BY <1>2 DEF NapInv, NapType
<1>4. knl'.tick = knl.tick /\ knl'.expires = knl.expires
  BY <1>2 DEF NapInv, IInv, Safe, TypeOK, KernelType
<1> QED
  BY <1>1, <1>2, <1>3, <1>4 DEF NapInv, NoOversleep

LEMMA LeaveInterruptStep ==
    ASSUME NapInv, nap.phase = "woken", IrqLeave, nap' = nap
    PROVE  NapInv'
<1>1. IInv' /\ SameLists(knl, knl')
  BY IrqLeaveStep DEF NapInv, IInv, Kept
<1>2. knl'.tick = knl.tick /\ knl'.expires = knl.expires
  BY <1>1 DEF SameLists, SameTick
<1> QED
  BY <1>1, <1>2 DEF NapInv, NapType, NoOversleep

LEMMA TicklessLeaveStep == NapInv /\ TicklessLeave => NapInv'
<1> SUFFICES ASSUME NapInv, TicklessLeave PROVE NapInv'
  OBVIOUS
<1> DEFINE n == Ticks(nap.timeSleep)
           r == tick_update(knl, n)
<1>1. IInv /\ TaskRuns /\ ThenSched(r) /\ nap' = Awake
  BY DEF NapInv, TicklessLeave, Idling
<1>2. n \in Nat
  BY NapFacts, TicksNat DEF NapInv
<1> HIDE DEF n
<1>3. Sound(r) /\ SameFrame(knl, r) /\ ReadySet(knl) \subseteq ReadySet(r)
  BY <1>1, <1>2, TickSound DEF IInv, Safe
<1> HIDE DEF r
<1>4. /\ SameCpu(knl, r) /\ (Unowned(knl) => Unowned(r))
      /\ knl.schedLock > 0 => knl.curr \in ReadySet(r)
  BY <1>1, <1>3, SameControlCpu DEF IInv, Safe, LockHolds
<1>5. IInv'
  BY <1>1, <1>3, <1>4, SchedStep DEF IInv, Kept
<1> QED
  BY <1>1, <1>5 DEF NapInv, NapType, NoOversleep, Awake

LEMMA NapNext == NapInv /\ [TicklessNext]_ticklessVars => NapInv'
<1> SUFFICES ASSUME NapInv, [TicklessNext]_ticklessVars PROVE NapInv'
  OBVIOUS
<1>1. CASE nap.phase = "awake" /\ Next /\ UNCHANGED nap
  BY <1>1, NextInv DEF NapInv, NapType, NoOversleep
<1>2. CASE nap.phase = "woken" /\ IrqLeave /\ UNCHANGED nap
  BY <1>2, LeaveInterruptStep
<1>3. CASE TicklessEnter \/ TimePasses \/ AlarmRings \/ TicklessLeave
  BY <1>3, TicklessEnterStep, TimePassesStep, AlarmRingsStep, TicklessLeaveStep
<1>4. CASE UNCHANGED ticklessVars
  BY <1>4, SameKernel DEF ticklessVars, vars, NapInv, NapType, NoOversleep
<1> QED
  BY <1>1, <1>2, <1>3, <1>4 DEF TicklessNext

(* The inductive invariant holds in every state of a kernel that idles     *)
(* without ticks.                                                          *)
THEOREM TicklessInvariant == TicklessSpec => []NapInv
<1>1. TicklessInit => NapInv
  BY InitInv DEF TicklessInit, NapInv, NapType, NoOversleep, Awake
<1> QED
  BY <1>1, NapNext, PTL DEF TicklessSpec

(* What the idle task makes up for when it wakes never exceeds the first   *)
(* distance in the delta list, so tick_update drops nothing.               *)
THEOREM NeverOversleeps == TicklessSpec => []NoOversleep
<1>1. NapInv => NoOversleep
  BY DEF NapInv
<1> QED
  BY <1>1, TicklessInvariant, PTL

(* Waking up several sleepers at once, from the idle task instead of an    *)
(* interrupt, leaves queues, bitmap, cached priority and delta list exact, *)
(* and the processor with the first of the best ready tasks.               *)
THEOREM TicklessKeepsScheduling ==
    TicklessSpec => [](TypeOK /\ ReadyQueueExact /\ TickListExact /\ HighestRuns /\ RunningIsReady)
<1>1. NapInv => TypeOK /\ ReadyQueueExact /\ TickListExact /\ HighestRuns /\ RunningIsReady
  BY SafeFacts DEF NapInv, IInv
<1> QED
  BY <1>1, TicklessInvariant, PTL

----------------------------------------------------------------------------
(* The list of the timers.  L are the timers in it; the entries in between *)
(* are numbered in ascending order, which is to say that following next    *)
(* pointers from any of them leads to the list head.                       *)

TimerState == {"UNUSED", "STOPPED", "RUNNING", "COMPLETED"}
Times      == 0 .. LongestDelay

TimerRec == [ next : 0 .. Never, nx : [Node -> Node], pv : [Node -> Node],
              state : [Timer -> TimerState], opt : [Timer -> TimerOpt],
              delay : [Timer -> Times], period : [Timer -> Times],
              expires : [Timer -> Times] ]

Ascends(w, L, rk) ==
    /\ rk \in [Timer -> Nat]
    /\ \A y \in L : w.nx[y] # ListHead => rk[y] < rk[w.nx[y]]

Ring(L) == L \cup {ListHead}

Chained(w, L) ==
    /\ L \subseteq Timer
    /\ \A n \in Ring(L) : /\ w.nx[n] \in Ring(L) /\ w.pv[w.nx[n]] = n
                          /\ w.pv[n] \in Ring(L) /\ w.nx[w.pv[n]] = n
    /\ \E rk : Ascends(w, L, rk)

(* What the list operations leave alone.                                   *)
SameTimers(w, r) ==
    /\ r.state = w.state /\ r.opt = w.opt /\ r.delay = w.delay /\ r.period = w.period

(* The pointers of w, replaced.                                            *)
SetLinks(w, nx, pv) == [w EXCEPT !.nx = nx, !.pv = pv]

LEMMA LinksReplaced ==
    ASSUME NEW w \in TimerRec, NEW nx \in [Node -> Node], NEW pv \in [Node -> Node]
    PROVE  LET r == SetLinks(w, nx, pv)
           IN  /\ r \in TimerRec /\ r.nx = nx /\ r.pv = pv
               /\ SameTimers(w, r) /\ r.expires = w.expires /\ r.next = w.next
  BY DEF SetLinks, TimerRec, SameTimers

LEMMA NodeFacts ==
    ASSUME NEW L, L \subseteq Timer
    PROVE  /\ ListHead \in Node /\ ListHead \notin L /\ ListHead \in Ring(L)
           /\ Ring(L) \subseteq Node /\ L \subseteq Node /\ L \subseteq Ring(L)
           /\ \A n \in Ring(L) : n # ListHead => n \in L
  BY TimerAssumption DEF Node, Ring

(* tos_list_del takes an entry out of the list.                            *)
LEMMA Unlinked ==
    ASSUME NEW w \in TimerRec, NEW L, Chained(w, L), NEW x \in L
    PROVE  LET r == list_del(w, x)
           IN  /\ r \in TimerRec /\ Chained(r, L \ {x}) /\ SameTimers(w, r)
               /\ r.expires = w.expires /\ r.next = w.next
               /\ r.nx[x] = w.nx[x] /\ r.nx[w.pv[x]] = w.nx[x]
               /\ \A n \in Ring(L) \ {x, w.pv[x]} : r.nx[n] = w.nx[n]
<1> DEFINE p  == w.pv[x]
           q  == w.nx[x]
           nx == [w.nx EXCEPT ![p] = q]
           pv == [w.pv EXCEPT ![q] = p]
           r  == list_del(w, x)
<1>1. L \subseteq Timer /\ x \in Node /\ x \in Ring(L) /\ x # ListHead
  BY NodeFacts DEF Chained
<1>2. /\ w.nx \in [Node -> Node] /\ w.pv \in [Node -> Node]
      /\ p \in Ring(L) /\ q \in Ring(L) /\ w.nx[p] = x /\ w.pv[q] = x
      /\ Ring(L) \subseteq Node
  BY <1>1, NodeFacts DEF Chained, TimerRec
<1>3. PICK rk : Ascends(w, L, rk)
  BY DEF Chained
<1>4. p # x /\ q # x
  <2>1. ASSUME q = x PROVE FALSE
    <3>1. rk[x] < rk[x] /\ rk[x] \in Nat
      BY <1>1, <1>3, <2>1 DEF Ascends
    <3> QED
      BY <3>1
  <2>2. p # x
    BY <1>2, <2>1
  <2> QED
    BY <2>1, <2>2
<1>5. r = SetLinks(w, nx, pv)
  BY <1>4 DEF list_del, SetLinks, TimerRec
<1>6. nx \in [Node -> Node] /\ pv \in [Node -> Node]
  BY <1>2
<1>7. /\ r \in TimerRec /\ r.nx = nx /\ r.pv = pv
      /\ SameTimers(w, r) /\ r.expires = w.expires /\ r.next = w.next
  <2> HIDE DEF nx, pv, r
  <2> QED
    BY <1>5, <1>6, LinksReplaced
<1>8. /\ r.nx[x] = q /\ r.nx[p] = q /\ r.pv[q] = p
      /\ \A n \in Ring(L) \ {x, p} : r.nx[n] = w.nx[n]
      /\ \A n \in Ring(L) \ {x, q} : r.pv[n] = w.pv[n]
  BY <1>1, <1>2, <1>4, <1>7
<1>9. Chained(r, L \ {x})
  <2> HIDE DEF r, p, q
  <2>0. L \ {x} \subseteq Timer
    BY <1>1
  <2>1. Ring(L \ {x}) = Ring(L) \ {x}
    BY <1>1 DEF Ring
  <2>2. ASSUME NEW n \in Ring(L) \ {x}
        PROVE  /\ r.nx[n] \in Ring(L) \ {x} /\ r.pv[r.nx[n]] = n
    <3>1. w.nx[n] \in Ring(L) /\ w.pv[w.nx[n]] = n
      BY DEF Chained
    <3>2. CASE n = p
      BY <1>2, <1>4, <1>8, <3>2
    <3>3. CASE n # p
      <4>1. r.nx[n] = w.nx[n] /\ w.nx[n] # x
        BY <1>8, <3>1, <3>3 DEF p
      <4>2. w.nx[n] # q
        BY <1>2, <2>2, <3>1
      <4> QED
        BY <1>8, <3>1, <4>1, <4>2
    <3> QED
      BY <3>2, <3>3
  <2>3. ASSUME NEW n \in Ring(L) \ {x}
        PROVE  /\ r.pv[n] \in Ring(L) \ {x} /\ r.nx[r.pv[n]] = n
    <3>1. w.pv[n] \in Ring(L) /\ w.nx[w.pv[n]] = n
      BY DEF Chained
    <3>2. CASE n = q
      BY <1>2, <1>4, <1>8, <3>2
    <3>3. CASE n # q
      <4>1. r.pv[n] = w.pv[n] /\ w.pv[n] # x
        BY <1>8, <3>1, <3>3 DEF q
      <4>2. w.pv[n] # p
        BY <1>2, <2>3, <3>1
      <4> QED
        BY <1>8, <3>1, <4>1, <4>2
    <3> QED
      BY <3>2, <3>3
  <2>4. Ascends(r, L \ {x}, rk)
    <3>1. ASSUME NEW y \in L \ {x}, r.nx[y] # ListHead PROVE rk[y] < rk[r.nx[y]]
      <4>0. y \in Ring(L) /\ y \in Timer
        BY <1>1, NodeFacts
      <4>1. CASE y = p
        <5>1. r.nx[y] = q /\ w.nx[y] = x
          BY <1>2, <1>8, <4>1
        <5>2. q \in L /\ q \in Timer /\ x \in Timer
          BY <1>1, <1>2, <3>1, <5>1, NodeFacts
        <5>3. rk[y] < rk[x] /\ rk[x] < rk[q]
          BY <1>1, <1>3, <3>1, <5>1 DEF Ascends, q
        <5> QED
          BY <1>3, <4>0, <5>1, <5>2, <5>3 DEF Ascends
      <4>2. CASE y # p
        BY <1>3, <1>8, <3>1, <4>0, <4>2 DEF Ascends
      <4> QED
        BY <4>1, <4>2
    <3> QED
      BY <1>3, <3>1 DEF Ascends
  <2>5. \A n \in Ring(L \ {x}) :
           /\ r.nx[n] \in Ring(L \ {x}) /\ r.pv[r.nx[n]] = n
           /\ r.pv[n] \in Ring(L \ {x}) /\ r.nx[r.pv[n]] = n
    BY <2>1, <2>2, <2>3
  <2> QED
    BY <2>0, <2>4, <2>5 DEF Chained
<1> QED
  BY <1>7, <1>8, <1>9 DEF r, p, q

(* tos_list_add_tail puts an entry in front of n.                          *)
LEMMA LinkedIn ==
    ASSUME NEW w \in TimerRec, NEW L, Chained(w, L), NEW x \in Timer \ L, NEW n \in Ring(L)
    PROVE  LET r == list_add_tail(w, x, n)
           IN  /\ r \in TimerRec /\ Chained(r, L \cup {x}) /\ SameTimers(w, r)
               /\ r.expires = w.expires /\ r.next = w.next
               /\ r.nx[x] = n /\ r.nx[w.pv[n]] = x
               /\ \A m \in Ring(L) \ {w.pv[n]} : r.nx[m] = w.nx[m]
<1> DEFINE p  == w.pv[n]
           nx == [[w.nx EXCEPT ![x] = n] EXCEPT ![p] = x]
           pv == [[w.pv EXCEPT ![n] = x] EXCEPT ![x] = p]
           r  == list_add_tail(w, x, n)
           M  == L \cup {x}
<1>1. /\ L \subseteq Timer /\ x \in Node /\ x \notin Ring(L) /\ x # ListHead
      /\ M \subseteq Timer
  BY NodeFacts, TimerAssumption DEF Chained, Ring, Node
<1>2. /\ w.nx \in [Node -> Node] /\ w.pv \in [Node -> Node]
      /\ p \in Ring(L) /\ n \in Ring(L) /\ w.nx[p] = n
      /\ Ring(L) \subseteq Node
  BY <1>1, NodeFacts DEF Chained, TimerRec
<1>3. PICK rk : Ascends(w, L, rk)
  BY DEF Chained
<1>4. p # x /\ n # x
  BY <1>1, <1>2
<1>5. r = SetLinks(w, nx, pv)
  BY DEF list_add_tail, SetLinks, TimerRec
<1>6. nx \in [Node -> Node] /\ pv \in [Node -> Node]
  BY <1>1, <1>2
<1>7. /\ r \in TimerRec /\ r.nx = nx /\ r.pv = pv
      /\ SameTimers(w, r) /\ r.expires = w.expires /\ r.next = w.next
  <2> HIDE DEF nx, pv, r
  <2> QED
    BY <1>5, <1>6, LinksReplaced
<1>8. /\ r.nx[x] = n /\ r.nx[p] = x /\ r.pv[n] = x /\ r.pv[x] = p
      /\ \A m \in Ring(L) \ {p} : r.nx[m] = w.nx[m]
      /\ \A m \in Ring(L) \ {n} : r.pv[m] = w.pv[m]
  BY <1>1, <1>2, <1>4, <1>7
<1>9. Chained(r, M)
  <2> DEFINE rank == IF n = ListHead
                     THEN [rk EXCEPT ![x] = IF p = ListHead THEN 0 ELSE rk[p] + 1]
                     ELSE [y \in Timer |-> IF y = x THEN rk[n]
                                           ELSE IF rk[y] >= rk[n] THEN rk[y] + 1 ELSE rk[y]]
  <2> HIDE DEF r, p
  <2>1. Ring(M) = Ring(L) \cup {x}
    BY DEF Ring
  <2>2. ASSUME NEW m \in Ring(M) PROVE r.nx[m] \in Ring(M) /\ r.pv[r.nx[m]] = m
    <3>1. CASE m = x
      BY <1>2, <1>8, <2>1, <3>1
    <3>2. CASE m = p
      BY <1>2, <1>8, <2>1, <3>2
    <3>3. CASE m # x /\ m # p
      <4>1. m \in Ring(L) /\ w.nx[m] \in Ring(L) /\ w.pv[w.nx[m]] = m
        BY <2>1, <3>3 DEF Chained
      <4>2. w.nx[m] # n
        BY <3>3, <4>1 DEF p
      <4> QED
        BY <1>8, <2>1, <3>3, <4>1, <4>2
    <3> QED
      BY <3>1, <3>2, <3>3
  <2>3. ASSUME NEW m \in Ring(M) PROVE r.pv[m] \in Ring(M) /\ r.nx[r.pv[m]] = m
    <3>1. CASE m = x
      BY <1>2, <1>8, <2>1, <3>1
    <3>2. CASE m = n
      BY <1>2, <1>8, <2>1, <3>2
    <3>3. CASE m # x /\ m # n
      <4>1. m \in Ring(L) /\ w.pv[m] \in Ring(L) /\ w.nx[w.pv[m]] = m
        BY <2>1, <3>3 DEF Chained
      <4>2. w.pv[m] # p
        BY <1>2, <3>3, <4>1
      <4> QED
        BY <1>8, <2>1, <3>3, <4>1, <4>2
    <3> QED
      BY <3>1, <3>2, <3>3
  <2>4. Ascends(r, M, rank)
    <3>0. /\ rk \in [Timer -> Nat] /\ (p # ListHead => p \in L) /\ (n # ListHead => n \in L)
          /\ \A y \in L : w.nx[y] # ListHead => rk[y] < rk[w.nx[y]] /\ w.nx[y] \in L
      <4>1. \A y \in L : w.nx[y] \in Ring(L)
        BY <1>1, NodeFacts DEF Chained
      <4> QED
        BY <1>1, <1>2, <1>3, <4>1, NodeFacts DEF Ascends
    <3>1. rank \in [Timer -> Nat]
      BY <1>1, <3>0
    <3>2. ASSUME NEW y \in M, r.nx[y] # ListHead PROVE rank[y] < rank[r.nx[y]]
      <4>1. CASE n = ListHead
        <5>1. y # x
          BY <1>8, <3>2, <4>1
        <5>2. y \in L /\ y \in Ring(L) /\ y \in Timer
          BY <1>1, <5>1, NodeFacts
        <5>3. CASE y = p
          <6>1. r.nx[y] = x /\ p # ListHead
            BY <1>1, <1>8, <5>2, <5>3, NodeFacts
          <6> QED
            BY <1>1, <3>0, <4>1, <5>1, <5>2, <5>3, <6>1
        <5>4. CASE y # p
          <6>1. r.nx[y] = w.nx[y] /\ w.nx[y] \in L /\ rk[y] < rk[w.nx[y]]
            BY <1>8, <3>0, <3>2, <5>2, <5>4
          <6>2. w.nx[y] # x
            BY <6>1
          <6> QED
            BY <1>1, <3>0, <4>1, <5>1, <5>2, <6>1, <6>2
        <5> QED
          BY <5>3, <5>4
      <4>2. CASE n # ListHead
        <5>0. n \in L /\ n \in Timer /\ n # x
          BY <1>1, <1>4, <3>0, <4>2
        <5>1. CASE y = x
          <6>1. r.nx[y] = n /\ rank[y] = rk[n] /\ rank[n] = rk[n] + 1
            BY <1>8, <3>0, <4>2, <5>0, <5>1
          <6> QED
            BY <3>0, <5>0, <6>1
        <5>2. CASE y # x /\ y = p
          <6>1. y \in L /\ y \in Timer /\ w.nx[y] = n
            BY <1>1, <1>2, <5>2
          <6>2. rk[y] < rk[n] /\ r.nx[y] = x
            BY <1>8, <3>0, <5>2, <6>1, <4>2
          <6>3. rank[y] = rk[y] /\ rank[x] = rk[n]
            BY <3>0, <4>2, <5>0, <5>2, <6>1, <6>2
          <6> QED
            BY <6>2, <6>3
        <5>3. CASE y # x /\ y # p
          <6>1. y \in L /\ y \in Timer /\ y \in Ring(L)
            BY <1>1, <5>3, NodeFacts
          <6>2. r.nx[y] = w.nx[y] /\ w.nx[y] \in L /\ rk[y] < rk[w.nx[y]]
            BY <1>8, <3>0, <3>2, <5>3, <6>1
          <6>3. w.nx[y] # x /\ w.nx[y] \in Timer
            BY <1>1, <6>2
          <6>4. /\ rank[y] = IF rk[y] >= rk[n] THEN rk[y] + 1 ELSE rk[y]
                /\ rank[w.nx[y]] = IF rk[w.nx[y]] >= rk[n] THEN rk[w.nx[y]] + 1
                                   ELSE rk[w.nx[y]]
            BY <4>2, <5>3, <6>1, <6>3
          <6>5. rk[y] \in Nat /\ rk[n] \in Nat /\ rk[w.nx[y]] \in Nat
            BY <3>0, <5>0, <6>1, <6>3
          <6> HIDE DEF rank
          <6> QED
            BY <6>2, <6>4, <6>5
        <5> QED
          BY <5>1, <5>2, <5>3
      <4> QED
        BY <4>1, <4>2
    <3> HIDE DEF rank
    <3> QED
      BY <3>1, <3>2 DEF Ascends
  <2> HIDE DEF rank
  <2> QED
    BY <1>1, <2>2, <2>3, <2>4 DEF Chained
<1> QED
  BY <1>7, <1>8, <1>9 DEF r, p, M

(* The entries met from the list head.                                     *)
LEMMA NodeAtIs ==
    ASSUME IsFiniteSet(Timer), NEW w
    PROVE  LET at == NodeAt(w)  c == Cardinality(Timer)
           IN  /\ c \in Nat /\ DOMAIN at = 0 .. c
               /\ at[0] = w.nx[ListHead]
               /\ \A i \in 1 .. c : at[i] = IF at[i - 1] = ListHead THEN ListHead
                                            ELSE w.nx[at[i - 1]]
<1> DEFINE c       == Cardinality(Timer)
           first   == w.nx[ListHead]
           e(x)    == IF x = ListHead THEN ListHead ELSE w.nx[x]
           Steps(m, g) == /\ g = [i \in 0 .. m |-> g[i]] /\ g[0] = first
                          /\ \A i \in 1 .. m : g[i] = e(g[i - 1])
           W       == {m \in Nat : \E g : Steps(m, g)}
<1>1. c \in Nat
  BY FS_CardinalityType
<1> HIDE DEF c, e, first
<1>2. 0 \in W
  <2>1. Steps(0, [i \in 0 .. 0 |-> first])
    OBVIOUS
  <2> HIDE DEF Steps
  <2> QED
    BY <2>1
<1>3. ASSUME NEW m \in W PROVE m + 1 \in W
  <2>1. m \in Nat
    OBVIOUS
  <2>2. PICK g : Steps(m, g)
    OBVIOUS
  <2> DEFINE h == [i \in 0 .. m + 1 |-> IF i = m + 1 THEN e(g[m]) ELSE g[i]]
  <2>3. h = [i \in 0 .. m + 1 |-> h[i]] /\ h[0] = first
    BY <2>1, <2>2
  <2>4. ASSUME NEW i \in 1 .. m + 1 PROVE h[i] = e(h[i - 1])
    <3>1. CASE i = m + 1
      <4>1. h[i] = e(g[m]) /\ h[i - 1] = g[m]
        BY <2>1, <3>1
      <4> QED
        BY <4>1
    <3>2. CASE i # m + 1
      <4>1. i \in 1 .. m /\ h[i] = g[i] /\ h[i - 1] = g[i - 1]
        BY <2>1, <3>2
      <4> QED
        BY <2>2, <4>1
    <3> QED
      BY <3>1, <3>2
  <2>5. Steps(m + 1, h)
    BY <2>3, <2>4
  <2> HIDE DEF h, Steps
  <2> QED
    BY <2>1, <2>5
<1>4. c \in W
  <2>1. W \in SUBSET Nat
    OBVIOUS
  <2> HIDE DEF W
  <2> QED
    BY <1>1, <1>2, <1>3, <2>1, NatInd
<1>5. PICK g : Steps(c, g)
  BY <1>4
<1> DEFINE Rec(f) == f = [i \in 0 .. c |-> IF i = 0 THEN first ELSE e(f[i - 1])]
<1>6. Rec(g)
  <2>1. ASSUME NEW i \in 0 .. c PROVE g[i] = IF i = 0 THEN first ELSE e(g[i - 1])
    <3>1. i = 0 \/ i \in 1 .. c
      BY <1>1
    <3> QED
      BY <1>5, <3>1
  <2> QED
    BY <1>5, <2>1
<1> DEFINE d == CHOOSE f : Rec(f)
<1>7. NodeAt(w) = d
  BY DEF NodeAt, e, c, first
<1>8. Rec(d)
  <2> HIDE DEF Rec
  <2> QED
    BY <1>6
<1> HIDE DEF d
<1>9. DOMAIN d = 0 .. c /\ d[0] = first /\ \A i \in 1 .. c : d[i] = e(d[i - 1])
  <2>1. 0 \in 0 .. c /\ \A i \in 1 .. c : i \in 0 .. c /\ i # 0
    BY <1>1
  <2> QED
    BY <1>8, <2>1
<1> QED
  BY <1>1, <1>7, <1>9 DEF e, c, first

(* The walk from the list head meets the timers of the list, and ends at   *)
(* the head again.                                                         *)
LEMMA MetInRing ==
    ASSUME IsFiniteSet(Timer), NEW w \in TimerRec, NEW L, Chained(w, L)
    PROVE  \A i \in 0 .. Cardinality(Timer) : NodeAt(w)[i] \in Ring(L)
<1> DEFINE at == NodeAt(w)
           c  == Cardinality(Timer)
           W  == {m \in Nat : m <= c => at[m] \in Ring(L)}
<1>1. /\ c \in Nat /\ at[0] = w.nx[ListHead]
      /\ \A i \in 1 .. c : at[i] = IF at[i - 1] = ListHead THEN ListHead ELSE w.nx[at[i - 1]]
  BY NodeAtIs
<1>2. ListHead \in Ring(L) /\ \A n \in Ring(L) : w.nx[n] \in Ring(L)
  BY NodeFacts DEF Chained
<1> HIDE DEF at, c
<1>3. 0 \in W
  BY <1>1, <1>2
<1>4. ASSUME NEW m \in W PROVE m + 1 \in W
  <2> SUFFICES ASSUME m + 1 <= c PROVE at[m + 1] \in Ring(L)
    OBVIOUS
  <2>1. at[m] \in Ring(L) /\ m + 1 \in 1 .. c /\ (m + 1) - 1 = m
    BY <1>1
  <2> QED
    BY <1>1, <1>2, <2>1
<1>5. \A m \in Nat : m \in W
  <2>1. W \in SUBSET Nat
    OBVIOUS
  <2> HIDE DEF W
  <2> QED
    BY <1>3, <1>4, <2>1, NatInd
<1> QED
  BY <1>1, <1>5 DEF at, c

LEMMA Climbs ==
    ASSUME IsFiniteSet(Timer), NEW w \in TimerRec, NEW L, Chained(w, L),
           NEW k \in 0 .. Cardinality(Timer), NodeAt(w)[k] # ListHead
    PROVE  k < Cardinality(Timer)
<1> DEFINE at == NodeAt(w)
           c  == Cardinality(Timer)
<1>1. /\ c \in Nat /\ k \in 0 .. c /\ DOMAIN at = 0 .. c
      /\ \A i \in 1 .. c : at[i] = IF at[i - 1] = ListHead THEN ListHead ELSE w.nx[at[i - 1]]
      /\ \A i \in 0 .. c : at[i] \in Ring(L)
      /\ at[k] # ListHead
  BY NodeAtIs, MetInRing
<1>2. PICK rk : Ascends(w, L, rk)
  BY DEF Chained
<1>3. L \subseteq Timer /\ rk \in [Timer -> Nat]
  BY <1>2 DEF Chained, Ascends
<1> HIDE DEF at
<1>4. ASSUME NEW i \in 0 .. k PROVE at[i] \in L
  <2> DEFINE V == {m \in Nat : m <= k => at[k - m] # ListHead}
  <2>1. 0 \in V
    BY <1>1
  <2>2. ASSUME NEW m \in V PROVE m + 1 \in V
    <3> SUFFICES ASSUME m + 1 <= k PROVE at[k - (m + 1)] # ListHead
      OBVIOUS
    <3>1. at[k - m] # ListHead /\ k - m \in 1 .. c /\ (k - m) - 1 = k - (m + 1)
      BY <1>1
    <3> QED
      BY <1>1, <3>1
  <2>3. k - i \in V
    <3>1. V \in SUBSET Nat /\ k - i \in Nat
      BY <1>1
    <3> HIDE DEF V
    <3> QED
      BY <2>1, <2>2, <3>1, NatInd
  <2>4. k - i \in Nat /\ k - i <= k /\ k - (k - i) = i
    BY <1>1
  <2>5. at[i] # ListHead
    BY <2>3, <2>4
  <2> QED
    BY <1>1, <1>3, <2>5, NodeFacts
<1>5. ASSUME NEW i \in 1 .. k PROVE rk[at[i - 1]] < rk[at[i]]
  <2>1. i - 1 \in 0 .. k /\ i \in 0 .. k /\ i \in 1 .. c
    BY <1>1
  <2>2. at[i - 1] \in L /\ at[i] \in L /\ at[i] = w.nx[at[i - 1]]
    BY <1>1, <1>3, <1>4, <2>1, NodeFacts
  <2>3. w.nx[at[i - 1]] # ListHead
    BY <1>3, <2>2, NodeFacts
  <2> QED
    BY <1>2, <2>2, <2>3 DEF Ascends
<1>6. ASSUME NEW i \in 0 .. k, NEW j \in 0 .. k, i < j PROVE rk[at[i]] < rk[at[j]]
  <2> DEFINE V == {m \in Nat : i + m + 1 <= k => rk[at[i]] < rk[at[i + m + 1]]}
  <2>0. \A n \in 0 .. k : rk[at[n]] \in Nat
    BY <1>3, <1>4
  <2>1. 0 \in V
    <3> SUFFICES ASSUME i + 1 <= k PROVE rk[at[i]] < rk[at[i + 1]]
      OBVIOUS
    <3>1. i + 1 \in 1 .. k /\ (i + 1) - 1 = i
      BY <1>1
    <3> QED
      BY <1>5, <3>1
  <2>2. ASSUME NEW m \in V PROVE m + 1 \in V
    <3> SUFFICES ASSUME i + (m + 1) + 1 <= k PROVE rk[at[i]] < rk[at[i + (m + 1) + 1]]
      OBVIOUS
    <3> DEFINE h == i + m + 1
    <3>1. /\ h \in 0 .. k /\ h + 1 \in 1 .. k /\ h + 1 \in 0 .. k
          /\ i + (m + 1) + 1 = h + 1 /\ (h + 1) - 1 = h
      BY <1>1
    <3>2. rk[at[i]] < rk[at[h]]
      BY <3>1
    <3> HIDE DEF h
    <3>3. rk[at[h]] < rk[at[h + 1]]
      BY <1>5, <3>1
    <3> QED
      BY <2>0, <3>1, <3>2, <3>3
  <2>3. j - i - 1 \in V
    <3>1. V \in SUBSET Nat /\ j - i - 1 \in Nat
      BY <1>1, <1>6
    <3> HIDE DEF V
    <3> QED
      BY <2>1, <2>2, <3>1, NatInd
  <2>4. i + (j - i - 1) + 1 = j /\ j - i - 1 \in Nat /\ j <= k
    BY <1>1, <1>6
  <2> QED
    BY <2>3, <2>4
<1>7. ASSUME NEW i \in 0 .. k, NEW j \in 0 .. k, at[i] = at[j] PROVE i = j
  <2>1. rk[at[i]] \in Nat /\ rk[at[j]] \in Nat
    BY <1>3, <1>4
  <2>2. ~(i < j) /\ ~(j < i)
    BY <1>6, <1>7, <2>1
  <2> QED
    BY <2>2
<1>8. ASSUME k >= c PROVE FALSE
  <2> DEFINE f == [i \in 0 .. k |-> at[i]]
  <2>1. f \in [0 .. k -> Timer]
    BY <1>3, <1>4
  <2>2. IsFiniteSet(0 .. k) /\ Cardinality(0 .. k) = k + 1
    <3>1. 0 \in Int /\ k \in Int /\ 0 <= k
      BY <1>1
    <3>2. IsFiniteSet(0 .. k)
          /\ Cardinality(0 .. k) = IF 0 > k THEN 0 ELSE k - 0 + 1
      BY <3>1, FS_Interval
    <3> QED
      BY <3>1, <3>2
  <2>3. Cardinality(Timer) < Cardinality(0 .. k)
    BY <1>1, <1>8, <2>2
  <2>4. \E x, y \in 0 .. k : x # y /\ f[x] = f[y]
    <3> HIDE DEF f
    <3> QED
      BY <2>1, <2>2, <2>3, FS_PigeonHole
  <2> QED
    BY <1>7, <2>4
<1> QED
  BY <1>1, <1>8

LEMMA ListedIs ==
    ASSUME IsFiniteSet(Timer), NEW w \in TimerRec, NEW L, Chained(w, L)
    PROVE  Listed(w) = L /\ NodeAt(w)[Cardinality(Timer)] = ListHead
<1> DEFINE at == NodeAt(w)
           c  == Cardinality(Timer)
<1>1. /\ c \in Nat /\ at[0] = w.nx[ListHead]
      /\ \A i \in 1 .. c : at[i] = IF at[i - 1] = ListHead THEN ListHead ELSE w.nx[at[i - 1]]
      /\ \A i \in 0 .. c : at[i] \in Ring(L)
      /\ \A i \in 0 .. c : at[i] # ListHead => i < c
  BY NodeAtIs, MetInRing, Climbs
<1>2. at[c] = ListHead
  BY <1>1
<1>3. PICK rk : Ascends(w, L, rk)
  BY DEF Chained
<1>4. L \subseteq Timer /\ rk \in [Timer -> Nat] /\ ListHead \notin L
  BY <1>3, NodeFacts DEF Chained, Ascends
<1>0. Listed(w) = { at[i - 1] : i \in 1 .. c } \ {ListHead}
  BY DEF Listed, ToSet
<1> HIDE DEF at, c
<1>5. ASSUME NEW x \in L PROVE \E i \in 0 .. c - 1 : at[i] = x
  <2> DEFINE V == {m \in Nat : \A y \in L : rk[y] <= m => \E i \in 0 .. c - 1 : at[i] = y}
  <2>1. ASSUME NEW y \in L,
               \A z \in L : rk[z] < rk[y] => \E i \in 0 .. c - 1 : at[i] = z
        PROVE  \E i \in 0 .. c - 1 : at[i] = y
    <3>1. w.pv[y] \in Ring(L) /\ w.nx[w.pv[y]] = y /\ y # ListHead
      BY <1>4, NodeFacts DEF Chained
    <3>2. CASE w.pv[y] = ListHead
      <4>1. at[0] = y /\ 0 < c
        BY <1>1, <3>1, <3>2
      <4> QED
        BY <1>1, <4>1
    <3>3. CASE w.pv[y] # ListHead
      <4>1. w.pv[y] \in L /\ rk[w.pv[y]] < rk[y]
        BY <1>3, <1>4, <3>1, <3>3, NodeFacts DEF Ascends
      <4>2. PICK i \in 0 .. c - 1 : at[i] = w.pv[y]
        BY <2>1, <4>1
      <4>3. i + 1 \in 1 .. c /\ (i + 1) - 1 = i /\ i + 1 \in 0 .. c
        BY <1>1
      <4>4. at[i + 1] = y
        BY <1>1, <3>1, <3>3, <4>2, <4>3
      <4>5. i + 1 < c
        BY <1>1, <3>1, <4>3, <4>4
      <4> QED
        BY <1>1, <4>3, <4>4, <4>5
    <3> QED
      BY <3>2, <3>3
  <2>0. \A y \in L : rk[y] \in Nat
    BY <1>4
  <2>2. 0 \in V
    <3>1. ASSUME NEW y \in L, rk[y] <= 0 PROVE \E i \in 0 .. c - 1 : at[i] = y
      <4>1. \A z \in L : ~(rk[z] < rk[y])
        BY <2>0, <3>1
      <4> QED
        BY <2>1, <4>1
    <3> QED
      BY <3>1
  <2>3. ASSUME NEW m \in V PROVE m + 1 \in V
    <3>1. ASSUME NEW y \in L, rk[y] <= m + 1 PROVE \E i \in 0 .. c - 1 : at[i] = y
      <4>1. ASSUME NEW z \in L, rk[z] < rk[y] PROVE \E i \in 0 .. c - 1 : at[i] = z
        <5>1. rk[z] <= m
          BY <2>0, <3>1, <4>1
        <5> QED
          BY <2>3, <5>1
      <4> QED
        BY <2>1, <4>1
    <3> QED
      BY <3>1
  <2>4. rk[x] \in V
    <3>1. V \in SUBSET Nat /\ rk[x] \in Nat
      BY <2>0
    <3> HIDE DEF V
    <3> QED
      BY <2>2, <2>3, <3>1, NatInd
  <2> QED
    BY <2>0, <2>4
<1>6. L \subseteq Listed(w)
  <2>1. ASSUME NEW x \in L PROVE x \in Listed(w)
    <3>1. PICK i \in 0 .. c - 1 : at[i] = x
      BY <1>5
    <3>2. i + 1 \in 1 .. c /\ (i + 1) - 1 = i /\ x # ListHead
      BY <1>1, <1>4
    <3> QED
      BY <1>0, <3>1, <3>2
  <2> QED
    BY <2>1
<1>7. Listed(w) \subseteq L
  <2>1. ASSUME NEW i \in 1 .. c, at[i - 1] # ListHead PROVE at[i - 1] \in L
    <3>1. i - 1 \in 0 .. c
      BY <1>1
    <3> QED
      BY <1>1, <1>4, <2>1, <3>1, NodeFacts
  <2> QED
    BY <1>0, <2>1
<1> QED
  BY <1>2, <1>6, <1>7 DEF at, c

(* The first timer of the list is due when next_expires says, the others   *)
(* not before their predecessors.                                          *)
InOrder(w, L) ==
    \A x \in L : w.nx[x] # ListHead => w.expires[x] <= w.expires[w.nx[x]]
NextDue(w, L) == L # {} => w.next = w.expires[w.nx[ListHead]]
ListOK(w, L)  == w \in TimerRec /\ Chained(w, L) /\ InOrder(w, L) /\ NextDue(w, L)

Inside  == {"look", "place", "cb", "next"}
Outside == {"top", "wait", "lock"}
WalkRec == [at : Inside \cup Outside, cur : Node, tmp : Node, wait : 0 .. Never, slip : Nat]

(* The timer the walk has in hand, and those calls have in hand.           *)
Placing(wk)    == IF wk.at = "place" THEN {wk.cur} ELSE {}
Pending(cl, x) == \E t \in Task : cl[t].timer = x

(* The calls under way, and what is left of them.  on: the timers in the   *)
(* list, and the one the walk is about to put back.                        *)
Remains == {<<"place">>, <<"reload", "place">>, <<"takeoff">>,
            <<"takeoff", "reset">>, <<"reset">>}
CallRec == [timer : Timer, todo : Remains]

CallFits(c, on, w) ==
    LET x == c.timer
    IN  /\ c.todo \in {<<"place">>, <<"reset">>} <=> x \notin on
        /\ c.todo = <<"takeoff">> => w.state[x] = "STOPPED"
        /\ c.todo = <<"reset">> => w.state[x] # "UNUSED"
        /\ c.todo \notin {<<"takeoff">>, <<"reset">>} => w.state[x] = "RUNNING"
        /\ c.todo # <<"place">> => Taken(x)

CallsOK(cl, w, on) ==
    /\ cl \in [Task -> {NoCall} \cup CallRec]
    /\ cl[Idle] = NoCall /\ cl[TimerTask] = NoCall
    /\ \A t \in Task : cl[t] # NoCall => CallFits(cl[t], on, w)
    /\ \A t, u \in Task : cl[t] # NoCall /\ cl[u].timer = cl[t].timer => t = u

(* What the state of a timer says.                                         *)
StatesOK(cl, w, on) ==
    \A x \in Timer :
        /\ x \in on => w.state[x] \in {"RUNNING", "STOPPED"}
        /\ Pending(cl, x) \/ (x \in on <=> w.state[x] = "RUNNING")
        /\ Taken(x) /\ w.state[x] # "UNUSED" => w.opt[x] = "PERIODIC"

(* Where the walk is.                                                      *)
WalkOK(wk, w, L) ==
    /\ wk \in WalkRec
    /\ wk.at = "look"  => wk.cur \in Ring(L) /\ wk.tmp = w.nx[wk.cur]
    /\ wk.at = "place" => wk.cur \in Timer \ L /\ w.opt[wk.cur] = "PERIODIC"
    /\ wk.at = "cb" => /\ wk.cur \in Timer /\ wk.tmp # wk.cur
                       /\ IF w.opt[wk.cur] = "PERIODIC" THEN wk.cur \in L
                          ELSE wk.cur \notin L /\ w.state[wk.cur] = "COMPLETED"
    /\ wk.at \in {"place", "cb", "next"} => wk.tmp \in Ring(L)

Fits(w, cl, wk, L) ==
    /\ ListOK(w, L) /\ WalkOK(wk, w, L)
    /\ CallsOK(cl, w, L \cup Placing(wk)) /\ StatesOK(cl, w, L \cup Placing(wk))

(* The walk runs in the tick interrupt, or in the timer task under the     *)
(* scheduler lock.                                                         *)
Walking   == walk.at \in Inside
WalkAlone ==
    IF proc THEN (Walking => isr # << >> /\ Head(isr) = "soft") /\ pc[TimerTask] = "none"
    ELSE /\ Walking => knl.curr = TimerTask /\ knl.schedLock = 1
         /\ knl.schedLock > 0 /\ knl.curr = TimerTask => Walking

TInv == Fits(tim, call, walk, Listed(tim))

(* No task waits for an object here, and no destroyed task is left         *)
(* suspended.                                                              *)
Calm(k)     == \A t \in Task : ~IsPending(k, t)
DeadRest(k) == \A t \in Task \ k.obj : ~IsSuspended(k, t)

KInv == IInv /\ WalkAlone /\ Calm(knl) /\ DeadRest(knl)

(* Where timer_place puts a timer: behind those due no later, in front of  *)
(* the first that is due later.                                            *)
SetNext(w, v) == [w EXCEPT !.next = v]

LEMMA NextReplaced ==
    ASSUME NEW w \in TimerRec, NEW v \in 0 .. Never
    PROVE  LET r == SetNext(w, v)
           IN  /\ r \in TimerRec /\ r.next = v /\ SameTimers(w, r)
               /\ r.nx = w.nx /\ r.pv = w.pv /\ r.expires = w.expires
  BY DEF SetNext, TimerRec, SameTimers

LEMMA TimesAre == Times \subseteq 0 .. Never /\ Times \subseteq Nat /\ Never \in Nat /\ 0 \in Times
  BY TimerAssumption DEF Times, Never

LEMMA PlaceWhere ==
    ASSUME IsFiniteSet(Timer), NEW w \in TimerRec, NEW L, Chained(w, L), NEW x \in Timer \ L
    PROVE  \E n \in Ring(L) :
              /\ timer_place(w, x) =
                    LET w1 == list_add_tail(w, x, n)
                    IN  SetNext(w1, IF w1.nx[ListHead] = x THEN w.expires[x] ELSE w1.next)
              /\ n # ListHead => w.expires[x] < w.expires[n]
              /\ w.pv[n] # ListHead => w.expires[w.pv[n]] <= w.expires[x]
<1> DEFINE at == NodeAt(w)
           c  == Cardinality(Timer)
           Before(j) == at[j] = ListHead \/ w.expires[x] < w.expires[at[j]]
           First(j) == Before(j) /\ \A h \in 0 .. j - 1 : ~Before(h)
           i  == CHOOSE j \in DOMAIN at : First(j)
           n  == at[i]
<1>1. /\ c \in Nat /\ DOMAIN at = 0 .. c /\ at[0] = w.nx[ListHead]
      /\ \A j \in 1 .. c : at[j] = IF at[j - 1] = ListHead THEN ListHead ELSE w.nx[at[j - 1]]
      /\ \A j \in 0 .. c : at[j] \in Ring(L)
      /\ at[c] = ListHead
  BY NodeAtIs, MetInRing, ListedIs
<1>2. timer_place(w, x) =
         LET w1 == list_add_tail(w, x, n)
         IN  SetNext(w1, IF w1.nx[ListHead] = x THEN w.expires[x] ELSE w1.next)
  BY DEF timer_place, SetNext
<1> HIDE DEF at, c
<1>3. \E j \in DOMAIN at : First(j)
  <2> DEFINE S == {j \in 0 .. c : Before(j)}
  <2>1. S \in SUBSET Nat /\ S # {}
    BY <1>1
  <2>2. PICK j \in S : \A h \in S : j <= h
    <3> HIDE DEF S
    <3>1. \E j \in S : \A h \in S : j <= h
      BY <2>1, ListMinLeast
    <3> QED
      BY <3>1
  <2>3. First(j)
    <3>1. j \in 0 .. c /\ Before(j)
      OBVIOUS
    <3>2. ASSUME NEW h \in 0 .. j - 1, Before(h) PROVE FALSE
      <4>1. h \in S /\ h < j
        BY <1>1, <3>1, <3>2
      <4> QED
        BY <2>2, <3>1, <4>1
    <3> QED
      BY <3>1, <3>2
  <2> QED
    BY <1>1, <2>3
<1>4. i \in 0 .. c /\ First(i)
  <2> HIDE DEF First
  <2> QED
    BY <1>1, <1>3
<1> HIDE DEF i
<1>5. n \in Ring(L) /\ (n # ListHead => w.expires[x] < w.expires[n])
  BY <1>1, <1>4
<1>6. w.pv[n] # ListHead => w.expires[w.pv[n]] <= w.expires[x]
  <2> SUFFICES ASSUME w.pv[n] # ListHead PROVE w.expires[w.pv[n]] <= w.expires[x]
    OBVIOUS
  <2>1. ListHead \in Ring(L) /\ w.pv[w.nx[ListHead]] = ListHead
    BY NodeFacts DEF Chained
  <2>2. i \in 1 .. c
    BY <1>1, <1>4, <2>1
  <2>3. i - 1 \in 0 .. c /\ i - 1 \in 0 .. i - 1
    BY <1>1, <2>2
  <2>4. ~Before(i - 1)
    BY <1>4, <2>3
  <2>5. at[i - 1] # ListHead /\ n = w.nx[at[i - 1]] /\ at[i - 1] \in Ring(L)
    BY <1>1, <2>2, <2>3, <2>4
  <2>6. w.pv[n] = at[i - 1]
    BY <2>5 DEF Chained
  <2>7. at[i - 1] \in Timer /\ x \in Timer
    BY <2>5, NodeFacts DEF Chained
  <2>8. w.expires[at[i - 1]] \in Nat /\ w.expires[x] \in Nat
    BY <2>7, TimesAre DEF TimerRec
  <2> QED
    BY <2>4, <2>6, <2>8
<1> HIDE DEF n
<1> QED
  BY <1>2, <1>5, <1>6

LEMMA Placed ==
    ASSUME IsFiniteSet(Timer), NEW w, NEW L, ListOK(w, L), NEW x \in Timer \ L
    PROVE  LET r == timer_place(w, x)
           IN  ListOK(r, L \cup {x}) /\ SameTimers(w, r) /\ r.expires = w.expires
<1> DEFINE r == timer_place(w, x)
<1>1. w \in TimerRec /\ Chained(w, L) /\ InOrder(w, L) /\ NextDue(w, L) /\ L \subseteq Timer
  BY DEF ListOK, Chained
<1>2. PICK n \in Ring(L) :
         /\ r = LET w1 == list_add_tail(w, x, n)
                IN  SetNext(w1, IF w1.nx[ListHead] = x THEN w.expires[x] ELSE w1.next)
         /\ n # ListHead => w.expires[x] < w.expires[n]
         /\ w.pv[n] # ListHead => w.expires[w.pv[n]] <= w.expires[x]
  BY <1>1, PlaceWhere
<1> HIDE DEF r
<1> DEFINE a == list_add_tail(w, x, n)
           v == IF a.nx[ListHead] = x THEN w.expires[x] ELSE a.next
           p == w.pv[n]
<1>3. /\ a \in TimerRec /\ Chained(a, L \cup {x}) /\ SameTimers(w, a)
      /\ a.expires = w.expires /\ a.next = w.next
      /\ a.nx[x] = n /\ a.nx[p] = x
      /\ \A m \in Ring(L) \ {p} : a.nx[m] = w.nx[m]
  <2>1. w \in TimerRec /\ Chained(w, L) /\ x \in Timer \ L /\ n \in Ring(L)
    BY <1>1
  <2> QED
    BY <2>1, LinkedIn
<1>4. r = SetNext(a, v)
  BY <1>2
<1> HIDE DEF a
<1>5. v \in 0 .. Never
  BY <1>1, <1>3, TimesAre DEF TimerRec
<1>6. /\ r \in TimerRec /\ r.next = v /\ SameTimers(a, r)
      /\ r.nx = a.nx /\ r.pv = a.pv /\ r.expires = a.expires
  <2> HIDE DEF v
  <2> QED
    BY <1>3, <1>4, <1>5, NextReplaced
<1>7. Chained(r, L \cup {x})
  BY <1>3, <1>6 DEF Chained, Ascends
<1>8. /\ p \in Ring(L) /\ ListHead \in Ring(L) /\ x # ListHead /\ x \notin Ring(L)
      /\ \A y \in L : y \in Ring(L) /\ y # ListHead /\ w.expires[y] \in Nat
      /\ w.expires[x] \in Nat /\ \A y \in Ring(L) : y # ListHead => y \in L
      /\ \A m \in Ring(L) : w.nx[m] \in Ring(L)
      /\ w.nx[p] = n
  <2>1. \A y \in Timer : w.expires[y] \in Nat
    BY <1>1, TimesAre DEF TimerRec
  <2> QED
    BY <1>1, <2>1, NodeFacts, TimerAssumption DEF Chained, Ring, Node
<1>9. InOrder(r, L \cup {x})
  <2>1. ASSUME NEW y \in L \cup {x}, a.nx[y] # ListHead
        PROVE  w.expires[y] <= w.expires[a.nx[y]]
    <3>1. CASE y = x
      BY <1>2, <1>3, <1>8, <2>1, <3>1
    <3>2. CASE y # x /\ y = p
      BY <1>2, <1>3, <1>8, <3>2
    <3>3. CASE y # x /\ y # p
      <4>1. a.nx[y] = w.nx[y] /\ y \in L
        BY <1>3, <1>8, <3>3
      <4> QED
        BY <1>1, <2>1, <4>1 DEF InOrder
    <3> QED
      BY <3>1, <3>2, <3>3
  <2> QED
    BY <1>3, <1>6, <2>1 DEF InOrder
<1>10. NextDue(r, L \cup {x})
  <2>1. CASE p = ListHead
    BY <1>3, <1>6, <2>1 DEF NextDue
  <2>2. CASE p # ListHead
    <3>1. a.nx[ListHead] = w.nx[ListHead] /\ L # {}
      BY <1>3, <1>8, <2>2
    <3>2. a.nx[ListHead] # x
      BY <1>8, <3>1
    <3> QED
      BY <1>1, <1>3, <1>6, <3>1, <3>2 DEF NextDue
  <2> QED
    BY <2>1, <2>2
<1>11. SameTimers(w, r) /\ r.expires = w.expires
  BY <1>3, <1>6 DEF SameTimers
<1> QED
  BY <1>6, <1>7, <1>9, <1>10, <1>11 DEF ListOK, r

(* A list whose head leads back to itself is empty.                        *)
LEMMA NoneIfClosed ==
    ASSUME NEW w \in TimerRec, NEW L, Chained(w, L), w.nx[ListHead] = ListHead
    PROVE  L = {}
<1> SUFFICES ASSUME L # {} PROVE FALSE
  OBVIOUS
<1>1. PICK rk : Ascends(w, L, rk)
  BY DEF Chained
<1>2. \A z \in L : rk[z] \in Nat /\ z \in Ring(L) /\ z # ListHead
  BY <1>1, NodeFacts DEF Chained, Ascends
<1>3. ASSUME NEW z \in L PROVE \E u \in L : rk[u] < rk[z]
  <2>1. w.nx[w.pv[z]] = z /\ w.pv[z] \in Ring(L)
    BY <1>2 DEF Chained
  <2>2. w.pv[z] \in L
    BY <1>2, <2>1 DEF Ring
  <2> QED
    BY <1>1, <1>2, <2>1, <2>2 DEF Ascends
<1> DEFINE S == {rk[z] : z \in L}
<1>4. S \in SUBSET Nat /\ S # {}
  BY <1>2
<1>5. PICK m \in S : \A h \in S : m <= h
  <2> HIDE DEF S
  <2> QED
    BY <1>4, ListMinLeast
<1>6. PICK z \in L : rk[z] = m
  BY <1>5
<1>7. PICK u \in L : rk[u] < rk[z]
  BY <1>3
<1>8. rk[u] \in S /\ rk[u] \in Nat /\ rk[z] \in Nat
  BY <1>2
<1> QED
  BY <1>5, <1>6, <1>7, <1>8

LEMMA TakenOff ==
    ASSUME NEW w, NEW L, ListOK(w, L), NEW x \in L, NEW g \in Garbage
    PROVE  LET r == timer_takeoff(w, x, g)
           IN  /\ ListOK(r, L \ {x}) /\ SameTimers(w, r) /\ r.expires = w.expires
               /\ w.nx[x] \in Ring(L \ {x})
<1> DEFINE r == timer_takeoff(w, x, g)
           a == list_del(w, x)
           p == w.pv[x]
           q == w.nx[x]
<1>1. w \in TimerRec /\ Chained(w, L) /\ InOrder(w, L) /\ NextDue(w, L) /\ L \subseteq Timer
  BY DEF ListOK, Chained
<1>2. /\ a \in TimerRec /\ Chained(a, L \ {x}) /\ SameTimers(w, a)
      /\ a.expires = w.expires /\ a.next = w.next
      /\ a.nx[x] = q /\ a.nx[p] = q
      /\ \A m \in Ring(L) \ {x, p} : a.nx[m] = w.nx[m]
  BY <1>1, Unlinked
<1>3. /\ p \in Ring(L) /\ q \in Ring(L) /\ w.nx[p] = x /\ ListHead \in Ring(L)
      /\ x # ListHead /\ x \in Timer /\ w.pv[q] = x
      /\ \A y \in L : y \in Ring(L) /\ y # ListHead /\ w.expires[y] \in Nat
      /\ \A y \in Ring(L) : y # ListHead => y \in L
      /\ w.pv[w.nx[ListHead]] = ListHead
  <2>1. \A y \in Timer : w.expires[y] \in Nat
    BY <1>1, TimesAre DEF TimerRec
  <2>2. x \in Ring(L)
    BY <1>1, NodeFacts
  <2> QED
    BY <1>1, <2>1, <2>2, NodeFacts DEF Chained
<1>4. q # x
  <2>1. PICK rk : Ascends(w, L, rk)
    BY <1>1 DEF Chained
  <2>2. q = x => rk[x] < rk[x] /\ rk[x] \in Nat
    BY <1>3, <2>1 DEF Ascends
  <2> QED
    BY <2>2
<1> DEFINE v == IF w.nx[ListHead] # x THEN a.next
                ELSE IF q = ListHead THEN g ELSE w.expires[q]
<1>5. r = SetNext(a, v)
  <2>1. a.next = w.next /\ a.nx[x] = q
    BY <1>2
  <2> HIDE DEF a, q
  <2>2. r = IF w.nx[ListHead] # x THEN a
            ELSE [a EXCEPT !.next = IF a.nx[x] = x THEN Never
                                    ELSE IF a.nx[x] = ListHead THEN g ELSE w.expires[a.nx[x]]]
    BY DEF timer_takeoff, a
  <2>3. a = SetNext(a, a.next)
    BY <1>2 DEF SetNext, TimerRec
  <2> QED
    BY <1>4, <2>1, <2>2, <2>3 DEF SetNext
<1> HIDE DEF a, r
<1>6. v \in 0 .. Never
  <2>1. a.next \in 0 .. Never /\ g \in 0 .. Never
    BY <1>2, TimerAssumption DEF TimerRec
  <2>2. q # ListHead => w.expires[q] \in 0 .. Never
    BY <1>1, <1>3, TimesAre DEF TimerRec
  <2> QED
    BY <2>1, <2>2
<1>7. /\ r \in TimerRec /\ r.next = v /\ SameTimers(a, r)
      /\ r.nx = a.nx /\ r.pv = a.pv /\ r.expires = a.expires
  <2> HIDE DEF v
  <2> QED
    BY <1>2, <1>5, <1>6, NextReplaced
<1>8. Chained(r, L \ {x})
  BY <1>2, <1>7 DEF Chained, Ascends
<1>9. InOrder(r, L \ {x})
  <2>1. ASSUME NEW y \in L \ {x}, a.nx[y] # ListHead
        PROVE  w.expires[y] <= w.expires[a.nx[y]]
    <3>1. CASE y = p
      <4>1. a.nx[y] = q /\ q \in L
        BY <1>2, <1>3, <2>1, <3>1
      <4>2. w.expires[y] <= w.expires[x] /\ w.expires[x] <= w.expires[q]
        BY <1>1, <1>3, <2>1, <3>1, <4>1 DEF InOrder
      <4> QED
        BY <1>3, <4>1, <4>2
    <3>2. CASE y # p
      <4>1. a.nx[y] = w.nx[y]
        BY <1>2, <1>3, <3>2
      <4> QED
        BY <1>1, <2>1, <4>1 DEF InOrder
    <3> QED
      BY <3>1, <3>2
  <2> QED
    BY <1>2, <1>7, <2>1 DEF InOrder
<1>10. NextDue(r, L \ {x})
  <2> SUFFICES ASSUME L \ {x} # {} PROVE v = w.expires[a.nx[ListHead]]
    BY <1>2, <1>7 DEF NextDue
  <2>1. CASE w.nx[ListHead] # x
    <3>1. p # ListHead /\ a.nx[ListHead] = w.nx[ListHead]
      BY <1>2, <1>3, <2>1
    <3> QED
      BY <1>1, <1>2, <2>1, <3>1 DEF NextDue
  <2>2. CASE w.nx[ListHead] = x
    <3>1. p = ListHead /\ a.nx[ListHead] = q
      BY <1>2, <1>3, <2>2
    <3>2. q # ListHead
      BY <1>2, <3>1, NoneIfClosed
    <3> QED
      BY <2>2, <3>1, <3>2
  <2> QED
    BY <2>1, <2>2
<1>11. SameTimers(w, r) /\ r.expires = w.expires
  BY <1>2, <1>7 DEF SameTimers
<1>12. w.nx[x] \in Ring(L \ {x})
  BY <1>3, <1>4 DEF Ring
<1> QED
  BY <1>7, <1>8, <1>9, <1>10, <1>11, <1>12 DEF ListOK, r

(* What is done to a timer that is not in the list leaves the list alone.  *)
LEMMA ListKept ==
    ASSUME NEW w, NEW L, ListOK(w, L), NEW r \in TimerRec, r.next = w.next,
           \A n \in Ring(L) : r.nx[n] = w.nx[n] /\ r.pv[n] = w.pv[n],
           \A y \in L : r.expires[y] = w.expires[y]
    PROVE  ListOK(r, L)
<1>1. w \in TimerRec /\ Chained(w, L) /\ InOrder(w, L) /\ NextDue(w, L) /\ L \subseteq Timer
  BY DEF ListOK, Chained
<1>2. /\ \A n \in Ring(L) : /\ w.nx[n] \in Ring(L) /\ w.pv[w.nx[n]] = n
                            /\ w.pv[n] \in Ring(L) /\ w.nx[w.pv[n]] = n
      /\ ListHead \in Ring(L) /\ L \subseteq Ring(L)
      /\ \A n \in Ring(L) : n # ListHead => n \in L
  BY <1>1, NodeFacts DEF Chained
<1>3. \A n \in Ring(L) : /\ r.nx[n] \in Ring(L) /\ r.pv[r.nx[n]] = n
                         /\ r.pv[n] \in Ring(L) /\ r.nx[r.pv[n]] = n
  BY <1>2
<1>4. PICK rk : Ascends(w, L, rk)
  BY <1>1 DEF Chained
<1>5. Ascends(r, L, rk)
  BY <1>2, <1>4 DEF Ascends
<1>6. InOrder(r, L)
  BY <1>1, <1>2 DEF InOrder
<1>7. NextDue(r, L)
  <2> SUFFICES ASSUME L # {} PROVE r.next = r.expires[r.nx[ListHead]]
    BY DEF NextDue
  <2>1. w.nx[ListHead] # ListHead
    BY <1>1, NoneIfClosed
  <2> QED
    BY <1>1, <1>2, <2>1 DEF NextDue
<1> QED
  BY <1>1, <1>3, <1>5, <1>6, <1>7 DEF ListOK, Chained

(* All but timer x, and x but for its links.                               *)
OthersAlone(w, r, x) ==
    /\ r \in TimerRec /\ r.next = w.next
    /\ \A n \in Node \ {x} : r.nx[n] = w.nx[n] /\ r.pv[n] = w.pv[n]
    /\ \A y \in Timer \ {x} : /\ r.state[y] = w.state[y] /\ r.opt[y] = w.opt[y]
                              /\ r.expires[y] = w.expires[y]
SameLinks(w, r) == r.nx = w.nx /\ r.pv = w.pv

LEMMA AloneKept ==
    ASSUME NEW w, NEW L, ListOK(w, L), NEW r, NEW x \in Timer, OthersAlone(w, r, x),
           x \notin L \/ (SameLinks(w, r) /\ r.expires = w.expires)
    PROVE  ListOK(r, L)
<1>1. L \subseteq Timer /\ w \in TimerRec
  BY DEF ListOK, Chained
<1>2. Ring(L) \subseteq Node /\ x # ListHead /\ L \subseteq Ring(L)
  BY <1>1, NodeFacts, TimerAssumption DEF Node
<1>3. x \notin L => x \notin Ring(L)
  BY <1>2 DEF Ring
<1>4. /\ \A n \in Ring(L) : r.nx[n] = w.nx[n] /\ r.pv[n] = w.pv[n]
      /\ \A y \in L : r.expires[y] = w.expires[y]
  BY <1>1, <1>2, <1>3 DEF OthersAlone, SameLinks
<1> QED
  BY <1>4, ListKept DEF OthersAlone

(* A timer's fields, replaced.                                             *)
SetTimer(w, nx, pv, s, o, d, p, e) ==
    [w EXCEPT !.nx = nx, !.pv = pv, !.state = s, !.opt = o, !.delay = d, !.period = p,
              !.expires = e]

LEMMA RecFields ==
    ASSUME NEW w \in TimerRec
    PROVE  /\ w.nx \in [Node -> Node] /\ w.pv \in [Node -> Node]
           /\ w.state \in [Timer -> TimerState] /\ w.opt \in [Timer -> TimerOpt]
           /\ w.delay \in [Timer -> Times] /\ w.period \in [Timer -> Times]
           /\ w.expires \in [Timer -> Times] /\ w.next \in 0 .. Never
  BY DEF TimerRec

(* The links and the fields of one timer, replaced.                        *)
Given(w, x, ln, s, o, d, p, e) ==
    SetTimer(w, IF ln = "kept" THEN w.nx ELSE [w.nx EXCEPT ![x] = x],
             IF ln = "kept" THEN w.pv ELSE [w.pv EXCEPT ![x] = x],
             [w.state EXCEPT ![x] = s], [w.opt EXCEPT ![x] = o], [w.delay EXCEPT ![x] = d],
             [w.period EXCEPT ![x] = p], [w.expires EXCEPT ![x] = e])

LEMMA GivenIs ==
    ASSUME NEW w \in TimerRec, NEW x \in Timer, NEW ln \in {"kept", "init"},
           NEW s \in TimerState, NEW o \in TimerOpt,
           NEW d \in Times, NEW p \in Times, NEW e \in Times
    PROVE  LET r == Given(w, x, ln, s, o, d, p, e)
           IN  /\ OthersAlone(w, r, x) /\ (ln = "kept" => SameLinks(w, r))
               /\ r.state[x] = s /\ r.opt[x] = o /\ r.expires[x] = e
               /\ e = w.expires[x] => r.expires = w.expires
<1> DEFINE nx == IF ln = "kept" THEN w.nx ELSE [w.nx EXCEPT ![x] = x]
           pv == IF ln = "kept" THEN w.pv ELSE [w.pv EXCEPT ![x] = x]
           ss == [w.state EXCEPT ![x] = s]
           oo == [w.opt EXCEPT ![x] = o]
           dd == [w.delay EXCEPT ![x] = d]
           pp == [w.period EXCEPT ![x] = p]
           ee == [w.expires EXCEPT ![x] = e]
           r  == Given(w, x, ln, s, o, d, p, e)
<1>1. /\ nx \in [Node -> Node] /\ pv \in [Node -> Node]
      /\ ss \in [Timer -> TimerState] /\ oo \in [Timer -> TimerOpt]
      /\ dd \in [Timer -> Times] /\ pp \in [Timer -> Times] /\ ee \in [Timer -> Times]
  BY RecFields DEF Node
<1>2. r = SetTimer(w, nx, pv, ss, oo, dd, pp, ee)
  BY DEF Given
<1>3. /\ \A n \in Node \ {x} : nx[n] = w.nx[n] /\ pv[n] = w.pv[n]
      /\ ln = "kept" => nx = w.nx /\ pv = w.pv
      /\ \A y \in Timer \ {x} : /\ ss[y] = w.state[y] /\ oo[y] = w.opt[y]
                                /\ ee[y] = w.expires[y]
      /\ ss[x] = s /\ oo[x] = o /\ ee[x] = e
      /\ e = w.expires[x] => ee = w.expires
  BY RecFields
<1> HIDE DEF nx, pv, ss, oo, dd, pp, ee, r
<1>4. /\ r \in TimerRec /\ r.next = w.next /\ r.nx = nx /\ r.pv = pv
      /\ r.state = ss /\ r.opt = oo /\ r.delay = dd /\ r.period = pp /\ r.expires = ee
  <2>1. LET q == SetTimer(w, nx, pv, ss, oo, dd, pp, ee)
        IN  /\ q \in TimerRec /\ q.next = w.next /\ q.nx = nx /\ q.pv = pv
            /\ q.state = ss /\ q.opt = oo /\ q.delay = dd /\ q.period = pp /\ q.expires = ee
    BY <1>1 DEF SetTimer, TimerRec
  <2> QED
    BY <1>2, <2>1
<1> QED
  BY <1>3, <1>4 DEF OthersAlone, SameLinks, r

(* The operations of the timers as such replacements.                      *)
LEMMA ResetIs ==
    ASSUME NEW w \in TimerRec, NEW x \in Timer
    PROVE  timer_reset(w, x) = Given(w, x, "init", "UNUSED", "ONESHOT", 0, 0, 0)
  BY DEF timer_reset, list_init, Given, SetTimer, TimerRec

LEMMA CreateIs ==
    ASSUME NEW w \in TimerRec, NEW x \in Timer, NEW d, NEW p, NEW o
    PROVE  tos_timer_create(w, x, d, p, o) = Given(w, x, "init", "STOPPED", o, d, p, 0)
  BY DEF tos_timer_create, list_init, Given, SetTimer, TimerRec

LEMMA FieldsAre ==
    ASSUME NEW w \in TimerRec, NEW x \in Timer, NEW v, NEW u
    PROVE  /\ [w EXCEPT !.state[x] = v, !.expires[x] = u]
                = Given(w, x, "kept", v, w.opt[x], w.delay[x], w.period[x], u)
           /\ [w EXCEPT !.state[x] = v]
                = Given(w, x, "kept", v, w.opt[x], w.delay[x], w.period[x], w.expires[x])
           /\ [w EXCEPT !.expires[x] = u]
                = Given(w, x, "kept", w.state[x], w.opt[x], w.delay[x], w.period[x], u)
           /\ [w EXCEPT !.delay[x] = v]
                = Given(w, x, "kept", w.state[x], w.opt[x], v, w.period[x], w.expires[x])
           /\ [w EXCEPT !.period[x] = v]
                = Given(w, x, "kept", w.state[x], w.opt[x], w.delay[x], v, w.expires[x])
<1>1. [w EXCEPT !.state[x] = v, !.expires[x] = u]
         = Given(w, x, "kept", v, w.opt[x], w.delay[x], w.period[x], u)
  BY DEF Given, SetTimer, TimerRec
<1>2. [w EXCEPT !.state[x] = v]
         = Given(w, x, "kept", v, w.opt[x], w.delay[x], w.period[x], w.expires[x])
  BY DEF Given, SetTimer, TimerRec
<1>3. [w EXCEPT !.expires[x] = u]
         = Given(w, x, "kept", w.state[x], w.opt[x], w.delay[x], w.period[x], u)
  BY DEF Given, SetTimer, TimerRec
<1>4. [w EXCEPT !.delay[x] = v]
         = Given(w, x, "kept", w.state[x], w.opt[x], v, w.period[x], w.expires[x])
  BY DEF Given, SetTimer, TimerRec
<1>5. [w EXCEPT !.period[x] = v]
         = Given(w, x, "kept", w.state[x], w.opt[x], w.delay[x], v, w.expires[x])
  BY DEF Given, SetTimer, TimerRec
<1> QED
  BY <1>1, <1>2, <1>3, <1>4, <1>5

(* A tick: the times of the timers in the list go down together.           *)
SetTimes(w, n, e) == [w EXCEPT !.next = n, !.expires = e]

LEMMA TimesReplaced ==
    ASSUME NEW w \in TimerRec, NEW n \in 0 .. Never, NEW e \in [Timer -> Times]
    PROVE  LET r == SetTimes(w, n, e)
           IN  /\ r \in TimerRec /\ r.next = n /\ r.expires = e
               /\ SameLinks(w, r) /\ SameTimers(w, r)
  BY DEF SetTimes, TimerRec, SameLinks, SameTimers

LEMMA LaterKept ==
    ASSUME NEW w, NEW L, ListOK(w, L), NEW fresh, fresh \cap L = {}
    PROVE  LET r == Later(w, fresh)
           IN  ListOK(r, L) /\ SameLinks(w, r) /\ SameTimers(w, r)
<1> DEFINE Sooner(n) == IF n > 0 THEN n - 1 ELSE 0
           n == IF w.next = Never THEN w.next ELSE Sooner(w.next)
           e == [x \in Timer |-> IF x \in fresh THEN w.expires[x] ELSE Sooner(w.expires[x])]
           r == Later(w, fresh)
<1>1. w \in TimerRec /\ Chained(w, L) /\ InOrder(w, L) /\ NextDue(w, L) /\ L \subseteq Timer
  BY DEF ListOK, Chained
<1>2. r = SetTimes(w, n, e)
  BY DEF Later, SetTimes
<1>3. LongestDelay \in Nat /\ Never = LongestDelay + 1 /\ Times = 0 .. LongestDelay
  BY TimerAssumption DEF Never, Times
<1>4. /\ w.next \in 0 .. Never /\ \A x \in Timer : w.expires[x] \in Times
      /\ n \in 0 .. Never
  BY <1>1, <1>3, RecFields
<1>5. e \in [Timer -> Times]
  BY <1>3, <1>4
<1>6. /\ \A x \in L : e[x] = Sooner(w.expires[x])
      /\ \A x, y \in L : w.expires[x] <= w.expires[y] => e[x] <= e[y]
  <2>1. \A x \in L : e[x] = Sooner(w.expires[x]) /\ w.expires[x] \in Nat
    BY <1>1, <1>3, <1>4
  <2> HIDE DEF e
  <2> QED
    BY <2>1
<1> HIDE DEF r, n, e
<1>7. /\ r \in TimerRec /\ r.next = n /\ r.expires = e
      /\ SameLinks(w, r) /\ SameTimers(w, r)
  BY <1>1, <1>2, <1>4, <1>5, TimesReplaced
<1>8. Chained(r, L)
  BY <1>1, <1>7 DEF Chained, Ascends, SameLinks
<1>9. \A m \in Ring(L) : w.nx[m] # ListHead => w.nx[m] \in L
  BY <1>1, NodeFacts DEF Chained
<1>10. InOrder(r, L)
  <2>1. L \subseteq Ring(L)
    BY <1>1, NodeFacts
  <2> QED
    BY <1>1, <1>6, <1>7, <1>9, <2>1 DEF InOrder, SameLinks
<1>11. NextDue(r, L)
  <2> SUFFICES ASSUME L # {} PROVE n = e[w.nx[ListHead]]
    BY <1>7 DEF NextDue, SameLinks
  <2>1. w.nx[ListHead] # ListHead /\ ListHead \in Ring(L)
    BY <1>1, NoneIfClosed, NodeFacts
  <2>2. w.nx[ListHead] \in L /\ w.next = w.expires[w.nx[ListHead]]
    BY <1>1, <1>9, <2>1 DEF NextDue
  <2>3. w.next # Never
    BY <1>1, <1>3, <1>4, <2>2
  <2> QED
    BY <1>6, <2>2, <2>3 DEF n
<1> QED
  BY <1>7, <1>8, <1>10, <1>11 DEF ListOK, r

LEMMA TodosDiffer ==
    /\ <<"place">> # <<"reset">> /\ <<"place">> # <<"takeoff">> /\ <<"reset">> # <<"takeoff">>
    /\ <<"place">> # <<"reload", "place">> /\ <<"place">> # <<"takeoff", "reset">>
    /\ <<"reset">> # <<"reload", "place">> /\ <<"reset">> # <<"takeoff", "reset">>
    /\ <<"takeoff">> # <<"reload", "place">> /\ <<"takeoff">> # <<"takeoff", "reset">>
    /\ <<"reload", "place">> # <<"takeoff", "reset">>
    /\ << >> # <<"place">>
  OBVIOUS

(* A timer in hand is in the hand of a call that fits.                     *)
LEMMA InHandFits ==
    ASSUME NEW w, NEW cl, NEW wk, NEW L, Fits(w, cl, wk, L),
           NEW t \in Task, cl[t].timer \in Timer
    PROVE  /\ cl[t] \in CallRec /\ cl[t] # NoCall
           /\ CallFits(cl[t], L \cup Placing(wk), w)
           /\ \A u \in Task : cl[u].timer = cl[t].timer => u = t
<1>1. NoCall.timer \notin Timer
  BY TimerAssumption DEF NoCall, Node
<1>2. cl[t] # NoCall
  BY <1>1
<1> QED
  BY <1>2 DEF Fits, CallsOK

LEMMA PendingIs ==
    ASSUME NEW w, NEW cl, NEW wk, NEW L, Fits(w, cl, wk, L),
           NEW x \in Timer, Pending(cl, x)
    PROVE  /\ w.state[x] # "UNUSED"
           /\ ~Taken(x) => x \notin L \cup Placing(wk) /\ w.state[x] = "RUNNING"
<1>1. PICK t \in Task : cl[t].timer = x
  BY DEF Pending
<1>2. /\ CallFits(cl[t], L \cup Placing(wk), w) /\ cl[t] \in CallRec
  BY <1>1, InHandFits
<1>3. cl[t].todo \in Remains
  BY <1>2 DEF CallRec
<1> QED
  BY <1>1, <1>2, <1>3, TodosDiffer DEF CallFits, Remains

(* Nothing but timer x has changed.                                        *)
ElseSame(w, r, x, on, nn) ==
    \A y \in Timer \ {x} : /\ r.state[y] = w.state[y] /\ r.opt[y] = w.opt[y]
                           /\ y \in nn <=> y \in on

LEMMA StatesElse ==
    ASSUME NEW cl, NEW w, NEW on, StatesOK(cl, w, on), NEW r, NEW x \in Timer, NEW nn,
           ElseSame(w, r, x, on, nn), NEW dl,
           \A y \in Timer \ {x} : Pending(cl, y) => Pending(dl, y),
           x \in nn => r.state[x] \in {"RUNNING", "STOPPED"},
           Pending(dl, x) \/ (x \in nn <=> r.state[x] = "RUNNING"),
           Taken(x) /\ r.state[x] # "UNUSED" => r.opt[x] = "PERIODIC"
    PROVE  StatesOK(dl, r, nn)
  BY DEF StatesOK, ElseSame

LEMMA CallsElse ==
    ASSUME NEW cl, NEW w, NEW on, CallsOK(cl, w, on), NEW r, NEW x \in Timer, NEW nn,
           ElseSame(w, r, x, on, nn),
           \A t \in Task : cl[t].timer = x => CallFits(cl[t], nn, r)
    PROVE  CallsOK(cl, r, nn)
<1> SUFFICES ASSUME NEW t \in Task, cl[t] # NoCall PROVE CallFits(cl[t], nn, r)
  BY DEF CallsOK
<1>1. cl[t] \in CallRec /\ CallFits(cl[t], on, w)
  BY DEF CallsOK
<1>2. cl[t].timer \in Timer
  BY <1>1 DEF CallRec
<1> QED
  BY <1>1, <1>2 DEF CallFits, ElseSame

LEMMA CallReplaced ==
    ASSUME NEW cl, NEW w, NEW on, CallsOK(cl, w, on), StatesOK(cl, w, on),
           NEW r, NEW x \in Timer, NEW nn, ElseSame(w, r, x, on, nn),
           NEW t \in Task \ {Idle, TimerTask}, cl[t] = NoCall \/ cl[t].timer = x,
           \A u \in Task \ {t} : cl[u].timer # x,
           NEW c, c = NoCall \/ (c \in CallRec /\ c.timer = x /\ CallFits(c, nn, r)),
           x \in nn => r.state[x] \in {"RUNNING", "STOPPED"},
           c # NoCall \/ (x \in nn <=> r.state[x] = "RUNNING"),
           Taken(x) /\ r.state[x] # "UNUSED" => r.opt[x] = "PERIODIC"
    PROVE  LET dl == [cl EXCEPT ![t] = c]
           IN  CallsOK(dl, r, nn) /\ StatesOK(dl, r, nn)
<1> DEFINE dl == [cl EXCEPT ![t] = c]
<1>0. NoCall.timer \notin Timer
  BY TimerAssumption DEF NoCall, Node
<1>1. cl \in [Task -> {NoCall} \cup CallRec]
  BY DEF CallsOK
<1>2. /\ dl \in [Task -> {NoCall} \cup CallRec] /\ dl[t] = c
      /\ \A u \in Task \ {t} : dl[u] = cl[u]
  BY <1>1
<1> HIDE DEF dl
<1>3. CallsOK(dl, r, nn)
  <2>1. ASSUME NEW u \in Task, dl[u] # NoCall PROVE CallFits(dl[u], nn, r)
    <3>1. CASE u = t
      BY <1>2, <2>1, <3>1
    <3>2. CASE u # t
      <4>1. dl[u] = cl[u] /\ cl[u] \in CallRec /\ CallFits(cl[u], on, w) /\ cl[u].timer # x
        BY <1>2, <2>1, <3>2 DEF CallsOK
      <4>2. cl[u].timer \in Timer
        BY <4>1 DEF CallRec
      <4> QED
        BY <4>1, <4>2 DEF CallFits, ElseSame
    <3> QED
      BY <3>1, <3>2
  <2>2. ASSUME NEW u \in Task, NEW v \in Task, dl[u] # NoCall, dl[v].timer = dl[u].timer
        PROVE  u = v
    <3>1. dl[u].timer \in Timer
      BY <1>2, <2>2 DEF CallRec
    <3>2. CASE u = t /\ v # t
      <4>1. dl[u].timer = x
        BY <1>2, <2>2, <3>2
      <4> QED
        BY <1>2, <2>2, <3>2, <4>1
    <3>3. CASE u # t /\ v = t
      <4>1. dl[v] # NoCall
        BY <1>0, <2>2, <3>1
      <4>2. dl[v].timer = x
        BY <1>2, <3>3, <4>1
      <4> QED
        BY <1>2, <2>2, <3>3, <4>2
    <3>4. CASE u # t /\ v # t
      BY <1>2, <2>2, <3>4 DEF CallsOK
    <3> QED
      BY <3>2, <3>3, <3>4
  <2>3. dl[Idle] = NoCall /\ dl[TimerTask] = NoCall
    BY <1>2, IdleAssumption, TimerTaskAssumption DEF CallsOK
  <2> QED
    BY <1>2, <2>1, <2>2, <2>3 DEF CallsOK
<1>4. StatesOK(dl, r, nn)
  <2>1. \A y \in Timer \ {x} : Pending(cl, y) => Pending(dl, y)
    BY <1>0, <1>2 DEF Pending
  <2>2. c # NoCall => Pending(dl, x)
    BY <1>2 DEF Pending
  <2> QED
    BY <2>1, <2>2, StatesElse
<1> QED
  BY <1>3, <1>4 DEF dl

(* Nothing is being placed while the walk is not under way.                *)
LEMMA NotPlacing ==
    ASSUME NEW wk, wk.at # "place"
    PROVE  \A L : L \cup Placing(wk) = L
  BY DEF Placing

LEMMA FitFacts ==
    ASSUME NEW w, NEW cl, NEW wk, NEW L, Fits(w, cl, wk, L)
    PROVE  /\ w \in TimerRec /\ L \subseteq Timer /\ Chained(w, L) /\ wk \in WalkRec
           /\ Ring(L) \subseteq Node /\ ListHead \notin Timer /\ ListHead \in Ring(L)
           /\ \A n \in Ring(L) : n = ListHead \/ n \in L
           /\ L \subseteq Ring(L)
           /\ \A n \in Ring(L) : w.nx[n] \in Ring(L)
  BY NodeFacts, TimerAssumption DEF Fits, ListOK, Chained, WalkOK

(* tos_timer_create, and the changes of a delay and a period.              *)
LEMMA CreateFits ==
    ASSUME CarefulUse, NEW w, NEW cl, NEW wk, NEW L, Fits(w, cl, wk, L),
           NEW x \in Timer, w.state[x] = "UNUSED", NEW s \in Settings[x]
    PROVE  Fits(tos_timer_create(w, x, s.delay, s.period, s.opt), cl, wk, L)
<1> DEFINE r  == tos_timer_create(w, x, s.delay, s.period, s.opt)
           on == L \cup Placing(wk)
<1>1. s.delay \in Times /\ s.period \in Times /\ s.opt \in TimerOpt
  BY TimerCallAssumption DEF Setting, Times
<1>2. w \in TimerRec
  BY FitFacts
<1>3. r = Given(w, x, "init", "STOPPED", s.opt, s.delay, s.period, 0)
  BY <1>2, CreateIs
<1> HIDE DEF r
<1>4. OthersAlone(w, r, x) /\ r.state[x] = "STOPPED" /\ r.opt[x] = s.opt
  <2>1. "STOPPED" \in TimerState /\ 0 \in Times
    BY TimesAre DEF TimerState
  <2> QED
    BY <1>1, <1>2, <1>3, <2>1, GivenIs
<1>5. x \notin on /\ ~Pending(cl, x)
  <2>1. ~Pending(cl, x)
    BY PendingIs
  <2>2. x \notin on
    BY DEF Fits, StatesOK
  <2> QED
    BY <2>1, <2>2
<1>6. ElseSame(w, r, x, on, on)
  BY <1>4 DEF OthersAlone, ElseSame
<1>7. ListOK(r, L)
  BY <1>4, <1>5, AloneKept DEF Fits
<1>8. CallsOK(cl, r, on)
  <2>1. \A t \in Task : cl[t].timer # x
    BY <1>5 DEF Pending
  <2> QED
    BY <1>6, <2>1, CallsElse DEF Fits
<1>9. StatesOK(cl, r, on)
  <2>1. Taken(x) => r.opt[x] = "PERIODIC"
    BY <1>4 DEF CarefulUse
  <2> QED
    BY <1>4, <1>5, <1>6, <2>1, StatesElse DEF Fits
<1>10. WalkOK(wk, r, L)
  <2>1. \A n \in Ring(L) : r.nx[n] = w.nx[n]
    BY <1>4, <1>5, FitFacts DEF OthersAlone
  <2>2. \A y \in Timer : y # x => r.opt[y] = w.opt[y] /\ r.state[y] = w.state[y]
    BY <1>4 DEF OthersAlone
  <2>3. wk.at = "place" => wk.cur # x
    BY <1>5 DEF Placing
  <2>4. wk.at = "cb" => wk.cur # x
    BY <1>5 DEF Fits, WalkOK
  <2> QED
    BY <2>1, <2>2, <2>3, <2>4 DEF Fits, WalkOK
<1> QED
  BY <1>7, <1>8, <1>9, <1>10 DEF Fits, r

LEMMA SameFits ==
    ASSUME NEW w, NEW cl, NEW wk, NEW L, Fits(w, cl, wk, L), NEW r, ListOK(r, L),
           r.state = w.state, r.opt = w.opt, r.nx = w.nx
    PROVE  Fits(r, cl, wk, L)
<1>1. CallsOK(cl, r, L \cup Placing(wk)) /\ StatesOK(cl, r, L \cup Placing(wk))
  BY DEF Fits, CallsOK, StatesOK, CallFits
<1>2. WalkOK(wk, r, L)
  BY DEF Fits, WalkOK
<1> QED
  BY <1>1, <1>2 DEF Fits

LEMMA ChangeFits ==
    ASSUME NEW w, NEW cl, NEW wk, NEW L, Fits(w, cl, wk, L),
           NEW x \in Timer, NEW v \in Changes,
           NEW r, r = [w EXCEPT !.delay[x] = v] \/ r = [w EXCEPT !.period[x] = v]
    PROVE  Fits(r, cl, wk, L)
<1>1. w \in TimerRec
  BY FitFacts
<1>2. /\ v \in Times /\ w.state[x] \in TimerState /\ w.opt[x] \in TimerOpt
      /\ w.delay[x] \in Times /\ w.period[x] \in Times /\ w.expires[x] \in Times
  BY <1>1, RecFields, TimerCallAssumption DEF Times
<1> DEFINE s == w.state[x]
           o == w.opt[x]
           e == w.expires[x]
<1>3. \E d, p \in Times : r = Given(w, x, "kept", s, o, d, p, e)
  <2>1. CASE r = [w EXCEPT !.delay[x] = v]
    BY <1>1, <1>2, <2>1, FieldsAre
  <2>2. CASE r = [w EXCEPT !.period[x] = v]
    <3>1. r = Given(w, x, "kept", s, o, w.delay[x], v, e)
      BY <1>1, <2>2 DEF Given, SetTimer, TimerRec
    <3> QED
      BY <1>2, <3>1
  <2> QED
    BY <2>1, <2>2
<1>4. /\ OthersAlone(w, r, x) /\ SameLinks(w, r) /\ r.expires = w.expires
      /\ r.state[x] = w.state[x] /\ r.opt[x] = w.opt[x]
  <2>1. PICK d, p \in Times : r = Given(w, x, "kept", s, o, d, p, e)
    BY <1>3
  <2>2. s \in TimerState /\ o \in TimerOpt /\ e \in Times /\ e = w.expires[x]
    BY <1>2
  <2> HIDE DEF s, o, e
  <2>3. /\ OthersAlone(w, r, x) /\ SameLinks(w, r) /\ r.expires = w.expires
        /\ r.state[x] = s /\ r.opt[x] = o
    BY <1>1, <2>1, <2>2, GivenIs
  <2> QED
    BY <2>3 DEF s, o
<1>5. ListOK(r, L)
  BY <1>4, AloneKept DEF Fits
<1>6. r.state = w.state /\ r.opt = w.opt /\ r.nx = w.nx
  <2>1. /\ r.state \in [Timer -> TimerState] /\ w.state \in [Timer -> TimerState]
        /\ r.opt \in [Timer -> TimerOpt] /\ w.opt \in [Timer -> TimerOpt]
    BY <1>1, <1>4, RecFields DEF OthersAlone
  <2>2. \A y \in Timer : r.state[y] = w.state[y] /\ r.opt[y] = w.opt[y]
    BY <1>4 DEF OthersAlone
  <2> QED
    BY <1>4, <2>1, <2>2 DEF SameLinks
<1> QED
  BY <1>5, <1>6, SameFits

Onces == {"create", "change"}

LEMMA AtOnceFits ==
    ASSUME CarefulUse, NEW w, NEW cl, NEW wk, NEW L, Fits(w, cl, wk, L),
           NEW x \in Timer, NEW op \in Onces, Allowed(op, x, w),
           NEW r \in AtOnce(op, x, w)
    PROVE  Fits(r, cl, wk, L)
<1>1. CASE op = "create"
  <2>1. w.state[x] = "UNUSED"
    BY <1>1 DEF Allowed
  <2>2. \E s \in Settings[x] : r = tos_timer_create(w, x, s.delay, s.period, s.opt)
    BY <1>1 DEF AtOnce
  <2> QED
    BY <2>1, <2>2, CreateFits
<1>2. CASE op = "change"
  <2>1. PICK v \in Changes : \/ r = [w EXCEPT !.delay[x] = v]
                             \/ r = [w EXCEPT !.period[x] = v]
    BY <1>2 DEF AtOnce
  <2> QED
    BY <2>1, ChangeFits
<1> QED
  BY <1>1, <1>2 DEF Onces

(* The calls that go on after what is done at once.                        *)
Begins == {"start", "restart", "stop", "destroy"}

(* Nobody has a timer in hand that a call may begin with.                  *)
LEMMA FreeToBegin ==
    ASSUME CarefulUse, NEW w, NEW cl, NEW wk, NEW L, Fits(w, cl, wk, L),
           NEW t \in Task \ {Idle, TimerTask}, cl[t] = NoCall,
           NEW x \in Timer,
           NEW op \in Begins,
           <<op, x>> \in TaskCalls, Allowed(op, x, w)
    PROVE  /\ ~Pending(cl, x)
           /\ op # "start" => Taken(x)
           /\ x \in L \cup Placing(wk) <=> w.state[x] = "RUNNING"
<1>1. op # "start" => Taken(x)
  BY DEF Taken, Begins
<1>2. ASSUME Pending(cl, x) PROVE FALSE
  <2>1. PICK u \in Task : cl[u].timer = x
    BY <1>2 DEF Pending
  <2>2. cl[u] # NoCall
    BY <2>1, InHandFits
  <2>3. u # Idle /\ u # TimerTask /\ u # t
    BY <2>2 DEF Fits, CallsOK
  <2>4. ~Taken(x)
    BY <2>3 DEF CarefulUse
  <2>5. op = "start" /\ w.state[x] = "RUNNING"
    BY <1>1, <1>2, <2>4, PendingIs
  <2> QED
    BY <2>5 DEF Allowed
<1> QED
  BY <1>1, <1>2 DEF Fits, StatesOK

LEMMA BegunIs ==
    ASSUME NEW w \in TimerRec, NEW x \in Timer,
           NEW op \in Begins
    PROVE  LET r == Begun(op, x, w)
           IN  /\ OthersAlone(w, r, x) /\ SameLinks(w, r) /\ r.opt[x] = w.opt[x]
               /\ op # "start" => r.expires = w.expires
               /\ r.state[x] = IF op = "start" THEN "RUNNING"
                               ELSE IF op = "stop" THEN "STOPPED" ELSE w.state[x]
<1> DEFINE s == w.state[x]
           o == w.opt[x]
           d == w.delay[x]
           p == w.period[x]
           e == w.expires[x]
           f == FirstDelay(w, x)
           r == Begun(op, x, w)
<1>1. /\ s \in TimerState /\ o \in TimerOpt /\ d \in Times /\ p \in Times /\ e \in Times
      /\ f \in Times /\ "RUNNING" \in TimerState /\ "STOPPED" \in TimerState
  BY RecFields DEF FirstDelay, TimerState
<1>2. CASE op = "start"
  <2>1. r = Given(w, x, "kept", "RUNNING", o, d, p, f)
    BY <1>2 DEF Begun, Given, SetTimer, TimerRec
  <2> HIDE DEF r, s, o, d, p, e, f
  <2>2. /\ OthersAlone(w, r, x) /\ SameLinks(w, r) /\ r.opt[x] = o /\ r.state[x] = "RUNNING"
    BY <1>1, <2>1, GivenIs
  <2> QED
    BY <1>2, <2>2 DEF r, o
<1>3. CASE op = "stop"
  <2>1. r = Given(w, x, "kept", "STOPPED", o, d, p, e)
    BY <1>3 DEF Begun, Given, SetTimer, TimerRec
  <2>2. r.expires = w.expires
    BY <1>3 DEF Begun, TimerRec
  <2> HIDE DEF r, s, o, d, p, e, f
  <2>3. OthersAlone(w, r, x) /\ SameLinks(w, r) /\ r.opt[x] = o /\ r.state[x] = "STOPPED"
    BY <1>1, <2>1, GivenIs
  <2> QED
    BY <1>3, <2>2, <2>3 DEF r, o
<1>4. CASE op # "start" /\ op # "stop"
  <2>1. r = w
    BY <1>4 DEF Begun, Begins
  <2> QED
    BY <1>4, <2>1 DEF OthersAlone, SameLinks
<1> QED
  BY <1>2, <1>3, <1>4

(* A call of a task up to its first interrupts-disabled section.           *)
LEMMA BeginFits ==
    ASSUME CarefulUse, NEW w, NEW cl, NEW wk, NEW L, Fits(w, cl, wk, L), wk.at \in Outside,
           NEW t \in Task \ {Idle, TimerTask}, cl[t] = NoCall,
           NEW x \in Timer,
           NEW op \in Begins,
           <<op, x>> \in TaskCalls, Allowed(op, x, w)
    PROVE  Fits(Begun(op, x, w),
                [cl EXCEPT ![t] = [timer |-> x, todo |-> Sections(op, x, w)]], wk, L)
<1> DEFINE r == Begun(op, x, w)
           c == [timer |-> x, todo |-> Sections(op, x, w)]
           dl == [cl EXCEPT ![t] = c]
<1>1. wk.at # "place" /\ wk.at \notin Inside
  BY DEF Outside, Inside
<1>2. \A M : M \cup Placing(wk) = M
  BY <1>1, NotPlacing
<1>3. ~Pending(cl, x) /\ (op # "start" => Taken(x)) /\ (x \in L <=> w.state[x] = "RUNNING")
  <2>1. /\ ~Pending(cl, x) /\ (op # "start" => Taken(x))
        /\ x \in L \cup Placing(wk) <=> w.state[x] = "RUNNING"
    <3>1. /\ CarefulUse /\ Fits(w, cl, wk, L) /\ t \in Task \ {Idle, TimerTask} /\ cl[t] = NoCall
          /\ x \in Timer /\ op \in Begins
          /\ <<op, x>> \in TaskCalls /\ Allowed(op, x, w)
      OBVIOUS
    <3> QED
      BY <3>1, FreeToBegin
  <2> QED
    BY <1>2, <2>1
<1>4. /\ OthersAlone(w, r, x) /\ SameLinks(w, r) /\ r.opt[x] = w.opt[x]
      /\ op # "start" => r.expires = w.expires
      /\ r.state[x] = IF op = "start" THEN "RUNNING"
                      ELSE IF op = "stop" THEN "STOPPED" ELSE w.state[x]
  BY FitFacts, BegunIs
<1> HIDE DEF r
<1>5. op = "start" => x \notin L /\ w.state[x] # "UNUSED"
  BY <1>3 DEF Allowed
<1>6. ListOK(r, L)
  BY <1>4, <1>5, AloneKept DEF Fits
<1>7. ElseSame(w, r, x, L, L)
  BY <1>4 DEF OthersAlone, ElseSame
<1>8. /\ c.timer = x /\ c.todo = Sections(op, x, w) /\ c \in CallRec /\ c # NoCall
  <2>1. Sections(op, x, w) \in Remains
    BY DEF Sections, Remains, Begins
  <2>2. NoCall.timer # x
    BY TimerAssumption DEF NoCall, Node
  <2> QED
    BY <2>1, <2>2 DEF CallRec
<1> HIDE DEF c
<1>9. CallFits(c, L, r)
  <2>1. CASE op = "start"
    <3>1. c.todo = <<"place">>
      BY <1>8, <2>1 DEF Sections
    <3> QED
      BY <1>4, <1>5, <1>8, <2>1, <3>1, TodosDiffer DEF CallFits
  <2>2. CASE op = "restart"
    <3>1. c.todo = <<"reload", "place">> /\ w.state[x] = "RUNNING"
      BY <1>8, <2>2 DEF Sections, Allowed
    <3> QED
      BY <1>3, <1>4, <1>8, <2>2, <3>1, TodosDiffer DEF CallFits
  <2>3. CASE op = "stop"
    <3>1. c.todo = <<"takeoff">> /\ w.state[x] = "RUNNING"
      BY <1>8, <2>3 DEF Sections, Allowed
    <3> QED
      BY <1>3, <1>4, <1>8, <2>3, <3>1, TodosDiffer DEF CallFits
  <2>4. CASE op = "destroy" /\ w.state[x] = "RUNNING"
    <3>1. c.todo = <<"takeoff", "reset">>
      BY <1>8, <2>4 DEF Sections
    <3> QED
      BY <1>3, <1>4, <1>8, <2>4, <3>1, TodosDiffer DEF CallFits
  <2>5. CASE op = "destroy" /\ w.state[x] # "RUNNING"
    <3>1. c.todo = <<"reset">> /\ w.state[x] # "UNUSED"
      BY <1>8, <2>5 DEF Sections, Allowed
    <3> QED
      BY <1>3, <1>4, <1>8, <2>5, <3>1, TodosDiffer DEF CallFits
  <2> QED
    BY <2>1, <2>2, <2>3, <2>4, <2>5 DEF Begins
<1>10. CallsOK(dl, r, L) /\ StatesOK(dl, r, L)
  <2>1. CallsOK(cl, w, L) /\ StatesOK(cl, w, L)
    BY <1>2 DEF Fits
  <2>2. \A u \in Task \ {t} : cl[u].timer # x
    BY <1>3 DEF Pending
  <2>3. x \in L => r.state[x] \in {"RUNNING", "STOPPED"}
    BY <1>3, <1>4
  <2>4. Taken(x) /\ r.state[x] # "UNUSED" => r.opt[x] = "PERIODIC"
    <3>1. w.state[x] # "UNUSED" => op # "start" \/ w.state[x] # "UNUSED"
      OBVIOUS
    <3>2. w.state[x] = "UNUSED" => r.state[x] = "UNUSED"
      BY <1>4, <1>5 DEF Allowed
    <3> QED
      BY <1>4, <2>1, <3>2 DEF StatesOK
  <2> QED
    BY <1>7, <1>8, <1>9, <2>1, <2>2, <2>3, <2>4, CallReplaced
<1>11. WalkOK(wk, r, L)
  BY <1>1, <1>4 DEF Fits, WalkOK, Inside
<1> QED
  BY <1>2, <1>6, <1>10, <1>11 DEF Fits, r, c

(* Taking a timer off and giving it a new time.                            *)
SetExpires(w, x, v) == [w EXCEPT !.expires[x] = v]
SameStates(w, r) == r.state = w.state /\ r.opt = w.opt

LEMMA Reloaded ==
    ASSUME NEW w, NEW L, ListOK(w, L), NEW x \in L, NEW g \in Garbage, NEW v \in Times
    PROVE  LET r == SetExpires(timer_takeoff(w, x, g), x, v)
           IN  /\ ListOK(r, L \ {x}) /\ SameStates(w, r)
               /\ w.nx[x] \in Ring(L \ {x})
<1> DEFINE a == timer_takeoff(w, x, g)
           r == SetExpires(a, x, v)
<1>1. /\ ListOK(a, L \ {x}) /\ SameTimers(w, a) /\ a.expires = w.expires
      /\ w.nx[x] \in Ring(L \ {x})
  BY TakenOff
<1>2. a \in TimerRec /\ x \in Timer
  BY <1>1 DEF ListOK, Chained
<1> HIDE DEF a
<1> DEFINE s == a.state[x]
           o == a.opt[x]
           d == a.delay[x]
           p == a.period[x]
<1>3. s \in TimerState /\ o \in TimerOpt /\ d \in Times /\ p \in Times
  BY <1>2, RecFields
<1>4. r = Given(a, x, "kept", s, o, d, p, v)
  BY <1>2 DEF SetExpires, Given, SetTimer, TimerRec
<1> HIDE DEF r, s, o, d, p
<1>5. OthersAlone(a, r, x) /\ r.state[x] = s /\ r.opt[x] = o
  BY <1>2, <1>3, <1>4, GivenIs
<1>6. ListOK(r, L \ {x})
  BY <1>1, <1>2, <1>5, AloneKept
<1>7. r.state = a.state /\ r.opt = a.opt
  <2>1. /\ r.state \in [Timer -> TimerState] /\ a.state \in [Timer -> TimerState]
        /\ r.opt \in [Timer -> TimerOpt] /\ a.opt \in [Timer -> TimerOpt]
    BY <1>2, <1>5, RecFields DEF OthersAlone
  <2>2. \A y \in Timer : r.state[y] = a.state[y] /\ r.opt[y] = a.opt[y]
    BY <1>5 DEF OthersAlone, s, o
  <2> QED
    BY <2>1, <2>2
<1> QED
  BY <1>1, <1>6, <1>7 DEF SameTimers, SameStates, r, a

LEMMA ResetKept ==
    ASSUME NEW w, NEW L, ListOK(w, L), NEW x \in Timer \ L
    PROVE  LET r == timer_reset(w, x)
           IN  /\ ListOK(r, L) /\ OthersAlone(w, r, x)
               /\ r.state[x] = "UNUSED" /\ r.opt[x] = "ONESHOT"
<1> DEFINE r == timer_reset(w, x)
<1>1. w \in TimerRec
  BY DEF ListOK
<1>2. r = Given(w, x, "init", "UNUSED", "ONESHOT", 0, 0, 0)
  BY <1>1, ResetIs
<1>3. "UNUSED" \in TimerState /\ "ONESHOT" \in TimerOpt /\ 0 \in Times
  BY TimesAre DEF TimerState, TimerOpt
<1> HIDE DEF r
<1>4. OthersAlone(w, r, x) /\ r.state[x] = "UNUSED" /\ r.opt[x] = "ONESHOT"
  BY <1>1, <1>2, <1>3, GivenIs
<1> QED
  BY <1>4, AloneKept DEF r

(* A section of a task's call that changes no timer but its own.           *)
LEMMA SectionFits ==
    ASSUME NEW w, NEW cl, NEW wk, NEW L, Fits(w, cl, wk, L), wk.at \in Outside,
           NEW t \in Task \ {Idle, TimerTask}, NEW x \in Timer, cl[t].timer = x,
           NEW r, NEW M, ListOK(r, M), ElseSame(w, r, x, L, M),
           NEW c, c = NoCall \/ (c \in CallRec /\ c.timer = x /\ CallFits(c, M, r)),
           x \in M => r.state[x] \in {"RUNNING", "STOPPED"},
           c # NoCall \/ (x \in M <=> r.state[x] = "RUNNING"),
           Taken(x) /\ r.state[x] # "UNUSED" => r.opt[x] = "PERIODIC"
    PROVE  Fits(r, [cl EXCEPT ![t] = c], wk, M)
<1> DEFINE dl == [cl EXCEPT ![t] = c]
<1>1. wk.at # "place" /\ wk.at \notin Inside
  BY DEF Outside, Inside
<1>2. \A N : N \cup Placing(wk) = N
  BY <1>1, NotPlacing
<1>3. CallsOK(cl, w, L) /\ StatesOK(cl, w, L)
  BY <1>2 DEF Fits
<1>4. \A u \in Task \ {t} : cl[u].timer # x
  <2>1. cl[t] # NoCall
    BY TimerAssumption DEF NoCall, Node
  <2> QED
    BY <2>1 DEF Fits, CallsOK
<1>5. CallsOK(dl, r, M) /\ StatesOK(dl, r, M)
  BY <1>3, <1>4, CallReplaced
<1>6. WalkOK(wk, r, M)
  BY <1>1 DEF Fits, WalkOK, Inside
<1> QED
  BY <1>2, <1>5, <1>6 DEF Fits

(* An interrupts-disabled section of a task's call.                        *)
LEMMA GoOnFits ==
    ASSUME IsFiniteSet(Timer), NEW w, NEW cl, NEW wk, NEW L, Fits(w, cl, wk, L),
           wk.at \in Outside, NEW t \in Task \ {Idle, TimerTask}, cl[t] # NoCall,
           NEW g \in Garbage
    PROVE  LET c  == cl[t]
               nc == IF Len(c.todo) = 1 THEN NoCall ELSE [c EXCEPT !.todo = Tail(@)]
           IN  \E M : Fits(Section(Head(c.todo), c.timer, w, g), [cl EXCEPT ![t] = nc], wk, M)
<1> DEFINE c  == cl[t]
           x  == c.timer
           nc == IF Len(c.todo) = 1 THEN NoCall ELSE [c EXCEPT !.todo = Tail(@)]
           r  == Section(Head(c.todo), x, w, g)
<1>1. wk.at # "place"
  BY DEF Outside
<1>2. L \cup Placing(wk) = L
  BY <1>1, NotPlacing
<1>3. c \in CallRec
  BY DEF Fits, CallsOK
<1>4. x \in Timer /\ c.todo \in Remains
  BY <1>3 DEF CallRec
<1>5. CallFits(c, L, w) /\ w \in TimerRec /\ ListOK(w, L)
  <2>1. CallFits(c, L \cup Placing(wk), w)
    BY DEF Fits, CallsOK
  <2> QED
    BY <1>2, <2>1 DEF Fits, ListOK
<1>6. Taken(x) /\ w.state[x] # "UNUSED" => w.opt[x] = "PERIODIC"
  BY <1>4 DEF Fits, StatesOK
<1>7. \A s \in {"RUNNING", "STOPPED", "UNUSED"} : s \in TimerState
  BY DEF TimerState
<1> HIDE DEF c
<1>8. CASE c.todo = <<"place">>
  <2>1. Head(c.todo) = "place" /\ Len(c.todo) = 1
    BY <1>8
  <2>2. x \notin L /\ w.state[x] = "RUNNING"
    BY <1>5, <1>8, TodosDiffer DEF CallFits
  <2>3. r = timer_place(w, x) /\ nc = NoCall
    BY <2>1 DEF Section
  <2> HIDE DEF x, r, nc
  <2>4. ListOK(r, L \cup {x}) /\ SameTimers(w, r)
    BY <1>4, <1>5, <2>2, <2>3, Placed
  <2> DEFINE M == L \cup {x}
  <2>5. ElseSame(w, r, x, L, M)
    BY <2>4 DEF ElseSame, SameTimers
  <2>6. r.state[x] = "RUNNING" /\ x \in M /\ r.opt[x] = w.opt[x] /\ r.state[x] = w.state[x]
    BY <2>2, <2>4 DEF SameTimers
  <2>7. x = cl[t].timer
    BY DEF x, c
  <2>10. ListOK(r, M)
    BY <2>4
  <2> HIDE DEF M
  <2>8. Fits(r, [cl EXCEPT ![t] = nc], wk, M)
    <3>1. /\ x \in M => r.state[x] \in {"RUNNING", "STOPPED"}
          /\ nc # NoCall \/ (x \in M <=> r.state[x] = "RUNNING")
          /\ Taken(x) /\ r.state[x] # "UNUSED" => r.opt[x] = "PERIODIC"
      BY <1>6, <2>6
    <3> QED
      BY <1>4, <2>3, <2>5, <2>7, <2>10, <3>1, SectionFits
  <2> QED
    BY <2>8 DEF r, nc, x, c
<1>9. CASE c.todo = <<"reload", "place">>
  <2>1. Head(c.todo) = "reload" /\ Len(c.todo) = 2 /\ Tail(c.todo) = <<"place">>
    BY <1>9
  <2>2. x \in L /\ w.state[x] = "RUNNING"
    BY <1>5, <1>9, TodosDiffer DEF CallFits
  <2> DEFINE v == w.delay[x]
  <2>3. r = SetExpires(timer_takeoff(w, x, g), x, v) /\ v \in Times
    BY <1>4, <1>5, <2>1, RecFields DEF Section, SetExpires
  <2>4. nc \in CallRec /\ nc.timer = x /\ nc.todo = <<"place">> /\ nc # NoCall
    <3>1. nc = [c EXCEPT !.todo = <<"place">>]
      <4> DEFINE n == Len(c.todo)
                 s == Tail(c.todo)
      <4>1. n # 1 /\ s = <<"place">>
        BY <2>1
      <4>2. nc = IF n = 1 THEN NoCall ELSE [c EXCEPT !.todo = s]
        OBVIOUS
      <4> HIDE DEF n, s, nc
      <4> QED
        BY <4>1, <4>2
    <3>2. <<"place">> \in Remains
      BY DEF Remains
    <3>3. nc \in CallRec /\ nc.timer = x /\ nc.todo = <<"place">>
      BY <1>3, <3>1, <3>2 DEF CallRec
    <3> QED
      BY <3>3, TodosDiffer DEF NoCall
  <2> HIDE DEF x, r, nc, v
  <2>5. ListOK(r, L \ {x}) /\ r.state = w.state /\ r.opt = w.opt
    <3>1. ListOK(w, L) /\ x \in L /\ g \in Garbage /\ v \in Times
      BY <1>5, <2>2, <2>3
    <3> QED
      <4>1. ListOK(r, L \ {x}) /\ SameStates(w, r)
        BY <2>3, <3>1, Reloaded
      <4> QED
        BY <4>1 DEF SameStates
  <2> DEFINE M == L \ {x}
  <2>6. ElseSame(w, r, x, L, M)
    BY <2>5 DEF ElseSame
  <2>7. CallFits(nc, M, r)
    BY <2>2, <2>4, <2>5, TodosDiffer DEF CallFits
  <2>8. x = cl[t].timer /\ x \notin M
    BY DEF x, c
  <2>10. ListOK(r, M)
    BY <2>5
  <2> HIDE DEF M
  <2>9. Fits(r, [cl EXCEPT ![t] = nc], wk, M)
    BY <1>4, <1>6, <2>4, <2>5, <2>6, <2>7, <2>8, <2>10, SectionFits
  <2> QED
    BY <2>9 DEF r, nc, x, c
<1>10. CASE c.todo = <<"takeoff">>
  <2>1. Head(c.todo) = "takeoff" /\ Len(c.todo) = 1
    BY <1>10
  <2>2. x \in L /\ w.state[x] = "STOPPED"
    BY <1>5, <1>10, TodosDiffer DEF CallFits
  <2>3. r = timer_takeoff(w, x, g) /\ nc = NoCall
    BY <2>1 DEF Section
  <2> HIDE DEF x, r, nc
  <2>4. ListOK(r, L \ {x}) /\ SameTimers(w, r)
    BY <1>5, <2>2, <2>3, TakenOff
  <2> DEFINE M == L \ {x}
  <2>5. ElseSame(w, r, x, L, M)
    BY <2>4 DEF ElseSame, SameTimers
  <2>6. r.state[x] = "STOPPED" /\ x \notin M /\ r.opt[x] = w.opt[x] /\ r.state[x] = w.state[x]
    BY <2>2, <2>4 DEF SameTimers
  <2>7. x = cl[t].timer
    BY DEF x, c
  <2>10. ListOK(r, M)
    BY <2>4
  <2> HIDE DEF M
  <2>8. Fits(r, [cl EXCEPT ![t] = nc], wk, M)
    BY <1>4, <1>6, <2>3, <2>4, <2>5, <2>6, <2>7, <2>10, SectionFits
  <2> QED
    BY <2>8 DEF r, nc, x, c
<1>11. CASE c.todo = <<"takeoff", "reset">>
  <2>1. Head(c.todo) = "takeoff" /\ Len(c.todo) = 2 /\ Tail(c.todo) = <<"reset">>
    BY <1>11
  <2>2. x \in L /\ w.state[x] = "RUNNING" /\ Taken(x)
    BY <1>5, <1>11, TodosDiffer DEF CallFits
  <2>3. r = timer_takeoff(w, x, g)
    BY <2>1 DEF Section
  <2>4. nc \in CallRec /\ nc.timer = x /\ nc.todo = <<"reset">> /\ nc # NoCall
    <3>1. nc = [c EXCEPT !.todo = <<"reset">>]
      <4> DEFINE n == Len(c.todo)
                 s == Tail(c.todo)
      <4>1. n # 1 /\ s = <<"reset">>
        BY <2>1
      <4>2. nc = IF n = 1 THEN NoCall ELSE [c EXCEPT !.todo = s]
        OBVIOUS
      <4> HIDE DEF n, s, nc
      <4> QED
        BY <4>1, <4>2
    <3>2. <<"reset">> \in Remains
      BY DEF Remains
    <3>3. nc \in CallRec /\ nc.timer = x /\ nc.todo = <<"reset">>
      BY <1>3, <3>1, <3>2 DEF CallRec
    <3> QED
      BY <3>3 DEF NoCall
  <2> HIDE DEF x, r, nc
  <2>5. ListOK(r, L \ {x}) /\ SameTimers(w, r)
    BY <1>5, <2>2, <2>3, TakenOff
  <2> DEFINE M == L \ {x}
  <2>6. ElseSame(w, r, x, L, M)
    BY <2>5 DEF ElseSame, SameTimers
  <2>7. CallFits(nc, M, r)
    BY <2>2, <2>4, <2>5, TodosDiffer DEF CallFits, SameTimers
  <2>8. x = cl[t].timer /\ x \notin M /\ r.state = w.state /\ r.opt = w.opt
    BY <2>5 DEF x, c, SameTimers
  <2>10. ListOK(r, M)
    BY <2>5
  <2> HIDE DEF M
  <2>9. Fits(r, [cl EXCEPT ![t] = nc], wk, M)
    BY <1>4, <1>6, <2>4, <2>5, <2>6, <2>7, <2>8, <2>10, SectionFits
  <2> QED
    BY <2>9 DEF r, nc, x, c
<1>12. CASE c.todo = <<"reset">>
  <2>1. Head(c.todo) = "reset" /\ Len(c.todo) = 1
    BY <1>12
  <2>2. x \notin L
    BY <1>5, <1>12, TodosDiffer DEF CallFits
  <2>3. r = timer_reset(w, x) /\ nc = NoCall
    BY <2>1 DEF Section
  <2> HIDE DEF x, r, nc
  <2>4. /\ ListOK(r, L) /\ OthersAlone(w, r, x) /\ r.state[x] = "UNUSED"
    BY <1>4, <1>5, <2>2, <2>3, ResetKept
  <2>5. ElseSame(w, r, x, L, L)
    BY <2>4 DEF ElseSame, OthersAlone
  <2>6. x = cl[t].timer
    BY DEF x, c
  <2>7. Fits(r, [cl EXCEPT ![t] = nc], wk, L)
    BY <1>4, <2>2, <2>3, <2>4, <2>5, <2>6, SectionFits
  <2> QED
    BY <2>7 DEF r, nc, x, c
<1> QED
  BY <1>4, <1>8, <1>9, <1>10, <1>11, <1>12 DEF Remains

(* A tick, which also counts the slip of the timer task's look.            *)
LEMMA LaterFits ==
    ASSUME NEW w, NEW cl, NEW wk, NEW L, Fits(w, cl, wk, L),
           NEW fresh, fresh = {cl[t].timer : t \in {u \in Task : cl[u].todo = <<"place">>}}
                                 \cup (IF wk.at = "place" THEN {wk.cur} ELSE {}),
           NEW vk, vk = wk \/ (wk.at = "wait" /\ vk = [wk EXCEPT !.slip = @ + 1])
    PROVE  Fits(Later(w, fresh), cl, vk, L)
<1> DEFINE r == Later(w, fresh)
<1>1. fresh \cap L = {}
  <2>1. ASSUME NEW t \in Task, cl[t].todo = <<"place">> PROVE cl[t].timer \notin L
    <3>1. cl[t] # NoCall
      BY <2>1, TodosDiffer DEF NoCall
    <3>2. CallFits(cl[t], L \cup Placing(wk), w)
      BY <3>1 DEF Fits, CallsOK
    <3> QED
      BY <2>1, <3>2 DEF CallFits
  <2>2. wk.at = "place" => wk.cur \notin L
    BY DEF Fits, WalkOK
  <2> QED
    BY <2>1, <2>2
<1>2. ListOK(r, L) /\ SameLinks(w, r) /\ SameTimers(w, r)
  BY <1>1, LaterKept DEF Fits
<1> HIDE DEF r
<1>3. Fits(r, cl, wk, L)
  BY <1>2, SameFits DEF SameLinks, SameTimers
<1>4. CASE vk = wk
  BY <1>3, <1>4 DEF r
<1>5. CASE wk.at = "wait" /\ vk = [wk EXCEPT !.slip = @ + 1]
  <2>1. wk \in WalkRec
    BY FitFacts
  <2>2. vk \in WalkRec /\ vk.at = "wait"
    BY <1>5, <2>1 DEF WalkRec
  <2>3. WalkOK(vk, r, L)
    BY <2>2 DEF WalkOK
  <2>4. Placing(vk) = Placing(wk)
    BY <1>5, <2>2 DEF Placing
  <2> QED
    BY <1>3, <2>3, <2>4 DEF Fits, r
<1> QED
  BY <1>4, <1>5

(* The walk goes on to a node of the ring, or leaves the list.             *)
LEMMA LookFits ==
    ASSUME NEW w, NEW cl, NEW wk, NEW L, Fits(w, cl, wk, L), wk.at # "place",
           NEW n \in Ring(L)
    PROVE  Fits(w, cl, WalkFrom(w, n), L)
<1> DEFINE vk == WalkFrom(w, n)
<1>1. n \in Node /\ w.nx[n] \in Node /\ ListHead \in Node
  BY FitFacts
<1>2. vk \in WalkRec /\ vk.at = "look" /\ vk.cur = n /\ vk.tmp = w.nx[n]
  BY <1>1, TimesAre DEF WalkFrom, WalkTop, WalkRec, Inside, Outside
<1> HIDE DEF vk
<1>3. WalkOK(vk, w, L)
  BY <1>2 DEF WalkOK
<1>4. L \cup Placing(vk) = L /\ L \cup Placing(wk) = L
  BY <1>2, NotPlacing
<1> QED
  BY <1>3, <1>4 DEF Fits, vk

LEMMA OutFits ==
    ASSUME NEW w, NEW cl, NEW wk, NEW L, Fits(w, cl, wk, L), wk.at # "place",
           NEW vk \in WalkRec, vk.at \in Outside
    PROVE  Fits(w, cl, vk, L)
<1>1. WalkOK(vk, w, L) /\ vk.at # "place"
  BY DEF WalkOK, Outside
<1>2. L \cup Placing(vk) = L /\ L \cup Placing(wk) = L
  BY <1>1, NotPlacing
<1> QED
  BY <1>1, <1>2 DEF Fits

(* The walk moves on with the timer it has in hand.                        *)
MovedTo(wk, a) == [wk EXCEPT !.at = a]

LEMMA MovedIs ==
    ASSUME NEW wk \in WalkRec, NEW a \in Inside
    PROVE  LET vk == MovedTo(wk, a)
           IN  vk \in WalkRec /\ vk.at = a /\ vk.cur = wk.cur /\ vk.tmp = wk.tmp
  BY DEF MovedTo, WalkRec

(* The time of a periodic timer has come.                                  *)
LEMMA PeriodFits ==
    ASSUME NEW w, NEW cl, NEW wk, NEW L, Fits(w, cl, wk, L), wk.at = "look",
           wk.cur # ListHead, NEW g \in Garbage, w.opt[wk.cur] = "PERIODIC"
    PROVE  LET x == wk.cur
           IN  Fits(SetExpires(timer_takeoff(w, x, g), x, w.period[x]), cl,
                    MovedTo(wk, "place"), L \ {x})
<1> DEFINE x == wk.cur
           v == w.period[x]
           r == SetExpires(timer_takeoff(w, x, g), x, v)
           vk == MovedTo(wk, "place")
           M == L \ {x}
<1>1. x \in L /\ wk.tmp = w.nx[x] /\ x \in Timer /\ L \cup Placing(wk) = L
  <2>1. wk.cur \in Ring(L) /\ wk.tmp = w.nx[wk.cur]
    BY DEF Fits, WalkOK
  <2> QED
    BY <2>1, FitFacts, NotPlacing
<1>2. v \in Times /\ "place" \in Inside /\ wk \in WalkRec
  BY <1>1, FitFacts, RecFields DEF Inside
<1>3. vk \in WalkRec /\ vk.at = "place" /\ vk.cur = x /\ vk.tmp = w.nx[x]
  BY <1>1, <1>2, MovedIs
<1>4. w.opt[x] = "PERIODIC" /\ ListOK(w, L)
  BY DEF Fits
<1> HIDE DEF x, v, r, vk, M
<1>5. ListOK(r, M) /\ SameStates(w, r) /\ w.nx[x] \in Ring(M)
  BY <1>1, <1>2, <1>4, Reloaded DEF r, M
<1>6. WalkOK(vk, r, M)
  BY <1>1, <1>3, <1>4, <1>5 DEF WalkOK, SameStates, M
<1>7. M \cup Placing(vk) = L
  BY <1>1, <1>3 DEF Placing, M
<1>8. CallsOK(cl, w, L) /\ StatesOK(cl, w, L)
  BY <1>1 DEF Fits
<1>9. CallsOK(cl, r, L) /\ StatesOK(cl, r, L)
  BY <1>5, <1>8 DEF CallsOK, StatesOK, CallFits, SameStates
<1>10. Fits(r, cl, vk, M)
  BY <1>5, <1>6, <1>7, <1>9 DEF Fits
<1> QED
  BY <1>10 DEF r, v, vk, M, x

(* The time of a one-shot timer has come: nobody but the walk knows it.    *)
PutState(w, x, s) == [w EXCEPT !.state[x] = s]

LEMMA StateGiven ==
    ASSUME NEW a \in TimerRec, NEW x \in Timer, NEW s \in TimerState
    PROVE  LET r == PutState(a, x, s)
           IN  /\ OthersAlone(a, r, x) /\ SameLinks(a, r) /\ r.expires = a.expires
               /\ r.state[x] = s /\ r.opt = a.opt
<1> DEFINE r == PutState(a, x, s)
           o == a.opt[x]
           d == a.delay[x]
           p == a.period[x]
           e == a.expires[x]
<1>1. o \in TimerOpt /\ d \in Times /\ p \in Times /\ e \in Times /\ e = a.expires[x]
  BY RecFields
<1>2. r = Given(a, x, "kept", s, o, d, p, e)
  BY DEF PutState, Given, SetTimer, TimerRec
<1>3. r.opt = a.opt
  BY DEF PutState, TimerRec
<1> HIDE DEF r, o, d, p, e
<1>4. /\ OthersAlone(a, r, x) /\ SameLinks(a, r) /\ r.expires = a.expires /\ r.state[x] = s
  BY <1>1, <1>2, GivenIs
<1> QED
  BY <1>3, <1>4 DEF r

LEMMA OnceFits ==
    ASSUME NEW w, NEW cl, NEW wk, NEW L, Fits(w, cl, wk, L), wk.at = "look",
           wk.cur # ListHead, NEW g \in Garbage, w.opt[wk.cur] # "PERIODIC"
    PROVE  LET x == wk.cur
           IN  Fits(PutState(timer_takeoff(w, x, g), x, "COMPLETED"), cl,
                    MovedTo(wk, "cb"), L \ {x})
<1> DEFINE x == wk.cur
           a == timer_takeoff(w, x, g)
           s == "COMPLETED"
           r == PutState(a, x, s)
           vk == MovedTo(wk, "cb")
           M == L \ {x}
<1>1. x \in L /\ wk.tmp = w.nx[x] /\ x \in Timer /\ L \cup Placing(wk) = L
  <2>1. wk.cur \in Ring(L) /\ wk.tmp = w.nx[wk.cur]
    BY DEF Fits, WalkOK
  <2> QED
    BY <2>1, FitFacts, NotPlacing
<1>2. s \in TimerState /\ "cb" \in Inside /\ wk \in WalkRec
  BY <1>1, FitFacts DEF Inside, TimerState
<1>3. vk \in WalkRec /\ vk.at = "cb" /\ vk.cur = x /\ vk.tmp = w.nx[x]
  BY <1>1, <1>2, MovedIs
<1>4. w.opt[x] # "PERIODIC" /\ ListOK(w, L) /\ CallsOK(cl, w, L) /\ StatesOK(cl, w, L)
  BY <1>1 DEF Fits
<1>5. ~Taken(x) /\ ~Pending(cl, x)
  <2>1. w.state[x] # "UNUSED"
    BY <1>1, <1>4 DEF StatesOK
  <2>2. ~Taken(x)
    BY <1>1, <1>4, <2>1 DEF StatesOK
  <2> QED
    BY <1>1, <2>2, PendingIs
<1> HIDE DEF x, a, r, vk, M
<1>6. ListOK(a, M) /\ SameTimers(w, a) /\ w.nx[x] \in Ring(M)
  BY <1>1, <1>4, TakenOff DEF a, M
<1>7. OthersAlone(a, r, x) /\ r.state[x] = "COMPLETED" /\ r.opt = a.opt
  <2>1. a \in TimerRec
    BY <1>6 DEF ListOK
  <2> HIDE DEF s
  <2>2. OthersAlone(a, r, x) /\ r.state[x] = s /\ r.opt = a.opt
    BY <1>1, <1>2, <2>1, StateGiven DEF r
  <2> QED
    BY <2>2 DEF s
<1>8. x \notin M
  BY DEF M
<1>9. ListOK(r, M)
  BY <1>1, <1>6, <1>7, <1>8, AloneKept
<1>10. ElseSame(w, r, x, L, M)
  BY <1>6, <1>7 DEF ElseSame, OthersAlone, SameTimers, M
<1>11. CallsOK(cl, r, M)
  <2>1. \A t \in Task : cl[t].timer # x
    BY <1>5 DEF Pending
  <2> QED
    BY <1>1, <1>4, <1>10, <2>1, CallsElse
<1>12. StatesOK(cl, r, M)
  <2>1. r.state[x] # "RUNNING"
    BY <1>7
  <2> QED
    BY <1>1, <1>4, <1>5, <1>8, <1>10, <2>1, StatesElse
<1>13. x \in Timer /\ x # ListHead /\ \A n \in Ring(M) : n # x
  BY <1>1, <1>8, TimerAssumption DEF Ring, Node
<1>14. WalkOK(vk, r, M)
  <2>1. r.opt[x] = w.opt[x]
    BY <1>6, <1>7 DEF SameTimers
  <2> QED
    BY <1>3, <1>4, <1>6, <1>7, <1>8, <1>13, <2>1 DEF WalkOK
<1>15. M \cup Placing(vk) = M
  BY <1>3 DEF Placing
<1>16. Fits(r, cl, vk, M)
  BY <1>9, <1>11, <1>12, <1>14, <1>15 DEF Fits
<1> QED
  BY <1>16 DEF r, a, vk, M, x

(* A periodic timer is placed again.                                       *)
LEMMA AgainFits ==
    ASSUME IsFiniteSet(Timer), NEW w, NEW cl, NEW wk, NEW L, Fits(w, cl, wk, L),
           wk.at = "place"
    PROVE  Fits(timer_place(w, wk.cur), cl, MovedTo(wk, "cb"), L \cup {wk.cur})
<1> DEFINE x == wk.cur
           r == timer_place(w, x)
           vk == MovedTo(wk, "cb")
           M == L \cup {x}
<1>1. /\ x \in Timer \ L /\ w.opt[x] = "PERIODIC" /\ wk.tmp \in Ring(L) /\ wk \in WalkRec
      /\ L \cup Placing(wk) = M
  BY DEF Fits, WalkOK, Placing
<1>2. "cb" \in Inside
  BY DEF Inside
<1>3. vk \in WalkRec /\ vk.at = "cb" /\ vk.cur = x /\ vk.tmp = wk.tmp
  BY <1>1, <1>2, MovedIs
<1>4. ListOK(w, L) /\ CallsOK(cl, w, M) /\ StatesOK(cl, w, M)
  BY <1>1 DEF Fits
<1> HIDE DEF x, r, vk, M
<1>5. ListOK(r, M) /\ SameTimers(w, r)
  BY <1>1, <1>4, Placed DEF r, M
<1>6. CallsOK(cl, r, M) /\ StatesOK(cl, r, M)
  BY <1>4, <1>5 DEF CallsOK, StatesOK, CallFits, SameTimers
<1>7. wk.tmp # x /\ wk.tmp \in Ring(M) /\ x \in M
  BY <1>1, TimerAssumption DEF Ring, Node, M
<1>8. WalkOK(vk, r, M)
  BY <1>1, <1>3, <1>5, <1>7 DEF WalkOK, SameTimers
<1>9. M \cup Placing(vk) = M
  BY <1>3 DEF Placing
<1>10. Fits(r, cl, vk, M)
  BY <1>5, <1>6, <1>8, <1>9 DEF Fits
<1> QED
  BY <1>10 DEF r, vk, M, x

(* A callback's call on a timer that no task has in hand.                  *)
LEMMA CallbackDone ==
    ASSUME NEW w, NEW cl, NEW wk, NEW L, Fits(w, cl, wk, L), wk.at = "cb",
           NEW x \in Timer, ~Pending(cl, x),
           NEW r, NEW M, ListOK(r, M), ElseSame(w, r, x, L, M), wk.tmp \in Ring(M),
           x \in M <=> r.state[x] = "RUNNING",
           Taken(x) /\ r.state[x] # "UNUSED" => r.opt[x] = "PERIODIC"
    PROVE  Fits(r, cl, MovedTo(wk, "next"), M)
<1> DEFINE vk == MovedTo(wk, "next")
<1>1. wk \in WalkRec /\ "next" \in Inside
  BY FitFacts DEF Inside
<1>2. vk \in WalkRec /\ vk.at = "next" /\ vk.tmp = wk.tmp
  BY <1>1, MovedIs
<1> HIDE DEF vk
<1>3. L \cup Placing(wk) = L /\ M \cup Placing(vk) = M
  BY <1>2, NotPlacing
<1>4. CallsOK(cl, w, L) /\ StatesOK(cl, w, L)
  BY <1>3 DEF Fits
<1>5. CallsOK(cl, r, M)
  <2>1. \A t \in Task : cl[t].timer # x
    BY DEF Pending
  <2> QED
    BY <1>4, <2>1, CallsElse
<1>6. StatesOK(cl, r, M)
  BY <1>4, StatesElse
<1>7. WalkOK(vk, r, M)
  BY <1>2 DEF WalkOK
<1> QED
  BY <1>3, <1>5, <1>6, <1>7 DEF Fits, vk

LEMMA CallbackStart ==
    ASSUME IsFiniteSet(Timer), NEW w, NEW cl, NEW wk, NEW L, Fits(w, cl, wk, L),
           wk.at = "cb", NEW x \in Timer, ~Taken(x), Allowed("start", x, w)
    PROVE  Fits(timer_place(Begun("start", x, w), x), cl, MovedTo(wk, "next"), L \cup {x})
<1> DEFINE op == "start"
           b == Begun(op, x, w)
           r == timer_place(b, x)
           M == L \cup {x}
<1>1. w.state[x] \in {"STOPPED", "COMPLETED"} /\ op \in Begins /\ op = "start"
  BY DEF Allowed, Begins
<1>2. L \cup Placing(wk) = L
  BY NotPlacing
<1>3. ~Pending(cl, x) /\ x \notin L
  <2>1. ~Pending(cl, x)
    BY <1>1, PendingIs
  <2> QED
    BY <1>1, <1>2, <2>1 DEF Fits, StatesOK
<1> HIDE DEF op, b
<1>4. OthersAlone(w, b, x) /\ b.state[x] = "RUNNING" /\ b.opt[x] = w.opt[x]
  BY <1>1, FitFacts, BegunIs DEF b
<1>5. ListOK(b, L)
  BY <1>3, <1>4, AloneKept DEF Fits
<1> HIDE DEF r, M
<1>6. ListOK(r, M) /\ SameTimers(b, r)
  BY <1>3, <1>5, Placed DEF r, M
<1>7. ElseSame(w, r, x, L, M)
  BY <1>4, <1>6 DEF ElseSame, OthersAlone, SameTimers, M
<1>8. wk.tmp \in Ring(M) /\ x \in M
  BY DEF Fits, WalkOK, Ring, M
<1>9. r.state[x] = "RUNNING"
  BY <1>4, <1>6 DEF SameTimers
<1>10. Fits(r, cl, MovedTo(wk, "next"), M)
  BY <1>3, <1>6, <1>7, <1>8, <1>9, CallbackDone
<1> QED
  BY <1>10 DEF r, b, op, M

LEMMA CallbackRestart ==
    ASSUME IsFiniteSet(Timer), NEW w, NEW cl, NEW wk, NEW L, Fits(w, cl, wk, L),
           wk.at = "cb", NEW g \in Garbage, w.state[wk.cur] = "RUNNING"
    PROVE  LET x == wk.cur
           IN  Fits(timer_place(SetExpires(timer_takeoff(w, x, g), x, w.delay[x]), x), cl,
                    MovedTo(wk, "next"), L)
<1> DEFINE x == wk.cur
           v == w.delay[x]
           a == SetExpires(timer_takeoff(w, x, g), x, v)
           r == timer_place(a, x)
           vk == MovedTo(wk, "next")
           M == L \ {x}
<1>1. x \in L /\ x \in Timer /\ wk.tmp \in Ring(L) /\ ListOK(w, L) /\ wk \in WalkRec
  BY DEF Fits, WalkOK
<1>2. v \in Times /\ "next" \in Inside
  BY <1>1, FitFacts, RecFields DEF Inside
<1>3. vk \in WalkRec /\ vk.at = "next" /\ vk.tmp = wk.tmp
  BY <1>1, <1>2, MovedIs
<1> HIDE DEF x, v, a, r, vk, M
<1>4. ListOK(a, M) /\ SameStates(w, a)
  BY <1>1, <1>2, Reloaded DEF a, M
<1>5. x \in Timer \ M /\ M \cup {x} = L
  BY <1>1 DEF M
<1>6. ListOK(r, L) /\ SameTimers(a, r)
  <2>1. ListOK(r, M \cup {x}) /\ SameTimers(a, r)
    BY <1>4, <1>5, Placed DEF r
  <2> QED
    BY <1>5, <2>1
<1>7. r.state = w.state /\ r.opt = w.opt
  BY <1>4, <1>6 DEF SameStates, SameTimers
<1>8. L \cup Placing(wk) = L /\ L \cup Placing(vk) = L
  BY <1>3, NotPlacing
<1>9. CallsOK(cl, r, L) /\ StatesOK(cl, r, L)
  BY <1>7, <1>8 DEF Fits, CallsOK, StatesOK, CallFits
<1>10. WalkOK(vk, r, L)
  BY <1>1, <1>3 DEF WalkOK
<1>11. Fits(r, cl, vk, L)
  BY <1>6, <1>8, <1>9, <1>10 DEF Fits
<1> QED
  BY <1>11 DEF r, a, v, vk, x

(* The timer of the callback, and what is taken off the list.              *)
LEMMA CallbackFacts ==
    ASSUME NEW w, NEW cl, NEW wk, NEW L, Fits(w, cl, wk, L), wk.at = "cb",
           ~Taken(wk.cur), w.state[wk.cur] # "UNUSED"
    PROVE  /\ wk.cur \in Timer /\ wk.tmp \in Ring(L \ {wk.cur}) /\ ~Pending(cl, wk.cur)
           /\ wk.cur \in L <=> w.state[wk.cur] = "RUNNING"
<1> DEFINE x == wk.cur
<1>1. x \in Timer /\ wk.tmp \in Ring(L) /\ wk.tmp # x
  BY DEF Fits, WalkOK
<1>2. wk.tmp \in Ring(L \ {x})
  BY <1>1 DEF Ring
<1>3. L \cup Placing(wk) = L
  BY NotPlacing
<1>4. w.opt[x] = "PERIODIC" => x \in L
  BY DEF Fits, WalkOK
<1>5. w.opt[x] # "PERIODIC" => x \notin L /\ w.state[x] = "COMPLETED"
  BY DEF Fits, WalkOK
<1>6. Pending(cl, x) => x \notin L /\ w.state[x] = "RUNNING"
  BY <1>1, <1>3, PendingIs
<1>7. ~Pending(cl, x)
  BY <1>4, <1>5, <1>6
<1>8. x \in L <=> w.state[x] = "RUNNING"
  BY <1>1, <1>3, <1>7 DEF Fits, StatesOK
<1> QED
  BY <1>1, <1>2, <1>7, <1>8

LEMMA CallbackStop ==
    ASSUME NEW w, NEW cl, NEW wk, NEW L, Fits(w, cl, wk, L), wk.at = "cb",
           ~Taken(wk.cur), w.state[wk.cur] = "RUNNING", NEW g \in Garbage
    PROVE  LET x == wk.cur
           IN  Fits(timer_takeoff(Begun("stop", x, w), x, g), cl, MovedTo(wk, "next"),
                    L \ {x})
<1> DEFINE x == wk.cur
           op == "stop"
           b == Begun(op, x, w)
           r == timer_takeoff(b, x, g)
           M == L \ {x}
<1>1. /\ x \in Timer /\ wk.tmp \in Ring(M) /\ ~Pending(cl, x) /\ x \in L /\ x \notin M
      /\ op \in Begins /\ op # "start" /\ op = "stop" /\ ~Taken(x)
  BY CallbackFacts DEF Begins
<1> HIDE DEF x, op, b
<1>2. /\ OthersAlone(w, b, x) /\ SameLinks(w, b) /\ b.expires = w.expires
      /\ b.state[x] = "STOPPED"
  BY <1>1, FitFacts, BegunIs DEF b
<1>3. ListOK(b, L)
  BY <1>1, <1>2, AloneKept DEF Fits
<1> HIDE DEF r, M
<1>4. ListOK(r, M) /\ SameTimers(b, r)
  BY <1>1, <1>3, TakenOff DEF r, M
<1>5. ElseSame(w, r, x, L, M)
  BY <1>2, <1>4 DEF ElseSame, OthersAlone, SameTimers, M
<1>6. r.state[x] # "RUNNING"
  BY <1>2, <1>4 DEF SameTimers
<1>7. Fits(r, cl, MovedTo(wk, "next"), M)
  BY <1>1, <1>4, <1>5, <1>6, CallbackDone
<1> QED
  BY <1>7 DEF r, b, op, M, x

LEMMA CallbackDestroy ==
    ASSUME NEW w, NEW cl, NEW wk, NEW L, Fits(w, cl, wk, L), wk.at = "cb",
           ~Taken(wk.cur), w.state[wk.cur] # "UNUSED", NEW g \in Garbage
    PROVE  LET x == wk.cur
               a == IF w.state[x] = "RUNNING" THEN timer_takeoff(w, x, g) ELSE w
           IN  Fits(timer_reset(a, x), cl, MovedTo(wk, "next"), L \ {x})
<1> DEFINE x == wk.cur
           a == IF w.state[x] = "RUNNING" THEN timer_takeoff(w, x, g) ELSE w
           r == timer_reset(a, x)
           M == L \ {x}
<1>1. /\ x \in Timer /\ wk.tmp \in Ring(M) /\ ~Pending(cl, x) /\ x \in Timer \ M
      /\ x \in L <=> w.state[x] = "RUNNING"
      /\ ListOK(w, L) /\ ~Taken(x)
  BY CallbackFacts DEF Fits
<1> HIDE DEF x
<1>2. ListOK(a, M) /\ SameTimers(w, a)
  <2>1. CASE w.state[x] = "RUNNING"
    BY <1>1, <2>1, TakenOff
  <2>2. CASE w.state[x] # "RUNNING"
    <3>1. a = w /\ M = L
      BY <1>1, <2>2
    <3> QED
      BY <1>1, <3>1 DEF SameTimers
  <2> QED
    BY <2>1, <2>2
<1> HIDE DEF a, r, M
<1>3. ListOK(r, M) /\ OthersAlone(a, r, x) /\ r.state[x] = "UNUSED"
  BY <1>1, <1>2, ResetKept DEF r
<1>4. ElseSame(w, r, x, L, M)
  BY <1>2, <1>3 DEF ElseSame, OthersAlone, SameTimers, M
<1>5. r.state[x] # "RUNNING"
  BY <1>3
<1>6. Fits(r, cl, MovedTo(wk, "next"), M)
  BY <1>1, <1>3, <1>4, <1>5, CallbackDone
<1> QED
  BY <1>6 DEF r, a, M, x

(* The call a callback makes is as careful as the calls of tasks.          *)
LEMMA CallbackFits ==
    ASSUME IsFiniteSet(Timer), CarefulUse, NEW w, NEW cl, NEW wk, NEW L, Fits(w, cl, wk, L),
           wk.at = "cb", NEW x \in Timer, NEW op \in Begins,
           <<wk.cur, op, x>> \in CallbackCalls, Allowed(op, x, w), NEW g \in Garbage
    PROVE  \E M : Fits(InOneGo(op, x, w, g), cl, MovedTo(wk, "next"), M)
<1> DEFINE d == <<wk.cur, op, x>>
<1>1. /\ op = "start" => ~Taken(x)
      /\ op \in {"restart", "stop", "destroy"} => wk.cur = x
      /\ op \in {"stop", "destroy"} => ~Taken(x)
  <2>1. d \in CallbackCalls /\ d[1] = wk.cur /\ d[2] = op /\ d[3] = x
    OBVIOUS
  <2> HIDE DEF d
  <2> QED
    BY <2>1 DEF CarefulUse
<1>2. CASE op = "start"
  <2>1. InOneGo(op, x, w, g) = timer_place(Begun(op, x, w), x)
    BY <1>2 DEF InOneGo, Sections, Section
  <2>2. Fits(timer_place(Begun("start", x, w), x), cl, MovedTo(wk, "next"), L \cup {x})
    BY <1>1, <1>2, CallbackStart
  <2> QED
    BY <1>2, <2>1, <2>2
<1>3. CASE op = "restart"
  <2>1. InOneGo(op, x, w, g)
           = timer_place(SetExpires(timer_takeoff(w, x, g), x, w.delay[x]), x)
    BY <1>3 DEF InOneGo, Sections, Section, Begun, SetExpires
  <2>2. w.state[x] = "RUNNING" /\ wk.cur = x
    BY <1>1, <1>3 DEF Allowed
  <2> QED
    BY <2>1, <2>2, CallbackRestart
<1>4. CASE op = "stop"
  <2>1. InOneGo(op, x, w, g) = timer_takeoff(Begun(op, x, w), x, g)
    BY <1>4 DEF InOneGo, Sections, Section
  <2>2. w.state[x] = "RUNNING" /\ wk.cur = x /\ ~Taken(x)
    BY <1>1, <1>4 DEF Allowed
  <2>3. Fits(timer_takeoff(Begun("stop", x, w), x, g), cl, MovedTo(wk, "next"), L \ {x})
    BY <2>2, CallbackStop
  <2> QED
    BY <1>4, <2>1, <2>3
<1>5. CASE op = "destroy"
  <2>1. InOneGo(op, x, w, g)
           = timer_reset(IF w.state[x] = "RUNNING" THEN timer_takeoff(w, x, g) ELSE w, x)
    BY <1>5 DEF InOneGo, Sections, Section, Begun
  <2>2. w.state[x] # "UNUSED" /\ wk.cur = x /\ ~Taken(x)
    BY <1>1, <1>5 DEF Allowed
  <2> DEFINE a == IF w.state[x] = "RUNNING" THEN timer_takeoff(w, x, g) ELSE w
  <2>3. Fits(timer_reset(a, x), cl, MovedTo(wk, "next"), L \ {x})
    <3>1. LET b == IF w.state[wk.cur] = "RUNNING" THEN timer_takeoff(w, wk.cur, g) ELSE w
          IN  Fits(timer_reset(b, wk.cur), cl, MovedTo(wk, "next"), L \ {wk.cur})
      BY <2>2, CallbackDestroy
    <3> QED
      BY <2>2, <3>1
  <2> QED
    BY <2>1, <2>3
<1> QED
  BY <1>2, <1>3, <1>4, <1>5 DEF Begins

----------------------------------------------------------------------------
(* The scheduler under the timers.                                         *)

LEMMA CalmKept == Calm(knl) /\ WaitStep => Calm(knl')
<1> SUFFICES ASSUME Calm(knl), WaitStep, NEW u \in Task PROVE ~IsPending(knl', u)
  BY DEF Calm
<1>1. ~IsPending(knl, u)
  BY DEF Calm
<1>2. CASE \E A \in SUBSET Sleepers(knl) : Woke(A, "TIMEOUT")
  BY <1>1, <1>2 DEF Woke, Ended, Steady
<1>3. CASE \E t \in Task : Alone(t) /\ (Left(t) \/ (SuspendUsed /\ Dropped(t)))
  BY <1>1, <1>3 DEF Alone, Left, Dropped, Steady
<1> QED
  BY <1>2, <1>3 DEF WaitStep

LEMMA RestSame ==
    ASSUME NEW k, NEW r, DeadRest(k), r.state = k.state, r.obj = k.obj PROVE DeadRest(r)
  BY DEF DeadRest, IsSuspended

LEMMA RestBut ==
    ASSUME NEW k, NEW r, NEW t, DeadRest(k), \A u \in Task \ {t} : r.state[u] = k.state[u],
           \/ t \in k.obj /\ r.obj = k.obj
           \/ r.obj = k.obj \ {t} /\ r.state[t] = {"DELETED"}
    PROVE  DeadRest(r)
  BY DEF DeadRest, IsSuspended

(* What the calls of OtherApi leave alone.                                 *)
Tame ==
    /\ TaskRuns \/ (isr # << >> /\ Head(isr) = "isr")
    /\ knl'.curr = knl.curr /\ isr' = isr
    /\ knl'.schedLock = knl.schedLock \/ TaskRuns
    /\ pc[TimerTask] = "none" => pc'[TimerTask] = "none"

LEMMA TameFrom ==
    ASSUME NEW api, NEW k,
           \/ Preamble(api) /\ ThenSched(k)
           \/ (Preamble(api) \/ IsrPreamble(api)) /\ ThenReturn(k),
           k.curr = knl.curr, k.schedLock = knl.schedLock \/ TaskRuns, TypeOK
    PROVE  Tame /\ knl' = k
  BY TimerTaskAssumption, TypeFacts
  DEF Tame, Preamble, IsrPreamble, ThenSched, ThenReturn, TaskRuns

LEMMA DestroyTame ==
    ASSUME NEW t \in Task, Safe, Unowned(knl), DeadRest(knl), Destroy(t)
    PROVE  Tame /\ DeadRest(knl')
<1> DEFINE r == Bury(knl, t)
<1>1. TaskRuns /\ Sound(knl) /\ t \in (knl.obj \cap Task) \ {Idle} /\ knl.own[t] = << >>
  BY CallerReady DEF Destroy, Unowned
<1>2. knl' = r /\ isr' = isr /\ pc' = [pc EXCEPT ![t] = "none", ![knl.curr] = "sched"]
  BY <1>1, DestroyBuries DEF Destroy
<1>3. /\ SameCpu(knl, r) /\ Elsewhere(knl, r, t) /\ r.obj = knl.obj \ {t}
      /\ r.state[t] = {"DELETED"}
  BY <1>1, BurySound
<1> HIDE DEF r
<1>4. DeadRest(r)
  BY <1>3, RestBut DEF Elsewhere
<1>5. pc \in [Task -> Label] /\ TimerTask \in Task /\ knl.curr \in Task
  BY TypeFacts, TimerTaskAssumption DEF Safe
<1>6. Tame
  BY <1>1, <1>2, <1>3, <1>5 DEF Tame, SameCpu, TaskRuns
<1> QED
  BY <1>2, <1>4, <1>6

LEMMA SuspendTame ==
    ASSUME NEW t \in Task, Safe, DeadRest(knl), Suspend(t)
    PROVE  Tame /\ DeadRest(knl')
<1> DEFINE r == task_suspend(knl, t)
<1>1. /\ t \in (knl.obj \cap Task) \ {Idle} /\ TypeOK
      /\ \/ Preamble("suspend") /\ ThenSched(r)
         \/ IsrPreamble("suspend") /\ ThenReturn(r)
  BY DEF Suspend, Safe
<1>2. Others(knl, r, t)
  BY <1>1, SuspendSound DEF Safe
<1> HIDE DEF r
<1>3. Tame /\ knl' = r
  BY <1>1, <1>2, TameFrom DEF Others, SameFrame
<1> QED
  BY <1>1, <1>2, <1>3, RestBut DEF Others, SameFrame

LEMMA ResumeTame ==
    ASSUME NEW t \in Task, Safe, DeadRest(knl), Resume(t)
    PROVE  Tame /\ DeadRest(knl')
<1> DEFINE r == task_resume(knl, t)
<1>1. /\ t \in knl.obj \cap Task /\ IsSuspended(knl, t) /\ TypeOK
      /\ \/ Preamble("resume") /\ ThenSched(r)
         \/ IsrPreamble("resume") /\ ThenReturn(r)
  BY DEF Resume, Safe
<1>2. t # Idle
  BY <1>1 DEF Safe, Sound, Alive, IsSuspended
<1>3. SameControl(knl, r) /\ \A u \in Task \ {t} : r.state[u] = knl.state[u]
  BY <1>1, <1>2, ResumeSound DEF Safe
<1> HIDE DEF r
<1>4. Tame /\ knl' = r
  BY <1>1, <1>3, TameFrom DEF SameControl
<1> QED
  BY <1>1, <1>3, <1>4, RestBut DEF SameControl

LEMMA DelayAbortTame ==
    ASSUME NEW t \in Task, Safe, DeadRest(knl), ~IsPending(knl, t), DelayAbort(t)
    PROVE  Tame /\ DeadRest(knl')
<1> DEFINE r == readyqueue_add(tick_list_remove(knl, t), t)
<1>1. /\ Sound(knl) /\ Preamble("delay_abort") /\ ThenSched(r) /\ TypeOK /\ t \in knl.obj
      /\ IsSleeping(knl, t) /\ ~IsSuspended(knl, t)
  BY DEF DelayAbort, Safe
<1>2. SameFrame(knl, r) /\ \A u \in Task \ {t} : r.state[u] = knl.state[u]
  BY <1>1, AbortSound
<1> HIDE DEF r
<1>3. Tame /\ knl' = r
  BY <1>1, <1>2, TameFrom DEF SameFrame
<1> QED
  BY <1>1, <1>2, <1>3, RestBut DEF SameFrame

LEMMA DelayTame ==
    ASSUME NEW d \in Delays, Safe, DeadRest(knl), Delay(d)
    PROVE  Tame /\ DeadRest(knl')
<1> DEFINE t == knl.curr
           r == readyqueue_remove(tick_list_add(knl, t, d), t)
<1>1. /\ t \in ReadySet(knl) \ {Idle} /\ Sound(knl) /\ TypeOK
      /\ Preamble("delay") /\ ThenSched(r)
  BY CallerReady DEF Delay, Safe
<1>2. d \in Nat
  BY InputAssumption, TimeAssumption
<1>3. SameBut(knl, r, t)
  <2> HIDE DEF t
  <2> QED
    BY <1>1, <1>2, DelaySound
<1> HIDE DEF r
<1>4. Tame /\ knl' = r
  BY <1>1, <1>3, TameFrom DEF SameBut, SameControl
<1>5. t \in knl.obj
  BY <1>1 DEF ReadySet
<1> QED
  BY <1>3, <1>4, <1>5, RestBut DEF SameBut, SameControl

LEMMA YieldTame == ASSUME Safe, DeadRest(knl), Yield PROVE Tame /\ DeadRest(knl')
<1> DEFINE t == knl.curr
           r == readyqueue_add_tail(readyqueue_remove(knl, t), t)
<1>1. /\ t \in ReadySet(knl) \ {Idle} /\ Sound(knl) /\ TypeOK
      /\ Preamble("yield") /\ ThenSched(r)
  BY CallerReady DEF Yield, Safe
<1>2. SameControl(knl, r) /\ r.state = knl.state
  <2> HIDE DEF t
  <2> QED
    BY <1>1, YieldSound
<1> HIDE DEF r
<1>3. Tame /\ knl' = r
  BY <1>1, <1>2, TameFrom DEF SameControl
<1> QED
  BY <1>2, <1>3, RestSame DEF SameControl

LEMMA LockTame ==
    ASSUME Safe, DeadRest(knl), SchedLock \/ SchedUnlock PROVE Tame /\ DeadRest(knl')
<1>1. PICK n \in Nat : /\ Preamble("sched_lock")
                       /\ ThenSched(SetLock(knl, n)) \/ ThenReturn(SetLock(knl, n))
  <2>1. knl.schedLock \in Nat
    BY TypeFacts DEF Safe
  <2>2. CASE SchedLock
    <3>1. Preamble("sched_lock") /\ ThenReturn(SetLock(knl, knl.schedLock + 1))
      BY <2>2 DEF SchedLock, SetLock
    <3> QED
      BY <2>1, <3>1
  <2>3. CASE SchedUnlock
    <3>1. /\ Preamble("sched_lock") /\ ThenSched(SetLock(knl, knl.schedLock - 1))
          /\ knl.schedLock > 0
      BY <2>3 DEF SchedUnlock, SetLock, knl_is_sched_locked
    <3> QED
      BY <2>1, <3>1
  <2> QED
    BY <2>2, <2>3
<1> DEFINE r == SetLock(knl, n)
<1>2. SameLists(knl, r) /\ r.curr = knl.curr
  BY LockSound DEF Safe
<1>3. Preamble("sched_lock") /\ (ThenSched(r) \/ ThenReturn(r)) /\ TypeOK /\ TaskRuns
  BY <1>1 DEF Safe, Preamble
<1> HIDE DEF r
<1>4. Tame /\ knl' = r
  BY <1>2, <1>3, TameFrom
<1> QED
  BY <1>2, <1>4, RestSame DEF SameLists

LEMMA TimesliceTame ==
    ASSUME NEW t \in Task, NEW slice \in Timeslices, Safe, DeadRest(knl), TimesliceSet(t, slice)
    PROVE  Tame /\ DeadRest(knl')
<1> DEFINE reload == IF slice = 0 THEN RobinDefault ELSE slice
           left   == IF reload > knl.timeslice[t] THEN reload ELSE knl.timeslice[t]
           r      == Sliced(knl, t, reload, left)
<1>1. ThenReturn(r) /\ (Preamble("timeslice_set") \/ IsrPreamble("timeslice_set")) /\ TypeOK
  BY DEF TimesliceSet, Sliced, Safe
<1> HIDE DEF reload, left
<1>2. r.curr = knl.curr /\ r.schedLock = knl.schedLock /\ r.state = knl.state /\ r.obj = knl.obj
  BY DEF Sliced, Safe, Sound, KernelType
<1> HIDE DEF r
<1>3. Tame /\ knl' = r
  BY <1>1, <1>2, TameFrom
<1> QED
  BY <1>2, <1>3, RestSame

LEMMA OtherApiTame ==
    ASSUME Safe, Unowned(knl), DeadRest(knl), OtherApi PROVE Tame /\ DeadRest(knl')
<1>1. CASE \E t \in Task : \/ Destroy(t) \/ Suspend(t) \/ Resume(t)
                           \/ ~IsPending(knl, t) /\ DelayAbort(t)
  BY <1>1, DestroyTame, SuspendTame, ResumeTame, DelayAbortTame
<1>2. CASE \E d \in Delays : Delay(d)
  BY <1>2, DelayTame
<1>3. CASE \E t \in Task \ {Idle}, s \in Timeslices : TimesliceSet(t, s)
  BY <1>3, TimesliceTame
<1>4. CASE Yield \/ SchedLock \/ SchedUnlock
  BY <1>4, YieldTame, LockTame
<1> QED
  BY <1>1, <1>2, <1>3, <1>4 DEF OtherApi

----------------------------------------------------------------------------
(* The steps of the kernel and the application besides the timers.         *)

LEMMA OtherIsNext == OtherTaskStep => [Next]_vars
<1>1. OtherApi => Next
  BY DEF Next, OtherStep
<1>2. ASSUME IrqEnter("tick") \/ IrqEnter("isr") PROVE Next
  BY <1>2 DEF Next, OtherStep
<1>3. PendSV_Handler \/ SchedPoint \/ RobinSched \/ IrqLeave => Next
  BY DEF Next, OtherStep, KernelStep
<1> QED
  BY <1>1, <1>2, <1>3 DEF OtherTaskStep

(* The processor and the scheduler lock in a step of the kernel.           *)
LEMMA KernelCpu ==
    ASSUME Safe, DeadRest(knl),
           SchedPoint \/ RobinSched \/ IrqLeave \/ \E kind \in {"tick", "isr"} : IrqEnter(kind)
    PROVE  /\ knl'.curr = knl.curr /\ knl'.schedLock = knl.schedLock
           /\ DeadRest(knl')
<1>1. CASE SchedPoint
  <2>1. \/ knl' = knl
        \/ knl' = switch_request(knl)
    BY <1>1 DEF SchedPoint, knl_sched
  <2>2. LET r == switch_request(knl)
        IN  r.curr = knl.curr /\ r.schedLock = knl.schedLock /\ SameLists(knl, r)
    BY SwitchSound DEF Safe
  <2> QED
    BY <2>1, <2>2, RestSame DEF SameLists
<1>2. CASE RobinSched
  <2>1. knl.curr \in Task /\ Sound(knl) /\ knl' = robin_sched(knl)
    BY <1>2, TypeFacts DEF RobinSched, Safe
  <2>2. SameTasks(knl, knl')
    BY <2>1, RobinSound
  <2> QED
    BY <2>2, RestSame DEF SameTasks, SameControl
<1>3. CASE IrqLeave
  <2>1. SameLists(knl, knl')
    BY <1>3, IrqLeaveStep
  <2>2. knl'.curr = knl.curr /\ knl'.schedLock = knl.schedLock
    BY <1>3 DEF IrqLeave, irq_leave, switch_request, Safe, Sound, KernelType
  <2> QED
    BY <2>1, <2>2, RestSame DEF SameLists
<1>4. CASE \E kind \in {"tick", "isr"} : IrqEnter(kind)
  <2>1. /\ knl'.curr = knl.curr /\ knl'.schedLock = knl.schedLock
        /\ knl'.state = knl.state /\ knl'.obj = knl.obj
    BY <1>4 DEF IrqEnter, Safe, Sound, KernelType
  <2> QED
    BY <2>1, RestSame
<1> QED
  BY <1>1, <1>2, <1>3, <1>4

LEMMA SwitchCpu ==
    ASSUME Safe, DeadRest(knl), PendSV_Handler
    PROVE  /\ knl.schedLock = 0 /\ knl'.schedLock = 0 /\ isr' = isr /\ pc' = pc
           /\ knl.irqNest = 0 /\ DeadRest(knl')
<1>1. knl.pendsv /\ knl.irqNest = 0 /\ knl.schedLock \in Nat
  BY TypeFacts DEF PendSV_Handler, Safe
<1>2. knl' = Switched(knl) /\ isr' = isr /\ pc' = pc
  BY DEF PendSV_Handler, ThenReturn, Switched
<1>3. knl'.schedLock = knl.schedLock /\ SameLists(knl, knl')
  BY <1>2, SwitchedSound DEF Safe
<1>4. knl.schedLock = 0
  BY <1>1 DEF Safe, LockHolds
<1> QED
  BY <1>1, <1>2, <1>3, <1>4, RestSame DEF SameLists

(* While the walk runs nothing else does but interrupts.                   *)
LEMMA OtherRest ==
    ASSUME Safe, Unowned(knl), DeadRest(knl), OtherTaskStep PROVE DeadRest(knl')
<1>1. CASE OtherApi
  BY <1>1, OtherApiTame
<1>2. CASE PendSV_Handler
  BY <1>2, SwitchCpu
<1>3. CASE SchedPoint \/ RobinSched \/ IrqLeave \/ IrqEnter("tick") \/ IrqEnter("isr")
  BY <1>3, KernelCpu
<1> QED
  BY <1>1, <1>2, <1>3 DEF OtherTaskStep

LEMMA OtherInInterrupt ==
    ASSUME Safe, Unowned(knl), DeadRest(knl), OtherTaskStep, proc, WalkAlone PROVE WalkAlone'
<1>1. /\ TypeOK /\ proc' = proc /\ walk' = walk /\ pc[TimerTask] = "none"
      /\ Walking => isr # << >> /\ Head(isr) = "soft"
  BY DEF Safe, OtherTaskStep, WalkAlone
<1>2. /\ knl.irqNest = Len(isr) /\ isr \in Seq(Handler) /\ pc \in [Task -> Label]
      /\ TimerTask \in Task /\ knl.curr \in Task /\ MaxIrqNest = 1
  BY <1>1, TypeFacts, TimerTaskAssumption
<1>3. CASE OtherApi
  <2>1. Tame
    BY <1>3, OtherApiTame
  <2> QED
    BY <1>1, <1>2, <2>1 DEF Tame, WalkAlone, Walking, TaskRuns
<1>4. CASE PendSV_Handler
  BY <1>1, <1>2, <1>4, SwitchCpu DEF WalkAlone, Walking
<1>5. CASE SchedPoint
  BY <1>1, <1>2, <1>5 DEF SchedPoint, WalkAlone, Walking
<1>6. CASE RobinSched
  BY <1>1, <1>2, <1>6 DEF RobinSched, WalkAlone, Walking
<1>7. CASE IrqLeave
  BY <1>1, <1>2, <1>7 DEF IrqLeave, WalkAlone, Walking
<1>8. CASE IrqEnter("tick") \/ IrqEnter("isr")
  BY <1>1, <1>2, <1>8 DEF IrqEnter, WalkAlone, Walking
<1> QED
  BY <1>3, <1>4, <1>5, <1>6, <1>7, <1>8 DEF OtherTaskStep

LEMMA OtherInTask ==
    ASSUME Safe, Unowned(knl), DeadRest(knl), OtherTaskStep, ~proc, WalkAlone PROVE WalkAlone'
<1>1. /\ TypeOK /\ proc' = proc /\ walk' = walk
      /\ Walking => knl.curr = TimerTask /\ knl.schedLock = 1
      /\ knl.schedLock > 0 /\ knl.curr = TimerTask => Walking
  BY DEF Safe, OtherTaskStep, WalkAlone
<1>2. Walking' <=> Walking
  BY <1>1 DEF Walking
<1>3. CASE OtherApi /\ (AppRuns \/ isr # << >>)
  <2>1. Tame
    BY <1>3, OtherApiTame
  <2>2. knl'.curr = knl.curr
    BY <2>1 DEF Tame
  <2>3. CASE knl'.schedLock = knl.schedLock
    BY <1>1, <1>2, <2>2, <2>3 DEF WalkAlone
  <2>4. CASE TaskRuns
    <3>1. isr = << >>
      BY <1>1, <2>4, TypeFacts DEF TaskRuns
    <3>2. AppRuns
      BY <1>3, <3>1
    <3> QED
      BY <1>1, <1>2, <2>2, <3>2 DEF WalkAlone, AppRuns, TimerTaskRuns, TaskRuns
  <2> QED
    BY <2>1, <2>3, <2>4 DEF Tame
<1>4. CASE PendSV_Handler
  BY <1>1, <1>2, <1>4, SwitchCpu DEF WalkAlone
<1>5. CASE SchedPoint \/ RobinSched \/ IrqLeave \/ IrqEnter("tick") \/ IrqEnter("isr")
  BY <1>1, <1>2, <1>5, KernelCpu DEF WalkAlone
<1> QED
  BY <1>3, <1>4, <1>5 DEF OtherTaskStep

----------------------------------------------------------------------------
(* The timer task is woken by timer_place.                                 *)

ChosenIn(k) == IF k.pendsv THEN k.next ELSE k.curr

Rested(k) == Sound(k) /\ Calm(k) /\ DeadRest(k) /\ k.irqNest = 0

WokenUp(k, r) ==
    /\ Rested(r) /\ (Unowned(k) => Unowned(r)) /\ ReadySet(k) \subseteq ReadySet(r)
    /\ r.curr = k.curr /\ r.schedLock = k.schedLock
    /\ IF k.schedLock > 0 THEN r.next = k.next /\ r.pendsv = k.pendsv
                          ELSE r = k \/ ChosenIn(r) = Best(r)

LEMMA WokenTwice ==
    ASSUME NEW a, NEW b, NEW c, WokenUp(a, b), WokenUp(b, c) PROVE WokenUp(a, c)
  BY DEF WokenUp

LEMMA SchedWoken ==
    ASSUME NEW k, Rested(k), NEW b, Sound(b), SameFrame(k, b), ReadySet(k) \subseteq ReadySet(b),
           Calm(b), DeadRest(b)
    PROVE  WokenUp(k, knl_sched(b))
<1>1. b.irqNest = 0 /\ b.curr = k.curr /\ b.schedLock = k.schedLock
  BY DEF Rested, SameFrame
<1>2. CASE k.schedLock > 0
  <2>1. knl_sched(b) = b
    BY <1>1, <1>2 DEF knl_sched, knl_is_sched_locked
  <2> QED
    BY <1>1, <1>2, <2>1 DEF WokenUp, Rested, SameFrame, Unowned
<1>3. CASE ~(k.schedLock > 0)
  <2> DEFINE r == switch_request(b)
  <2>1. knl_sched(b) = r
    BY <1>1, <1>3 DEF knl_sched, knl_is_sched_locked, knl_is_inirq
  <2>2. /\ Sound(r) /\ SameLists(b, r) /\ (Unowned(b) => Unowned(r))
        /\ r.curr = b.curr /\ r.irqNest = b.irqNest
        /\ r.schedLock = b.schedLock /\ ReadySet(r) = ReadySet(b)
        /\ (IF r.pendsv THEN r.next ELSE r.curr) = Best(r)
    BY SwitchSound
  <2> HIDE DEF r
  <2>3. Calm(r) /\ DeadRest(r)
    BY <2>2, RestSame DEF SameLists, Calm, IsPending
  <2> QED
    BY <1>1, <1>3, <2>1, <2>2, <2>3 DEF WokenUp, Rested, SameFrame, Unowned, ChosenIn
<1> QED
  BY <1>2, <1>3

LEMMA WakeWoken ==
    ASSUME NEW k, Rested(k), NEW w, NEW x PROVE WokenUp(k, timer_task_wake(k, w, x))
<1> DEFINE T  == TimerTask
           b  == readyqueue_add(tick_list_remove(k, T), T)
           k1 == IF w.nx[ListHead] = x /\ IsSleeping(k, T) /\ ~IsSuspended(k, T)
                 THEN knl_sched(b) ELSE k
           c  == task_resume(k1, T)
           r  == timer_task_wake(k, w, x)
<1>1. r = IF IsSuspended(k1, T) THEN knl_sched(c) ELSE k1
  BY DEF timer_task_wake
<1>2. T \in Task \ {Idle} /\ WokenUp(k, k)
  BY TimerTaskAssumption DEF WokenUp
<1>3. WokenUp(k, k1)
  <2>1. CASE w.nx[ListHead] = x /\ IsSleeping(k, T) /\ ~IsSuspended(k, T)
    <3>1. Sound(k) /\ ~IsPending(k, T) /\ DeadRest(k) /\ Calm(k)
      BY <1>2 DEF Rested, Calm
    <3>2. /\ Sound(b) /\ SameFrame(k, b) /\ ReadySet(k) \subseteq ReadySet(b)
          /\ \A u \in Task \ {T} : b.state[u] = k.state[u]
          /\ \A u \in Task : IsPending(b, u) <=> IsPending(k, u)
      BY <1>2, <2>1, <3>1, AbortSound
    <3>3. T \in k.obj
      BY <1>2, <2>1, <3>1 DEF Sound, Alive
    <3> HIDE DEF b, T
    <3>4. Calm(b) /\ DeadRest(b)
      BY <3>1, <3>2, <3>3, RestBut DEF SameFrame, Calm
    <3>5. WokenUp(k, knl_sched(b))
      BY <3>2, <3>4, SchedWoken
    <3> QED
      BY <2>1, <3>5
  <2> QED
    BY <1>2, <2>1
<1> HIDE DEF k1, r
<1>4. CASE IsSuspended(k1, T)
  <2>1. Sound(k1) /\ DeadRest(k1) /\ Calm(k1) /\ Rested(k1)
    BY <1>3 DEF WokenUp, Rested
  <2>2. T \in (k1.obj \cap Task) \ {Idle}
    BY <1>2, <1>4, <2>1 DEF DeadRest
  <2>3. /\ Sound(c) /\ SameControl(k1, c) /\ ReadySet(k1) \subseteq ReadySet(c)
        /\ \A u \in Task \ {T} : c.state[u] = k1.state[u]
        /\ \A u \in Task : SameWait(k1, c, u)
    BY <1>4, <2>1, <2>2, ResumeSound
  <2> HIDE DEF c, T
  <2>4. Calm(c) /\ DeadRest(c) /\ SameFrame(k1, c)
    <3>1. SameFrame(k1, c) /\ T \in k1.obj /\ c.obj = k1.obj
      BY <2>2, <2>3 DEF SameControl, SameFrame
    <3> QED
      BY <2>1, <2>3, <3>1, RestBut DEF Calm, SameWait
  <2>5. WokenUp(k1, knl_sched(c))
    BY <2>1, <2>3, <2>4, SchedWoken
  <2>6. r = knl_sched(c)
    BY <1>1, <1>4
  <2> QED
    BY <1>3, <2>5, <2>6, WokenTwice DEF r
<1> QED
  BY <1>1, <1>3, <1>4 DEF r

(* What it comes to in a task that runs.                                   *)
LEMMA WokenStep ==
    ASSUME KInv, TaskRuns, NEW r, WokenUp(knl, r), knl' = r,
           isr' = isr, pc' = pc, arg' = arg
    PROVE  IInv' /\ Calm(knl') /\ DeadRest(knl') /\ knl'.curr = knl.curr
                 /\ knl'.schedLock = knl.schedLock
<1>1. /\ Safe /\ Unowned(knl) /\ TypeOK /\ HighestRuns /\ knl.irqNest = 0 /\ ~knl.pendsv
      /\ pc[knl.curr] = "run" /\ knl.curr \in ReadySet(knl)
  BY RunsReady DEF KInv, IInv, Quiet, Safe, TaskRuns
<1>2. Sound(r) /\ r \in KernelType /\ r.irqNest = 0
  BY DEF WokenUp, Rested, Sound
<1>3. TypeOK' /\ Unowned(knl')
  BY <1>1, <1>2 DEF TypeOK, WokenUp
<1>4. Chosen' = ChosenIn(r) /\ (ChosenIn(knl) = knl.curr)
  BY <1>1 DEF Chosen, ChosenIn
<1>5. CASE knl.schedLock > 0
  <2>1. r.schedLock > 0 /\ ~r.pendsv /\ r.curr \in ReadySet(r)
    BY <1>1, <1>5 DEF WokenUp
  <2>2. LockHolds' /\ ChosenReady' /\ HighestRuns'
    BY <1>4, <2>1 DEF LockHolds, ChosenReady, HighestRuns, Settled, ChosenIn
  <2> QED
    BY <1>1, <1>2, <1>3, <2>2, KeptFrom DEF IInv, Quiet, WokenUp, Rested
<1>6. CASE ~(knl.schedLock > 0)
  <2>1. ChosenIn(r) = Best(r)
    <3>1. knl.schedLock = 0
      BY <1>1, <1>6, TypeFacts
    <3>2. ChosenIn(knl) = Best(knl)
      BY <1>1, <3>1, <1>4 DEF HighestRuns, Settled, Chosen, Best
    <3> QED
      BY <1>6, <3>2 DEF WokenUp
  <2>2. Best(r) \in ReadySet(r)
    BY <1>2, SoundReady DEF Best
  <2>3. LockHolds' /\ ChosenReady' /\ HighestRuns'
    BY <1>4, <1>6, <2>1, <2>2 DEF LockHolds, ChosenReady, HighestRuns, Best, WokenUp
  <2> QED
    BY <1>1, <1>2, <1>3, <2>3, KeptFrom DEF IInv, Quiet, WokenUp, Rested
<1> QED
  BY <1>5, <1>6

----------------------------------------------------------------------------
(* The timer steps, as the scheduler sees them.                            *)

LEMMA KFacts ==
    ASSUME KInv
    PROVE  /\ Safe /\ Unowned(knl) /\ HighestRuns /\ Quiet /\ Sound(knl) /\ TypeOK
           /\ WalkAlone /\ Calm(knl) /\ DeadRest(knl) /\ Harmless
           /\ knl.irqNest = Len(isr) /\ isr \in Seq(Handler) /\ knl.schedLock \in Nat
           /\ pc \in [Task -> Label] /\ knl.curr \in Task /\ TimerTask \in Task \ {Idle}
           /\ arg \in [Task -> Obj \cup {NoObj}]
<1>1. Safe /\ Quiet /\ HighestRuns /\ WalkAlone /\ Calm(knl) /\ DeadRest(knl)
  BY DEF KInv, IInv
<1>2. Unowned(knl) /\ Sound(knl) /\ TypeOK
  BY <1>1 DEF Quiet, Safe
<1> QED
  BY <1>1, <1>2, TypeFacts, QuietIsHarmless, TimerTaskAssumption

LEMMA OtherKeepsKernel == KInv /\ OtherTaskStep => KInv'
<1> SUFFICES ASSUME KInv, OtherTaskStep PROVE KInv'
  OBVIOUS
<1>1. [Next]_vars /\ Safe /\ Unowned(knl) /\ Harmless /\ IInv /\ Calm(knl) /\ DeadRest(knl)
      /\ WalkAlone
  BY OtherIsNext, KFacts DEF KInv
<1>2. IInv' /\ Calm(knl')
  BY <1>1, NextInv, NextWait, CalmKept
<1>3. DeadRest(knl')
  BY <1>1, OtherRest
<1>4. WalkAlone'
  BY <1>1, OtherInInterrupt, OtherInTask
<1> QED
  BY <1>2, <1>3, <1>4 DEF KInv

(* The handler goes on, the lists as they were or as the tick left them.   *)
LEMMA HandlerGoesOn ==
    ASSUME KInv, isr # << >>, NEW h \in Handler, isr' = <<h>> \o Tail(isr),
           NEW r, Sound(r), SameFrame(knl, r), ReadySet(knl) \subseteq ReadySet(r),
           knl' = r, pc' = pc, arg' = arg
    PROVE  IInv'
<1>1. isr' \in Seq(Handler) /\ Len(isr') = Len(isr)
  BY NextSection, KFacts
<1>2. /\ SameCpu(knl, r) /\ (Unowned(knl) => Unowned(r))
      /\ knl.schedLock > 0 => knl.curr \in ReadySet(r)
  BY SameControlCpu, KFacts DEF Safe, LockHolds
<1>3. Kept
  BY <1>1, <1>2, HandlerStep, KFacts
<1> QED
  BY <1>3, KFacts DEF Kept, IInv

LEMMA TickKeepsKernel == KInv /\ TimerTick => KInv'
<1> SUFFICES ASSUME KInv, TimerTick PROVE KInv'
  OBVIOUS
<1> DEFINE r == tick_update(knl, 1)
           h == IF proc THEN "soft" ELSE IF RoundRobin THEN "robin" ELSE "leave"
<1>1. /\ isr # << >> /\ Head(isr) = "tick" /\ isr' = <<h>> \o Tail(isr) /\ h \in Handler
      /\ knl' = r /\ pc' = pc /\ arg' = arg /\ proc' = proc
      /\ walk'.at = walk.at
  <2>1. walk' = IF walk.at = "wait" THEN [walk EXCEPT !.slip = @ + 1] ELSE walk
    BY DEF TimerTick
  <2>2. walk'.at = walk.at
    BY <2>1
  <2> QED
    BY <2>2 DEF TimerTick, Handler
<1> HIDE DEF h
<1>2. /\ Sound(r) /\ SameFrame(knl, r) /\ ReadySet(knl) \subseteq ReadySet(r)
      /\ \E A \in SUBSET Sleepers(knl) : Awoken(knl, r, A, "TIMEOUT")
  BY TickSound, KFacts
<1> HIDE DEF r
<1>3. IInv'
  BY <1>1, <1>2, HandlerGoesOn
<1>4. Calm(r)
  BY <1>2, KFacts DEF Awoken, Calm, IsPending
<1>5. DeadRest(r)
  <2> SUFFICES ASSUME NEW t \in Task \ r.obj PROVE ~IsSuspended(r, t)
    BY DEF DeadRest
  <2>1. t \in Task /\ t \notin knl.obj /\ ~IsSleeping(knl, t)
    BY <1>2, KFacts DEF SameFrame, Sound, Alive
  <2>2. r.state[t] = knl.state[t]
    BY <1>2, <2>1 DEF Awoken, Sleepers
  <2> QED
    BY <2>1, <2>2, KFacts DEF DeadRest, IsSuspended
<1>6. WalkAlone'
  BY <1>1, <1>2, KFacts DEF WalkAlone, Walking, SameFrame
<1> QED
  BY <1>1, <1>3, <1>4, <1>5, <1>6 DEF KInv

(* The tick interrupt is through with the timers.                          *)
LEMMA SoftReturnKeeps ==
    ASSUME KInv, proc, isr # << >>, SoftReturn, knl' = knl, pc' = pc, arg' = arg, proc' = proc,
           ~Walking'
    PROVE  KInv'
<1> DEFINE h == IF RoundRobin THEN "robin" ELSE "leave"
<1>1. isr' = <<h>> \o Tail(isr) /\ h \in Handler
  BY DEF SoftReturn, Handler
<1> HIDE DEF h
<1>2. SameFrame(knl, knl) /\ Sound(knl)
  BY KFacts DEF SameFrame
<1>3. IInv'
  BY <1>1, <1>2, HandlerGoesOn
<1> QED
  BY <1>3, KFacts DEF KInv, WalkAlone, Calm, DeadRest

(* Neither the kernel nor the place of the walk changes, or the walk is    *)
(* and was under way.                                                      *)
LEMMA KernelUnmoved ==
    ASSUME KInv, UNCHANGED <<knl, isr, pc, arg, proc>>,
           \/ Walking' <=> Walking
           \/ proc /\ isr # << >> /\ Head(isr) = "soft"
    PROVE  KInv'
<1>1. IInv'
  BY NextInv DEF KInv, vars
<1> QED
  BY <1>1, KFacts DEF KInv, WalkAlone

(* The timer task is alone with the scheduler lock.                        *)
LEMMA TimerTaskFacts ==
    ASSUME KInv, TimerTaskRuns
    PROVE  /\ ~proc /\ TaskRuns /\ knl.curr = TimerTask
           /\ knl.schedLock = IF Walking THEN 1 ELSE 0
           /\ TimerTask \in ReadySet(knl) \ {Idle} /\ knl.irqNest = 0 /\ ~knl.pendsv
<1>1. /\ ~proc /\ TaskRuns /\ knl.curr = TimerTask
      /\ knl.irqNest = 0 /\ ~knl.pendsv /\ pc[knl.curr] = "run"
  BY DEF TimerTaskRuns, TaskRuns
<1>2. knl.schedLock = IF Walking THEN 1 ELSE 0
  BY <1>1, KFacts DEF WalkAlone
<1>3. TimerTask \in ReadySet(knl) \ {Idle}
  BY <1>1, RunsReady, KFacts
<1> QED
  BY <1>1, <1>2, <1>3

LEMMA TimerTaskLookKeeps == KInv /\ TimerTaskLook => KInv'
  BY KernelUnmoved DEF TimerTaskLook, Walking, Inside

(* timer_task_entry goes to sleep.                                         *)
LEMMA TimerTaskWaitKeeps == KInv /\ walk \in WalkRec /\ TimerTaskWait => KInv'
<1> SUFFICES ASSUME KInv, walk \in WalkRec, TimerTaskWait PROVE KInv'
  OBVIOUS
<1> DEFINE t == TimerTask
           a == task_suspend(knl, t)
           b == readyqueue_remove(tick_list_add(knl, t, walk.wait), t)
<1>1. /\ TimerTaskRuns /\ ~Walking /\ ~Walking' /\ proc' = proc /\ walk.wait \in Nat
      /\ ThenReturn(knl) \/ ThenSched(a) \/ ThenSched(b)
  BY DEF TimerTaskWait, Walking, Inside, WalkRec, Never
<1>2. /\ ~proc /\ TaskRuns /\ knl.curr = t /\ knl.schedLock = 0
      /\ t \in ReadySet(knl) \ {Idle} /\ t \in (knl.obj \cap Task) \ {Idle}
  BY <1>1, TimerTaskFacts DEF ReadySet
<1>3. CASE ThenReturn(knl)
  BY <1>1, <1>3, KernelUnmoved DEF ThenReturn
<1>4. CASE ThenSched(a)
  <2>1. /\ Sound(a) /\ Others(knl, a, t) /\ ~IsPending(a, t)
    BY <1>2, SuspendSound, KFacts
  <2> HIDE DEF a, t
  <2>2. SameFrame(knl, a) /\ SameCpu(knl, a) /\ (Unowned(knl) => Unowned(a)) /\ knl' = a
    BY <1>4, <2>1, SameControlCpu DEF Others, ThenSched
  <2>3. Kept
    BY <1>2, <1>4, <2>1, <2>2, SchedStep, KFacts
  <2>4. Calm(a) /\ DeadRest(a)
    <3>1. /\ a.obj = knl.obj /\ t \in knl.obj /\ DeadRest(knl) /\ Calm(knl)
          /\ \A u \in Task \ {t} : a.state[u] = knl.state[u]
      BY <1>2, <2>1, <2>2, KFacts DEF Others, SameFrame
    <3>2. DeadRest(a)
      BY <3>1, RestBut
    <3> QED
      BY <2>1, <3>1, <3>2 DEF Calm, IsPending
  <2> QED
    BY <1>1, <1>2, <2>2, <2>3, <2>4, KFacts DEF KInv, IInv, Kept, WalkAlone, SameCpu
<1>5. CASE ThenSched(b)
  <2>1. Sound(b) /\ SameBut(knl, b, t) /\ b.state[t] = {"SLEEP"}
    <3> HIDE DEF t
    <3> DEFINE d == walk.wait
    <3>1. d \in Nat
      BY <1>1
    <3> HIDE DEF d
    <3>2. /\ Sound(readyqueue_remove(tick_list_add(knl, t, d), t))
          /\ SameBut(knl, readyqueue_remove(tick_list_add(knl, t, d), t), t)
          /\ readyqueue_remove(tick_list_add(knl, t, d), t).state[t] = {"SLEEP"}
      BY <1>2, <3>1, DelaySound, KFacts
    <3> QED
      BY <3>2 DEF d
  <2> HIDE DEF b, t
  <2>2. SameControl(knl, b) /\ SameCpu(knl, b) /\ (Unowned(knl) => Unowned(b)) /\ knl' = b
    BY <1>5, <2>1, SameControlCpu DEF SameBut, ThenSched
  <2>3. Kept
    BY <1>2, <1>5, <2>1, <2>2, SchedStep, KFacts
  <2>4. Calm(b) /\ DeadRest(b)
    <3>1. /\ b.obj = knl.obj /\ t \in knl.obj /\ DeadRest(knl) /\ Calm(knl)
          /\ \A u \in Task \ {t} : b.state[u] = knl.state[u]
      BY <1>2, <2>1, <2>2, KFacts DEF SameBut, SameControl
    <3>2. DeadRest(b)
      BY <3>1, RestBut
    <3> QED
      BY <2>1, <3>1, <3>2 DEF Calm, IsPending
  <2> QED
    BY <1>1, <1>2, <2>2, <2>3, <2>4, KFacts DEF KInv, IInv, Kept, WalkAlone, SameCpu
<1> QED
  BY <1>1, <1>3, <1>4, <1>5

(* The scheduler lock around the walk.                                     *)
LEMMA TimerTaskLockKeeps == KInv /\ TimerTaskLock => KInv'
<1> SUFFICES ASSUME KInv, TimerTaskLock PROVE KInv'
  OBVIOUS
<1> DEFINE r == SetLock(knl, 1)
<1>1. TimerTaskRuns /\ ~Walking /\ proc' = proc /\ walk'.at = "look"
  BY DEF TimerTaskLock, Walking, Inside, WalkFrom, WalkTop
<1>2. /\ ~proc /\ TaskRuns /\ knl.curr = TimerTask /\ knl.schedLock = 0
      /\ TimerTask \in ReadySet(knl) /\ knl.irqNest = 0 /\ ~knl.pendsv
  BY <1>1, TimerTaskFacts
<1>3. knl' = r /\ isr' = isr /\ pc' = pc /\ arg' = arg
  BY <1>2 DEF TimerTaskLock, ThenReturn, SetLock
<1>4. /\ Sound(r) /\ (Unowned(knl) => Unowned(r)) /\ ReadySet(r) = ReadySet(knl)
      /\ SameLists(knl, r) /\ r.irqNest = knl.irqNest /\ r.schedLock = 1
      /\ r.curr = knl.curr /\ r.next = knl.next /\ r.pendsv = knl.pendsv
  BY LockSound, KFacts
<1> HIDE DEF r
<1>5. TypeOK'
  BY <1>3, <1>4, KFacts DEF TypeOK, Sound
<1>6. HighestRuns' /\ LockHolds' /\ ChosenReady'
  BY <1>2, <1>3, <1>4 DEF HighestRuns, Settled, LockHolds, ChosenReady, Chosen
<1>7. IInv'
  BY <1>3, <1>4, <1>5, <1>6, KeptFrom, KFacts DEF IInv
<1>8. Calm(r) /\ DeadRest(r)
  BY <1>4, KFacts, RestSame DEF SameLists, Calm, IsPending
<1> QED
  BY <1>1, <1>2, <1>3, <1>4, <1>7, <1>8 DEF KInv, WalkAlone, Walking, Inside

LEMMA WalkEndKeeps == KInv /\ WalkEnd => KInv'
<1> SUFFICES ASSUME KInv, WalkEnd PROVE KInv'
  OBVIOUS
<1>1. WalkRuns /\ Walking /\ ~Walking' /\ proc' = proc
  BY DEF WalkEnd, Walking, Inside, WalkTop
<1>2. CASE proc
  BY <1>1, <1>2, SoftReturnKeeps DEF WalkEnd, WalkRuns
<1>3. CASE ~proc
  <2> DEFINE r == SetLock(knl, 0)
  <2>1. /\ TaskRuns /\ knl.curr = TimerTask /\ knl.schedLock = 1
        /\ TimerTask \in ReadySet(knl) /\ knl.irqNest = 0 /\ ~knl.pendsv
    BY <1>1, <1>3, TimerTaskFacts DEF WalkRuns
  <2>2. knl' = r /\ isr' = isr /\ pc' = [pc EXCEPT ![knl.curr] = "sched"] /\ arg' = arg
    BY <1>3, <2>1 DEF WalkEnd, ThenSched, SetLock
  <2>3. /\ Sound(r) /\ (Unowned(knl) => Unowned(r)) /\ ReadySet(r) = ReadySet(knl)
        /\ SameLists(knl, r) /\ r.irqNest = knl.irqNest /\ r.schedLock = 0
        /\ r.curr = knl.curr /\ r.next = knl.next /\ r.pendsv = knl.pendsv
    BY LockSound, KFacts
  <2> HIDE DEF r
  <2>4. pc' \in [Task -> Label] /\ pc'[knl.curr] = "sched"
    BY <2>2, KFacts DEF Label
  <2>5. TypeOK'
    BY <2>2, <2>3, <2>4, KFacts DEF TypeOK, Sound
  <2>6. HighestRuns' /\ LockHolds' /\ ChosenReady'
    BY <2>1, <2>2, <2>3, <2>4 DEF HighestRuns, Settled, LockHolds, ChosenReady, Decisive
  <2>7. IInv'
    BY <2>2, <2>3, <2>5, <2>6, KeptFrom, KFacts DEF IInv
  <2>8. Calm(r) /\ DeadRest(r)
    BY <2>3, KFacts, RestSame DEF SameLists, Calm, IsPending
  <2> QED
    BY <1>1, <1>3, <2>2, <2>3, <2>7, <2>8 DEF KInv, WalkAlone
<1> QED
  BY <1>2, <1>3

LEMMA SoftTimerUpdateKeeps == KInv /\ SoftTimerUpdate => KInv'
<1> SUFFICES ASSUME KInv, SoftTimerUpdate PROVE KInv'
  OBVIOUS
<1>1. /\ proc /\ isr # << >> /\ Head(isr) = "soft" /\ walk.at = "top"
      /\ UNCHANGED <<knl, pc, arg, tim, call, proc>>
  BY DEF SoftTimerUpdate, WalkRuns
<1>2. CASE SoftReturn /\ UNCHANGED walk
  BY <1>1, <1>2, SoftReturnKeeps DEF Walking, Inside
<1>3. CASE isr' = isr
  BY <1>1, <1>3, KernelUnmoved
<1> QED
  BY <1>2, <1>3 DEF SoftTimerUpdate

(* The steps of the walk itself.                                           *)
LEMMA WalkGoesOn ==
    ASSUME KInv, WalkRuns, Walking, Walking', UNCHANGED <<knl, isr, pc, arg, proc>> PROVE KInv'
  BY KernelUnmoved

(* The call of a task, which may wake the timer task.                      *)
LEMMA CallGoesOnKeeps == KInv /\ CallGoesOn => KInv'
<1> SUFFICES ASSUME KInv, CallGoesOn PROVE KInv'
  OBVIOUS
<1>1. AppRuns /\ UNCHANGED <<isr, pc, arg, walk, proc>>
  BY DEF CallGoesOn
<1>2. PICK x : knl' = timer_task_wake(knl, tim', x) \/ knl' = knl
  BY DEF CallGoesOn
<1>3. CASE knl' = knl
  BY <1>1, <1>3, KernelUnmoved DEF Walking
<1>4. CASE knl' = timer_task_wake(knl, tim', x)
  <2> DEFINE w == tim'
             r == timer_task_wake(knl, w, x)
  <2>1. TaskRuns /\ knl' = r
    BY <1>1, <1>4 DEF AppRuns
  <2>2. Rested(knl)
    BY <2>1, KFacts DEF Rested, TaskRuns
  <2> HIDE DEF w
  <2>3. WokenUp(knl, r)
    BY <2>2, WakeWoken
  <2> HIDE DEF r
  <2>4. IInv' /\ Calm(knl') /\ DeadRest(knl') /\ knl'.curr = knl.curr
        /\ knl'.schedLock = knl.schedLock
    BY <1>1, <2>1, <2>3, WokenStep
  <2> QED
    BY <1>1, <2>4, KFacts DEF KInv, WalkAlone, Walking
<1> QED
  BY <1>2, <1>3, <1>4

----------------------------------------------------------------------------
(* The timer steps, as the list sees them.                                 *)

Fitting == \E M : Fits(tim', call', walk', M)

(* The task that runs is not in the walk.                                  *)
LEMMA AppFacts ==
    ASSUME KInv, AppRuns, walk \in WalkRec
    PROVE  walk.at \in Outside /\ knl.curr \in Task \ {Idle, TimerTask}
<1>1. TaskRuns /\ knl.curr # Idle /\ ~TimerTaskRuns /\ knl.curr \in Task /\ WalkAlone
  BY KFacts DEF AppRuns
<1>2. isr = << >> /\ pc[knl.curr] = "run"
  BY <1>1, KFacts DEF TaskRuns
<1>3. ~Walking /\ knl.curr # TimerTask
  BY <1>1, <1>2 DEF WalkAlone, TimerTaskRuns
<1> QED
  BY <1>1, <1>3 DEF Walking, WalkRec

LEMMA CallTimerFits ==
    ASSUME CarefulUse, KInv, NEW L, Fits(tim, call, walk, L),
           NEW op \in TimerCall, NEW x \in Timer, CallTimer(op, x)
    PROVE  Fitting
<1>1. /\ walk.at \in Outside /\ knl.curr \in Task \ {Idle, TimerTask}
      /\ walk' = walk
  BY FitFacts, AppFacts DEF CallTimer
<1>2. call[knl.curr] = NoCall /\ <<op, x>> \in TaskCalls /\ Allowed(op, x, tim)
  BY DEF CallTimer
<1>3. CASE op \in {"create", "change"}
  <2>1. op \in Onces /\ tim' \in AtOnce(op, x, tim) /\ call' = call
    BY <1>3 DEF CallTimer, Onces
  <2>2. Fits(tim', call, walk, L)
    BY <1>2, <2>1, AtOnceFits
  <2> QED
    BY <1>1, <2>1, <2>2 DEF Fitting
<1>4. CASE op \notin {"create", "change"}
  <2> DEFINE t  == knl.curr
             dl == [call EXCEPT ![t] = [timer |-> x, todo |-> Sections(op, x, tim)]]
  <2>1. op \in Begins
    BY <1>4 DEF TimerCall, Begins
  <2>2. tim' = Begun(op, x, tim) /\ call' = dl
    BY <1>4 DEF CallTimer
  <2>3. Fits(Begun(op, x, tim), dl, walk, L)
    <3> HIDE DEF t
    <3>1. t \in Task \ {Idle, TimerTask} /\ call[t] = NoCall
      BY <1>1, <1>2 DEF t
    <3> QED
      BY <1>1, <1>2, <2>1, <3>1, BeginFits
  <2> HIDE DEF dl
  <2> QED
    BY <1>1, <2>2, <2>3 DEF Fitting
<1> QED
  BY <1>3, <1>4

LEMMA CallGoesOnFits ==
    ASSUME IsFiniteSet(Timer), KInv, NEW L, Fits(tim, call, walk, L), CallGoesOn
    PROVE  Fitting
<1>1. /\ walk.at \in Outside /\ knl.curr \in Task \ {Idle, TimerTask}
      /\ walk' = walk /\ call[knl.curr] # NoCall
  BY FitFacts, AppFacts DEF CallGoesOn
<1> DEFINE t  == knl.curr
           c  == call[t]
           nc == IF Len(c.todo) = 1 THEN NoCall ELSE [c EXCEPT !.todo = Tail(@)]
           dl == [call EXCEPT ![t] = nc]
<1>2. PICK g \in Garbage : tim' = Section(Head(c.todo), c.timer, tim, g)
  BY DEF CallGoesOn
<1>3. call' = dl
  BY DEF CallGoesOn
<1>4. \E M : Fits(Section(Head(c.todo), c.timer, tim, g), dl, walk, M)
  <2> HIDE DEF t
  <2>1. t \in Task \ {Idle, TimerTask} /\ call[t] # NoCall
    BY <1>1 DEF t
  <2> QED
    BY <1>1, <2>1, GoOnFits
<1> HIDE DEF dl, c
<1> QED
  BY <1>1, <1>2, <1>3, <1>4 DEF Fitting

LEMMA TimerTickFits == ASSUME NEW L, Fits(tim, call, walk, L), TimerTick PROVE Fitting
<1> DEFINE f == {call[t].timer : t \in {u \in Task : call[u].todo = <<"place">>}}
                   \cup (IF walk.at = "place" THEN {walk.cur} ELSE {})
<1>1. f = Fresh
  BY DEF Fresh
<1>2. tim' = Later(tim, f) /\ call' = call
  BY <1>1 DEF TimerTick
<1>3. walk' = walk \/ (walk.at = "wait" /\ walk' = [walk EXCEPT !.slip = @ + 1])
  BY DEF TimerTick
<1>4. PICK vk : vk = walk' /\ (vk = walk \/ (walk.at = "wait" /\ vk = [walk EXCEPT !.slip = @ + 1]))
  BY <1>3
<1>5. PICK fresh : fresh = f
  OBVIOUS
<1>6. Fits(Later(tim, fresh), call, vk, L)
  BY <1>4, <1>5, LaterFits
<1> HIDE DEF f
<1> QED
  BY <1>2, <1>4, <1>5, <1>6 DEF Fitting

(* The walk begins, goes on or ends, and the timers stay as they are.      *)
LEMMA WalkOnlyFits ==
    ASSUME NEW L, Fits(tim, call, walk, L),
           SoftTimerUpdate \/ TimerTaskLook \/ TimerTaskWait \/ TimerTaskLock
              \/ WalkEnd \/ WalkNext
    PROVE  Fitting
<1>1. tim' = tim /\ call' = call
  BY DEF SoftTimerUpdate, TimerTaskLook, TimerTaskWait, TimerTaskLock, WalkEnd, WalkNext
<1>2. /\ walk \in WalkRec /\ tim \in TimerRec /\ ListHead \in Ring(L) /\ ListHead \in Node
      /\ tim.nx[ListHead] \in Ring(L) /\ Never \in Nat
  BY FitFacts, NodeFacts, TimesAre DEF Ring
<1>3. CASE walk' = walk
  BY <1>1, <1>3 DEF Fitting
<1>4. ASSUME walk.at # "place", NEW n \in Ring(L), walk' = WalkFrom(tim, n) PROVE Fitting
  <2>1. Fits(tim, call, WalkFrom(tim, n), L)
    BY <1>4, LookFits
  <2> QED
    BY <1>1, <1>4, <2>1 DEF Fitting
<1>5. ASSUME walk.at # "place", walk' \in WalkRec, walk'.at \in Outside PROVE Fitting
  <2>1. PICK vk \in WalkRec : vk = walk' /\ vk.at \in Outside
    BY <1>5
  <2>2. Fits(tim, call, vk, L)
    BY <1>5, <2>1, OutFits
  <2> QED
    BY <1>1, <2>1, <2>2 DEF Fitting
<1>6. CASE SoftTimerUpdate
  BY <1>2, <1>3, <1>4, <1>6 DEF SoftTimerUpdate
<1>7. CASE TimerTaskLook
  <2>1. tim.next \in 0 .. Never
    BY <1>2 DEF TimerRec
  <2>2. /\ walk.at = "top"
        /\ walk' = [walk EXCEPT !.at = "wait", !.wait = tim.next, !.slip = 0]
    BY <1>7 DEF TimerTaskLook, soft_timer_next_expires_get
  <2> QED
    BY <1>2, <1>5, <2>1, <2>2 DEF WalkRec, Outside
<1>8. CASE TimerTaskWait
  <2>1. walk.at = "wait" /\ walk' = [walk EXCEPT !.at = "lock"]
    BY <1>8 DEF TimerTaskWait
  <2> QED
    BY <1>2, <1>5, <2>1 DEF WalkRec, Outside
<1>9. CASE TimerTaskLock
  BY <1>2, <1>4, <1>9 DEF TimerTaskLock
<1>10. CASE WalkEnd
  <2>1. walk.at = "look" /\ walk' = WalkTop
    BY <1>10 DEF WalkEnd
  <2>2. WalkTop \in WalkRec /\ WalkTop.at \in Outside
    BY <1>2 DEF WalkTop, WalkRec, Outside
  <2> QED
    BY <1>5, <2>1, <2>2
<1>11. CASE WalkNext
  <2>1. walk.at \in {"cb", "next"} /\ walk' = WalkFrom(tim, walk.tmp)
    BY <1>11 DEF WalkNext
  <2>2. walk.tmp \in Ring(L)
    BY <2>1 DEF Fits, WalkOK
  <2> QED
    BY <1>4, <2>1, <2>2
<1> QED
  BY <1>6, <1>7, <1>8, <1>9, <1>10, <1>11

LEMMA WalkExpireFits == ASSUME NEW L, Fits(tim, call, walk, L), WalkExpire PROVE Fitting
<1> DEFINE x == walk.cur
<1>1. walk.at = "look" /\ walk.cur # ListHead /\ call' = call
  BY DEF WalkExpire, WalkOver
<1>2. CASE tim.opt[x] = "PERIODIC"
  <2>1. PICK g \in Garbage : tim' = SetExpires(timer_takeoff(tim, x, g), x, tim.period[x])
    BY <1>2 DEF WalkExpire, SetExpires
  <2>2. walk' = MovedTo(walk, "place")
    BY <1>2 DEF WalkExpire, MovedTo
  <2>3. Fits(SetExpires(timer_takeoff(tim, x, g), x, tim.period[x]), call,
             MovedTo(walk, "place"), L \ {x})
    BY <1>1, <1>2, PeriodFits
  <2> HIDE DEF x
  <2> QED
    BY <1>1, <2>1, <2>2, <2>3 DEF Fitting
<1>3. CASE tim.opt[x] # "PERIODIC"
  <2>1. PICK g \in Garbage : tim' = PutState(timer_takeoff(tim, x, g), x, "COMPLETED")
    BY <1>3 DEF WalkExpire, PutState
  <2>2. walk' = MovedTo(walk, "cb")
    BY <1>3 DEF WalkExpire, MovedTo
  <2>3. Fits(PutState(timer_takeoff(tim, x, g), x, "COMPLETED"), call,
             MovedTo(walk, "cb"), L \ {x})
    BY <1>1, <1>3, OnceFits
  <2> HIDE DEF x
  <2> QED
    BY <1>1, <2>1, <2>2, <2>3 DEF Fitting
<1> QED
  BY <1>2, <1>3

LEMMA WalkPlaceFits ==
    ASSUME IsFiniteSet(Timer), NEW L, Fits(tim, call, walk, L), WalkPlace PROVE Fitting
<1>1. /\ walk.at = "place" /\ tim' = timer_place(tim, walk.cur) /\ call' = call
      /\ walk' = MovedTo(walk, "cb")
  BY DEF WalkPlace, MovedTo
<1>2. Fits(timer_place(tim, walk.cur), call, MovedTo(walk, "cb"), L \cup {walk.cur})
  BY <1>1, AgainFits
<1> QED
  BY <1>1, <1>2 DEF Fitting

(* A callback that changes nothing of the list.                            *)
LEMMA NextFits ==
    ASSUME NEW w, NEW cl, NEW wk, NEW L, Fits(w, cl, wk, L), wk.at = "cb"
    PROVE  Fits(w, cl, MovedTo(wk, "next"), L)
<1> DEFINE vk == MovedTo(wk, "next")
<1>1. vk \in WalkRec /\ vk.at = "next" /\ vk.tmp = wk.tmp
  BY MovedIs, FitFacts DEF Inside
<1> HIDE DEF vk
<1>2. L \cup Placing(wk) = L /\ L \cup Placing(vk) = L
  BY <1>1, NotPlacing
<1>3. WalkOK(vk, w, L)
  BY <1>1 DEF Fits, WalkOK
<1> QED
  BY <1>2, <1>3 DEF Fits, vk

LEMMA CallbackStepFits ==
    ASSUME IsFiniteSet(Timer), CarefulUse, NEW L, Fits(tim, call, walk, L),
           NEW op \in TimerCall, NEW x \in Timer, Callback(op, x)
    PROVE  Fitting
<1>1. /\ walk.at = "cb" /\ <<walk.cur, op, x>> \in CallbackCalls /\ Allowed(op, x, tim)
      /\ walk' = MovedTo(walk, "next") /\ call' = call
  BY DEF Callback, MovedTo
<1>2. CASE op \in {"create", "change"}
  <2>1. op \in Onces /\ tim' \in AtOnce(op, x, tim)
    BY <1>2 DEF Callback, Onces
  <2>2. PICK r \in AtOnce(op, x, tim) : r = tim'
    BY <2>1
  <2>3. Fits(r, call, walk, L)
    BY <1>1, <2>1, AtOnceFits
  <2>4. Fits(r, call, MovedTo(walk, "next"), L)
    BY <1>1, <2>3, NextFits
  <2> QED
    BY <1>1, <2>2, <2>4 DEF Fitting
<1>3. CASE op \notin {"create", "change"}
  <2>1. op \in Begins
    BY <1>3 DEF TimerCall, Begins
  <2>2. PICK g \in Garbage : tim' = InOneGo(op, x, tim, g)
    BY <1>3 DEF Callback
  <2>3. \E M : Fits(InOneGo(op, x, tim, g), call, MovedTo(walk, "next"), M)
    BY <1>1, <2>1, CallbackFits
  <2> QED
    BY <1>1, <2>2, <2>3 DEF Fitting
<1> QED
  BY <1>2, <1>3

----------------------------------------------------------------------------
(* The inductive invariant.                                                *)

TimerInvariant == KInv /\ TInv

LEMMA FitsListed ==
    ASSUME IsFiniteSet(Timer), NEW w, NEW cl, NEW wk, NEW L, Fits(w, cl, wk, L)
    PROVE  Listed(w) = L /\ NodeAt(w)[Cardinality(Timer)] = ListHead
  BY FitFacts, ListedIs

LEMMA BootWithTimerTaskIs ==
    ASSUME NEW prio \in TimerPrios
    PROVE
    LET k == BootWithTimerTask(prio)
    IN  /\ Sound(k) /\ Unowned(k) /\ k.curr = Best(k) /\ k.curr \in ReadySet(k)
        /\ k.state = [t \in Task |-> {}] /\ ~k.pendsv /\ k.irqNest = 0 /\ k.schedLock = 0
<1> DEFINE b == BootKernel
           n == NewTask(b, TimerTask, prio, 0)
           m == readyqueue_add_tail(n, TimerTask)
           h == Best(m)
           k == BootWithTimerTask(prio)
<1>1. /\ TimerTask \in Task \ {Idle, Main} /\ prio \in Prio /\ Main \in Task
  BY TimerTaskAssumption, MainAssumption
<1>3. /\ Sound(b) /\ Unowned(b) /\ TimerTask \notin b.obj
      /\ ~b.pendsv /\ b.irqNest = 0 /\ b.schedLock = 0
      /\ b.state = [t \in Task |-> {}]
  BY <1>1, BootSound DEF BootKernel
<1>4. n.state = [t \in Task |-> {}]
  <2>1. n.state = [b.state EXCEPT ![TimerTask] = {}]
    BY DEF NewTask, TaskReset
  <2> QED
    BY <1>1, <1>3, <2>1
<1>5. k = [m EXCEPT !.curr = h, !.next = m.rdyq[m.highest][1]]
  BY DEF BootWithTimerTask, Best, readyqueue_highest_ready_task_get
<1> HIDE DEF b, k, n
<1>6. /\ Sound(m) /\ Cleared(b, m, TimerTask)
  <2> DEFINE z == 0
  <2>1. z \in Nat
    OBVIOUS
  <2> HIDE DEF z
  <2>2. Sound(readyqueue_add_tail(NewTask(b, TimerTask, prio, z), TimerTask))
        /\ Cleared(b, readyqueue_add_tail(NewTask(b, TimerTask, prio, z), TimerTask), TimerTask)
    BY <1>1, <1>3, <2>1, CreateSound
  <2> QED
    BY <2>2 DEF n, z
<1>7. m.state = n.state
  BY DEF readyqueue_add_tail, readyqueue_prio_mark
<1> HIDE DEF m
<1>11. h = m.rdyq[m.highest][1]
  <2>1. m.rdyq[m.highest] \in Seq(Task)
    BY <1>6 DEF Sound, KernelType
  <2> QED
    BY <2>1 DEF Best, readyqueue_highest_ready_task_get
<1>8. /\ Unowned(m) /\ ~m.pendsv /\ m.irqNest = 0 /\ m.schedLock = 0
      /\ h \in Task /\ h \in ReadySet(m) /\ m \in KernelType
  BY <1>3, <1>6, SoundReady DEF Cleared, Unowned, SameCpu, Sound, Best
<1> HIDE DEF h
<1>9. /\ k \in KernelType /\ SameLists(m, k) /\ k.own = m.own /\ k.curr = h
      /\ k.pendsv = m.pendsv /\ k.irqNest = m.irqNest /\ k.schedLock = m.schedLock
  BY <1>5, <1>8, <1>11 DEF KernelType, SameLists, SameQueue, SameTick
<1>10. Sound(k) /\ ReadySet(k) = ReadySet(m) /\ Best(k) = Best(m)
  BY <1>6, <1>9, CpuSound
<1> QED
  BY <1>4, <1>7, <1>8, <1>9, <1>10 DEF k, h, Unowned, SameLists

LEMMA TimerInitKernel == TimerInit => KInv
<1> SUFFICES ASSUME TimerInit PROVE KInv
  OBVIOUS
<1>1. /\ isr = << >> /\ pc = [t \in Task |-> IF t \in knl.obj THEN "run" ELSE "none"]
      /\ arg = [t \in Task |-> NoObj] /\ walk.at = "top"
      /\ \E prio \in TimerPrios : knl = IF proc THEN BootKernel ELSE BootWithTimerTask(prio)
      /\ TimerTask \in Task \ {Idle, Main}
  BY TimerTaskAssumption DEF TimerInit, WalkTop
<1>2. CASE proc
  <2>1. knl = BootKernel /\ knl.obj = {Idle, Main} /\ knl.state = [t \in Task |-> {}]
    BY <1>1, <1>2 DEF BootKernel
  <2>2. Init
    BY <1>1, <2>1 DEF Init
  <2>3. Calm(knl) /\ DeadRest(knl)
    BY <2>1 DEF Calm, DeadRest, IsPending, IsSuspended
  <2>4. WalkAlone
    BY <1>1, <1>2, <2>1 DEF WalkAlone, Walking, Inside
  <2> QED
    BY <2>2, <2>3, <2>4, InitInv DEF KInv
<1>3. CASE ~proc
  <2>1. /\ Sound(knl) /\ Unowned(knl) /\ knl.curr = Best(knl) /\ knl.curr \in ReadySet(knl)
        /\ knl.state = [t \in Task |-> {}] /\ ~knl.pendsv /\ knl.irqNest = 0
        /\ knl.schedLock = 0
    BY <1>1, <1>3, BootWithTimerTaskIs
  <2>2. Calm(knl) /\ DeadRest(knl)
    BY <2>1 DEF Calm, DeadRest, IsPending, IsSuspended
  <2>3. WalkAlone
    BY <1>1, <1>3, <2>1 DEF WalkAlone, Walking, Inside
  <2>4. TypeOK
    <3>1. isr \in Seq(Handler) /\ Len(isr) = 0
      BY <1>1
    <3>2. pc \in [Task -> Label] /\ arg \in [Task -> Obj \cup {NoObj}]
      BY <1>1 DEF Label
    <3> QED
      BY <2>1, <3>1, <3>2 DEF Sound, TypeOK
  <2>5. HighestRuns /\ LockHolds /\ ChosenReady
    BY <2>1 DEF HighestRuns, Chosen, Best, LockHolds, ChosenReady
  <2> QED
    BY <2>1, <2>2, <2>3, <2>4, <2>5, ReadyIsOK DEF KInv, IInv, Safe, Quiet
<1> QED
  BY <1>2, <1>3

LEMMA TimerInitList == TimerInit => \E L : Fits(tim, call, walk, L)
<1> SUFFICES ASSUME TimerInit PROVE Fits(tim, call, walk, {})
  OBVIOUS
<1>1. tim = NoTimers /\ walk = WalkTop /\ call = [t \in Task |-> NoCall]
  BY DEF TimerInit
<1>2. /\ ListHead \in Node /\ ListHead \notin Timer /\ NoTimer \notin Timer /\ Never \in Nat
      /\ 0 \in Times /\ 0 \in 0 .. Never /\ Never \in 0 .. Never /\ Ring({}) = {ListHead}
      /\ TimerTask \in Task /\ Idle \in Task
  BY TimerAssumption, TimesAre, TimerTaskAssumption, IdleAssumption DEF Node, Ring, Never
<1>3. tim \in TimerRec
  BY <1>1, <1>2 DEF NoTimers, TimerRec, TimerState, TimerOpt
<1>4. Chained(tim, {})
  <2>1. tim.nx[ListHead] = ListHead /\ tim.pv[ListHead] = ListHead
    BY <1>1, <1>2 DEF NoTimers
  <2>2. Ascends(tim, {}, [x \in Timer |-> 0])
    BY DEF Ascends
  <2> QED
    BY <1>2, <2>1, <2>2 DEF Chained
<1>5. ListOK(tim, {})
  BY <1>3, <1>4 DEF ListOK, InOrder, NextDue
<1>6. walk.at = "top" /\ walk \in WalkRec
  BY <1>1, <1>2 DEF WalkTop, WalkRec, Inside, Outside
<1>7. WalkOK(walk, tim, {}) /\ Placing(walk) = {}
  BY <1>6 DEF WalkOK, Placing
<1>8. \A t \in Task : call[t] = NoCall /\ call[t].timer \notin Timer
  BY <1>1, <1>2 DEF NoCall
<1>9. CallsOK(call, tim, {})
  BY <1>1, <1>2, <1>8 DEF CallsOK
<1>10. StatesOK(call, tim, {})
  <2>1. \A x \in Timer : tim.state[x] = "UNUSED"
    BY <1>1 DEF NoTimers
  <2> QED
    BY <2>1 DEF StatesOK
<1> QED
  BY <1>5, <1>7, <1>9, <1>10 DEF Fits

LEMMA TimerStepFits ==
    ASSUME IsFiniteSet(Timer), CarefulUse, KInv, NEW L, Fits(tim, call, walk, L), TimerNext
    PROVE  Fitting
<1>1. CASE \E op \in TimerCall, x \in Timer : CallTimer(op, x) \/ Callback(op, x)
  BY <1>1, CallTimerFits, CallbackStepFits
<1>2. CASE CallGoesOn
  BY <1>2, CallGoesOnFits
<1>3. CASE TimerTick
  BY <1>3, TimerTickFits
<1>4. CASE SoftTimerUpdate \/ TimerTaskLook \/ TimerTaskWait \/ TimerTaskLock
              \/ WalkEnd \/ WalkNext
  BY <1>4, WalkOnlyFits
<1>5. CASE WalkExpire
  BY <1>5, WalkExpireFits
<1>6. CASE WalkPlace
  BY <1>6, WalkPlaceFits
<1>7. CASE OtherTaskStep
  BY <1>7 DEF OtherTaskStep, Fitting
<1> QED
  BY <1>1, <1>2, <1>3, <1>4, <1>5, <1>6, <1>7 DEF TimerNext, TimerStep

LEMMA TimerStepKernel ==
    ASSUME KInv, NEW L, Fits(tim, call, walk, L), TimerNext PROVE KInv'
<1>0. walk \in WalkRec
  BY FitFacts
<1>1. ASSUME NEW op \in TimerCall, NEW x \in Timer, CallTimer(op, x) PROVE KInv'
  BY <1>1, KernelUnmoved DEF CallTimer, Walking
<1>2. ASSUME NEW op \in TimerCall, NEW x \in Timer, Callback(op, x) PROVE KInv'
  <2>1. WalkRuns /\ Walking /\ Walking' /\ UNCHANGED <<knl, isr, pc, arg, proc>>
    BY <1>0, <1>2 DEF Callback, Walking, WalkRec, Inside
  <2> QED
    BY <2>1, WalkGoesOn
<1>3. CASE WalkExpire \/ WalkPlace \/ WalkNext
  <2>1. WalkRuns /\ Walking /\ Walking' /\ UNCHANGED <<knl, isr, pc, arg, proc>>
    BY <1>0, <1>3
    DEF WalkExpire, WalkPlace, WalkNext, WalkFrom, WalkTop, Walking, WalkRec, Inside
  <2> QED
    BY <2>1, WalkGoesOn
<1> QED
  BY <1>0, <1>1, <1>2, <1>3, CallGoesOnKeeps, TickKeepsKernel, SoftTimerUpdateKeeps,
     TimerTaskLookKeeps, TimerTaskWaitKeeps, TimerTaskLockKeeps, WalkEndKeeps, OtherKeepsKernel
  DEF TimerNext, TimerStep

LEMMA TimerInvInit == IsFiniteSet(Timer) /\ TimerInit => TimerInvariant
<1> SUFFICES ASSUME IsFiniteSet(Timer), TimerInit PROVE TimerInvariant
  OBVIOUS
<1>1. PICK L : Fits(tim, call, walk, L)
  BY TimerInitList
<1>2. Listed(tim) = L
  BY <1>1, FitsListed
<1> QED
  BY <1>1, <1>2, TimerInitKernel DEF TimerInvariant, TInv

LEMMA TimerInvNext ==
    IsFiniteSet(Timer) /\ CarefulUse /\ TimerInvariant /\ [TimerNext]_timerVars
        => TimerInvariant'
<1> SUFFICES ASSUME IsFiniteSet(Timer), CarefulUse, TimerInvariant, [TimerNext]_timerVars
             PROVE  TimerInvariant'
  OBVIOUS
<1>1. CASE TimerNext
  <2>1. PICK L : Fits(tim, call, walk, L)
    BY DEF TimerInvariant, TInv
  <2>2. Fitting /\ KInv'
    BY <1>1, <2>1, TimerStepFits, TimerStepKernel DEF TimerInvariant
  <2>3. PICK M : Fits(tim', call', walk', M)
    BY <2>2 DEF Fitting
  <2>4. Listed(tim') = M
    BY <2>3, FitsListed
  <2> QED
    BY <2>2, <2>3, <2>4 DEF TimerInvariant, TInv
<1>2. CASE UNCHANGED timerVars
  <2>1. UNCHANGED <<knl, isr, pc, arg, tim, call, walk, proc>>
    BY <1>2 DEF timerVars
  <2>2. KInv'
    BY <2>1, KernelUnmoved DEF Walking, TimerInvariant
  <2>3. TInv'
    BY <2>1 DEF TInv, TimerInvariant
  <2> QED
    BY <2>2, <2>3 DEF TimerInvariant
<1> QED
  BY <1>1, <1>2

(* The inductive invariant holds in every state of a system whose timers   *)
(* are used with care: calls, callbacks and the walk of the tick interrupt *)
(* or of the timer task may come between any two sections of a timer call. *)
THEOREM TimerAlwaysInvariant ==
    IsFiniteSet(Timer) /\ CarefulUse /\ TimerSpec => []TimerInvariant
<1>1. IsFiniteSet(Timer) => IsFiniteSet(Timer)'
  OBVIOUS
<1>2. CarefulUse => CarefulUse'
  BY DEF CarefulUse, Taken
<1> QED
  BY <1>1, <1>2, TimerInvInit, TimerInvNext, PTL DEF TimerSpec

(* The list of timers stays a ring through both kinds of pointers, holds   *)
(* the running timers in the order they expire and knows when the first is *)
(* due.                                                                    *)
THEOREM TimerListAlwaysExact ==
    IsFiniteSet(Timer) /\ CarefulUse /\ TimerSpec => []TimerListExact
<1>1. ASSUME IsFiniteSet(Timer), TimerInvariant PROVE TimerListExact
  <2> DEFINE L == Listed(tim)
  <2>1. Fits(tim, call, walk, L)
    BY <1>1 DEF TimerInvariant, TInv
  <2>2. NodeAt(tim)[Cardinality(Timer)] = ListHead
    BY <1>1, <2>1, FitsListed
  <2>3. L \subseteq Timer
    BY <2>1, FitFacts
  <2>4. Linked(tim)
    BY <2>1 DEF Fits, ListOK, Chained, Ring, Linked
  <2>5. /\ \A x \in L : tim.nx[x] # ListHead => tim.expires[x] <= tim.expires[tim.nx[x]]
        /\ L # {} => tim.next = tim.expires[tim.nx[ListHead]]
    BY <2>1 DEF Fits, ListOK, InOrder, NextDue
  <2>6. \A x \in Timer : InHand(x) \/ (x \in L <=> tim.state[x] = "RUNNING")
    BY <2>1 DEF Fits, StatesOK, InHand, Pending, Placing
  <2> QED
    BY <2>2, <2>4, <2>5, <2>6 DEF TimerListExact
<1>2. IsFiniteSet(Timer) => IsFiniteSet(Timer)'
  OBVIOUS
<1> QED
  BY <1>1, <1>2, TimerAlwaysInvariant, PTL

(* The timer task, the scheduler lock it takes for its walk and the wake-  *)
(* ups of timer_place leave the scheduler's promises alone.                *)
THEOREM TimersKeepScheduling ==
    IsFiniteSet(Timer) /\ CarefulUse /\ TimerSpec =>
        [](TypeOK /\ ReadyQueueExact /\ TickListExact /\ HighestRuns /\ RunningIsReady)
<1>1. TimerInvariant =>
          TypeOK /\ ReadyQueueExact /\ TickListExact /\ HighestRuns /\ RunningIsReady
  BY SafeFacts DEF TimerInvariant, KInv, IInv
<1> QED
  BY <1>1, TimerAlwaysInvariant, PTL

----------------------------------------------------------------------------
(* Timers as alarms.  Besides the list, the times and settings count.      *)

(* The times a timer may be given when it is started, stopped or not.      *)
Spans(w, x) == {w.delay[x]} \cup (IF w.delay[x] = 0 THEN {w.period[x]} ELSE {})

(* A periodic timer has a period, and what is about to be placed its time. *)
SetOK(w, cl, wk) ==
    /\ \A x \in Timer : w.opt[x] = "PERIODIC" => w.period[x] # 0
    /\ \A t \in Task : cl[t].todo = <<"place">> =>
          w.expires[cl[t].timer] \in Spans(w, cl[t].timer)
    /\ wk.at = "place" => w.expires[wk.cur] = w.period[wk.cur]

(* Timers in the list whose time has come, but for those that were given   *)
(* none.                                                                   *)
Overdue(w, L) == {x \in L : w.expires[x] = 0 /\ w.delay[x] # 0}

(* The walk, when at node n or about to go there, has left none behind: P  *)
(* are the timers in front of n.                                           *)
Behind(w, L, P, n) ==
    /\ P \subseteq L /\ Overdue(w, L) \cap P = {}
    /\ \A m \in P \cup {ListHead} : w.nx[m] \in P \cup {n}
Ahead(w, L, n) == \E P \in SUBSET L : Behind(w, L, P, n)

Spot(wk) == IF wk.at = "look" THEN wk.cur ELSE wk.tmp

(* The tick interrupt leaves no timer overdue; soft: it has yet to look.   *)
Prompt(w, wk, L, soft) ==
    IF wk.at \in Inside THEN Ahead(w, L, Spot(wk)) ELSE soft \/ Overdue(w, L) = {}
Soft == isr # << >> /\ Head(isr) = "soft"

AlarmInv == SetOK(tim, call, walk) /\ (proc => Prompt(tim, walk, Listed(tim), Soft))

(* A step keeps no one waiting: what it does to the timers overdue and to  *)
(* what is in front of node n.                                             *)
Tidy(w, L, r, M, n) ==
    /\ Overdue(r, M) \subseteq Overdue(w, L)
    /\ Ahead(w, L, n) => Ahead(r, M, n)

LEMMA TidyTwice ==
    ASSUME NEW w, NEW L, NEW v, NEW K, NEW r, NEW M, NEW n,
           Tidy(w, L, v, K, n), Tidy(v, K, r, M, n)
    PROVE  Tidy(w, L, r, M, n)
  BY DEF Tidy

(* What a timer that stays out of the list is given.                       *)
LEMMA OutTidy ==
    ASSUME NEW w, NEW L, L \subseteq Timer, NEW r, NEW n,
           \A m \in Ring(L) : r.nx[m] = w.nx[m],
           \A y \in L : r.expires[y] = w.expires[y] /\ r.delay[y] = w.delay[y]
    PROVE  Tidy(w, L, r, L, n)
<1>1. Overdue(r, L) = Overdue(w, L)
  BY DEF Overdue
<1>2. ASSUME NEW P \in SUBSET L, Behind(w, L, P, n) PROVE Behind(r, L, P, n)
  BY <1>1, <1>2 DEF Behind, Ring
<1> QED
  BY <1>1, <1>2 DEF Tidy, Ahead

(* Taking a timer off.                                                     *)
SameSets(w, r) == r.delay = w.delay /\ r.period = w.period /\ r.opt = w.opt

(* Around x, which is taken off.                                           *)
Around(w, r, L, x) ==
    \A n \in Ring(L) \ {x} : r.nx[n] = IF w.nx[n] = x THEN w.nx[x] ELSE w.nx[n]

LEMMA OffSeen ==
    ASSUME NEW w, NEW L, ListOK(w, L), NEW x \in L, NEW g \in Garbage
    PROVE  LET r == timer_takeoff(w, x, g)
           IN  /\ ListOK(r, L \ {x}) /\ SameSets(w, r) /\ r.state = w.state
               /\ r.expires = w.expires /\ Around(w, r, L, x)
<1> DEFINE a == list_del(w, x)
           r == timer_takeoff(w, x, g)
<1>1. ListOK(r, L \ {x}) /\ SameTimers(w, r) /\ r.expires = w.expires
  BY TakenOff
<1>2. w \in TimerRec /\ Chained(w, L)
  BY DEF ListOK
<1>7. x \in L /\ a = list_del(w, x)
  OBVIOUS
<1> DEFINE p == w.pv[x]
           q == w.nx[x]
<1>3. /\ a \in TimerRec /\ Chained(a, L \ {x}) /\ SameTimers(w, a)
      /\ a.expires = w.expires /\ a.next = w.next
      /\ a.nx[x] = q /\ a.nx[p] = q
      /\ \A m \in Ring(L) \ {x, p} : a.nx[m] = w.nx[m]
  BY <1>2, Unlinked
<1>4. r.nx = a.nx
  BY DEF timer_takeoff, list_del
<1>5. \A n \in Ring(L) : w.pv[w.nx[n]] = n
  BY <1>2 DEF Chained
<1>6. w.nx[w.pv[x]] = x
  BY <1>2 DEF Chained, Ring
<1> HIDE DEF a, r
<1> QED
  BY <1>1, <1>3, <1>4, <1>5, <1>6 DEF SameTimers, SameSets, Around, r

LEMMA OffTidy ==
    ASSUME NEW w, NEW L, ListOK(w, L), NEW x \in L, NEW g \in Garbage, NEW n
    PROVE  LET r == timer_takeoff(w, x, g)
           IN  /\ n # x => Tidy(w, L, r, L \ {x}, n)
               /\ Ahead(w, L, x) => Ahead(r, L \ {x}, w.nx[x])
               /\ Overdue(r, L \ {x}) \subseteq Overdue(w, L)
<1> DEFINE r == timer_takeoff(w, x, g)
           M == L \ {x}
<1>1. SameSets(w, r) /\ r.expires = w.expires /\ Around(w, r, L, x)
  BY OffSeen
<1>2. ListHead \notin L
  BY NodeFacts DEF ListOK, Chained
<1> HIDE DEF r
<1>3. Overdue(r, M) = Overdue(w, L) \ {x}
  BY <1>1 DEF Overdue, SameSets
<1>4. ASSUME NEW P \in SUBSET L, NEW k, Behind(w, L, P, k), NEW j, j = IF k = x THEN w.nx[x] ELSE k
      PROVE  Behind(r, M, P \ {x}, j)
  <2>1. Overdue(r, M) \cap (P \ {x}) = {} /\ P \ {x} \subseteq M
    BY <1>3, <1>4 DEF Behind
  <2>2. ASSUME NEW m \in (P \ {x}) \cup {ListHead} PROVE r.nx[m] \in (P \ {x}) \cup {j}
    <3>1. m \in Ring(L) \ {x} /\ w.nx[m] \in P \cup {k}
      BY <1>2, <1>4, <2>2 DEF Behind, Ring
    <3>2. CASE w.nx[m] # x
      BY <1>1, <1>4, <3>1, <3>2 DEF Around
    <3>3. CASE w.nx[m] = x
      <4>1. r.nx[m] = w.nx[x]
        BY <1>1, <3>1, <3>3 DEF Around
      <4>2. CASE k = x
        BY <1>4, <4>1, <4>2
      <4>3. CASE k # x
        <5>1. x \in P
          BY <3>1, <3>3, <4>3
        <5>2. w.nx[x] \in P \cup {k}
          BY <1>4, <5>1 DEF Behind
        <5>3. w.nx[x] # x
          <6>1. Chained(w, L) /\ x \in L
            BY DEF ListOK
          <6>2. PICK rk : Ascends(w, L, rk)
            BY <6>1 DEF Chained
          <6>3. x # ListHead /\ rk[x] \in Nat
            BY <1>2, <6>1, <6>2 DEF Chained, Ascends
          <6> QED
            BY <6>2, <6>3 DEF Ascends
        <5> QED
          BY <1>4, <4>1, <4>3, <5>2, <5>3
      <4> QED
        BY <4>2, <4>3
    <3> QED
      BY <3>2, <3>3
  <2> QED
    BY <2>1, <2>2 DEF Behind
<1>5. ASSUME Ahead(w, L, n), n # x PROVE Ahead(r, M, n)
  <2>1. PICK P \in SUBSET L : Behind(w, L, P, n)
    BY <1>5 DEF Ahead
  <2>2. Behind(r, M, P \ {x}, n)
    BY <1>4, <1>5, <2>1
  <2> QED
    BY <2>2 DEF Ahead
<1>6. ASSUME Ahead(w, L, x) PROVE Ahead(r, M, w.nx[x])
  <2>1. PICK P \in SUBSET L : Behind(w, L, P, x)
    BY <1>6 DEF Ahead
  <2>2. Behind(r, M, P \ {x}, w.nx[x])
    BY <1>4, <2>1
  <2> QED
    BY <2>2 DEF Ahead
<1> QED
  BY <1>3, <1>5, <1>6 DEF Tidy, r

(* Placing a timer, in front of m.                                         *)
InFrontOf(w, r, L, x, m) ==
    /\ r.nx[x] = m
    /\ \A n \in Ring(L) : r.nx[n] = IF w.nx[n] = m THEN x ELSE w.nx[n]

LEMMA LinkedFront ==
    ASSUME NEW w \in TimerRec, NEW L, Chained(w, L), NEW x \in Timer \ L, NEW n \in Ring(L)
    PROVE  InFrontOf(w, list_add_tail(w, x, n), L, x, n)
<1> DEFINE r == list_add_tail(w, x, n)
<1>1. /\ r \in TimerRec /\ Chained(r, L \cup {x}) /\ SameTimers(w, r)
      /\ r.expires = w.expires /\ r.next = w.next
      /\ r.nx[x] = n /\ r.nx[w.pv[n]] = x
      /\ \A m \in Ring(L) \ {w.pv[n]} : r.nx[m] = w.nx[m]
  <2>1. L \subseteq Timer
    BY DEF Chained
  <2> QED
    BY <2>1, LinkedIn
<1>2. \A m \in Ring(L) : w.nx[m] = n <=> m = w.pv[n]
  BY DEF Chained
<1> HIDE DEF r
<1> QED
  BY <1>1, <1>2 DEF InFrontOf, r

LEMMA NextLinks == ASSUME NEW a \in TimerRec, NEW v PROVE SetNext(a, v).nx = a.nx
  BY DEF SetNext, TimerRec

LEMMA OnSeen ==
    ASSUME IsFiniteSet(Timer), NEW w, NEW L, ListOK(w, L), NEW x \in Timer \ L
    PROVE  LET r == timer_place(w, x)
           IN  /\ ListOK(r, L \cup {x}) /\ SameSets(w, r) /\ r.state = w.state
               /\ r.expires = w.expires /\ \E m \in Ring(L) : InFrontOf(w, r, L, x, m)
<1> DEFINE r == timer_place(w, x)
<1>1. w \in TimerRec /\ Chained(w, L)
  BY DEF ListOK
<1>2. PICK m \in Ring(L) :
         r = LET w1 == list_add_tail(w, x, m)
             IN  SetNext(w1, IF w1.nx[ListHead] = x THEN w.expires[x] ELSE w1.next)
  BY <1>1, PlaceWhere
<1> DEFINE a == list_add_tail(w, x, m)
           v == IF a.nx[ListHead] = x THEN w.expires[x] ELSE a.next
<1>3. r = SetNext(a, v)
  BY <1>2
<1>4. InFrontOf(w, a, L, x, m)
  BY <1>1, LinkedFront
<1>5. ListOK(r, L \cup {x}) /\ SameTimers(w, r) /\ r.expires = w.expires
  BY Placed
<1>6. a \in TimerRec
  BY <1>1, LinkedIn DEF Chained
<1> HIDE DEF r, a, v
<1>7. r.nx = a.nx
  BY <1>3, <1>6, NextLinks
<1>8. InFrontOf(w, r, L, x, m)
  BY <1>4, <1>7 DEF InFrontOf
<1> QED
  BY <1>5, <1>8 DEF SameTimers, SameSets, r

LEMMA OnTidy ==
    ASSUME IsFiniteSet(Timer), NEW w, NEW L, ListOK(w, L), NEW x \in Timer \ L,
           w.expires[x] = 0 => w.delay[x] = 0, NEW n
    PROVE  Tidy(w, L, timer_place(w, x), L \cup {x}, n)
<1> DEFINE r == timer_place(w, x)
           M == L \cup {x}
<1>1. SameSets(w, r) /\ r.expires = w.expires /\ \E m \in Ring(L) : InFrontOf(w, r, L, x, m)
  BY OnSeen
<1>2. ListHead \notin L /\ L \subseteq Timer
  BY NodeFacts DEF ListOK, Chained
<1> HIDE DEF r
<1>3. Overdue(r, M) = Overdue(w, L)
  BY <1>1 DEF Overdue, SameSets
<1>4. PICK m \in Ring(L) : InFrontOf(w, r, L, x, m)
  BY <1>1
<1>5. ASSUME NEW P \in SUBSET L, Behind(w, L, P, n) PROVE Ahead(r, M, n)
  <2>1. /\ P \subseteq L /\ Overdue(w, L) \cap P = {}
        /\ \A k \in P \cup {ListHead} : k \in Ring(L) /\ w.nx[k] \in P \cup {n}
    BY <1>5 DEF Behind, Ring
  <2>2. CASE \E k \in P \cup {ListHead} : w.nx[k] = m
    <3>1. m \in P \cup {n}
      BY <2>1, <2>2
    <3>2. \A k \in P \cup {x} \cup {ListHead} : r.nx[k] \in P \cup {x} \cup {n}
      BY <1>4, <2>1, <3>1 DEF InFrontOf
    <3>3. Overdue(r, M) \cap (P \cup {x}) = {}
      BY <1>2, <1>3, <2>1 DEF Overdue
    <3>4. P \cup {x} \in SUBSET M
      BY <2>1
    <3> QED
      BY <3>2, <3>3, <3>4 DEF Ahead, Behind
  <2>3. CASE \A k \in P \cup {ListHead} : w.nx[k] # m
    <3>1. \A k \in P \cup {ListHead} : r.nx[k] \in P \cup {n}
      BY <1>4, <2>1, <2>3 DEF InFrontOf
    <3> QED
      BY <1>3, <2>1, <3>1 DEF Ahead, Behind
  <2> QED
    BY <2>2, <2>3
<1> QED
  BY <1>3, <1>5 DEF Tidy, Ahead, r

(* What timers but x were told, and the time they have left.               *)
OthersSet(w, r, x) ==
    \A y \in Timer \ {x} : /\ r.delay[y] = w.delay[y] /\ r.period[y] = w.period[y]
                           /\ r.opt[y] = w.opt[y] /\ r.expires[y] = w.expires[y]

LEMMA GivenSets ==
    ASSUME NEW w \in TimerRec, NEW x \in Timer, NEW ln \in {"kept", "init"},
           NEW s \in TimerState, NEW o \in TimerOpt,
           NEW d \in Times, NEW p \in Times, NEW e \in Times
    PROVE  LET r == Given(w, x, ln, s, o, d, p, e)
           IN  /\ OthersSet(w, r, x) /\ r.delay[x] = d /\ r.period[x] = p
               /\ (d = w.delay[x] /\ p = w.period[x] /\ o = w.opt[x]) => SameSets(w, r)
<1> DEFINE nx == IF ln = "kept" THEN w.nx ELSE [w.nx EXCEPT ![x] = x]
           pv == IF ln = "kept" THEN w.pv ELSE [w.pv EXCEPT ![x] = x]
           st == [w.state EXCEPT ![x] = s]
           op == [w.opt EXCEPT ![x] = o]
           dl == [w.delay EXCEPT ![x] = d]
           pe == [w.period EXCEPT ![x] = p]
           ex == [w.expires EXCEPT ![x] = e]
           r  == Given(w, x, ln, s, o, d, p, e)
<1>1. r = SetTimer(w, nx, pv, st, op, dl, pe, ex)
  BY DEF Given
<1>2. /\ w.opt \in [Timer -> TimerOpt] /\ w.delay \in [Timer -> Times]
      /\ w.period \in [Timer -> Times] /\ w.expires \in [Timer -> Times]
  BY RecFields
<1>3. /\ dl[x] = d /\ pe[x] = p
      /\ \A y \in Timer \ {x} : /\ dl[y] = w.delay[y] /\ pe[y] = w.period[y]
                              /\ op[y] = w.opt[y] /\ ex[y] = w.expires[y]
      /\ d = w.delay[x] => dl = w.delay
      /\ p = w.period[x] => pe = w.period
      /\ o = w.opt[x] => op = w.opt
  BY <1>2
<1> HIDE DEF nx, pv, st, op, dl, pe, ex, r
<1>4. r.opt = op /\ r.delay = dl /\ r.period = pe /\ r.expires = ex
  BY <1>1 DEF SetTimer, TimerRec
<1> QED
  BY <1>3, <1>4 DEF OthersSet, SameSets, r

(* Timers each of which comes behind another of them are none.             *)
LEMMA NoneFirst ==
    ASSUME NEW w, NEW L, Chained(w, L), NEW S, S \subseteq L, \A y \in S : w.pv[y] \in S
    PROVE  S = {}
<1>1. PICK rk : Ascends(w, L, rk)
  BY DEF Chained
<1>2. ListHead \notin L /\ L \subseteq Timer
  BY NodeFacts DEF Chained
<1> DEFINE N == {k \in Nat : \A y \in S : k <= rk[y]}
<1>3. 0 \in N
  BY <1>1, <1>2 DEF Ascends
<1>4. ASSUME NEW k \in N PROVE k + 1 \in N
  <2>1. ASSUME NEW y \in S PROVE k + 1 <= rk[y]
    <3>1. w.pv[y] \in S /\ w.nx[w.pv[y]] = y /\ y # ListHead
      BY <1>2, <2>1 DEF Chained, Ring
    <3>2. rk[w.pv[y]] \in Nat /\ rk[y] \in Nat /\ rk[w.pv[y]] < rk[y]
      BY <1>1, <1>2, <3>1 DEF Ascends
    <3>3. k \in Nat /\ k <= rk[w.pv[y]]
      BY <3>1
    <3> QED
      BY <3>2, <3>3
  <2> QED
    BY <2>1
<1>5. Nat \subseteq N
  <2>1. N \in SUBSET Nat
    OBVIOUS
  <2> HIDE DEF N
  <2> QED
    BY <1>3, <1>4, <2>1, NatInd
<1>6. ASSUME NEW y \in S PROVE FALSE
  <2>1. rk[y] \in Nat
    BY <1>1, <1>2 DEF Ascends
  <2>2. rk[y] + 1 \in N
    BY <1>5, <2>1
  <2> QED
    BY <2>1, <2>2
<1> QED
  BY <1>6

(* Where the walk begins, and where it may end.                            *)
LEMMA FirstAhead == ASSUME NEW w, NEW L PROVE Ahead(w, L, w.nx[ListHead])
<1>1. Behind(w, L, {}, w.nx[ListHead])
  BY DEF Behind
<1> QED
  BY <1>1 DEF Ahead

LEMMA NoneAhead ==
    ASSUME NEW w, NEW L, ListOK(w, L), NEW n, Ahead(w, L, n),
           n = ListHead \/ (n \in L /\ w.expires[n] # 0)
    PROVE  Overdue(w, L) = {}
<1>1. PICK P \in SUBSET L : Behind(w, L, P, n)
  BY DEF Ahead
<1>2. w \in TimerRec /\ Chained(w, L) /\ InOrder(w, L)
  BY DEF ListOK
<1>3. ListHead \notin L /\ L \subseteq Timer
  BY <1>2, NodeFacts DEF Chained
<1>4. \A y \in Timer : w.expires[y] \in Nat
  BY <1>2, TimesAre DEF TimerRec
<1> DEFINE S == {y \in L \ P : w.expires[y] = 0}
<1>5. ASSUME NEW y \in S PROVE w.pv[y] \in S
  <2>1. w.pv[y] \in Ring(L) /\ w.nx[w.pv[y]] = y /\ y # ListHead
    BY <1>2, <1>3 DEF Chained, Ring
  <2>2. y # n
    BY <1>3
  <2>3. w.pv[y] \notin P \cup {ListHead}
    BY <1>1, <2>1, <2>2 DEF Behind
  <2>4. w.pv[y] \in L
    BY <2>1, <2>3 DEF Ring
  <2>5. w.expires[w.pv[y]] <= w.expires[y]
    BY <1>2, <2>1, <2>4 DEF InOrder
  <2>6. w.expires[w.pv[y]] = 0
    BY <1>3, <1>4, <2>4, <2>5
  <2> QED
    BY <2>3, <2>4, <2>6
<1>6. S = {}
  <2> HIDE DEF S
  <2>1. S \subseteq L
    BY DEF S
  <2> QED
    BY <1>2, <1>5, <2>1, NoneFirst
<1> QED
  BY <1>1, <1>6 DEF Behind, Overdue

----------------------------------------------------------------------------
(* What the calls do to alarm x, L and M the timers listed before and      *)
(* after it: it is not set then, or it is set with its settings.           *)
Unset(w, L, r, M, x) == M = L \ {x} /\ OthersSet(w, r, x)
Put(w, L, r, M, x) ==
    M = L \cup {x} /\ OthersSet(w, r, x) /\ SameSets(w, r) /\ r.expires[x] \in Spans(w, x)

LEMMA TakeoffTurn ==
    ASSUME NEW w, NEW L, ListOK(w, L), NEW x \in L, NEW g \in Garbage
    PROVE  LET r == timer_takeoff(w, x, g)
           IN  /\ ListOK(r, L \ {x}) /\ Unset(w, L, r, L \ {x}, x) /\ SameSets(w, r)
               /\ r.expires = w.expires /\ \A n : n # x => Tidy(w, L, r, L \ {x}, n)
<1> DEFINE r == timer_takeoff(w, x, g)
           M == L \ {x}
<1>1. ListOK(r, M) /\ SameSets(w, r) /\ r.expires = w.expires
  BY OffSeen
<1>2. \A n : n # x => Tidy(w, L, r, M, n)
  BY OffTidy
<1> HIDE DEF r
<1> QED
  BY <1>1, <1>2 DEF Unset, OthersSet, SameSets, r

LEMMA AloneTurn ==
    ASSUME NEW w, NEW L, ListOK(w, L), NEW x \in Timer \ L, NEW ln \in {"kept", "init"},
           NEW s \in TimerState, NEW o \in TimerOpt,
           NEW d \in Times, NEW p \in Times, NEW e \in Times
    PROVE  LET r == Given(w, x, ln, s, o, d, p, e)
           IN  /\ ListOK(r, L) /\ Unset(w, L, r, L, x) /\ \A n : Tidy(w, L, r, L, n)
               /\ r.opt[x] = o /\ r.expires[x] = e /\ r.period[x] = p /\ r.delay[x] = d
               /\ (d = w.delay[x] /\ p = w.period[x] /\ o = w.opt[x]) => SameSets(w, r)
               /\ ln = "kept" => r.nx = w.nx
<1> DEFINE r == Given(w, x, ln, s, o, d, p, e)
<1>1. w \in TimerRec /\ L \subseteq Timer /\ ListHead \notin Timer /\ Ring(L) \subseteq Node \ {x}
  BY NodeFacts DEF ListOK, Chained, Ring, Node
<1>2. /\ OthersAlone(w, r, x) /\ (ln = "kept" => SameLinks(w, r))
      /\ r.opt[x] = o /\ r.expires[x] = e
  BY <1>1, GivenIs
<1>3. /\ OthersSet(w, r, x) /\ r.delay[x] = d /\ r.period[x] = p
      /\ (d = w.delay[x] /\ p = w.period[x] /\ o = w.opt[x]) => SameSets(w, r)
  BY <1>1, GivenSets
<1> HIDE DEF r
<1>4. ListOK(r, L)
  BY <1>2, AloneKept
<1>5. ASSUME NEW n PROVE Tidy(w, L, r, L, n)
  <2>1. \A m \in Ring(L) : r.nx[m] = w.nx[m]
    BY <1>1, <1>2 DEF OthersAlone
  <2>2. \A y \in L : r.expires[y] = w.expires[y] /\ r.delay[y] = w.delay[y]
    BY <1>1, <1>3 DEF OthersSet
  <2> QED
    BY <1>1, <2>1, <2>2, OutTidy
<1> QED
  BY <1>2, <1>3, <1>4, <1>5 DEF Unset, SameLinks, r

LEMMA ExpiresTurn ==
    ASSUME NEW w, NEW L, ListOK(w, L), NEW x \in Timer \ L, NEW v \in Times
    PROVE  LET r == SetExpires(w, x, v)
           IN  /\ ListOK(r, L) /\ Unset(w, L, r, L, x) /\ \A n : Tidy(w, L, r, L, n)
               /\ SameSets(w, r) /\ r.expires[x] = v /\ r.nx = w.nx
<1> DEFINE r == Given(w, x, "kept", w.state[x], w.opt[x], w.delay[x], w.period[x], v)
<1>1. w \in TimerRec
  BY DEF ListOK
<1>2. SetExpires(w, x, v) = r
  BY <1>1 DEF SetExpires, Given, SetTimer, TimerRec
<1>3. /\ w.state[x] \in TimerState /\ w.opt[x] \in TimerOpt
      /\ w.delay[x] \in Times /\ w.period[x] \in Times
  BY <1>1, RecFields
<1>4. /\ ListOK(r, L) /\ Unset(w, L, r, L, x) /\ \A n : Tidy(w, L, r, L, n)
      /\ SameSets(w, r) /\ r.expires[x] = v /\ r.nx = w.nx
  <2> DEFINE s == w.state[x]
             o == w.opt[x]
             d == w.delay[x]
             p == w.period[x]
             ln == "kept"
  <2>1. /\ s \in TimerState /\ o \in TimerOpt /\ d \in Times /\ p \in Times
        /\ ln \in {"kept", "init"} /\ ln = "kept" /\ r = Given(w, x, ln, s, o, d, p, v)
        /\ d = w.delay[x] /\ p = w.period[x] /\ o = w.opt[x]
    BY <1>3
  <2> HIDE DEF s, o, d, p, ln, r
  <2> QED
    BY <2>1, AloneTurn
<1> HIDE DEF r
<1> QED
  BY <1>2, <1>4

LEMMA ReloadTurn ==
    ASSUME NEW w, NEW L, ListOK(w, L), NEW x \in L, NEW g \in Garbage, NEW v \in Times
    PROVE  LET r == SetExpires(timer_takeoff(w, x, g), x, v)
           IN  /\ ListOK(r, L \ {x}) /\ Unset(w, L, r, L \ {x}, x) /\ SameSets(w, r)
               /\ r.expires[x] = v /\ \A n : n # x => Tidy(w, L, r, L \ {x}, n)
               /\ Ahead(w, L, x) => Ahead(r, L \ {x}, w.nx[x])
<1> DEFINE a == timer_takeoff(w, x, g)
           M == L \ {x}
           r == SetExpires(a, x, v)
<1>1. /\ ListOK(a, M) /\ Unset(w, L, a, M, x) /\ SameSets(w, a)
      /\ \A n : n # x => Tidy(w, L, a, M, n)
  BY TakeoffTurn
<1>2. Ahead(w, L, x) => Ahead(a, M, w.nx[x])
  <2> DEFINE n == x
  <2>1. Ahead(w, L, x) => Ahead(timer_takeoff(w, x, g), L \ {x}, w.nx[x])
    BY OffTidy
  <2> QED
    BY <2>1
<1>3. x \in Timer \ M
  BY DEF ListOK, Chained
<1> HIDE DEF a
<1>4. /\ ListOK(r, M) /\ Unset(a, M, r, M, x) /\ \A n : Tidy(a, M, r, M, n)
      /\ SameSets(a, r) /\ r.expires[x] = v
  <2>1. ListOK(a, M) /\ x \in Timer \ M
    BY <1>1, <1>3
  <2> HIDE DEF M
  <2> QED
    BY <2>1, ExpiresTurn
<1> HIDE DEF r
<1>5. ASSUME NEW n, n # x PROVE Tidy(w, L, r, M, n)
  <2>1. Tidy(w, L, a, M, n) /\ Tidy(a, M, r, M, n)
    BY <1>1, <1>4, <1>5
  <2> QED
    BY <2>1, TidyTwice
<1>6. Unset(w, L, r, M, x)
  BY <1>1, <1>4 DEF Unset, OthersSet
<1>7. SameSets(w, r)
  BY <1>1, <1>4 DEF SameSets
<1>8. Ahead(a, M, w.nx[x]) => Ahead(r, M, w.nx[x])
  BY <1>4 DEF Tidy
<1> QED
  BY <1>2, <1>4, <1>5, <1>6, <1>7, <1>8 DEF r, a

LEMMA SpanFacts ==
    ASSUME NEW w \in TimerRec, NEW x \in Timer, w.expires[x] \in Spans(w, x)
    PROVE  w.expires[x] = 0 => w.delay[x] = 0
  BY DEF Spans

LEMMA PlaceTurn ==
    ASSUME IsFiniteSet(Timer), NEW w, NEW L, ListOK(w, L), NEW x \in Timer \ L,
           w.expires[x] \in Spans(w, x)
    PROVE  LET r == timer_place(w, x)
           IN  /\ ListOK(r, L \cup {x}) /\ Put(w, L, r, L \cup {x}, x)
               /\ r.expires = w.expires /\ \A n : Tidy(w, L, r, L \cup {x}, n)
<1> DEFINE r == timer_place(w, x)
           M == L \cup {x}
<1>1. ListOK(r, M) /\ SameSets(w, r) /\ r.expires = w.expires
  BY OnSeen
<1>2. w.expires[x] = 0 => w.delay[x] = 0
  BY SpanFacts DEF ListOK
<1>3. ASSUME NEW n PROVE Tidy(w, L, r, M, n)
  BY <1>2, OnTidy
<1> HIDE DEF r
<1> QED
  BY <1>1, <1>3 DEF Put, OthersSet, SameSets, r

----------------------------------------------------------------------------
(* The steps of alarms.                                                    *)

TicksLeft(w, L) == [x \in Timer |-> IF x \in L THEN w.expires[x] ELSE Never]
Ringing(wk) == IF wk.at \in {"place", "cb", "next"} THEN wk.cur ELSE NoTimer
Reps(w) == [x \in Timer |-> w.opt[x] = "PERIODIC"]

(* The walk rings as before.                                               *)
StillRinging == Ringing(walk') = Ringing(walk) /\ proc' = proc
AlarmStep == [Alarms!AlarmNext]_(Alarms!alarmVars)

LEMMA StutterStep ==
    ASSUME NEW L, Listed(tim) = L, Listed(tim') = L, SameSets(tim, tim'),
           \A x \in L : tim'.expires[x] = tim.expires[x], StillRinging
    PROVE  AlarmStep
<1>1. TicksLeft(tim', L) = TicksLeft(tim, L)
  BY DEF TicksLeft
<1>2. Reps(tim') = Reps(tim)
  BY DEF Reps, SameSets
<1>3. UNCHANGED Alarms!alarmVars
  BY <1>1, <1>2
  DEF Alarms!alarmVars, Alarms!settings, TicksLeft, Reps, StillRinging, Ringing, SameSets
<1> QED
  BY <1>3 DEF AlarmStep

LEMMA CancelStep ==
    ASSUME NEW x \in Timer, NEW L, NEW M, Listed(tim) = L, Listed(tim') = M,
           Unset(tim, L, tim', M, x), StillRinging
    PROVE  AlarmStep
<1>1. TicksLeft(tim', M) = [TicksLeft(tim, L) EXCEPT ![x] = Never]
  BY DEF TicksLeft, Unset, OthersSet
<1>2. \A y \in Timer \ {x} : /\ tim'.delay[y] = tim.delay[y] /\ tim'.period[y] = tim.period[y]
                             /\ Reps(tim')[y] = Reps(tim)[y]
  BY DEF Unset, OthersSet, Reps
<1>3. Alarms!Cancel(x)
  BY <1>1, <1>2 DEF Alarms!Cancel, TicksLeft, Reps, StillRinging, Ringing
<1> QED
  BY <1>3 DEF AlarmStep, Alarms!AlarmNext

LEMMA ArmStep ==
    ASSUME NEW x \in Timer, NEW L, NEW M, Listed(tim) = L, Listed(tim') = M,
           Put(tim, L, tim', M, x), StillRinging,
           Ringing(walk) = x /\ tim.opt[x] = "PERIODIC" => x \in L, tim \in TimerRec
    PROVE  AlarmStep
<1>1. /\ tim'.expires[x] \in Spans(tim, x)
      /\ TicksLeft(tim', M) = [TicksLeft(tim, L) EXCEPT ![x] = tim'.expires[x]]
  BY DEF TicksLeft, Put, OthersSet
<1>2. Reps(tim') = Reps(tim) /\ tim'.delay = tim.delay /\ tim'.period = tim.period
  BY DEF Put, SameSets, Reps
<1>3. ~Alarms!Repeats(x)
  <2>1. tim.expires[x] \in Times /\ \A v \in Times : v # Never
    BY RecFields, TimerAssumption DEF Times, Never
  <2> QED
    BY <2>1 DEF Alarms!Repeats, Ringing
<1>4. Alarms!Arm(x)
  BY <1>1, <1>2, <1>3
  DEF Alarms!Arm, Alarms!settings, TicksLeft, Reps, StillRinging, Ringing, Spans
<1> QED
  BY <1>4 DEF AlarmStep, Alarms!AlarmNext

LEMMA RepeatStep ==
    ASSUME NEW x \in Timer, NEW L, NEW M, Listed(tim) = L, Listed(tim') = M,
           SameSets(tim, tim'), StillRinging,
           TicksLeft(tim', M) = [TicksLeft(tim, L) EXCEPT ![x] = tim.period[x]],
           Ringing(walk) = x, tim.opt[x] = "PERIODIC", x \notin L
    PROVE  AlarmStep
<1>1. TicksLeft(tim', M) = [TicksLeft(tim, L) EXCEPT ![x] = tim.period[x]]
  OBVIOUS
<1>2. Reps(tim') = Reps(tim) /\ tim'.delay = tim.delay /\ tim'.period = tim.period
  BY DEF SameSets, Reps
<1>3. Alarms!Repeats(x)
  BY DEF Alarms!Repeats, Ringing
<1>4. Alarms!Repeat(x)
  BY <1>1, <1>2, <1>3
  DEF Alarms!Repeat, Alarms!settings, TicksLeft, Reps, StillRinging, Ringing
<1> QED
  BY <1>4 DEF AlarmStep, Alarms!AlarmNext

LEMMA RingStep ==
    ASSUME NEW x \in Timer, NEW L, NEW M, Listed(tim) = L, Listed(tim') = M,
           Unset(tim, L, tim', M, x), SameSets(tim, tim'), x \in L, tim.expires[x] = 0,
           Ringing(walk) = NoTimer, Ringing(walk') = x, proc' = proc
    PROVE  AlarmStep
<1>1. TicksLeft(tim', M) = [TicksLeft(tim, L) EXCEPT ![x] = Never] /\ TicksLeft(tim, L)[x] = 0
  BY DEF TicksLeft, Unset, OthersSet
<1>2. Reps(tim') = Reps(tim) /\ tim'.delay = tim.delay /\ tim'.period = tim.period
  BY DEF SameSets, Reps
<1>3. Alarms!Ring(x)
  BY <1>1, <1>2 DEF Alarms!Ring, Alarms!settings, TicksLeft, Reps, Ringing
<1> QED
  BY <1>3 DEF AlarmStep, Alarms!AlarmNext

LEMMA HushStep ==
    ASSUME NEW L, Listed(tim) = L, tim' = tim, Ringing(walk) # NoTimer,
           Ringing(walk') = NoTimer, proc' = proc
    PROVE  AlarmStep
<1>1. Alarms!Hush
  BY DEF Alarms!Hush, Alarms!settings, Ringing
<1> QED
  BY <1>1 DEF AlarmStep, Alarms!AlarmNext

LEMMA CountStep ==
    ASSUME NEW L, L \subseteq Timer, Listed(tim) = L, Listed(tim') = L, tim \in TimerRec,
           SameSets(tim, tim'),
           \A x \in L : tim'.expires[x] = IF tim.expires[x] > 0 THEN tim.expires[x] - 1 ELSE 0,
           StillRinging, proc => Overdue(tim, L) = {}
    PROVE  AlarmStep
<1>1. \A x \in Timer : tim.expires[x] \in Nat /\ tim.expires[x] # Never /\ Never # 0
  <2>1. tim.expires \in [Timer -> 0 .. LongestDelay] /\ LongestDelay \in Nat
    BY TimerAssumption, RecFields DEF Times
  <2> QED
    BY <2>1 DEF Never
<1>2. TicksLeft(tim', L) = [x \in Timer |-> IF TicksLeft(tim, L)[x] \in {Never, 0} THEN TicksLeft(tim, L)[x]
                                       ELSE TicksLeft(tim, L)[x] - 1]
  BY <1>1 DEF TicksLeft
<1>3. Reps(tim') = Reps(tim) /\ tim'.delay = tim.delay /\ tim'.period = tim.period
  BY DEF SameSets, Reps
<1>4. proc => \A y \in Timer : TicksLeft(tim, L)[y] = 0 => tim.delay[y] = 0
  BY <1>1 DEF Overdue, TicksLeft
<1>5. Alarms!Tick
  BY <1>2, <1>3, <1>4 DEF Alarms!Tick, Alarms!settings, TicksLeft, Reps, StillRinging, Ringing
<1> QED
  BY <1>5 DEF AlarmStep, Alarms!AlarmNext

----------------------------------------------------------------------------
(* What the steps keep.                                                    *)

LEMMA OKListed ==
    ASSUME IsFiniteSet(Timer), NEW w, NEW L, ListOK(w, L) PROVE Listed(w) = L
  BY ListedIs DEF ListOK

LEMMA SetKept ==
    ASSUME NEW w, NEW cl, NEW wk, SetOK(w, cl, wk), NEW r, NEW x \in Timer, OthersSet(w, r, x),
           r.opt[x] = "PERIODIC" => r.period[x] # 0,
           NEW dl, \A t \in Task : dl[t].todo = <<"place">> =>
              \/ dl[t].timer \in Timer \ {x} /\ cl[t] = dl[t]
              \/ dl[t].timer = x /\ r.expires[x] \in Spans(r, x),
           NEW vk, vk.at = "place" =>
              \/ wk.at = "place" /\ vk.cur = wk.cur /\ wk.cur \in Timer \ {x}
              \/ vk.cur = x /\ r.expires[x] = r.period[x]
    PROVE  SetOK(r, dl, vk)
<1>1. \A y \in Timer : r.opt[y] = "PERIODIC" => r.period[y] # 0
  BY DEF SetOK, OthersSet
<1>2. ASSUME NEW t \in Task, dl[t].todo = <<"place">>
      PROVE  r.expires[dl[t].timer] \in Spans(r, dl[t].timer)
  BY <1>2 DEF SetOK, OthersSet, Spans
<1>3. vk.at = "place" => r.expires[vk.cur] = r.period[vk.cur]
  BY DEF SetOK, OthersSet
<1> QED
  BY <1>1, <1>2, <1>3 DEF SetOK

LEMMA PromptTidy ==
    ASSUME NEW w, NEW wk, NEW L, NEW s, Prompt(w, wk, L, s),
           NEW r, NEW M, Tidy(w, L, r, M, Spot(wk)),
           NEW vk, vk.at \in Inside <=> wk.at \in Inside,
           vk.at \in Inside => Spot(vk) = Spot(wk)
    PROVE  Prompt(r, vk, M, s)
  BY DEF Prompt, Tidy

(* The walk stays where it is, or passes from one thing it does with its   *)
(* timer to the next.                                                      *)
WalkStill ==
    /\ walk'.at # "place" /\ (walk'.at \in Inside <=> walk.at \in Inside)
    /\ walk'.at \in Inside => Spot(walk') = Spot(walk)
    /\ StillRinging /\ isr' = isr

LEMMA StillOutside ==
    ASSUME walk.at \in Outside, walk' = walk, isr' = isr, proc' = proc PROVE WalkStill
  BY DEF WalkStill, StillRinging, Outside, Inside

LEMMA StillInside ==
    ASSUME walk \in WalkRec, NEW a \in {"cb", "next"}, walk.at \in {"place", "cb"},
           walk' = MovedTo(walk, a), isr' = isr, proc' = proc
    PROVE  WalkStill
<1>1. a \in Inside /\ walk.at \in Inside
  BY DEF Inside
<1>2. walk'.at = a /\ walk'.cur = walk.cur /\ walk'.tmp = walk.tmp
  BY <1>1, MovedIs
<1> QED
  BY <1>1, <1>2 DEF WalkStill, StillRinging, Inside, Spot, Ringing

(* A call of its own task or of a callback did this to x.                  *)
LEMMA TurnKept ==
    ASSUME AlarmInv, NEW L, NEW M, Listed(tim) = L, Listed(tim') = M,
           NEW x \in Timer, OthersSet(tim, tim', x),
           tim'.opt[x] = "PERIODIC" => tim'.period[x] # 0,
           \A t \in Task : call'[t].todo = <<"place">> =>
              \/ call'[t].timer \in Timer \ {x} /\ call[t] = call'[t]
              \/ call'[t].timer = x /\ tim'.expires[x] \in Spans(tim', x),
           WalkStill, Tidy(tim, L, tim', M, Spot(walk))
    PROVE  AlarmInv'
<1>1. SetOK(tim', call', walk')
  BY SetKept DEF AlarmInv, WalkStill
<1>2. proc => Prompt(tim', walk', M, Soft)
  BY PromptTidy DEF AlarmInv, WalkStill
<1> QED
  BY <1>1, <1>2 DEF AlarmInv, Soft, WalkStill, StillRinging

LEMMA OnceTurn ==
    ASSUME NEW w, NEW L, ListOK(w, L), NEW x \in Timer \ L, NEW op \in Onces,
           NEW r \in AtOnce(op, x, w), w.opt[x] = "PERIODIC" => w.period[x] # 0
    PROVE  /\ ListOK(r, L) /\ Unset(w, L, r, L, x) /\ \A n : Tidy(w, L, r, L, n)
           /\ r.opt[x] = "PERIODIC" => r.period[x] # 0
<1>1. w \in TimerRec
  BY DEF ListOK
<1>2. /\ w.state[x] \in TimerState /\ w.opt[x] \in TimerOpt /\ w.delay[x] \in Times
      /\ w.period[x] \in Times /\ w.expires[x] \in Times
      /\ "STOPPED" \in TimerState /\ 0 \in Times
  BY <1>1, RecFields, TimesAre DEF TimerState
<1>3. CASE op = "create"
  <2>1. PICK s \in Settings[x] :
           /\ r = tos_timer_create(w, x, s.delay, s.period, s.opt)
           /\ ~CreateRefused(s.delay, s.period, s.opt)
    BY <1>3 DEF AtOnce
  <2> DEFINE d == s.delay
             p == s.period
             o == s.opt
             ln == "init"
             z == 0
             st == "STOPPED"
  <2>2. /\ d \in Times /\ p \in Times /\ o \in TimerOpt
    BY TimerCallAssumption DEF Setting, Times
  <2>3. r = Given(w, x, ln, st, o, d, p, z)
    BY <1>1, <2>1, CreateIs
  <2>4. /\ ln \in {"kept", "init"} /\ st \in TimerState /\ z \in Times
        /\ o = "PERIODIC" => p # 0
    BY <1>2, <2>1 DEF CreateRefused
  <2> HIDE DEF d, p, o, ln, z, st
  <2>5. /\ ListOK(r, L) /\ Unset(w, L, r, L, x) /\ \A n : Tidy(w, L, r, L, n)
        /\ r.opt[x] = o /\ r.period[x] = p
    BY <2>2, <2>3, <2>4, AloneTurn
  <2> QED
    BY <2>4, <2>5
<1>4. CASE op = "change"
  <2> DEFINE s == w.state[x]
             o == w.opt[x]
             e == w.expires[x]
             ln == "kept"
  <2>1. \E d, p \in Times : r = Given(w, x, ln, s, o, d, p, e) /\ (o = "PERIODIC" => p # 0)
    <3>1. PICK v \in Changes : \/ r = [w EXCEPT !.delay[x] = v]
                               \/ /\ r = [w EXCEPT !.period[x] = v]
                                  /\ w.opt[x] = "PERIODIC" => v # 0
      BY <1>4 DEF AtOnce
    <3>2. v \in Times
      BY TimerCallAssumption DEF Times
    <3>3. CASE r = [w EXCEPT !.delay[x] = v]
      <4>1. r = Given(w, x, ln, s, o, v, w.period[x], e)
        BY <1>1, <3>3 DEF Given, SetTimer, TimerRec
      <4> QED
        BY <1>2, <3>2, <4>1
    <3>4. CASE r = [w EXCEPT !.period[x] = v] /\ (w.opt[x] = "PERIODIC" => v # 0)
      <4>1. r = Given(w, x, ln, s, o, w.delay[x], v, e)
        BY <1>1, <3>4 DEF Given, SetTimer, TimerRec
      <4> QED
        BY <1>2, <3>2, <3>4, <4>1
    <3> QED
      BY <3>1, <3>3, <3>4
  <2>2. PICK d, p \in Times : r = Given(w, x, ln, s, o, d, p, e) /\ (o = "PERIODIC" => p # 0)
    BY <2>1
  <2>3. s \in TimerState /\ o \in TimerOpt /\ e \in Times /\ ln \in {"kept", "init"}
    BY <1>2
  <2> HIDE DEF s, o, e, ln
  <2>4. /\ ListOK(r, L) /\ Unset(w, L, r, L, x) /\ \A n : Tidy(w, L, r, L, n)
        /\ r.opt[x] = o /\ r.period[x] = p
    BY <2>2, <2>3, AloneTurn
  <2> QED
    BY <2>2, <2>4
<1> QED
  BY <1>3, <1>4 DEF Onces

(* What a call does before its first section: at most it gives a timer     *)
(* that is out of the list a time.                                         *)
LEMMA BegunTurn ==
    ASSUME NEW w, NEW L, ListOK(w, L), NEW x \in Timer, NEW op \in Begins,
           op = "start" => x \notin L
    PROVE  LET r == Begun(op, x, w)
           IN  /\ ListOK(r, L) /\ OthersSet(w, r, x) /\ SameSets(w, r)
               /\ \A n : Tidy(w, L, r, L, n)
               /\ IF op = "start" THEN r.expires[x] \in Spans(r, x) ELSE r.expires = w.expires
<1> DEFINE r == Begun(op, x, w)
<1>1. w \in TimerRec /\ L \subseteq Timer
  BY DEF ListOK, Chained
<1>2. /\ OthersAlone(w, r, x) /\ SameLinks(w, r)
      /\ op # "start" => r.expires = w.expires
  BY <1>1, BegunIs
<1>3. SameSets(w, r)
  BY DEF Begun, SameSets
<1>4. op = "start" => r.expires[x] = FirstDelay(w, x)
  BY <1>1 DEF Begun, TimerRec
<1> HIDE DEF r
<1>5. op = "start" => r.expires[x] \in Spans(r, x)
  BY <1>3, <1>4 DEF SameSets, Spans, FirstDelay
<1>6. OthersSet(w, r, x)
  BY <1>2, <1>3 DEF OthersSet, SameSets, OthersAlone
<1>7. ListOK(r, L)
  BY <1>2, AloneKept
<1>8. ASSUME NEW n PROVE Tidy(w, L, r, L, n)
  <2>1. \A m \in Ring(L) : r.nx[m] = w.nx[m]
    BY <1>2 DEF SameLinks
  <2>2. \A y \in L : r.expires[y] = w.expires[y] /\ r.delay[y] = w.delay[y]
    BY <1>1, <1>2, <1>3 DEF OthersAlone, SameSets
  <2> QED
    BY <1>1, <2>1, <2>2, OutTidy
<1> QED
  BY <1>2, <1>3, <1>5, <1>6, <1>7, <1>8 DEF r

----------------------------------------------------------------------------
(* The timer steps, as alarms.                                             *)

AlarmGoal == AlarmInv' /\ AlarmStep

(* Nobody has a timer in hand that is created or changed.                  *)
LEMMA FreeOnce ==
    ASSUME CarefulUse, NEW w, NEW cl, NEW wk, NEW L, Fits(w, cl, wk, L),
           NEW x \in Timer, NEW op \in Onces, Allowed(op, x, w),
           \/ op = "change" => ~Taken(x)
           \/ \E t \in Task \ {Idle, TimerTask} : cl[t] = NoCall
    PROVE  ~Pending(cl, x) /\ x \notin L
<1>1. ASSUME Pending(cl, x) PROVE FALSE
  <2>1. op = "change" /\ w.state[x] # "RUNNING" /\ Taken(x)
    BY <1>1, PendingIs DEF Onces, Allowed
  <2>2. PICK u \in Task : cl[u].timer = x
    BY <1>1 DEF Pending
  <2>3. cl[u] # NoCall
    BY <2>2, InHandFits
  <2>4. u \in Task \ {Idle, TimerTask}
    BY <2>3 DEF Fits, CallsOK
  <2> QED
    BY <2>1, <2>3, <2>4 DEF CarefulUse
<1>2. w.state[x] # "RUNNING"
  BY DEF Onces, Allowed
<1> QED
  BY <1>1, <1>2 DEF Fits, StatesOK

LEMMA NoPlacing ==
    ASSUME NEW w, NEW cl, NEW wk, NEW L, Fits(w, cl, wk, L), NEW x, ~Pending(cl, x)
    PROVE  \A t \in Task : cl[t].todo = <<"place">> => cl[t].timer \in Timer \ {x}
<1>1. \A t \in Task : cl[t] = NoCall \/ cl[t].timer \in Timer
  BY DEF Fits, CallsOK, CallRec
<1> QED
  BY <1>1, TodosDiffer DEF NoCall, Pending

LEMMA OnceAlarm ==
    ASSUME IsFiniteSet(Timer), AlarmInv, NEW L, Fits(tim, call, walk, L), Listed(tim) = L,
           NEW x \in Timer \ L, ~Pending(call, x), NEW op \in Onces,
           tim' \in AtOnce(op, x, tim), call' = call, WalkStill
    PROVE  AlarmGoal
<1>1. PICK r \in AtOnce(op, x, tim) : r = tim'
  OBVIOUS
<1>2. ListOK(tim, L) /\ (tim.opt[x] = "PERIODIC" => tim.period[x] # 0)
  BY DEF Fits, AlarmInv, SetOK
<1>3. /\ ListOK(r, L) /\ Unset(tim, L, r, L, x) /\ \A n : Tidy(tim, L, r, L, n)
      /\ r.opt[x] = "PERIODIC" => r.period[x] # 0
  BY <1>2, OnceTurn
<1>4. Listed(r) = L
  BY <1>3, OKListed
<1>5. OthersSet(tim, r, x)
  BY <1>3 DEF Unset
<1>6. AlarmInv'
  BY <1>1, <1>3, <1>4, <1>5, NoPlacing, TurnKept
<1>7. AlarmStep
  BY <1>1, <1>3, <1>4, CancelStep DEF WalkStill
<1> QED
  BY <1>6, <1>7 DEF AlarmGoal

LEMMA CallTimerAlarm ==
    ASSUME IsFiniteSet(Timer), CarefulUse, KInv, AlarmInv, NEW L, Fits(tim, call, walk, L),
           Listed(tim) = L, NEW op \in TimerCall, NEW x \in Timer, CallTimer(op, x)
    PROVE  AlarmGoal
<1>1. walk.at \in Outside /\ knl.curr \in Task \ {Idle, TimerTask}
  BY FitFacts, AppFacts DEF CallTimer
<1>2. /\ call[knl.curr] = NoCall /\ <<op, x>> \in TaskCalls /\ Allowed(op, x, tim)
      /\ walk' = walk /\ isr' = isr /\ proc' = proc
  BY DEF CallTimer
<1>3. WalkStill
  BY <1>1, <1>2, StillOutside
<1>4. CASE op \in {"create", "change"}
  <2>1. op \in Onces /\ tim' \in AtOnce(op, x, tim) /\ call' = call
    BY <1>4 DEF CallTimer, Onces
  <2>2. ~Pending(call, x) /\ x \notin L
    BY <1>1, <1>2, <2>1, FreeOnce
  <2> QED
    BY <1>3, <2>1, <2>2, OnceAlarm
<1>5. CASE op \notin {"create", "change"}
  <2> DEFINE t  == knl.curr
             dl == [call EXCEPT ![t] = [timer |-> x, todo |-> Sections(op, x, tim)]]
             r  == Begun(op, x, tim)
  <2>1. op \in Begins
    BY <1>5 DEF TimerCall, Begins
  <2>2. tim' = r /\ call' = dl
    BY <1>5 DEF CallTimer
  <2>3. ~Pending(call, x) /\ (x \in L <=> tim.state[x] = "RUNNING")
    <3> HIDE DEF t
    <3>1. t \in Task \ {Idle, TimerTask} /\ call[t] = NoCall
      BY <1>1, <1>2 DEF t
    <3>2. ~Pending(call, x) /\ (x \in L \cup Placing(walk) <=> tim.state[x] = "RUNNING")
      BY <1>2, <2>1, <3>1, FreeToBegin
    <3> QED
      BY <1>1, <3>2 DEF Placing, Outside
  <2>4. op = "start" => x \notin L
    BY <1>2, <2>3 DEF Allowed
  <2>5. ListOK(tim, L)
    BY DEF Fits
  <2>6. /\ ListOK(r, L) /\ OthersSet(tim, r, x) /\ SameSets(tim, r)
        /\ \A n : Tidy(tim, L, r, L, n)
        /\ IF op = "start" THEN r.expires[x] \in Spans(r, x) ELSE r.expires = tim.expires
    BY <2>1, <2>4, <2>5, BegunTurn
  <2>7. call \in [Task -> {NoCall} \cup CallRec] /\ t \in Task
    BY <1>1 DEF Fits, CallsOK
  <2>8. \A u \in Task : dl[u].todo = <<"place">> =>
              \/ dl[u].timer \in Timer \ {x} /\ call[u] = dl[u]
              \/ dl[u].timer = x /\ r.expires[x] \in Spans(r, x)
    <3>1. \A u \in Task \ {t} : dl[u] = call[u]
      BY <2>7
    <3>2. dl[t].timer = x /\ dl[t].todo = Sections(op, x, tim)
      BY <2>7
    <3>3. dl[t].todo = <<"place">> => op = "start"
      BY <2>1, <3>2, TodosDiffer DEF Sections, Begins
    <3> HIDE DEF dl, t, r
    <3> QED
      BY <2>3, <2>6, <3>1, <3>2, <3>3, NoPlacing
  <2> HIDE DEF dl, r
  <2>9. Listed(r) = L
    BY <2>6, OKListed
  <2>10. tim.opt[x] = "PERIODIC" => tim.period[x] # 0
    BY DEF AlarmInv, SetOK
  <2>11. r.opt[x] = "PERIODIC" => r.period[x] # 0
    BY <2>6, <2>10 DEF SameSets
  <2>12. AlarmInv'
    BY <1>3, <2>2, <2>6, <2>8, <2>9, <2>11, TurnKept
  <2>13. \A y \in L : r.expires[y] = tim.expires[y]
    <3>1. L \subseteq Timer
      BY FitFacts
    <3> QED
      BY <2>4, <2>6, <3>1 DEF OthersSet
  <2>14. AlarmStep
    BY <1>3, <2>2, <2>6, <2>9, <2>13, StutterStep DEF WalkStill
  <2> QED
    BY <2>12, <2>14 DEF AlarmGoal
<1> QED
  BY <1>4, <1>5

(* A section of a task's call: timer x is placed or not set any more.      *)
LEMMA SectionTurn ==
    ASSUME IsFiniteSet(Timer), NEW w, NEW L, ListOK(w, L), NEW c \in CallRec,
           CallFits(c, L, w), c.todo = <<"place">> => w.expires[c.timer] \in Spans(w, c.timer),
           w.opt[c.timer] = "PERIODIC" => w.period[c.timer] # 0, NEW g \in Garbage
    PROVE  LET x == c.timer
               r == Section(Head(c.todo), x, w, g)
           IN  \E M : /\ ListOK(r, M) /\ OthersSet(w, r, x)
                      /\ \A n : n \notin L => Tidy(w, L, r, M, n)
                      /\ r.opt[x] = "PERIODIC" => r.period[x] # 0
                      /\ IF Head(c.todo) = "place" THEN Put(w, L, r, M, x)
                         ELSE Unset(w, L, r, M, x)
                      /\ Tail(c.todo) = <<"place">> => r.expires[x] \in Spans(r, x)
<1> DEFINE x == c.timer
           r == Section(Head(c.todo), x, w, g)
           P(M) == /\ ListOK(r, M) /\ OthersSet(w, r, x) /\ \A n : n \notin L => Tidy(w, L, r, M, n)
                   /\ r.opt[x] = "PERIODIC" => r.period[x] # 0
                   /\ IF Head(c.todo) = "place" THEN Put(w, L, r, M, x)
                      ELSE Unset(w, L, r, M, x)
                   /\ Tail(c.todo) = <<"place">> => r.expires[x] \in Spans(r, x)
<1>1. x \in Timer /\ c.todo \in Remains
  BY DEF CallRec
<1>2. CASE c.todo = <<"place">>
  <2>1. Head(c.todo) = "place" /\ Tail(c.todo) = << >> /\ << >> # <<"place">>
    BY <1>2, TodosDiffer
  <2>2. r = timer_place(w, x)
    BY <2>1 DEF Section
  <2>3. x \in Timer \ L /\ w.expires[x] \in Spans(w, x)
    BY <1>1, <1>2 DEF CallFits
  <2>4. (w.opt[x] = "PERIODIC" => w.period[x] # 0)
    OBVIOUS
  <2> HIDE DEF x, r
  <2>5. /\ ListOK(r, L \cup {x}) /\ Put(w, L, r, L \cup {x}, x)
        /\ \A n : Tidy(w, L, r, L \cup {x}, n)
    BY <2>2, <2>3, PlaceTurn
  <2>6. P(L \cup {x})
    BY <2>1, <2>4, <2>5 DEF Put, SameSets
  <2> QED
    BY <2>6 DEF x, r
<1>3. CASE c.todo = <<"reload", "place">>
  <2>1. Head(c.todo) = "reload"
    BY <1>3
  <2> DEFINE v == w.delay[x]
  <2>2. r = SetExpires(timer_takeoff(w, x, g), x, v)
    BY <2>1 DEF Section, SetExpires
  <2>3. x \in L /\ v \in Times
    BY <1>1, <1>3, TodosDiffer, RecFields DEF CallFits, ListOK
  <2>4. (w.opt[x] = "PERIODIC" => w.period[x] # 0) /\ v = w.delay[x]
    OBVIOUS
  <2> HIDE DEF x, r, v
  <2>5. /\ ListOK(r, L \ {x}) /\ Unset(w, L, r, L \ {x}, x) /\ SameSets(w, r)
        /\ r.expires[x] = v /\ \A n : n # x => Tidy(w, L, r, L \ {x}, n)
    <3>1. ListOK(w, L) /\ g \in Garbage /\ x \in L /\ v \in Times
      BY <2>3
    <3>2. LET q == SetExpires(timer_takeoff(w, x, g), x, v)
          IN  /\ ListOK(q, L \ {x}) /\ Unset(w, L, q, L \ {x}, x) /\ SameSets(w, q)
              /\ q.expires[x] = v /\ \A n : n # x => Tidy(w, L, q, L \ {x}, n)
              /\ Ahead(w, L, x) => Ahead(q, L \ {x}, w.nx[x])
      BY <3>1, ReloadTurn
    <3> QED
      BY <2>2, <3>2
  <2>6. P(L \ {x})
    BY <2>1, <2>3, <2>4, <2>5 DEF Unset, SameSets, Spans
  <2> QED
    BY <2>6 DEF x, r
<1>4. CASE c.todo = <<"takeoff">> \/ c.todo = <<"takeoff", "reset">>
  <2>1. Head(c.todo) = "takeoff" /\ Tail(c.todo) # <<"place">>
    <3>1. CASE c.todo = <<"takeoff">>
      <4>1. Tail(c.todo) = << >>
        BY <3>1
      <4> QED
        BY <3>1, <4>1, TodosDiffer
    <3>2. CASE c.todo = <<"takeoff", "reset">>
      <4>1. Tail(c.todo) = <<"reset">>
        BY <3>2
      <4> QED
        BY <3>2, <4>1, TodosDiffer
    <3> QED
      BY <1>4, <3>1, <3>2
  <2>2. r = timer_takeoff(w, x, g)
    BY <2>1 DEF Section
  <2>3. x \in L
    BY <1>1, <1>4, TodosDiffer DEF CallFits
  <2>4. (w.opt[x] = "PERIODIC" => w.period[x] # 0)
    OBVIOUS
  <2> HIDE DEF x, r
  <2>5. /\ ListOK(r, L \ {x}) /\ Unset(w, L, r, L \ {x}, x) /\ SameSets(w, r)
        /\ \A n : n # x => Tidy(w, L, r, L \ {x}, n)
    BY <2>2, <2>3, TakeoffTurn
  <2>6. P(L \ {x})
    BY <2>1, <2>3, <2>4, <2>5 DEF Unset, SameSets
  <2> QED
    BY <2>6 DEF x, r
<1>5. CASE c.todo = <<"reset">>
  <2>1. Head(c.todo) = "reset" /\ Tail(c.todo) # <<"place">>
    <3>1. Head(c.todo) = "reset" /\ Tail(c.todo) = << >>
      BY <1>5
    <3> QED
      BY <3>1, TodosDiffer
  <2>2. r = timer_reset(w, x)
    BY <2>1 DEF Section
  <2>3. x \in Timer \ L /\ w \in TimerRec
    BY <1>1, <1>5 DEF CallFits, ListOK
  <2> DEFINE ln == "init"
             s == "UNUSED"
             o == "ONESHOT"
             z == 0
  <2>4. r = Given(w, x, ln, s, o, z, z, z)
    BY <2>2, <2>3, ResetIs
  <2>5. ln \in {"kept", "init"} /\ s \in TimerState /\ o \in TimerOpt /\ z \in Times
    BY TimesAre DEF TimerState, TimerOpt
  <2>0. o # "PERIODIC"
    OBVIOUS
  <2> HIDE DEF x, r, ln, s, o, z
  <2>6. /\ ListOK(r, L) /\ Unset(w, L, r, L, x) /\ \A n : Tidy(w, L, r, L, n) /\ r.opt[x] = o
    BY <2>3, <2>4, <2>5, AloneTurn
  <2>7. P(L)
    BY <2>0, <2>1, <2>6 DEF Unset
  <2> QED
    BY <2>7 DEF x, r
<1> QED
  BY <1>1, <1>2, <1>3, <1>4, <1>5 DEF Remains

LEMMA CallGoesOnAlarm ==
    ASSUME IsFiniteSet(Timer), KInv, AlarmInv, NEW L, Fits(tim, call, walk, L),
           Listed(tim) = L, CallGoesOn
    PROVE  AlarmGoal
<1>1. /\ walk.at \in Outside /\ knl.curr \in Task \ {Idle, TimerTask}
      /\ walk' = walk /\ isr' = isr /\ proc' = proc /\ call[knl.curr] # NoCall
  BY FitFacts, AppFacts DEF CallGoesOn
<1>2. WalkStill
  BY <1>1, StillOutside
<1> DEFINE t  == knl.curr
           c  == call[t]
           x  == c.timer
           nc == IF Len(c.todo) = 1 THEN NoCall ELSE [c EXCEPT !.todo = Tail(@)]
           dl == [call EXCEPT ![t] = nc]
<1>3. PICK g \in Garbage : tim' = Section(Head(c.todo), x, tim, g)
  BY DEF CallGoesOn
<1>4. call' = dl
  BY DEF CallGoesOn
<1>5. /\ call \in [Task -> {NoCall} \cup CallRec] /\ t \in Task /\ c \in CallRec /\ x \in Timer
      /\ \A u \in Task : call[u].timer = x => u = t
      /\ CallFits(c, L, tim)
  <2>1. call \in [Task -> {NoCall} \cup CallRec] /\ t \in Task /\ c \in CallRec
    BY <1>1 DEF Fits, CallsOK
  <2>2. x \in Timer
    BY <2>1 DEF CallRec
  <2> HIDE DEF t
  <2>3. /\ CallFits(call[t], L \cup Placing(walk), tim)
        /\ \A u \in Task : call[u].timer = call[t].timer => u = t
    BY <2>1, <2>2, InHandFits
  <2>4. L \cup Placing(walk) = L
    BY <1>1 DEF Placing, Outside
  <2> QED
    BY <2>1, <2>2, <2>3, <2>4
<1>6. /\ c.todo = <<"place">> => tim.expires[x] \in Spans(tim, x)
      /\ tim.opt[x] = "PERIODIC" => tim.period[x] # 0
  BY <1>5 DEF AlarmInv, SetOK
<1>7. nc.todo = <<"place">> => Tail(c.todo) = <<"place">> /\ nc.timer = x
  <2>1. CASE Len(c.todo) = 1
    BY <2>1, TodosDiffer DEF NoCall
  <2>2. CASE Len(c.todo) # 1
    <3> DEFINE s == Tail(c.todo)
               n == Len(c.todo)
    <3>1. n # 1 /\ nc = IF n = 1 THEN NoCall ELSE [c EXCEPT !.todo = s]
      BY <2>2
    <3> HIDE DEF c, s, nc, n
    <3>2. nc = [c EXCEPT !.todo = s] /\ c \in CallRec
      BY <1>5, <3>1
    <3> QED
      BY <3>2 DEF CallRec, s, x
  <2> QED
    BY <2>1, <2>2
<1> DEFINE r == Section(Head(c.todo), x, tim, g)
<1>8. PICK M : /\ ListOK(r, M) /\ OthersSet(tim, r, x) /\ \A n : n \notin L => Tidy(tim, L, r, M, n)
               /\ r.opt[x] = "PERIODIC" => r.period[x] # 0
               /\ IF Head(c.todo) = "place" THEN Put(tim, L, r, M, x)
                  ELSE Unset(tim, L, r, M, x)
               /\ Tail(c.todo) = <<"place">> => r.expires[x] \in Spans(r, x)
  <2>1. ListOK(tim, L)
    BY DEF Fits
  <2> HIDE DEF c
  <2> QED
    BY <1>5, <1>6, <2>1, SectionTurn
<1>9. \A u \in Task : dl[u].todo = <<"place">> =>
         \/ dl[u].timer \in Timer \ {x} /\ call[u] = dl[u]
         \/ dl[u].timer = x /\ r.expires[x] \in Spans(r, x)
  <2>1. dl[t] = nc /\ \A u \in Task \ {t} : dl[u] = call[u] /\ call[u].timer # x
    BY <1>5
  <2>2. ASSUME NEW u \in Task \ {t}, call[u].todo = <<"place">> PROVE call[u].timer \in Timer
    <3>1. call[u] # NoCall
      BY <2>2, TodosDiffer DEF NoCall
    <3> QED
      BY <1>5, <3>1 DEF CallRec
  <2> HIDE DEF dl, nc, r, t
  <2> QED
    BY <1>7, <1>8, <2>1, <2>2
<1>10. tim' = r
  BY <1>3
<1>11. x \in Timer
  BY <1>5
<1> HIDE DEF dl, r, x
<1>12. Listed(r) = M
  BY <1>8, OKListed
<1>13. AlarmInv'
  <2>3. ListHead \notin L
    BY FitFacts
  <2>4. SetOK(r, dl, walk)
    <3>1. SetOK(tim, call, walk) /\ walk.at # "place"
      BY <1>1 DEF AlarmInv, Outside
    <3> QED
      BY <1>8, <1>9, <1>11, <3>1, SetKept
  <2>5. proc => Prompt(r, walk, M, Soft)
    <3>1. Tidy(tim, L, r, M, ListHead) /\ walk.at \notin Inside
      BY <1>1, <1>8, <2>3 DEF Outside, Inside
    <3> QED
      BY <3>1 DEF AlarmInv, Prompt, Tidy
  <2> QED
    BY <1>1, <1>4, <1>10, <1>12, <2>4, <2>5 DEF AlarmInv, Soft
<1>14. AlarmStep
  <2>1. CASE Head(c.todo) = "place"
    <3>1. Ringing(walk) # x /\ tim \in TimerRec
      BY <1>1, <1>11, FitFacts, TimerAssumption DEF Ringing, Outside, Node
    <3> QED
      BY <1>2, <1>8, <1>10, <1>11, <1>12, <2>1, <3>1, ArmStep DEF WalkStill
  <2>2. CASE Head(c.todo) # "place"
    BY <1>2, <1>8, <1>10, <1>11, <1>12, <2>2, CancelStep DEF WalkStill
  <2> QED
    BY <2>1, <2>2
<1> QED
  BY <1>13, <1>14 DEF AlarmGoal

(* Time passes for all timers but the fresh ones.                          *)
LEMMA LaterIs ==
    ASSUME NEW w \in TimerRec, NEW fresh
    PROVE  \A x \in Timer : Later(w, fresh).expires[x] =
              IF x \in fresh THEN w.expires[x]
              ELSE IF w.expires[x] > 0 THEN w.expires[x] - 1 ELSE 0
  BY DEF Later, TimerRec

LEMMA FreshOut ==
    ASSUME NEW L, Fits(tim, call, walk, L) PROVE Fresh \cap L = {}
<1>1. ASSUME NEW t \in Task, call[t].todo = <<"place">> PROVE call[t].timer \notin L
  <2>1. call[t] # NoCall
    BY <1>1, TodosDiffer DEF NoCall
  <2>2. CallFits(call[t], L \cup Placing(walk), tim)
    BY <2>1 DEF Fits, CallsOK
  <2> QED
    BY <1>1, <2>2 DEF CallFits
<1>2. walk.at = "place" => walk.cur \notin L
  BY DEF Fits, WalkOK
<1> QED
  BY <1>1, <1>2 DEF Fresh

LEMMA TimerTickAlarm ==
    ASSUME IsFiniteSet(Timer), KInv, AlarmInv, NEW L, Fits(tim, call, walk, L),
           Listed(tim) = L, TimerTick
    PROVE  AlarmGoal
<1> DEFINE r == Later(tim, Fresh)
<1>1. /\ isr # << >> /\ Head(isr) = "tick" /\ tim' = r /\ call' = call /\ proc' = proc
      /\ isr' = <<IF proc THEN "soft" ELSE IF RoundRobin THEN "robin" ELSE "leave">> \o Tail(isr)
      /\ walk' = IF walk.at = "wait" THEN [walk EXCEPT !.slip = @ + 1] ELSE walk
  BY DEF TimerTick
<1>2. ListOK(r, L) /\ SameTimers(tim, r)
  <2>1. ListOK(tim, L)
    BY DEF Fits
  <2>2. PICK f : f = Fresh
    OBVIOUS
  <2>3. f \cap L = {}
    BY <2>2, FreshOut
  <2>4. ListOK(Later(tim, f), L) /\ SameTimers(tim, Later(tim, f))
    BY <2>1, <2>3, LaterKept
  <2> QED
    BY <2>2, <2>4
<1>3. \A x \in Timer : r.expires[x] =
         IF x \in Fresh THEN tim.expires[x]
         ELSE IF tim.expires[x] > 0 THEN tim.expires[x] - 1 ELSE 0
  <2>1. PICK f : f = Fresh
    OBVIOUS
  <2>2. tim \in TimerRec
    BY FitFacts
  <2> QED
    BY <2>1, <2>2, LaterIs
<1>4. walk'.at = walk.at /\ walk'.cur = walk.cur
  <2>1. [walk EXCEPT !.slip = @ + 1].at = walk.at /\ [walk EXCEPT !.slip = @ + 1].cur = walk.cur
    <3>1. walk \in WalkRec
      BY FitFacts
    <3> QED
      BY <3>1 DEF WalkRec
  <2> QED
    BY <1>1, <2>1
<1>5. L \subseteq Timer /\ tim \in TimerRec
  BY FitFacts
<1>6. \A x \in L : r.expires[x] = IF tim.expires[x] > 0 THEN tim.expires[x] - 1 ELSE 0
  BY <1>3, <1>5, FreshOut
<1> HIDE DEF r
<1>7. Listed(r) = L
  BY <1>2, OKListed
<1>8. SameSets(tim, r)
  BY <1>2 DEF SameTimers, SameSets
<1>9. proc => walk.at \notin Inside
  BY <1>1, KFacts DEF WalkAlone, Walking
<1>10. proc => Overdue(tim, L) = {}
  BY <1>1, <1>9 DEF AlarmInv, Prompt, Soft
<1>11. StillRinging
  BY <1>1, <1>4 DEF StillRinging, Ringing
<1>12. AlarmStep
  BY <1>1, <1>5, <1>6, <1>7, <1>8, <1>10, <1>11, CountStep
<1>13. SetOK(r, call, walk')
  <2>1. \A y \in Timer : r.opt[y] = "PERIODIC" => r.period[y] # 0
    BY <1>8 DEF AlarmInv, SetOK, SameSets
  <2>2. ASSUME NEW t \in Task, call[t].todo = <<"place">>
        PROVE  r.expires[call[t].timer] \in Spans(r, call[t].timer)
    <3>1. call[t] # NoCall
      BY <2>2, TodosDiffer DEF NoCall
    <3>2. call[t].timer \in Timer
      BY <3>1 DEF Fits, CallsOK, CallRec
    <3>3. call[t].timer \in Fresh
      BY <2>2 DEF Fresh
    <3>4. tim.expires[call[t].timer] \in Spans(tim, call[t].timer)
      BY <2>2 DEF AlarmInv, SetOK
    <3> QED
      BY <1>3, <1>8, <3>2, <3>3, <3>4 DEF Spans, SameSets
  <2>3. walk'.at = "place" => r.expires[walk'.cur] = r.period[walk'.cur]
    <3> SUFFICES ASSUME walk.at = "place" PROVE r.expires[walk.cur] = r.period[walk.cur]
      BY <1>4
    <3>1. walk.cur \in Timer /\ walk.cur \in Fresh
      BY DEF Fits, WalkOK, Fresh
    <3>2. tim.expires[walk.cur] = tim.period[walk.cur]
      BY DEF AlarmInv, SetOK
    <3> QED
      BY <1>3, <1>8, <3>1, <3>2 DEF SameSets
  <2> QED
    BY <2>1, <2>2, <2>3 DEF SetOK
<1>14. proc => isr' # << >> /\ Head(isr') = "soft"
  <2>1. ASSUME NEW s \in Seq(Handler) PROVE <<"soft">> \o s # << >> /\ Head(<<"soft">> \o s) = "soft"
    OBVIOUS
  <2>2. Tail(isr) \in Seq(Handler)
    BY <1>1, KFacts
  <2> QED
    BY <1>1, <2>1, <2>2
<1>15. AlarmInv'
  BY <1>1, <1>4, <1>9, <1>13, <1>14 DEF AlarmInv, Prompt, Soft
<1> QED
  BY <1>12, <1>15 DEF AlarmGoal

(* Nothing is overdue when the first timer is not.                         *)
LEMMA NoneDue ==
    ASSUME NEW w, NEW L, ListOK(w, L), w.next > 0 PROVE Overdue(w, L) = {}
<1>1. CASE L = {}
  BY <1>1 DEF Overdue
<1>2. CASE L # {}
  <2> DEFINE n == w.nx[ListHead]
  <2>1. w \in TimerRec /\ Chained(w, L) /\ w.next = w.expires[n]
    BY <1>2 DEF ListOK, NextDue
  <2>2. n # ListHead /\ n \in L
    BY <1>2, <2>1, NoneIfClosed DEF Chained, Ring
  <2>3. w.expires[n] # 0
    BY <2>1
  <2>4. Ahead(w, L, n)
    BY FirstAhead
  <2> HIDE DEF n
  <2> QED
    BY <2>2, <2>3, <2>4, NoneAhead
<1> QED
  BY <1>1, <1>2

(* The walk begins, goes on or ends.                                       *)
LEMMA WalkOnlyAlarm ==
    ASSUME IsFiniteSet(Timer), KInv, AlarmInv, NEW L, Fits(tim, call, walk, L),
           Listed(tim) = L,
           SoftTimerUpdate \/ TimerTaskLook \/ TimerTaskWait \/ TimerTaskLock
              \/ WalkEnd \/ WalkNext
    PROVE  AlarmGoal
<1>1. tim' = tim /\ call' = call /\ proc' = proc
  BY DEF SoftTimerUpdate, TimerTaskLook, TimerTaskWait, TimerTaskLock, WalkEnd, WalkNext
<1>2. ListOK(tim, L) /\ tim \in TimerRec /\ walk \in WalkRec
  BY FitFacts DEF Fits
<1>3. ASSUME walk'.at # "place", proc => Prompt(tim, walk', L, Soft') PROVE AlarmInv'
  <2>1. SetOK(tim, call, walk')
    BY <1>3 DEF AlarmInv, SetOK
  <2> QED
    BY <1>1, <1>3, <2>1 DEF AlarmInv, Soft
<1>4. ASSUME StillRinging PROVE AlarmStep
  BY <1>1, <1>4, StutterStep DEF SameSets
<1>5. \A n : WalkFrom(tim, n).at = "look" /\ WalkFrom(tim, n).cur = n
  BY DEF WalkFrom, WalkTop
<1>6. CASE SoftTimerUpdate /\ tim.next > 0
  <2>1. walk' = walk /\ walk.at = "top"
    BY <1>6 DEF SoftTimerUpdate
  <2>2. Overdue(tim, L) = {}
    BY <1>2, <1>6, NoneDue
  <2>3. Prompt(tim, walk', L, Soft')
    BY <2>1, <2>2 DEF Prompt, Inside
  <2> QED
    BY <1>1, <1>3, <1>4, <2>1, <2>3 DEF AlarmGoal, StillRinging
<1>7. CASE (SoftTimerUpdate /\ ~(tim.next > 0)) \/ TimerTaskLock
  <2>1. walk.at \in {"top", "lock"} /\ walk' = WalkFrom(tim, tim.nx[ListHead])
    BY <1>7 DEF SoftTimerUpdate, TimerTaskLock
  <2>2. walk'.at = "look" /\ walk'.cur = tim.nx[ListHead]
    BY <1>5, <2>1
  <2>3. Ahead(tim, L, tim.nx[ListHead])
    BY FirstAhead
  <2>4. Prompt(tim, walk', L, Soft')
    BY <2>2, <2>3 DEF Prompt, Inside, Spot
  <2>5. StillRinging
    BY <1>1, <2>1, <2>2 DEF StillRinging, Ringing
  <2> QED
    BY <1>3, <1>4, <2>2, <2>4, <2>5 DEF AlarmGoal
<1>8. CASE TimerTaskLook \/ TimerTaskWait
  <2>1. ~proc /\ walk.at \in Outside /\ walk'.at \in Outside
    BY <1>2, <1>8 DEF TimerTaskLook, TimerTaskWait, TimerTaskRuns, Outside, WalkRec
  <2>2. StillRinging
    BY <1>1, <2>1 DEF StillRinging, Ringing, Outside
  <2>3. walk'.at # "place"
    BY <2>1 DEF Outside
  <2> QED
    BY <1>3, <1>4, <2>1, <2>2, <2>3 DEF AlarmGoal
<1>9. CASE WalkEnd
  <2>1. walk.at = "look" /\ walk' = WalkTop /\ WalkOver
    BY <1>9 DEF WalkEnd
  <2>2. walk'.at = "top" /\ walk.cur \in Ring(L)
    BY <2>1 DEF WalkTop, Fits, WalkOK
  <2>3. walk.cur = ListHead \/ (walk.cur \in L /\ tim.expires[walk.cur] # 0)
    BY <2>1, <2>2 DEF WalkOver, Ring
  <2>4. proc => Overdue(tim, L) = {}
    <3> SUFFICES ASSUME proc PROVE Overdue(tim, L) = {}
      OBVIOUS
    <3>1. Ahead(tim, L, walk.cur)
      BY <2>1 DEF AlarmInv, Prompt, Inside, Spot
    <3>2. PICK n : n = walk.cur
      OBVIOUS
    <3> QED
      BY <1>2, <2>3, <3>1, <3>2, NoneAhead
  <2>5. proc => Prompt(tim, walk', L, Soft')
    BY <2>2, <2>4 DEF Prompt, Inside
  <2>6. StillRinging
    BY <1>1, <2>1, <2>2 DEF StillRinging, Ringing
  <2> QED
    BY <1>3, <1>4, <2>2, <2>5, <2>6 DEF AlarmGoal
<1>10. CASE WalkNext
  <2>1. walk.at \in {"cb", "next"} /\ walk' = WalkFrom(tim, walk.tmp)
    BY <1>10 DEF WalkNext
  <2>2. walk'.at = "look" /\ walk'.cur = walk.tmp
    BY <1>5, <2>1
  <2>3. proc => Prompt(tim, walk', L, Soft')
    BY <2>1, <2>2 DEF AlarmInv, Prompt, Inside, Spot
  <2>4. Ringing(walk) # NoTimer /\ Ringing(walk') = NoTimer
    BY <1>2, <2>1, <2>2, TimerAssumption DEF Ringing, WalkRec
  <2>5. AlarmStep
    BY <1>1, <2>4, HushStep
  <2> QED
    BY <1>3, <2>2, <2>3, <2>5 DEF AlarmGoal
<1> QED
  BY <1>6, <1>7, <1>8, <1>9, <1>10

LEMMA NoNode == NoTimer \notin Timer /\ ListHead \notin Timer
  BY TimerAssumption DEF Node

(* A timer that has come is taken off and rings.                           *)
LEMMA WalkExpireAlarm ==
    ASSUME IsFiniteSet(Timer), AlarmInv, NEW L, Fits(tim, call, walk, L),
           Listed(tim) = L, WalkExpire
    PROVE  AlarmGoal
<1> DEFINE x == walk.cur
           M == L \ {x}
<1>1. /\ walk.at = "look" /\ ~WalkOver /\ call' = call /\ isr' = isr /\ proc' = proc
      /\ walk' = MovedTo(walk, IF tim.opt[x] = "PERIODIC" THEN "place" ELSE "cb")
  BY DEF WalkExpire, MovedTo
<1>2. /\ x \in L /\ x \in Timer /\ tim.expires[x] = 0 /\ walk.tmp = tim.nx[x]
      /\ tim \in TimerRec /\ walk \in WalkRec /\ ListOK(tim, L)
  <2>1. x # ListHead /\ ~(tim.expires[x] > 0)
    BY <1>1 DEF WalkOver
  <2>2. /\ x \in L /\ x \in Timer /\ walk.tmp = tim.nx[x]
        /\ tim \in TimerRec /\ walk \in WalkRec /\ ListOK(tim, L)
    BY <1>1, <2>1, FitFacts DEF Fits, WalkOK, Ring
  <2>3. tim.expires[x] \in Nat
    BY <2>2, RecFields, TimesAre
  <2> QED
    BY <2>1, <2>2, <2>3
<1>3. /\ walk'.at = IF tim.opt[x] = "PERIODIC" THEN "place" ELSE "cb"
      /\ walk'.cur = x /\ walk'.tmp = walk.tmp /\ walk'.at \in Inside
  BY <1>1, <1>2, MovedIs DEF Inside
<1> HIDE DEF x
<1>4. \E r : /\ tim' = r /\ ListOK(r, M) /\ Unset(tim, L, r, M, x) /\ SameSets(tim, r)
             /\ tim.opt[x] = "PERIODIC" => r.expires[x] = r.period[x]
             /\ Ahead(tim, L, x) => Ahead(r, M, walk.tmp)
  <2>1. CASE tim.opt[x] = "PERIODIC"
    <3> DEFINE v == tim.period[x]
    <3>1. PICK g \in Garbage : tim' = SetExpires(timer_takeoff(tim, x, g), x, v)
      BY <2>1 DEF WalkExpire, SetExpires, x
    <3>2. v \in Times
      BY <1>2, RecFields
    <3>3. v = tim.period[x]
      OBVIOUS
    <3> HIDE DEF v
    <3>4. LET q == SetExpires(timer_takeoff(tim, x, g), x, v)
          IN  /\ ListOK(q, L \ {x}) /\ Unset(tim, L, q, L \ {x}, x) /\ SameSets(tim, q)
              /\ q.expires[x] = v /\ \A n : n # x => Tidy(tim, L, q, L \ {x}, n)
              /\ Ahead(tim, L, x) => Ahead(q, L \ {x}, tim.nx[x])
      BY <1>2, <3>2, ReloadTurn
    <3>5. \E q : /\ tim' = q /\ ListOK(q, M) /\ Unset(tim, L, q, M, x) /\ SameSets(tim, q)
                 /\ q.expires[x] = v /\ (Ahead(tim, L, x) => Ahead(q, M, walk.tmp))
      BY <1>2, <3>1, <3>4
    <3> QED
      BY <3>3, <3>5 DEF SameSets
  <2>2. CASE tim.opt[x] # "PERIODIC"
    <3>1. PICK g \in Garbage : tim' = PutState(timer_takeoff(tim, x, g), x, "COMPLETED")
      BY <2>2 DEF WalkExpire, PutState, x
    <3> DEFINE a == timer_takeoff(tim, x, g)
               r == PutState(a, x, "COMPLETED")
    <3>2. /\ ListOK(a, M) /\ Unset(tim, L, a, M, x) /\ SameSets(tim, a)
      BY <1>2, TakeoffTurn
    <3>3. Ahead(tim, L, x) => Ahead(a, M, walk.tmp)
      BY <1>2, OffTidy
    <3> HIDE DEF a
    <3>4. a \in TimerRec /\ "COMPLETED" \in TimerState
      BY <3>2 DEF ListOK, TimerState
    <3>5. OthersAlone(a, r, x) /\ SameLinks(a, r) /\ r.expires = a.expires
      BY <1>2, <3>4, StateGiven
    <3>6. SameSets(a, r)
      BY DEF PutState, SameSets
    <3> HIDE DEF r
    <3>7. ListOK(r, M)
      BY <1>2, <3>2, <3>5, AloneKept
    <3>8. Unset(tim, L, r, M, x) /\ SameSets(tim, r)
      BY <3>2, <3>5, <3>6 DEF Unset, OthersSet, SameSets
    <3>9. Ahead(a, M, walk.tmp) => Ahead(r, M, walk.tmp)
      <4>1. \A m \in Ring(M) : r.nx[m] = a.nx[m]
        BY <3>5 DEF SameLinks
      <4>2. \A y \in M : r.expires[y] = a.expires[y] /\ r.delay[y] = a.delay[y]
        BY <3>5, <3>6 DEF SameSets
      <4>3. M \subseteq Timer
        BY <3>2 DEF ListOK, Chained
      <4>4. PICK n : n = walk.tmp
        OBVIOUS
      <4> HIDE DEF M
      <4>5. Tidy(a, M, r, M, n)
        BY <4>1, <4>2, <4>3, OutTidy
      <4> QED
        BY <4>4, <4>5 DEF Tidy
    <3>10. tim' = r
      BY <3>1 DEF r, a
    <3> QED
      BY <2>2, <3>3, <3>7, <3>8, <3>9, <3>10
  <2> QED
    BY <2>1, <2>2
<1>5. PICK r : /\ tim' = r /\ ListOK(r, M) /\ Unset(tim, L, r, M, x) /\ SameSets(tim, r)
               /\ tim.opt[x] = "PERIODIC" => r.expires[x] = r.period[x]
               /\ Ahead(tim, L, x) => Ahead(r, M, walk.tmp)
  BY <1>4
<1> HIDE DEF M
<1>6. Listed(r) = M
  BY <1>5, OKListed
<1>7. SetOK(r, call, walk')
  <2>1. x \in L
    BY <1>2
  <2>2. \A t \in Task : call[t].todo = <<"place">> => call[t].timer \in Timer \ {x}
    <3>1. ASSUME NEW t \in Task, call[t].todo = <<"place">>
          PROVE  call[t].timer \in Timer /\ call[t].timer \notin L
      <4>1. call[t] # NoCall
        BY <3>1, TodosDiffer DEF NoCall
      <4>2. CallFits(call[t], L \cup Placing(walk), tim) /\ call[t].timer \in Timer
        BY <4>1 DEF Fits, CallsOK, CallRec
      <4> QED
        BY <3>1, <4>2 DEF CallFits
    <3> QED
      BY <2>1, <3>1
  <2>3. SetOK(tim, call, walk) /\ OthersSet(tim, r, x) /\ x \in Timer
    BY <1>2, <1>5 DEF AlarmInv, Unset
  <2>4. r.opt[x] = "PERIODIC" => r.period[x] # 0
    BY <1>5, <2>3 DEF SetOK, SameSets
  <2>5. walk'.at = "place" => walk'.cur = x /\ r.expires[x] = r.period[x]
    BY <1>3, <1>5
  <2> QED
    BY <2>2, <2>3, <2>4, <2>5, SetKept
<1>8. proc => Prompt(r, walk', M, Soft)
  <2>1. proc => Ahead(tim, L, x)
    BY <1>1 DEF AlarmInv, Prompt, Inside, Spot, x
  <2>2. Spot(walk') = walk.tmp
    BY <1>3 DEF Spot
  <2> QED
    BY <1>3, <1>5, <2>1, <2>2 DEF Prompt
<1>9. AlarmInv'
  BY <1>1, <1>5, <1>6, <1>7, <1>8 DEF AlarmInv, Soft
<1>10. AlarmStep
  <2>1. Ringing(walk) = NoTimer /\ Ringing(walk') = x
    BY <1>1, <1>3 DEF Ringing
  <2> QED
    BY <1>1, <1>2, <1>5, <1>6, <2>1, RingStep
<1> QED
  BY <1>9, <1>10 DEF AlarmGoal

(* A periodic timer is placed again before its callback.                   *)
LEMMA WalkPlaceAlarm ==
    ASSUME IsFiniteSet(Timer), AlarmInv, NEW L, Fits(tim, call, walk, L),
           Listed(tim) = L, WalkPlace
    PROVE  AlarmGoal
<1> DEFINE x == walk.cur
           r == timer_place(tim, x)
           M == L \cup {x}
           a == "cb"
<1>1. /\ walk.at = "place" /\ tim' = r /\ call' = call /\ isr' = isr /\ proc' = proc
      /\ walk' = MovedTo(walk, a) /\ a \in {"cb", "next"}
  BY DEF WalkPlace, MovedTo
<1>2. /\ x \in Timer \ L /\ tim.opt[x] = "PERIODIC" /\ walk \in WalkRec
      /\ tim \in TimerRec /\ ListOK(tim, L)
  BY <1>1, FitFacts DEF Fits, WalkOK
<1>3. tim.expires[x] = tim.period[x] /\ tim.period[x] # 0
  BY <1>1, <1>2 DEF AlarmInv, SetOK
<1> HIDE DEF x
<1>4. WalkStill
  <2> HIDE DEF a
  <2> QED
    BY <1>1, <1>2, StillInside
<1>5. /\ ListOK(r, M) /\ OthersSet(tim, r, x) /\ SameSets(tim, r)
      /\ r.expires = tim.expires /\ \A n : Tidy(tim, L, r, M, n)
  <2>1. ListOK(r, M) /\ SameSets(tim, r) /\ r.expires = tim.expires
    BY <1>2, OnSeen
  <2>2. ASSUME NEW n PROVE Tidy(tim, L, r, M, n)
    BY <1>2, <1>3, OnTidy
  <2> HIDE DEF r, M
  <2> QED
    BY <2>1, <2>2 DEF OthersSet, SameSets
<1> HIDE DEF r
<1>6. Listed(r) = M
  <2> HIDE DEF M
  <2> QED
    BY <1>5, OKListed
<1>7. \A t \in Task : call[t].todo = <<"place">> => call[t].timer \in Timer \ {x}
  <2>1. ASSUME NEW t \in Task, call[t].todo = <<"place">>
        PROVE  call[t].timer \in Timer /\ call[t].timer # x
    <3>1. call[t] # NoCall
      BY <2>1, TodosDiffer DEF NoCall
    <3>2. CallFits(call[t], L \cup Placing(walk), tim) /\ call[t].timer \in Timer
      BY <3>1 DEF Fits, CallsOK, CallRec
    <3>3. x \in L \cup Placing(walk)
      BY <1>1 DEF Placing, x
    <3> QED
      BY <2>1, <3>2, <3>3 DEF CallFits
  <2> QED
    BY <2>1
<1>8. AlarmInv'
  <2> HIDE DEF M
  <2>1. r.opt[x] = "PERIODIC" => r.period[x] # 0
    BY <1>3, <1>5 DEF SameSets
  <2>2. x \in Timer
    BY <1>2
  <2> QED
    BY <1>1, <1>4, <1>5, <1>6, <1>7, <2>1, <2>2, TurnKept
<1>9. AlarmStep
  <2>1. Ringing(walk) = x
    BY <1>1 DEF Ringing, x
  <2>2. r.expires[x] = tim.period[x] /\ M = L \cup {x}
    BY <1>3, <1>5
  <2>3. TicksLeft(r, M) = [TicksLeft(tim, L) EXCEPT ![x] = tim.period[x]]
    BY <1>2, <1>5, <2>2 DEF TicksLeft
  <2> HIDE DEF M
  <2> QED
    BY <1>1, <1>2, <1>4, <1>5, <1>6, <2>1, <2>3, RepeatStep DEF WalkStill
<1> QED
  BY <1>8, <1>9 DEF AlarmGoal

(* What is about to be placed is not in the list.                          *)
LEMMA PlacingOut ==
    ASSUME NEW w, NEW cl, NEW wk, NEW L, Fits(w, cl, wk, L)
    PROVE  \A t \in Task : cl[t].todo = <<"place">> => cl[t].timer \in Timer \ L
<1>1. ASSUME NEW t \in Task, cl[t].todo = <<"place">> PROVE cl[t].timer \in Timer \ L
  <2>1. cl[t] # NoCall
    BY <1>1, TodosDiffer DEF NoCall
  <2>2. CallFits(cl[t], L \cup Placing(wk), w) /\ cl[t].timer \in Timer
    BY <2>1 DEF Fits, CallsOK, CallRec
  <2> QED
    BY <1>1, <2>2 DEF CallFits
<1> QED
  BY <1>1

(* A callback's call sets its timer, or has it set no more.                *)
LEMMA CallbackTurn ==
    ASSUME IsFiniteSet(Timer), CarefulUse, NEW w, NEW cl, NEW wk, NEW L, Fits(w, cl, wk, L),
           wk.at = "cb", NEW x \in Timer, NEW op \in Begins,
           <<wk.cur, op, x>> \in CallbackCalls, Allowed(op, x, w), NEW g \in Garbage
    PROVE  LET r == InOneGo(op, x, w, g)
           IN  /\ \A t \in Task : cl[t].todo = <<"place">> => cl[t].timer \in Timer \ {x}
               /\ \E M : /\ ListOK(r, M) /\ OthersSet(w, r, x) /\ Tidy(w, L, r, M, wk.tmp)
                         /\ r.opt[x] = "ONESHOT" \/ SameSets(w, r)
                         /\ Put(w, L, r, M, x) \/ Unset(w, L, r, M, x)
               /\ wk.cur = x /\ w.opt[x] = "PERIODIC" => x \in L
<1> DEFINE d == <<wk.cur, op, x>>
           r == InOneGo(op, x, w, g)
           n == wk.tmp
           Done(M) == /\ ListOK(r, M) /\ OthersSet(w, r, x) /\ Tidy(w, L, r, M, n)
                      /\ r.opt[x] = "ONESHOT" \/ SameSets(w, r)
                      /\ Put(w, L, r, M, x) \/ Unset(w, L, r, M, x)
<1>1. /\ op = "start" => ~Taken(x)
      /\ op \in {"restart", "stop", "destroy"} => wk.cur = x
      /\ op \in {"stop", "destroy"} => ~Taken(x)
  <2>1. d \in CallbackCalls /\ d[1] = wk.cur /\ d[2] = op /\ d[3] = x
    OBVIOUS
  <2> HIDE DEF d
  <2> QED
    BY <2>1 DEF CarefulUse
<1>2. /\ w \in TimerRec /\ ListOK(w, L) /\ L \cup Placing(wk) = L
      /\ wk.cur = x /\ w.opt[x] = "PERIODIC" => x \in L
      /\ wk.cur = x /\ w.opt[x] # "PERIODIC" => x \notin L /\ w.state[x] = "COMPLETED"
      /\ wk.cur = x => n # x
  BY FitFacts, NotPlacing DEF Fits, WalkOK
<1>3. op # "restart" => ~Pending(cl, x) /\ (x \in L <=> w.state[x] = "RUNNING")
  <2>1. ASSUME Pending(cl, x), op # "restart" PROVE FALSE
    <3>1. ~Taken(x) => x \notin L /\ w.state[x] = "RUNNING"
      BY <1>2, <2>1, PendingIs
    <3>2. CASE op = "start"
      BY <1>1, <3>1, <3>2 DEF Allowed
    <3>3. CASE op \in {"stop", "destroy"}
      BY <1>1, <1>2, <3>1, <3>3
    <3> QED
      BY <2>1, <3>2, <3>3 DEF Begins
  <2> QED
    BY <1>2, <2>1 DEF Fits, StatesOK
<1>4. op = "restart" => x \in L
  BY <1>1, <1>2 DEF Allowed
<1>5. \A t \in Task : cl[t].todo = <<"place">> => cl[t].timer \in Timer \ {x}
  <2>1. CASE op = "restart"
    <3>1. \A t \in Task : cl[t].todo = <<"place">> => cl[t].timer \in Timer \ L
      BY PlacingOut
    <3> QED
      BY <1>4, <2>1, <3>1
  <2>2. CASE op # "restart"
    BY <1>3, <2>2, NoPlacing
  <2> QED
    BY <2>1, <2>2
<1> DEFINE b == Begun(op, x, w)
<1>6. /\ ListOK(b, L) /\ OthersSet(w, b, x) /\ SameSets(w, b)
      /\ \A m : Tidy(w, L, b, L, m)
      /\ IF op = "start" THEN b.expires[x] \in Spans(b, x) ELSE b.expires = w.expires
  <2>1. op = "start" => x \notin L
    BY <1>3 DEF Allowed
  <2> QED
    BY <1>2, <2>1, BegunTurn
<1>7. ASSUME op = "start" PROVE \E M : Done(M)
  <2> DEFINE M == L \cup {x}
             q == timer_place(b, x)
  <2>1. r = q
    BY <1>7 DEF InOneGo, Sections, Section
  <2>2. x \in Timer \ L
    BY <1>3, <1>7 DEF Allowed
  <2> HIDE DEF b, r
  <2>3. /\ ListOK(q, M) /\ Put(b, L, q, M, x)
        /\ q.expires = b.expires /\ \A m : Tidy(b, L, q, M, m)
    BY <1>6, <1>7, <2>2, PlaceTurn
  <2> HIDE DEF q, M
  <2>4. Tidy(w, L, b, L, n) /\ Tidy(b, L, q, M, n)
    BY <1>6, <2>3
  <2>5. Tidy(w, L, q, M, n)
    BY <2>4, TidyTwice
  <2>6. SameSets(w, q) /\ OthersSet(w, q, x)
    BY <1>6, <2>3 DEF Put, OthersSet, SameSets
  <2>7. Put(w, L, q, M, x)
    BY <1>6, <2>3, <2>6 DEF Put, Spans, SameSets
  <2>8. Done(M)
    BY <2>1, <2>3, <2>5, <2>6, <2>7
  <2> QED
    BY <2>8
<1>8. ASSUME op = "restart" PROVE \E M : Done(M)
  <2> DEFINE v == w.delay[x]
             a == SetExpires(timer_takeoff(w, x, g), x, v)
             q == timer_place(a, x)
  <2>1. r = q
    BY <1>8 DEF InOneGo, Sections, Section, Begun, SetExpires
  <2>2. x \in L /\ n # x /\ v \in Times
    BY <1>1, <1>2, <1>4, <1>8, RecFields
  <2>9. v \in Spans(w, x)
    BY DEF Spans
  <2> HIDE DEF v, r
  <2>3. /\ ListOK(a, L \ {x}) /\ Unset(w, L, a, L \ {x}, x) /\ SameSets(w, a)
        /\ a.expires[x] = v /\ \A m : m # x => Tidy(w, L, a, L \ {x}, m)
    BY <1>2, <2>2, ReloadTurn
  <2> HIDE DEF a
  <2> DEFINE K == L \ {x}
             M == K \cup {x}
  <2>4. x \in Timer \ K /\ M = L /\ ListOK(a, K) /\ a.expires[x] \in Spans(a, x)
    BY <2>2, <2>3, <2>9 DEF Spans, SameSets
  <2>5. Tidy(w, L, a, K, n)
    BY <2>2, <2>3
  <2> HIDE DEF K
  <2>6. /\ ListOK(q, M) /\ Put(a, K, q, M, x)
        /\ q.expires = a.expires /\ \A m : Tidy(a, K, q, M, m)
    BY <2>4, PlaceTurn
  <2> HIDE DEF q
  <2>7. Tidy(a, K, q, M, n)
    BY <2>6
  <2>8. Tidy(w, L, q, M, n)
    <3> HIDE DEF M
    <3> QED
      BY <2>5, <2>7, TidyTwice
  <2>10. SameSets(w, q) /\ OthersSet(w, q, x)
    BY <2>3, <2>6 DEF Put, Unset, OthersSet, SameSets
  <2>11. Put(w, L, q, M, x)
    BY <2>2, <2>3, <2>4, <2>6, <2>9, <2>10 DEF Put
  <2>12. Done(M)
    BY <2>1, <2>6, <2>8, <2>10, <2>11
  <2> QED
    BY <2>12
<1>9. ASSUME op = "stop" PROVE \E M : Done(M)
  <2> DEFINE M == L \ {x}
             q == timer_takeoff(b, x, g)
  <2>1. r = q
    BY <1>9 DEF InOneGo, Sections, Section
  <2>2. x \in L /\ n # x
    BY <1>1, <1>2, <1>3, <1>9 DEF Allowed
  <2> HIDE DEF b, r
  <2>3. /\ ListOK(q, M) /\ Unset(b, L, q, M, x) /\ SameSets(b, q)
        /\ \A m : m # x => Tidy(b, L, q, M, m)
    BY <1>6, <2>2, TakeoffTurn
  <2> HIDE DEF q, M
  <2>4. Tidy(w, L, b, L, n) /\ Tidy(b, L, q, M, n)
    BY <1>6, <2>2, <2>3
  <2>5. Tidy(w, L, q, M, n)
    BY <2>4, TidyTwice
  <2>6. SameSets(w, q) /\ OthersSet(w, q, x)
    BY <1>6, <2>3 DEF Unset, OthersSet, SameSets
  <2>7. Unset(w, L, q, M, x)
    BY <2>3, <2>6 DEF Unset
  <2>8. Done(M)
    BY <2>1, <2>3, <2>5, <2>6, <2>7
  <2> QED
    BY <2>8
<1>10. ASSUME op = "destroy" PROVE \E M : Done(M)
  <2> DEFINE a == IF w.state[x] = "RUNNING" THEN timer_takeoff(w, x, g) ELSE w
             q == timer_reset(a, x)
             M == L \ {x}
             ln == "init"
             s == "UNUSED"
             o == "ONESHOT"
             z == 0
  <2>1. r = q
    BY <1>10 DEF InOneGo, Sections, Section, Begun
  <2>2. n # x
    BY <1>1, <1>2, <1>10
  <2> HIDE DEF r
  <2>3. ListOK(a, M) /\ OthersSet(w, a, x) /\ Tidy(w, L, a, M, n)
    <3>1. CASE w.state[x] = "RUNNING"
      <4>1. x \in L /\ a = timer_takeoff(w, x, g)
        BY <1>3, <1>10, <3>1
      <4> HIDE DEF a
      <4>2. /\ ListOK(a, L \ {x}) /\ Unset(w, L, a, L \ {x}, x)
            /\ \A m : m # x => Tidy(w, L, a, L \ {x}, m)
        BY <1>2, <4>1, TakeoffTurn
      <4> QED
        BY <2>2, <4>2 DEF Unset
    <3>2. CASE w.state[x] # "RUNNING"
      <4>1. x \notin L /\ a = w
        BY <1>3, <1>10, <3>2
      <4>2. M = L
        BY <4>1
      <4> HIDE DEF a, M
      <4> QED
        BY <1>2, <4>1, <4>2 DEF OthersSet, Tidy
    <3> QED
      BY <3>1, <3>2
  <2>4. x \in Timer \ M
    OBVIOUS
  <2> HIDE DEF a, M
  <2>5. /\ ln \in {"kept", "init"} /\ s \in TimerState /\ o \in TimerOpt /\ z \in Times
        /\ q = Given(a, x, ln, s, o, z, z, z)
    <3>1. a \in TimerRec
      BY <2>3 DEF ListOK
    <3> QED
      BY <3>1, ResetIs, TimesAre DEF TimerState, TimerOpt
  <2>6. o = "ONESHOT"
    OBVIOUS
  <2> HIDE DEF ln, s, o, z, q
  <2>7. /\ ListOK(q, M) /\ Unset(a, M, q, M, x) /\ \A m : Tidy(a, M, q, M, m)
        /\ q.opt[x] = o
    BY <2>3, <2>4, <2>5, AloneTurn
  <2>8. Tidy(a, M, q, M, n)
    BY <2>7
  <2>9. Tidy(w, L, q, M, n)
    BY <2>3, <2>8, TidyTwice
  <2>10. OthersSet(w, q, x)
    BY <2>3, <2>7 DEF Unset, OthersSet
  <2>11. Unset(w, L, q, M, x)
    BY <2>10 DEF Unset, M
  <2>12. Done(M)
    BY <2>1, <2>6, <2>7, <2>9, <2>10, <2>11
  <2> QED
    BY <2>12
<1>11. \E M : Done(M)
  BY <1>7, <1>8, <1>9, <1>10 DEF Begins
<1> HIDE DEF r
<1> QED
  BY <1>2, <1>5, <1>11 DEF r

LEMMA CallbackAlarm ==
    ASSUME IsFiniteSet(Timer), CarefulUse, AlarmInv, NEW L, Fits(tim, call, walk, L),
           Listed(tim) = L, NEW op \in TimerCall, NEW x \in Timer, Callback(op, x)
    PROVE  AlarmGoal
<1> DEFINE a == "next"
           d == <<walk.cur, op, x>>
<1>1. /\ walk.at = "cb" /\ d \in CallbackCalls /\ Allowed(op, x, tim)
      /\ walk' = MovedTo(walk, a) /\ call' = call /\ isr' = isr /\ proc' = proc
      /\ a \in {"cb", "next"}
  BY DEF Callback, MovedTo
<1>2. walk \in WalkRec /\ tim \in TimerRec /\ ListOK(tim, L)
  BY FitFacts DEF Fits
<1>3. WalkStill
  <2> HIDE DEF a
  <2> QED
    BY <1>1, <1>2, StillInside
<1>4. CASE op \in {"create", "change"}
  <2>1. op \in Onces /\ tim' \in AtOnce(op, x, tim)
    BY <1>4 DEF Callback, Onces
  <2>2. op = "change" => ~Taken(x)
    <3>1. d[2] = op /\ d[3] = x
      OBVIOUS
    <3> HIDE DEF d
    <3> QED
      BY <1>1, <3>1 DEF CarefulUse
  <2>3. ~Pending(call, x) /\ x \notin L
    BY <1>1, <2>1, <2>2, FreeOnce
  <2> QED
    BY <1>1, <1>3, <2>1, <2>3, OnceAlarm
<1>5. CASE op \notin {"create", "change"}
  <2>1. op \in Begins
    BY <1>5 DEF TimerCall, Begins
  <2>2. PICK g \in Garbage : tim' = InOneGo(op, x, tim, g)
    BY <1>5 DEF Callback
  <2> DEFINE r == InOneGo(op, x, tim, g)
  <2>3. /\ \A t \in Task : call[t].todo = <<"place">> => call[t].timer \in Timer \ {x}
        /\ \E M : /\ ListOK(r, M) /\ OthersSet(tim, r, x) /\ Tidy(tim, L, r, M, walk.tmp)
                  /\ r.opt[x] = "ONESHOT" \/ SameSets(tim, r)
                  /\ Put(tim, L, r, M, x) \/ Unset(tim, L, r, M, x)
        /\ walk.cur = x /\ tim.opt[x] = "PERIODIC" => x \in L
    BY <1>1, <2>1, CallbackTurn
  <2>4. tim' = r
    BY <2>2
  <2> HIDE DEF r
  <2>5. PICK M : /\ ListOK(r, M) /\ OthersSet(tim, r, x) /\ Tidy(tim, L, r, M, walk.tmp)
                 /\ r.opt[x] = "ONESHOT" \/ SameSets(tim, r)
                 /\ Put(tim, L, r, M, x) \/ Unset(tim, L, r, M, x)
    BY <2>3
  <2>6. Listed(r) = M
    BY <2>5, OKListed
  <2>7. r.opt[x] = "PERIODIC" => r.period[x] # 0
    BY <2>5 DEF AlarmInv, SetOK, SameSets
  <2>8. Spot(walk) = walk.tmp /\ Ringing(walk) = walk.cur
    BY <1>1 DEF Spot, Ringing
  <2>9. AlarmInv'
    BY <1>1, <1>3, <2>3, <2>4, <2>5, <2>6, <2>7, <2>8, TurnKept
  <2>10. AlarmStep
    BY <1>2, <1>3, <2>3, <2>4, <2>5, <2>6, <2>8, ArmStep, CancelStep DEF WalkStill
  <2> QED
    BY <2>9, <2>10 DEF AlarmGoal
<1> QED
  BY <1>4, <1>5

(* Nothing but soft_timer_update ends the interrupt's look at the timers.  *)
LEMMA OtherStaysSoft ==
    ASSUME KInv, OtherTaskStep, Soft PROVE Soft'
<1>1. /\ Safe /\ Unowned(knl) /\ DeadRest(knl) /\ isr # << >> /\ Head(isr) = "soft"
  BY DEF KInv, IInv, Quiet, Soft
<1>2. knl.irqNest = Len(isr) /\ isr \in Seq(Handler) /\ MaxIrqNest = 1
  BY <1>1, TypeFacts, TimerTaskAssumption DEF Safe
<1>3. Len(isr) > 0 /\ Len(isr) \in Nat
  BY <1>1, <1>2
<1>4. CASE OtherApi
  BY <1>1, <1>4, OtherApiTame DEF Tame, Soft
<1>5. CASE PendSV_Handler
  BY <1>1, <1>5, SwitchCpu DEF Soft
<1>6. CASE SchedPoint
  BY <1>1, <1>6 DEF SchedPoint, Soft
<1>7. CASE RobinSched \/ IrqLeave
  BY <1>1, <1>7 DEF RobinSched, IrqLeave
<1>8. CASE IrqEnter("tick") \/ IrqEnter("isr")
  BY <1>2, <1>3, <1>8 DEF IrqEnter
<1> QED
  BY <1>4, <1>5, <1>6, <1>7, <1>8 DEF OtherTaskStep

LEMMA OtherAlarm ==
    ASSUME AlarmInv, NEW L, Listed(tim) = L, UNCHANGED <<tim, call, walk, proc>>,
           proc => (Soft => Soft')
    PROVE  AlarmGoal
<1>1. SetOK(tim', call', walk')
  BY DEF AlarmInv
<1>2. proc' => Prompt(tim', walk', Listed(tim'), Soft')
  BY DEF AlarmInv, Prompt
<1>3. StillRinging
  BY DEF StillRinging
<1>4. AlarmStep
  BY <1>3, StutterStep DEF SameSets
<1> QED
  BY <1>1, <1>2, <1>4 DEF AlarmGoal, AlarmInv

LEMMA AlarmNextLemma ==
    ASSUME IsFiniteSet(Timer), CarefulUse, TimerInvariant, AlarmInv, [TimerNext]_timerVars
    PROVE  AlarmGoal
<1> DEFINE L == Listed(tim)
<1>1. KInv /\ Fits(tim, call, walk, L) /\ Listed(tim) = L
  BY DEF TimerInvariant, TInv
<1> HIDE DEF L
<1>2. CASE \E op \in TimerCall, x \in Timer : CallTimer(op, x)
  BY <1>1, <1>2, CallTimerAlarm
<1>3. CASE \E op \in TimerCall, x \in Timer : Callback(op, x)
  BY <1>1, <1>3, CallbackAlarm
<1>4. CASE CallGoesOn
  BY <1>1, <1>4, CallGoesOnAlarm
<1>5. CASE TimerTick
  BY <1>1, <1>5, TimerTickAlarm
<1>6. CASE SoftTimerUpdate \/ TimerTaskLook \/ TimerTaskWait \/ TimerTaskLock
              \/ WalkEnd \/ WalkNext
  BY <1>1, <1>6, WalkOnlyAlarm
<1>7. CASE WalkExpire
  BY <1>1, <1>7, WalkExpireAlarm
<1>8. CASE WalkPlace
  BY <1>1, <1>8, WalkPlaceAlarm
<1>9. CASE OtherTaskStep
  <2>1. UNCHANGED <<tim, call, walk, proc>>
    BY <1>9 DEF OtherTaskStep
  <2>2. Soft => Soft'
    BY <1>1, <1>9, OtherStaysSoft
  <2> QED
    BY <1>1, <2>1, <2>2, OtherAlarm
<1>10. CASE UNCHANGED timerVars
  <2>1. UNCHANGED <<tim, call, walk, proc>> /\ isr' = isr
    BY <1>10 DEF timerVars
  <2>2. Soft => Soft'
    BY <2>1 DEF Soft
  <2> QED
    BY <1>1, <2>1, <2>2, OtherAlarm
<1> QED
  BY <1>2, <1>3, <1>4, <1>5, <1>6, <1>7, <1>8, <1>9, <1>10 DEF TimerNext, TimerStep

LEMMA AlarmInitLemma ==
    IsFiniteSet(Timer) /\ TimerInit => AlarmInv /\ Alarms!AlarmInit
<1> SUFFICES ASSUME IsFiniteSet(Timer), TimerInit PROVE AlarmInv /\ Alarms!AlarmInit
  OBVIOUS
<1>1. /\ tim = NoTimers /\ walk = WalkTop /\ call = [t \in Task |-> NoCall] /\ proc \in BOOLEAN
  BY TimerTaskAssumption DEF TimerInit
<1>2. PICK M : Fits(tim, call, walk, M)
  BY TimerInitList
<1>3. Listed(tim) = M /\ M \subseteq Timer
  BY <1>2, FitsListed, FitFacts
<1>4. \A x \in Timer : /\ tim.state[x] = "UNUSED" /\ tim.opt[x] = "ONESHOT"
                       /\ tim.delay[x] = 0 /\ tim.period[x] = 0
  BY <1>1 DEF NoTimers
<1>5. walk.at = "top" /\ \A t \in Task : call[t].timer \notin Timer /\ call[t].todo = << >>
  BY <1>1, NoNode DEF WalkTop, NoCall
<1>6. M = {}
  <2>1. ~\E x \in Timer : Pending(call, x)
    BY <1>5 DEF Pending
  <2> QED
    BY <1>2, <1>3, <1>4, <1>5, <2>1 DEF Fits, StatesOK, Placing
<1>7. AlarmInv
  <2>1. SetOK(tim, call, walk)
    BY <1>4, <1>5, TodosDiffer DEF SetOK
  <2>2. Prompt(tim, walk, {}, Soft)
    BY <1>5 DEF Prompt, Inside, Overdue
  <2> QED
    BY <1>3, <1>6, <2>1, <2>2 DEF AlarmInv
<1>8. Alarms!AlarmInit
  <2>1. tim.delay = [x \in Timer |-> 0] /\ tim.period = [x \in Timer |-> 0]
    BY <1>1 DEF NoTimers
  <2>2. Listed(tim) = {}
    BY <1>3, <1>6
  <2> QED
    BY <1>1, <1>4, <1>5, <2>1, <2>2 DEF Alarms!AlarmInit
<1> QED
  BY <1>7, <1>8

(* Refinement: timers that are used with care are alarms.  A callback is   *)
(* called when its timer's time has come, at that very tick if the tick    *)
(* interrupt calls it, once per expiry, and not after the timer was taken  *)
(* off by tos_timer_stop or tos_timer_destroy.                             *)
THEOREM TimersRefineAlarms ==
    IsFiniteSet(Timer) /\ CarefulUse /\ TimerSpec => ImplementsAlarm
<1>1. IsFiniteSet(Timer) => IsFiniteSet(Timer)'
  OBVIOUS
<1>2. CarefulUse => CarefulUse'
  BY DEF CarefulUse, Taken
<1>3. /\ IsFiniteSet(Timer) /\ CarefulUse /\ TimerInvariant /\ AlarmInv /\ [TimerNext]_timerVars
         => AlarmInv' /\ [Alarms!AlarmNext]_(Alarms!alarmVars)
  BY AlarmNextLemma DEF AlarmGoal, AlarmStep
<1> QED
  BY <1>1, <1>2, <1>3, AlarmInitLemma, TimerAlwaysInvariant, PTL
  DEF TimerSpec, ImplementsAlarm, Alarms!AlarmSpec

----------------------------------------------------------------------------
(* Deadlines, through each step of a kernel that idles without ticks.      *)

(* n ticks pass for everybody on the clock, whoever reaches its deadline   *)
(* leaves it, and when time passes nobody else does.                       *)
Elapses(n) ==
    \A R \in [Task -> SleepTimes] : Ticking(knl, R) =>
        /\ \A u \in Sleepers(knl) :
              /\ n <= R[u]
              /\ n > 0 => ((n = R[u]) <=> ~IsSleeping(knl', u))
        /\ \E Q \in [Task -> SleepTimes] :
              /\ Ticking(knl', Q)
              /\ \A u \in Sleepers(knl) : IsSleeping(knl', u) => Q[u] = R[u] - n

LEMMA NoTimePasses == KeepsTime(knl, knl') => Elapses(0)
<1> SUFFICES ASSUME KeepsTime(knl, knl'), NEW R \in [Task -> SleepTimes], Ticking(knl, R)
             PROVE  /\ \A u \in Sleepers(knl) : 0 <= R[u] /\ R[u] - 0 = R[u]
                    /\ Ticking(knl', R)
  BY DEF Elapses
<1>1. Ticking(knl', R)
  BY DEF KeepsTime
<1>2. ASSUME NEW u \in Sleepers(knl) PROVE 0 <= R[u] /\ R[u] - 0 = R[u]
  <2>1. R[u] \in SleepTimes
    BY DEF Sleepers
  <2> QED
    BY <2>1, TimeAssumption DEF SleepTimes
<1> QED
  BY <1>1, <1>2

LEMMA UpdateElapses ==
    ASSUME NEW n \in Nat, knl.tick # << >> => n <= knl.expires[Head(knl.tick)],
           knl' = tick_update(knl, n)
    PROVE  Elapses(n)
<1> DEFINE r == tick_update(knl, n)
<1> SUFFICES ASSUME NEW R \in [Task -> SleepTimes], Ticking(knl, R)
             PROVE  /\ \A u \in Sleepers(knl) :
                          /\ n <= R[u]
                          /\ n > 0 => ((n = R[u]) <=> ~IsSleeping(knl', u))
                    /\ \E Q \in [Task -> SleepTimes] :
                          /\ Ticking(knl', Q)
                          /\ \A u \in Sleepers(knl) : IsSleeping(knl', u) => Q[u] = R[u] - n
  BY DEF Elapses
<1>1. /\ Ticking(r, After(R, n))
      /\ Sleepers(r) = {u \in Sleepers(knl) : R[u] # n}
      /\ \A u \in Sleepers(knl) : n <= R[u]
  BY UpdateTicks
<1>2. knl' = r
  OBVIOUS
<1> HIDE DEF r
<1>3. After(R, n) \in [Task -> SleepTimes]
  BY TimesAfter
<1>4. ASSUME NEW u \in Sleepers(knl)
      PROVE  /\ u \in Task /\ (IsSleeping(knl', u) <=> R[u] # n)
             /\ R[u] # n => After(R, n)[u] = R[u] - n
  <2>1. u \in Task /\ R[u] \in SleepTimes
    BY DEF Sleepers
  <2>2. R[u] # n => n < R[u]
    BY <1>1, <2>1, TimeAssumption DEF SleepTimes
  <2> QED
    BY <1>1, <1>2, <2>1, <2>2 DEF Sleepers, After
<1>5. Ticking(knl', After(R, n))
  BY <1>1, <1>2
<1> QED
  BY <1>1, <1>3, <1>4, <1>5

LEMMA FirstDistance ==
    ASSUME NEW R \in [Task -> SleepTimes], Ticking(knl, R), knl.tick # << >>
    PROVE  knl.expires[Head(knl.tick)] \in SleepTimes
<1>1. knl.tick \in Seq(Task) /\ knl.expires \in [Task -> Nat]
  BY ClockFacts
<1>2. Head(knl.tick) = knl.tick[1] /\ 1 \in 1 .. Len(knl.tick) /\ knl.tick[1] \in Task
  BY <1>1
<1>3. R[knl.tick[1]] = 0 + knl.expires[knl.tick[1]]
  BY <1>2 DEF Ticking, Due, TimeAt
<1>4. knl.expires[knl.tick[1]] \in Nat /\ R[knl.tick[1]] \in SleepTimes
  BY <1>1, <1>2
<1> QED
  BY <1>2, <1>3, <1>4

----------------------------------------------------------------------------
(* The steps that let no time pass.                                        *)
Timeless == KeepsTime(knl, knl') /\ ~TickStep

LEMMA SafeClock == Safe => knl \in KernelType /\ HasClock(knl)
  BY KernelClock DEF Safe, TypeOK

LEMMA SameIsr == isr' = isr => ~TickStep
  BY DEF TickStep

LEMMA CallTimeless ==
    ASSUME NEW k, KeepsTime(knl, k), ThenSched(k) \/ ThenReturn(k)
    PROVE  Timeless
  BY SameIsr DEF ThenSched, ThenReturn, Timeless

LEMMA PendSVTime == Safe /\ PendSV_Handler => Timeless
<1> SUFFICES ASSUME Safe, PendSV_Handler PROVE Timeless
  OBVIOUS
<1>1. HasClock(knl) /\ ThenReturn(Switched(knl))
  BY SafeClock DEF PendSV_Handler, Switched
<1>2. SameClock(knl, Switched(knl))
  BY <1>1 DEF HasClock, SameClock, IsSleeping, Switched
<1> QED
  BY <1>1, <1>2, ClockKeeps, CallTimeless

LEMMA SchedPointTime == Safe /\ SchedPoint => Timeless
  BY SafeClock, SwitchClock, ClockKeeps, SameIsr DEF SchedPoint, Timeless

LEMMA RobinTime == Safe /\ RobinSched => Timeless
<1> SUFFICES ASSUME Safe, RobinSched PROVE Timeless
  OBVIOUS
<1>1. knl' = robin_sched(knl) /\ Head(isr) = "robin"
  BY DEF RobinSched
<1>2. KeepsTime(knl, knl')
  BY <1>1, SafeClock, RobinClock, ClockKeeps
<1> QED
  BY <1>1, <1>2 DEF Timeless, TickStep

LEMMA IrqLeaveTime == Safe /\ IrqLeave => Timeless
<1> SUFFICES ASSUME Safe, IrqLeave PROVE Timeless
  OBVIOUS
<1>1. knl' = irq_leave(knl) /\ Head(isr) \in {"isr", "leave"}
  BY DEF IrqLeave
<1>2. KeepsTime(knl, knl')
  BY <1>1, SafeClock, SwitchClock, ClockKeeps
<1> QED
  BY <1>1, <1>2 DEF Timeless, TickStep

LEMMA NestTime ==
    ASSUME Safe, NEW h \in Handler, isr' = <<h>> \o isr, knl' = [knl EXCEPT !.irqNest = @ + 1]
    PROVE  Timeless
<1>1. HasClock(knl) /\ isr \in Seq(Handler)
  BY SafeClock DEF Safe, TypeOK
<1>2. SameClock(knl, knl')
  BY <1>1 DEF HasClock, SameClock, IsSleeping
<1>3. Len(isr') # Len(isr)
  <2>1. Len(<<h>> \o isr) = 1 + Len(isr) /\ Len(isr) \in Nat
    BY <1>1
  <2> QED
    BY <2>1
<1> QED
  BY <1>2, <1>3, ClockKeeps DEF Timeless, TickStep

LEMMA IrqEnterTime ==
    ASSUME NEW kind \in {"tick", "isr"} PROVE Safe /\ IrqEnter(kind) => Timeless
  BY NestTime DEF IrqEnter, Handler

LEMMA CreateTime ==
    ASSUME NEW t \in Task, NEW p \in AppPrio, NEW slice \in Timeslices
    PROVE  Safe /\ Create(t, p, slice) => Timeless
<1> SUFFICES ASSUME Safe, Create(t, p, slice) PROVE Timeless
  OBVIOUS
<1>1. /\ knl' = readyqueue_add_tail(NewTask(knl, t, p, slice), t) /\ isr' = isr
      /\ t \notin knl.obj
  BY DEF Create
<1>2. ~IsSleeping(knl, t)
  BY <1>1 DEF Safe, Sound, Alive
<1>3. KeepsTime(knl, knl')
  BY <1>1, <1>2, SafeClock, CreateKeepsTime
<1> QED
  BY <1>1, <1>3, SameIsr DEF Timeless

LEMMA DestroyTime ==
    ASSUME NEW t \in Task
    PROVE  Safe /\ Destroy(t) /\ knl.own[t] = << >> => Timeless
<1> SUFFICES ASSUME Safe, Destroy(t), knl.own[t] = << >> PROVE Timeless
  OBVIOUS
<1>1. knl' = Bury(knl, t) /\ isr' = isr
  BY DestroyBuries DEF Destroy
<1>2. KeepsTime(knl, knl')
  BY <1>1, SafeClock, BuryKeeps
<1> QED
  BY <1>1, <1>2, SameIsr DEF Timeless

LEMMA YieldTime == Safe /\ Yield => Timeless
<1> SUFFICES ASSUME Safe, Yield PROVE Timeless
  OBVIOUS
<1> DEFINE a == readyqueue_remove(knl, knl.curr)
           r == readyqueue_add_tail(a, knl.curr)
<1>1. ThenSched(r)
  BY DEF Yield
<1>2. SameClock(knl, a)
  BY SafeClock, RemovedClock
<1> HIDE DEF a
<1>3. SameClock(a, r)
  BY <1>2, AddedClock DEF SameClock
<1> HIDE DEF r
<1> QED
  BY <1>1, <1>2, <1>3, SameClockTwice, ClockKeeps, CallTimeless

LEMMA PrioTime ==
    ASSUME NEW t \in Task, NEW p
    PROVE  Safe /\ PrioChange(t, p) => Timeless
<1> SUFFICES ASSUME Safe, PrioChange(t, p) PROVE Timeless
  OBVIOUS
<1>1. ThenSched(prio_assign(knl, t, p))
  BY DEF PrioChange
<1>2. KeepsTime(knl, prio_assign(knl, t, p))
  BY SafeClock, PriorityClock, ClockKeeps
<1> QED
  BY <1>1, <1>2, CallTimeless

LEMMA SuspendTime == ASSUME NEW t \in Task PROVE Safe /\ Suspend(t) => Timeless
<1> SUFFICES ASSUME Safe, Suspend(t) PROVE Timeless
  OBVIOUS
<1>1. ThenSched(task_suspend(knl, t)) \/ ThenReturn(task_suspend(knl, t))
  BY DEF Suspend
<1>2. KeepsTime(knl, task_suspend(knl, t))
  BY SafeClock, SuspendKeeps
<1> QED
  BY <1>1, <1>2, CallTimeless

LEMMA ResumeTime == ASSUME NEW t \in Task PROVE Safe /\ Resume(t) => Timeless
<1> SUFFICES ASSUME Safe, Resume(t) PROVE Timeless
  OBVIOUS
<1>1. ThenSched(task_resume(knl, t)) \/ ThenReturn(task_resume(knl, t))
  BY DEF Resume
<1>2. KeepsTime(knl, task_resume(knl, t))
  BY SafeClock, ResumeKeeps
<1> QED
  BY <1>1, <1>2, CallTimeless

LEMMA AbortTime == ASSUME NEW t \in Task PROVE Safe /\ DelayAbort(t) => Timeless
<1> SUFFICES ASSUME Safe, DelayAbort(t) PROVE Timeless
  OBVIOUS
<1> DEFINE r == readyqueue_add(tick_list_remove(knl, t), t)
<1>1. ThenSched(r) /\ IsSleeping(knl, t)
  BY DEF DelayAbort
<1>2. KeepsTime(knl, r)
  BY <1>1, AbortKeeps
<1> HIDE DEF r
<1> QED
  BY <1>1, <1>2, CallTimeless

LEMMA LockTime == Safe /\ (SchedLock \/ SchedUnlock) => Timeless
<1> SUFFICES ASSUME Safe, SchedLock \/ SchedUnlock PROVE Timeless
  OBVIOUS
<1>1. PICK n : ThenSched(SetLock(knl, n)) \/ ThenReturn(SetLock(knl, n))
  BY DEF SchedLock, SchedUnlock, SetLock
<1>2. SameClock(knl, SetLock(knl, n))
  BY SafeClock DEF HasClock, SameClock, IsSleeping, SetLock
<1> QED
  BY <1>1, <1>2, ClockKeeps, CallTimeless

LEMMA TimesliceTime ==
    ASSUME NEW t \in Task, NEW slice
    PROVE  Safe /\ TimesliceSet(t, slice) => Timeless
<1> SUFFICES ASSUME Safe, TimesliceSet(t, slice) PROVE Timeless
  OBVIOUS
<1>1. PICK a, b : ThenReturn(Sliced(knl, t, a, b))
  BY DEF TimesliceSet, Sliced
<1>2. SameClock(knl, Sliced(knl, t, a, b))
  BY SafeClock DEF HasClock, SameClock, IsSleeping, Sliced
<1> QED
  BY <1>1, <1>2, ClockKeeps, CallTimeless

(* tos_task_delay: the caller is new on the clock, with its delay.         *)
LEMMA DelayElapses ==
    ASSUME NEW d \in Delays, Safe, Delay(d)
    PROVE  Elapses(0) /\ ~TickStep
<1> DEFINE c == knl.curr
           a == tick_list_add(knl, c, d)
           r == readyqueue_remove(a, c)
<1>1. ThenSched(r) /\ c \in Task /\ ~IsSleeping(knl, c)
  BY CallerReady DEF Delay, ReadySet, IsReady, IsSleeping
<1>2. d \in Nat /\ d \in SleepTimes
  BY InputAssumption, TimeAssumption DEF SleepTimes
<1>3. c \in Task \ Sleepers(knl)
  BY <1>1 DEF Sleepers
<1>4. knl' = r /\ ~TickStep
  BY <1>1, SameIsr DEF ThenSched
<1> SUFFICES ASSUME NEW R \in [Task -> SleepTimes], Ticking(knl, R)
             PROVE  /\ \A u \in Sleepers(knl) : 0 <= R[u] /\ R[u] - 0 = R[u]
                    /\ \E Q \in [Task -> SleepTimes] :
                          /\ Ticking(knl', Q)
                          /\ \A u \in Sleepers(knl) : Q[u] = R[u]
  BY <1>4 DEF Elapses
<1> DEFINE Q == [R EXCEPT ![c] = d]
<1>5. Q \in [Task -> SleepTimes] /\ \A u \in Sleepers(knl) : Q[u] = R[u]
  BY <1>2, <1>3 DEF Sleepers
<1>6. R \in [Task -> Nat]
  BY TimeAssumption DEF SleepTimes
<1>7. Ticking(a, Q)
  BY <1>2, <1>3, <1>6, SafeClock, SleepTicks
<1> HIDE DEF a, Q
<1>8. SameClock(a, r)
  BY <1>7, ClockFacts, RemovedClock
<1>9. Ticking(knl', Q)
  BY <1>4, <1>7, <1>8, SameTicking
<1>10. ASSUME NEW u \in Sleepers(knl) PROVE 0 <= R[u] /\ R[u] - 0 = R[u]
  BY <1>6 DEF Sleepers
<1> QED
  BY <1>5, <1>9, <1>10

(* Every sleeper has a time left, within the longest finite timeout, and   *)
(* the processor sleeps exactly as long as planned.                        *)
Timely   == \E R \in [Task -> SleepTimes] : Ticking(knl, R)
NapSpan  == /\ nap.phase = "asleep" => nap.slept <= nap.timeSleep
            /\ nap.phase = "woken" => nap.slept = nap.timeSleep
ClockInv == NapInv /\ NapSpan /\ Timely

LEMMA TimelessElapses ==
    ASSUME Timeless, ~WakeStep PROVE Elapses(Passed)
  BY NoTimePasses DEF Timeless, Passed

LEMMA TickElapses ==
    ASSUME Safe, Timely, TickUpdate PROVE Elapses(Passed)
<1>1. PICK R \in [Task -> SleepTimes] : Ticking(knl, R)
  BY DEF Timely
<1>2. knl.tick # << >> => 1 <= knl.expires[Head(knl.tick)]
  BY <1>1, FirstDistance DEF SleepTimes
<1>3. knl' = tick_update(knl, 1) /\ isr # << >> /\ Head(isr) = "tick"
  BY DEF TickUpdate
<1>4. Elapses(1)
  BY <1>2, <1>3, UpdateElapses
<1>5. PICK h \in {"robin", "leave"} : isr' = <<h>> \o Tail(isr)
  BY DEF TickUpdate
<1>6. isr \in Seq(Handler)
  BY DEF Safe, TypeOK
<1>7. Len(isr') = Len(isr) /\ Head(isr') = h
  <2>1. Tail(isr) \in Seq(Handler) /\ Len(Tail(isr)) = Len(isr) - 1 /\ Len(isr) \in Nat
    BY <1>3, <1>6
  <2>2. h \in Handler /\ <<h>> \in Seq(Handler) /\ Len(<<h>>) = 1
    BY DEF Handler
  <2>3. Len(<<h>> \o Tail(isr)) = 1 + (Len(isr) - 1) /\ (<<h>> \o Tail(isr))[1] = h
    BY <2>1, <2>2
  <2> QED
    BY <1>5, <2>1, <2>3
<1>8. TickStep
  BY <1>3, <1>7 DEF TickStep
<1> QED
  BY <1>4, <1>8 DEF Passed

LEMMA LeaveElapses ==
    ASSUME ClockInv, TicklessLeave PROVE Elapses(Passed) /\ NapSpan'
<1> DEFINE n == Ticks(nap.timeSleep)
<1>1. PICK R \in [Task -> SleepTimes] : Ticking(knl, R)
  BY DEF ClockInv, Timely
<1>2. n \in Nat
  BY NapFacts, TicksNat DEF ClockInv, NapInv
<1>3. knl.tick # << >> => n <= knl.expires[Head(knl.tick)]
  <2> SUFFICES ASSUME knl.tick # << >> PROVE n <= knl.expires[Head(knl.tick)]
    OBVIOUS
  <2>1. knl.expires[Head(knl.tick)] \in SleepTimes
    BY <1>1, FirstDistance
  <2>2. knl.expires[Head(knl.tick)] # Forever
    BY <2>1, TimeAssumption DEF SleepTimes, Forever
  <2> QED
    BY <2>2 DEF ClockInv, NapInv, NoOversleep, TicklessLeave
<1>4. /\ knl' = tick_update(knl, n) /\ isr' = isr /\ nap.phase = "woken" /\ nap' = Awake
      /\ nap.slept = nap.timeSleep
  BY DEF TicklessLeave, ThenSched, ClockInv, NapSpan
<1> HIDE DEF n
<1>5. Elapses(n)
  BY <1>2, <1>3, <1>4, UpdateElapses
<1>6. Passed = n
  BY <1>4, SameIsr DEF Passed, WakeStep, Awake, n
<1> QED
  BY <1>4, <1>5, <1>6 DEF NapSpan, Awake

LEMMA NextElapses ==
    ASSUME IInv, Timely, Next, ~WakeStep PROVE Elapses(Passed)
<1>1. Safe /\ Unowned(knl)
  BY DEF IInv, Quiet
<1>2. CASE KernelStep
  BY <1>1, <1>2, TimelessElapses, TickElapses, PendSVTime, SchedPointTime, RobinTime, IrqLeaveTime
  DEF KernelStep
<1>3. CASE \E kind \in {"tick", "isr"} : IrqEnter(kind)
  BY <1>1, <1>3, TimelessElapses, IrqEnterTime
<1>4. CASE OtherApi
  <2>1. CASE \E t \in Task : \/ Destroy(t) \/ Suspend(t) \/ Resume(t)
                             \/ ~IsPending(knl, t) /\ DelayAbort(t)
    BY <1>1, <2>1, TimelessElapses, DestroyTime, SuspendTime, ResumeTime, AbortTime DEF Unowned
  <2>2. CASE \E d \in Delays : Delay(d)
    BY <1>1, <2>2, DelayElapses DEF Passed
  <2>3. CASE \E t \in Task \ {Idle}, s \in Timeslices : TimesliceSet(t, s)
    BY <1>1, <2>3, TimelessElapses, TimesliceTime
  <2>4. CASE Yield \/ SchedLock \/ SchedUnlock
    BY <1>1, <2>4, TimelessElapses, YieldTime, LockTime
  <2> QED
    BY <1>4, <2>1, <2>2, <2>3, <2>4 DEF OtherApi
<1>5. CASE \E t \in Task, p \in AppPrio : SetPrio(t, p)
  BY <1>1, <1>5, TimelessElapses, PrioTime, CreateTime DEF SetPrio
<1> QED
  BY <1>2, <1>3, <1>4, <1>5 DEF Next, OtherStep

LEMMA StillElapses ==
    ASSUME knl' = knl, isr' = isr, ~WakeStep PROVE Elapses(Passed)
<1>1. KeepsTime(knl, knl')
  BY DEF KeepsTime
<1> QED
  BY <1>1, SameIsr, TimelessElapses DEF Timeless

LEMMA ClockNext ==
    ASSUME ClockInv, [TicklessNext]_ticklessVars PROVE Elapses(Passed) /\ NapSpan'
<1>1. CASE nap.phase = "awake" /\ Next /\ UNCHANGED nap
  BY <1>1, NextElapses DEF ClockInv, NapInv, NapSpan, WakeStep
<1>2. CASE nap.phase = "woken" /\ IrqLeave /\ UNCHANGED nap
  <2>1. ~WakeStep
    BY <1>2 DEF WakeStep
  <2> QED
    BY <1>2, <2>1, IrqLeaveTime, TimelessElapses DEF ClockInv, NapInv, IInv, NapSpan
<1>3. CASE TicklessEnter
  <2> DEFINE time == tickless_cpu_sleep_time_get(knl)
  <2>1. knl' = knl /\ isr' = isr /\ nap' = [phase |-> "asleep", timeSleep |-> time, slept |-> 0]
    BY <1>3 DEF TicklessEnter, vars
  <2>2. time \in Nat
    BY SleepTime DEF ClockInv, NapInv, IInv, Safe
  <2> HIDE DEF time
  <2> QED
    BY <2>1, <2>2, StillElapses DEF WakeStep, NapSpan
<1>4. CASE TimePasses
  <2>1. /\ knl' = knl /\ isr' = isr /\ nap.phase = "asleep" /\ nap.slept < nap.timeSleep
        /\ nap' = [nap EXCEPT !.slept = @ + 1]
    BY <1>4 DEF TimePasses, vars
  <2>2. nap.slept \in Nat /\ nap.timeSleep \in Nat /\ NapType
    BY NapFacts DEF ClockInv, NapInv
  <2>3. nap'.phase = "asleep" /\ nap'.slept = nap.slept + 1 /\ nap'.timeSleep = nap.timeSleep
    BY <2>1, <2>2 DEF NapType
  <2> QED
    BY <2>1, <2>2, <2>3, StillElapses DEF WakeStep, NapSpan
<1>5. CASE AlarmRings
  <2>1. /\ isr' = <<"leave">> \o isr /\ knl' = [knl EXCEPT !.irqNest = @ + 1]
        /\ nap.slept = nap.timeSleep /\ nap' = [nap EXCEPT !.phase = "woken"]
        /\ nap.phase = "asleep"
    BY <1>5 DEF AlarmRings
  <2>2. nap'.phase = "woken" /\ nap'.slept = nap.slept /\ nap'.timeSleep = nap.timeSleep
    BY <2>1 DEF ClockInv, NapInv, NapType
  <2>3. Timeless
    BY <2>1, NestTime DEF ClockInv, NapInv, IInv, Handler
  <2> QED
    BY <2>1, <2>2, <2>3, TimelessElapses DEF WakeStep, NapSpan
<1>6. CASE TicklessLeave
  BY <1>6, LeaveElapses
<1>7. CASE UNCHANGED ticklessVars
  BY <1>7, StillElapses DEF ticklessVars, ClockInv, NapSpan, WakeStep
<1> QED
  BY <1>1, <1>2, <1>3, <1>4, <1>5, <1>6, <1>7 DEF TicklessNext

LEMMA ClockStays == ClockInv /\ [TicklessNext]_ticklessVars => ClockInv'
<1> SUFFICES ASSUME ClockInv, [TicklessNext]_ticklessVars PROVE ClockInv'
  OBVIOUS
<1>1. NapInv' /\ NapSpan' /\ Elapses(Passed)
  BY NapNext, ClockNext DEF ClockInv
<1>2. Timely'
  BY <1>1 DEF Elapses, Timely, ClockInv
<1> QED
  BY <1>1, <1>2 DEF ClockInv

LEMMA ClockStarts == TicklessInit => ClockInv
<1> SUFFICES ASSUME TicklessInit PROVE ClockInv
  OBVIOUS
<1>1. NapInv
  BY InitInv DEF TicklessInit, NapInv, NapType, NoOversleep, Awake
<1>2. NapSpan
  BY DEF TicklessInit, NapSpan, Awake
<1>3. knl \in KernelType /\ HasClock(knl) /\ TickHolds(knl, Sleepers(knl))
  BY <1>1, SafeClock DEF NapInv, IInv, Safe, Sound
<1>4. knl.tick = << >>
  BY DEF TicklessInit, Init, BootKernel
<1> DEFINE R == [t \in Task |-> 1]
<1>5. R \in [Task -> SleepTimes]
  BY TimeAssumption DEF SleepTimes
<1>6. Due(knl.tick, knl.expires, R)
  BY <1>4 DEF Due
<1> HIDE DEF R
<1>7. Ticking(knl, R)
  BY <1>3, <1>6 DEF Ticking, KernelType
<1> QED
  BY <1>1, <1>2, <1>5, <1>7 DEF ClockInv, Timely

(* The step property, from the invariant.                                  *)
LEMMA ClockOnTime == ClockInv /\ [TicklessNext]_ticklessVars => OnTime
<1> SUFFICES ASSUME ClockInv, [TicklessNext]_ticklessVars, NEW t \in Sleeps
             PROVE  /\ Passed <= Remaining(knl, t)
                    /\ Passed > 0 => (Passed = Remaining(knl, t)) = ~IsSleeping(knl', t)
                    /\ IsSleeping(knl', t) => Remaining(knl', t) = Remaining(knl, t) - Passed
  BY DEF OnTime
<1>1. knl \in KernelType /\ knl' \in KernelType
  BY NapNext, SafeClock DEF ClockInv, NapInv, IInv, Safe, TypeOK
<1>2. PICK R \in [Task -> SleepTimes] : Ticking(knl, R)
  BY DEF ClockInv, Timely
<1>3. t \in Task /\ t \in Sleepers(knl)
  BY DEF Sleeps, Sleepers
<1>4. /\ \A u \in Sleepers(knl) :
            /\ Passed <= R[u]
            /\ Passed > 0 => ((Passed = R[u]) <=> ~IsSleeping(knl', u))
      /\ \E Q \in [Task -> SleepTimes] :
            /\ Ticking(knl', Q)
            /\ \A u \in Sleepers(knl) : IsSleeping(knl', u) => Q[u] = R[u] - Passed
  BY <1>2, ClockNext DEF Elapses
<1>5. Remaining(knl, t) = R[t]
  BY <1>1, <1>2, <1>3, RemainingIs
<1>6. ASSUME IsSleeping(knl', t) PROVE Remaining(knl', t) = R[t] - Passed
  <2>1. PICK Q \in [Task -> SleepTimes] :
           /\ Ticking(knl', Q)
           /\ \A u \in Sleepers(knl) : IsSleeping(knl', u) => Q[u] = R[u] - Passed
    BY <1>4
  <2>2. t \in Sleepers(knl')
    BY <1>3, <1>6 DEF Sleepers
  <2>3. Remaining(knl', t) = Q[t]
    BY <1>1, <2>1, <2>2, RemainingIs
  <2> QED
    BY <1>3, <1>6, <2>1, <2>3
<1> HIDE DEF Passed
<1>7. IsSleeping(knl', t) \in BOOLEAN
  BY DEF IsSleeping
<1> QED
  BY <1>3, <1>4, <1>5, <1>6, <1>7

(* Every deadline moves with the ticks that have passed and with nothing   *)
(* else: whatever sleepers enter the delta list or leave it, before, at or *)
(* after their time, nobody's time changes, nobody is woken late or too    *)
(* early by the clock, and no sleep without ticks passes a deadline.       *)
THEOREM SleepersAlwaysKeepTime == TicklessSpec => SleepersKeepTime
<1>1. ClockInv /\ [TicklessNext]_ticklessVars => [OnTime]_ticklessVars
  BY ClockOnTime
<1>2. TicklessSpec => [][OnTime]_ticklessVars
  BY <1>1, ClockStarts, ClockStays, PTL DEF TicklessSpec
<1> QED
  BY <1>2 DEF SleepersKeepTime
===============================================================================
