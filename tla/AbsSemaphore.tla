---------------------------- MODULE AbsSemaphore ----------------------------
(***************************************************************************)
(* What a counting semaphore promises, without scheduler, lists or ticks:  *)
(* a token is either counted or granted to exactly one waiter, a waiter    *)
(* stays until it is granted a token or gives up, and a grant is final.    *)
(***************************************************************************)
EXTENDS Integers, FiniteSets

CONSTANTS Semaphore, Client

VARIABLES
    tokens,   \* tokens not handed out
    limit,    \* most tokens kept
    waiting,  \* clients waiting for a token
    granted   \* clients given a token and not yet back from their call

absVars == <<tokens, limit, waiting, granted>>

AbsInit == /\ tokens  = [s \in Semaphore |-> 0]
           /\ limit   = [s \in Semaphore |-> 0]
           /\ waiting = [s \in Semaphore |-> {}]
           /\ granted = [s \in Semaphore |-> {}]

Open(s) ==
    /\ waiting[s] = {}
    /\ limit'  = [limit EXCEPT ![s] = limit'[s]]
    /\ tokens' = [tokens EXCEPT ![s] = tokens'[s]]
    /\ limit'[s] \in Nat /\ tokens'[s] \in 0 .. limit'[s]
    /\ UNCHANGED <<waiting, granted>>

Take(s) ==
    /\ tokens[s] > 0
    /\ tokens' = [tokens EXCEPT ![s] = @ - 1]
    /\ UNCHANGED <<limit, waiting, granted>>

Wait(s, c) ==
    /\ tokens[s] = 0 /\ \A r \in Semaphore : c \notin waiting[r] \cup granted[r]
    /\ waiting' = [waiting EXCEPT ![s] = @ \cup {c}]
    /\ UNCHANGED <<tokens, limit, granted>>

Keep(s) ==
    /\ waiting[s] = {} /\ tokens[s] < limit[s]
    /\ tokens' = [tokens EXCEPT ![s] = @ + 1]
    /\ UNCHANGED <<limit, waiting, granted>>

Grant(s, lucky) ==
    /\ lucky # {} /\ lucky \subseteq waiting[s]
    /\ Cardinality(lucky) = 1 \/ lucky = waiting[s]
    /\ waiting' = [waiting EXCEPT ![s] = @ \ lucky]
    /\ granted' = [granted EXCEPT ![s] = @ \cup lucky]
    /\ UNCHANGED <<tokens, limit>>

(* Timeout, destruction of the semaphore, or the client is taken away.     *)
GiveUp(quitters) ==
    /\ waiting' = [s \in Semaphore |-> waiting[s] \ quitters]
    /\ UNCHANGED <<tokens, limit, granted>>

(* The client's call returns with its token, or the client is destroyed.   *)
Finish(c) ==
    /\ granted' = [s \in Semaphore |-> granted[s] \ {c}]
    /\ UNCHANGED <<tokens, limit, waiting>>

AbsNext ==
    \/ \E s \in Semaphore : Open(s) \/ Take(s) \/ Keep(s)
    \/ \E s \in Semaphore, c \in Client : Wait(s, c)
    \/ \E s \in Semaphore, lucky \in SUBSET Client : Grant(s, lucky)
    \/ \E quitters \in SUBSET Client : GiveUp(quitters)
    \/ \E c \in Client : Finish(c)

AbsSpec == AbsInit /\ [][AbsNext]_absVars
=============================================================================
