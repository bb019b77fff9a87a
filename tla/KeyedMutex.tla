----------------------------- MODULE KeyedMutex -----------------------------
(***************************************************************************)
(* KeyedMutex of internal/engine/engine.go: a mutex for every key in use,  *)
(* made when the first caller asks for the key and dropped when the last   *)
(* one is through.  The job runner and the engine each keep one over the   *)
(* paths of media files.                                                   *)
(*                                                                         *)
(* What k.mu guards is one step; locking and unlocking the refMutex itself *)
(* happens outside k.mu and is a step of its own.                          *)
(***************************************************************************)
EXTENDS Integers, FiniteSets

CONSTANTS
  Threads,   \* the goroutines that lock
  Keys,      \* the paths
  Objects,   \* the refMutex structs that can be allocated
  NoObject,  \* no entry in the map; a thread that refers to none
  NoThread   \* nobody has locked the refMutex

ASSUME ConstantsAssumption ==
  /\ IsFiniteSet(Threads)
  /\ NoObject \notin Objects
  /\ NoThread \notin Threads

VARIABLES
  m,       \* KeyedMutex.m: the refMutex of each key
  refs,    \* refMutex.refs
  holder,  \* refMutex.mu: who has it locked
  pc,      \* where each thread is in Lock and the unlock it returns
  key,     \* the key it locks
  rm       \* the refMutex it took out of the map

vars == <<m, refs, holder, pc, key, rm>>

TypeOK ==
  /\ m \in [Keys -> Objects \cup {NoObject}]
  /\ refs \in [Objects -> Nat]
  /\ holder \in [Objects -> Threads \cup {NoThread}]
  /\ pc \in [Threads -> {"idle", "waiting", "held", "unlocked"}]
  /\ key \in [Threads -> Keys]
  /\ rm \in [Threads -> Objects \cup {NoObject}]

Init ==
  /\ m = [k \in Keys |-> NoObject]
  /\ refs = [o \in Objects |-> 0]
  /\ holder = [o \in Objects |-> NoThread]
  /\ pc = [t \in Threads |-> "idle"]
  /\ key \in [Threads -> Keys]
  /\ rm = [t \in Threads |-> NoObject]

(* A new refMutex is one that nothing refers to any more.                  *)
Unreferenced(o) == /\ \A k \in Keys : m[k] # o
                   /\ \A t \in Threads : rm[t] # o

\* Mutant: only the caller that makes the entry is counted.
Uncounted(n) == n

OneMore(n) == n + 1

(* Lock up to k.mu.Unlock.                                                 *)
RefExisting(t, k) ==
  /\ m[k] # NoObject
  /\ rm' = [rm EXCEPT ![t] = m[k]]
  /\ refs' = [refs EXCEPT ![m[k]] = OneMore(@)]
  /\ UNCHANGED <<m, holder>>

RefNew(t, k) ==
  /\ m[k] = NoObject
  /\ \E o \in Objects : /\ Unreferenced(o)
                        /\ m' = [m EXCEPT ![k] = o]
                        /\ rm' = [rm EXCEPT ![t] = o]
                        /\ refs' = [refs EXCEPT ![o] = 1]
                        /\ holder' = [holder EXCEPT ![o] = NoThread]

Enter(t) ==
  /\ pc[t] = "idle"
  /\ \E k \in Keys : /\ RefExisting(t, k) \/ RefNew(t, k)
                     /\ key' = [key EXCEPT ![t] = k]
  /\ pc' = [pc EXCEPT ![t] = "waiting"]

(* rm.mu.Lock returns.                                                     *)
Take(t) ==
  /\ pc[t] = "waiting"
  /\ holder[rm[t]] = NoThread
  /\ holder' = [holder EXCEPT ![rm[t]] = t]
  /\ pc' = [pc EXCEPT ![t] = "held"]
  /\ UNCHANGED <<m, refs, key, rm>>

\* Mutant: a way out of the caller that does not unlock.
UnlockForgotten(t) ==
  /\ pc[t] = "held"
  /\ pc' = [pc EXCEPT ![t] = "unlocked"]
  /\ UNCHANGED <<m, refs, holder, key, rm>>

(* rm.mu.Unlock in the function Lock returned.                             *)
Unlock(t) ==
  /\ pc[t] = "held"
  /\ holder' = [holder EXCEPT ![rm[t]] = NoThread]
  /\ pc' = [pc EXCEPT ![t] = "unlocked"]
  /\ UNCHANGED <<m, refs, key, rm>>

\* Mutants: the entry goes with the first caller that is through; it stays.
Always(n) == TRUE
Never(n)  == FALSE

LastRef(n) == n = 0

(* ... and the critical section after it.                                  *)
Unref(t) ==
  /\ pc[t] = "unlocked"
  /\ refs' = [refs EXCEPT ![rm[t]] = @ - 1]
  /\ m' = IF LastRef(refs[rm[t]] - 1) THEN [m EXCEPT ![key[t]] = NoObject] ELSE m
  /\ rm' = [rm EXCEPT ![t] = NoObject]
  /\ pc' = [pc EXCEPT ![t] = "idle"]
  /\ UNCHANGED <<holder, key>>

Next == \E t \in Threads : Enter(t) \/ Take(t) \/ Unlock(t) \/ Unref(t)

Spec == Init /\ [][Next]_vars

(* A thread that holds a file lets it go: every job ends.  sync.Mutex hands *)
(* itself to a waiter that has starved for a millisecond, so whoever waits  *)
(* does not lose for ever.  Nobody has to lock again.                       *)
Fairness == \A t \in Threads : /\ SF_vars(Take(t))
                               /\ WF_vars(Unlock(t))
                               /\ WF_vars(Unref(t))

FairSpec == Spec /\ Fairness

-----------------------------------------------------------------------------
(* Properties.                                                             *)

Referring(k) == {t \in Threads : pc[t] # "idle" /\ key[t] = k}

(* Two callers never hold the same path, however entries are dropped and   *)
(* made again while others are between k.mu and rm.mu (Lock).              *)
MutualExclusion ==
  \A t, u \in Threads :
    pc[t] = "held" /\ pc[u] = "held" /\ key[t] = key[u] => t = u

Lock == INSTANCE PathLock WITH
          waiting <- [k \in Keys |-> {t \in Threads : pc[t] = "waiting" /\ key[t] = k}],
          holders <- [k \in Keys |-> {t \in Threads : pc[t] = "held" /\ key[t] = k}]

(* To its callers the map of mutexes is one lock for each path: whoever    *)
(* gets a path had asked for it and nobody else holds it, and entries come *)
(* and go unseen (Lock and the function it returns).                       *)
ImplementsPathLock == Lock!Spec

(* The map holds the paths in use and no others, every user of a path has  *)
(* the refMutex the map has, and refs counts the users, so nothing leaks   *)
(* over the life of the process and nothing is dropped under a waiter.     *)
EntriesExact ==
  \A k \in Keys :
    /\ m[k] = NoObject <=> Referring(k) = {}
    /\ m[k] # NoObject => refs[m[k]] = Cardinality(Referring(k))
    /\ \A t \in Referring(k) : rm[t] = m[k]

(* Whoever asks for a path gets it.                                        *)
EveryoneServed == \A t \in Threads : pc[t] = "waiting" ~> pc[t] = "held"
=============================================================================
