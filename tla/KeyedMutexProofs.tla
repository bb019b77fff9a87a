-------------------------- MODULE KeyedMutexProofs --------------------------
(***************************************************************************)
(* Proofs about KeyedMutex, for any number of threads, keys and objects.   *)
(***************************************************************************)
EXTENDS KeyedMutex, FiniteSetTheorems, TLAPS

\* No two keys share a refMutex.
OwnMutex == \A k, l \in Keys : m[k] = m[l] /\ m[k] # NoObject => k = l

\* Who holds a path has locked the refMutex it took out of the map.
HolderExact == \A t \in Threads : pc[t] = "held" => holder[rm[t]] = t

(* The map must be right about every user of a path, waiting or holding,   *)
(* for two users never to meet at two different mutexes.                   *)
IInv == TypeOK /\ EntriesExact /\ OwnMutex /\ HolderExact

-----------------------------------------------------------------------------

(* Counting the users of a path is counting a finite set.                  *)
LEMMA ReferringFinite ==
  ASSUME NEW k \in Keys
  PROVE  IsFiniteSet(Referring(k)) /\ Cardinality(Referring(k)) \in Nat
<1>1. Referring(k) \subseteq Threads
  BY DEF Referring
<1>2. IsFiniteSet(Referring(k))
  BY <1>1, FS_Subset, ConstantsAssumption
<1> QED
  BY <1>2, FS_CardinalityType

(* Every user of a path refers to the object the map has for it.           *)
LEMMA UserHasObject ==
  ASSUME IInv, NEW t \in Threads, pc[t] # "idle"
  PROVE  /\ t \in Referring(key[t])
         /\ rm[t] = m[key[t]]
         /\ rm[t] \in Objects
         /\ key[t] \in Keys
<1>1. key[t] \in Keys /\ t \in Referring(key[t])
  BY DEF IInv, TypeOK, Referring
<1>2. rm[t] = m[key[t]] /\ m[key[t]] # NoObject
  BY <1>1 DEF IInv, EntriesExact
<1> QED
  BY <1>1, <1>2 DEF IInv, TypeOK

(* Nothing is in use at the start.                                         *)
LEMMA InitHolds == ASSUME Init PROVE IInv
<1>1. TypeOK
  BY DEF Init, TypeOK
<1>2. \A k \in Keys : m[k] = NoObject /\ Referring(k) = {}
  BY DEF Init, Referring
<1>3. EntriesExact
  BY <1>2 DEF EntriesExact
<1>4. OwnMutex /\ HolderExact
  BY <1>2 DEF Init, OwnMutex, HolderExact
<1> QED
  BY <1>1, <1>3, <1>4 DEF IInv

(* A caller that finds an entry is one more user of it.                    *)
LEMMA RefExistingHolds ==
  ASSUME IInv, NEW t \in Threads, NEW k \in Keys,
         pc[t] = "idle", RefExisting(t, k),
         key' = [key EXCEPT ![t] = k], pc' = [pc EXCEPT ![t] = "waiting"]
  PROVE  IInv'
<1> USE DEF IInv, RefExisting, OneMore
<1>1. m[k] \in Objects /\ refs[m[k]] \in Nat
  BY DEF TypeOK
<1>2. TypeOK'
  BY <1>1 DEF TypeOK
<1>3. Referring(k)' = Referring(k) \cup {t} /\ t \notin Referring(k)
  BY DEF Referring, TypeOK
<1>4. \A l \in Keys : l # k => Referring(l)' = Referring(l)
  BY DEF Referring, TypeOK
<1>5. Cardinality(Referring(k)') = Cardinality(Referring(k)) + 1
  BY <1>3, ReferringFinite, FS_AddElement
<1>6. refs'[m[k]] = refs[m[k]] + 1 /\ \A o \in Objects : o # m[k] => refs'[o] = refs[o]
  BY <1>1 DEF TypeOK
<1>7. EntriesExact'
  <2> SUFFICES ASSUME NEW l \in Keys
               PROVE  /\ m'[l] = NoObject <=> Referring(l)' = {}
                      /\ m'[l] # NoObject => refs'[m'[l]] = Cardinality(Referring(l)')
                      /\ \A u \in Referring(l)' : rm'[u] = m'[l]
    BY DEF EntriesExact
  <2>1. CASE l = k
    BY <2>1, <1>3, <1>5, <1>6 DEF EntriesExact, TypeOK
  <2>2. CASE l # k
    <3>1. t \notin Referring(l)
      BY DEF Referring
    <3>2. m[l] # NoObject => m[l] # m[k] /\ m[l] \in Objects
      BY <2>2 DEF OwnMutex, TypeOK
    <3> QED
      BY <2>2, <3>1, <3>2, <1>4, <1>6 DEF EntriesExact, TypeOK, Referring
  <2> QED
    BY <2>1, <2>2
<1>8. OwnMutex' /\ HolderExact'
  BY DEF OwnMutex, HolderExact, TypeOK
<1> QED
  BY <1>2, <1>7, <1>8

(* A caller that makes the entry is its only user.                         *)
LEMMA RefNewHolds ==
  ASSUME IInv, NEW t \in Threads, NEW k \in Keys,
         pc[t] = "idle", RefNew(t, k),
         key' = [key EXCEPT ![t] = k], pc' = [pc EXCEPT ![t] = "waiting"]
  PROVE  IInv'
<1> USE DEF IInv
<1>1. PICK o \in Objects : /\ Unreferenced(o)
                           /\ m' = [m EXCEPT ![k] = o]
                           /\ rm' = [rm EXCEPT ![t] = o]
                           /\ refs' = [refs EXCEPT ![o] = 1]
                           /\ holder' = [holder EXCEPT ![o] = NoThread]
  BY DEF RefNew
<1>2. TypeOK'
  BY <1>1 DEF TypeOK
<1>3. Referring(k) = {}
  BY DEF RefNew, EntriesExact
<1>4. Referring(k)' = {t}
  BY <1>3 DEF Referring, TypeOK
<1>5. \A l \in Keys : l # k => Referring(l)' = Referring(l) /\ t \notin Referring(l)
  BY DEF Referring, TypeOK
<1>6. Cardinality({t}) = 1
  BY FS_Singleton
<1>7. o # NoObject /\ (\A l \in Keys : m[l] # o) /\ (\A u \in Threads : rm[u] # o)
  BY <1>1, ConstantsAssumption DEF Unreferenced
<1>8. EntriesExact'
  <2> SUFFICES ASSUME NEW l \in Keys
               PROVE  /\ m'[l] = NoObject <=> Referring(l)' = {}
                      /\ m'[l] # NoObject => refs'[m'[l]] = Cardinality(Referring(l)')
                      /\ \A u \in Referring(l)' : rm'[u] = m'[l]
    BY DEF EntriesExact
  <2>1. CASE l = k
    BY <2>1, <1>1, <1>4, <1>6, <1>7 DEF TypeOK
  <2>2. CASE l # k
    <3>1. m'[l] = m[l] /\ m[l] # o
      BY <2>2, <1>1, <1>7 DEF TypeOK
    <3>2. m[l] # NoObject => refs'[m[l]] = refs[m[l]]
      BY <3>1, <1>1 DEF TypeOK
    <3>3. \A u \in Referring(l) : rm'[u] = rm[u]
      BY <2>2, <1>1, <1>5 DEF TypeOK, Referring
    <3> QED
      BY <2>2, <1>5, <3>1, <3>2, <3>3 DEF EntriesExact
  <2> QED
    BY <2>1, <2>2
<1>9. OwnMutex'
  BY <1>1, <1>7 DEF OwnMutex, TypeOK
<1>10. HolderExact'
  BY <1>1, <1>7 DEF HolderExact, TypeOK
<1> QED
  BY <1>2, <1>8, <1>9, <1>10

(* Locking and unlocking the refMutex does not touch the map.              *)
LEMMA TakeHolds == ASSUME IInv, NEW t \in Threads, Take(t) PROVE IInv'
<1> USE DEF IInv, Take
<1>1. rm[t] \in Objects
  BY UserHasObject
<1>2. TypeOK'
  BY <1>1 DEF TypeOK
<1>3. \A k \in Keys : Referring(k)' = Referring(k)
  BY DEF Referring, TypeOK
<1>4. EntriesExact' /\ OwnMutex'
  BY <1>3 DEF EntriesExact, OwnMutex
<1>5. HolderExact'
  BY <1>1, ConstantsAssumption DEF HolderExact, TypeOK
<1> QED
  BY <1>2, <1>4, <1>5

(* See TakeHolds; no other thread had it locked.                           *)
LEMMA UnlockHolds == ASSUME IInv, NEW t \in Threads, Unlock(t) PROVE IInv'
<1> USE DEF IInv, Unlock
<1>1. rm[t] \in Objects /\ holder[rm[t]] = t
  BY UserHasObject DEF HolderExact
<1>2. TypeOK'
  BY <1>1 DEF TypeOK
<1>3. \A k \in Keys : Referring(k)' = Referring(k)
  BY DEF Referring, TypeOK
<1>4. EntriesExact' /\ OwnMutex'
  BY <1>3 DEF EntriesExact, OwnMutex
<1>5. HolderExact'
  BY <1>1 DEF HolderExact, TypeOK
<1> QED
  BY <1>2, <1>4, <1>5

(* The entry goes exactly when its last user does.                         *)
LEMMA UnrefHolds == ASSUME IInv, NEW t \in Threads, Unref(t) PROVE IInv'
<1> USE DEF IInv, Unref, LastRef
<1> DEFINE k == key[t]
<1>1. /\ t \in Referring(k) /\ rm[t] = m[k] /\ m[k] \in Objects /\ k \in Keys
      /\ m[k] # NoObject
  BY UserHasObject, ConstantsAssumption
<1>2. refs[m[k]] = Cardinality(Referring(k))
  BY <1>1 DEF EntriesExact
<1>3. Referring(k)' = Referring(k) \ {t}
  BY DEF Referring, TypeOK
<1>4. \A l \in Keys : l # k => Referring(l)' = Referring(l) /\ t \notin Referring(l)
  BY DEF Referring, TypeOK
<1>5. /\ IsFiniteSet(Referring(k)')
      /\ Cardinality(Referring(k)') = Cardinality(Referring(k)) - 1
  BY <1>1, <1>3, ReferringFinite, FS_RemoveElement
<1>6. /\ Cardinality(Referring(k)') \in Nat
      /\ Cardinality(Referring(k)') = 0 <=> Referring(k)' = {}
  BY <1>5, FS_EmptySet, FS_CardinalityType
<1>7. TypeOK'
  BY <1>1, <1>2, <1>5, <1>6 DEF TypeOK
<1>8. EntriesExact'
  <2> SUFFICES ASSUME NEW l \in Keys
               PROVE  /\ m'[l] = NoObject <=> Referring(l)' = {}
                      /\ m'[l] # NoObject => refs'[m'[l]] = Cardinality(Referring(l)')
                      /\ \A u \in Referring(l)' : rm'[u] = m'[l]
    BY DEF EntriesExact
  <2>1. CASE l = k
    <3>1. refs'[m[k]] = Cardinality(Referring(k)')
      BY <1>1, <1>2, <1>5 DEF TypeOK
    <3>2. m'[k] = IF Referring(k)' = {} THEN NoObject ELSE m[k]
      BY <1>1, <1>2, <1>5, <1>6 DEF TypeOK
    <3>3. \A u \in Referring(k)' : rm'[u] = m[k]
      BY <1>1, <1>3 DEF EntriesExact, TypeOK, Referring
    <3> QED
      BY <2>1, <1>1, <3>1, <3>2, <3>3
  <2>2. CASE l # k
    <3>1. m'[l] = m[l]
      BY <2>2 DEF TypeOK
    <3>2. m[l] # NoObject => m[l] # m[k] /\ m[l] \in Objects
      BY <2>2, <1>1 DEF OwnMutex, TypeOK
    <3>3. m[l] # NoObject => refs'[m[l]] = refs[m[l]]
      BY <3>2, <1>1 DEF TypeOK
    <3>4. \A u \in Referring(l) : rm'[u] = rm[u]
      BY <2>2, <1>4 DEF TypeOK, Referring
    <3> QED
      BY <2>2, <1>4, <3>1, <3>3, <3>4 DEF EntriesExact
  <2> QED
    BY <2>1, <2>2
<1>9. OwnMutex'
  BY DEF OwnMutex, TypeOK
<1>10. HolderExact'
  BY DEF HolderExact, TypeOK
<1> QED
  BY <1>7, <1>8, <1>9, <1>10

(* Every step keeps the invariant.                                         *)
LEMMA NextHolds == ASSUME IInv, [Next]_vars PROVE IInv'
<1>1. CASE UNCHANGED vars
  <2>1. TypeOK' /\ OwnMutex' /\ HolderExact'
    BY <1>1 DEF vars, IInv, TypeOK, OwnMutex, HolderExact
  <2>2. \A k \in Keys : Referring(k)' = Referring(k)
    BY <1>1 DEF vars, Referring
  <2>3. EntriesExact'
    BY <1>1, <2>2 DEF vars, IInv, EntriesExact
  <2> QED
    BY <2>1, <2>3 DEF IInv
<1>2. CASE Next
  <2> PICK t \in Threads : Enter(t) \/ Take(t) \/ Unlock(t) \/ Unref(t)
    BY <1>2 DEF Next
  <2>1. CASE Enter(t)
    BY <2>1, RefExistingHolds, RefNewHolds DEF Enter
  <2> QED
    BY <2>1, TakeHolds, UnlockHolds, UnrefHolds
<1> QED
  BY <1>1, <1>2

(* Two holders of a path have locked one and the same refMutex.            *)
LEMMA HoldersMeet == ASSUME IInv PROVE MutualExclusion
<1> SUFFICES ASSUME NEW t \in Threads, NEW u \in Threads,
                    pc[t] = "held", pc[u] = "held", key[t] = key[u]
             PROVE  t = u
  BY DEF MutualExclusion
<1>1. rm[t] = m[key[t]] /\ rm[u] = m[key[u]]
  BY UserHasObject
<1>2. holder[rm[t]] = t /\ holder[rm[u]] = u
  BY DEF IInv, HolderExact
<1> QED
  BY <1>1, <1>2

-----------------------------------------------------------------------------
(* The lock that the callers see.                                          *)

WaitingFor(k) == {t \in Threads : pc[t] = "waiting" /\ key[t] = k}
HoldersOf(k)  == {t \in Threads : pc[t] = "held" /\ key[t] = k}

Waiting == [k \in Keys |-> WaitingFor(k)]
Holders == [k \in Keys |-> HoldersOf(k)]

LEMMA SeenLock ==
  /\ Lock!Init <=> Waiting = [k \in Keys |-> {}] /\ Holders = [k \in Keys |-> {}]
  /\ Lock!lock = <<Waiting, Holders>>
  /\ \A t, p : Lock!Ask(t, p) <=>
       /\ \A k \in Keys : t \notin Waiting[k] \cup Holders[k]
       /\ Waiting' = [Waiting EXCEPT ![p] = @ \cup {t}]
       /\ Holders' = Holders
  /\ \A t, p : Lock!Grant(t, p) <=>
       /\ t \in Waiting[p] /\ Holders[p] = {}
       /\ Waiting' = [Waiting EXCEPT ![p] = @ \ {t}]
       /\ Holders' = [Holders EXCEPT ![p] = {t}]
  /\ \A t, p : Lock!Release(t, p) <=>
       /\ t \in Holders[p]
       /\ Holders' = [Holders EXCEPT ![p] = @ \ {t}]
       /\ Waiting' = Waiting
BY Zenon DEF Lock!Init, Lock!lock, Lock!Ask, Lock!Uninvolved, Lock!Grant, Lock!Release,
   Waiting, Holders, WaitingFor, HoldersOf

(* Nobody has or waits for a path before the first call.                   *)
LEMMA SeenInit == ASSUME Init PROVE Lock!Init
BY DEF Init, Lock!Init

(* Whatever a caller finds or makes in the map, it has asked for its path. *)
LEMMA EnterAsks ==
  ASSUME IInv, NEW t \in Threads, Enter(t)
  PROVE  \E k \in Keys : Lock!Ask(t, k)
<1>1. PICK p \in Keys : key' = [key EXCEPT ![t] = p]
  BY DEF Enter
<1>2. pc[t] = "idle" /\ pc' = [pc EXCEPT ![t] = "waiting"] /\ TypeOK
  BY DEF Enter, IInv
<1>3. \A l : /\ HoldersOf(l)' = HoldersOf(l)
             /\ WaitingFor(l)' = IF l = p THEN WaitingFor(l) \cup {t} ELSE WaitingFor(l)
             /\ t \notin HoldersOf(l) \cup WaitingFor(l)
  BY <1>1, <1>2 DEF HoldersOf, WaitingFor, TypeOK
<1>4. /\ \A k \in Keys : t \notin Waiting[k] \cup Holders[k]
      /\ Waiting' = [Waiting EXCEPT ![p] = @ \cup {t}]
      /\ Holders' = Holders
  BY <1>3 DEF Waiting, Holders
<1> QED
  BY <1>1, <1>4, SeenLock

(* A refMutex is free only if nobody has the path, for a holder has locked *)
(* the one the map has.                                                    *)
LEMMA TakeGrants ==
  ASSUME IInv, NEW t \in Threads, Take(t)
  PROVE  \E k \in Keys : Lock!Grant(t, k)
<1>1. PICK p \in Keys : p = key[t]
  BY DEF IInv, TypeOK
<1>2. pc[t] = "waiting" /\ pc' = [pc EXCEPT ![t] = "held"] /\ key' = key /\ TypeOK
  BY DEF Take, IInv
<1>3. HoldersOf(p) = {}
  <2> SUFFICES ASSUME NEW u \in HoldersOf(p) PROVE FALSE
    OBVIOUS
  <2>1. u \in Threads /\ pc[u] = "held" /\ key[u] = p
    BY DEF HoldersOf
  <2>2. rm[u] = m[p] /\ holder[rm[u]] = u /\ rm[t] = m[p]
    BY <1>1, <1>2, <2>1, UserHasObject DEF IInv, HolderExact
  <2>3. holder[rm[t]] = NoThread
    BY DEF Take
  <2> QED
    BY <2>1, <2>2, <2>3, ConstantsAssumption
<1>4. \A l : /\ HoldersOf(l)' = IF l = p THEN HoldersOf(l) \cup {t} ELSE HoldersOf(l)
             /\ WaitingFor(l)' = IF l = p THEN WaitingFor(l) \ {t} ELSE WaitingFor(l)
  BY <1>1, <1>2 DEF HoldersOf, WaitingFor, TypeOK
<1>5. HoldersOf(p)' = {t} /\ t \in WaitingFor(p)
  BY <1>1, <1>2, <1>3, <1>4 DEF WaitingFor
<1>6. /\ t \in Waiting[p] /\ Holders[p] = {}
      /\ Waiting' = [Waiting EXCEPT ![p] = @ \ {t}]
      /\ Holders' = [Holders EXCEPT ![p] = {t}]
  BY <1>3, <1>4, <1>5 DEF Waiting, Holders
<1> QED
  BY <1>1, <1>6, SeenLock

LEMMA UnlockReleases ==
  ASSUME IInv, NEW t \in Threads, Unlock(t)
  PROVE  \E k \in Keys : Lock!Release(t, k)
<1>1. PICK p \in Keys : p = key[t]
  BY DEF IInv, TypeOK
<1>2. pc[t] = "held" /\ pc' = [pc EXCEPT ![t] = "unlocked"] /\ key' = key /\ TypeOK
  BY DEF Unlock, IInv
<1>3. \A l : /\ HoldersOf(l)' = IF l = p THEN HoldersOf(l) \ {t} ELSE HoldersOf(l)
             /\ WaitingFor(l)' = WaitingFor(l)
  BY <1>1, <1>2 DEF HoldersOf, WaitingFor, TypeOK
<1>4. t \in HoldersOf(p)
  BY <1>1, <1>2 DEF HoldersOf
<1>5. /\ t \in Holders[p]
      /\ Holders' = [Holders EXCEPT ![p] = @ \ {t}]
      /\ Waiting' = Waiting
  BY <1>3, <1>4 DEF Waiting, Holders
<1> QED
  BY <1>1, <1>5, SeenLock

(* Who drops the entry is no longer seen to have the path.                 *)
LEMMA UnrefUnseen ==
  ASSUME IInv, NEW t \in Threads, Unref(t)
  PROVE  UNCHANGED Lock!lock
<1>1. pc[t] = "unlocked" /\ pc' = [pc EXCEPT ![t] = "idle"] /\ key' = key /\ TypeOK
  BY DEF Unref, IInv
<1>2. \A l : HoldersOf(l)' = HoldersOf(l) /\ WaitingFor(l)' = WaitingFor(l)
  BY <1>1 DEF HoldersOf, WaitingFor, TypeOK
<1> QED
  BY <1>2 DEF Lock!lock, HoldersOf, WaitingFor

LEMMA StepRefines == ASSUME IInv, [Next]_vars PROVE [Lock!Next]_(Lock!lock)
<1>1. CASE UNCHANGED vars
  BY <1>1 DEF vars, Lock!lock
<1>2. CASE Next
  <2> PICK t \in Threads : Enter(t) \/ Take(t) \/ Unlock(t) \/ Unref(t)
    BY <1>2 DEF Next
  <2> QED
    BY EnterAsks, TakeGrants, UnlockReleases, UnrefUnseen DEF Lock!Next
<1> QED
  BY <1>1, <1>2

-----------------------------------------------------------------------------

(* IInv is inductive.                                                      *)
THEOREM Inductive == Spec => []IInv
<1>1. Init => IInv
  BY InitHolds
<1>2. IInv /\ [Next]_vars => IInv'
  BY NextHolds
<1> QED
  BY <1>1, <1>2, PTL DEF Spec

(* The keyed mutex implements a lock per path: map, reference counts and   *)
(* mutex objects are not to be seen (KeyedMutex.Lock).                     *)
THEOREM LockImplemented == Spec => ImplementsPathLock
<1>1. Init => Lock!Init
  BY SeenInit
<1>2. IInv /\ [Next]_vars => [Lock!Next]_(Lock!lock)
  BY StepRefines
<1> QED
  BY <1>1, <1>2, Inductive, PTL DEF Spec, ImplementsPathLock, Lock!Spec

(* At most one holder for each path, for any number of callers and paths   *)
(* (KeyedMutex.Lock and the function it returns).                          *)
THEOREM OneHolder == Spec => []MutualExclusion
<1>1. IInv => MutualExclusion
  BY HoldersMeet
<1> QED
  BY <1>1, Inductive, PTL

(* The map has an entry exactly for the paths in use and refs counts the   *)
(* users of each: no entry leaks, none is dropped under a waiter.          *)
THEOREM NoLeak == Spec => []EntriesExact
<1>1. IInv => EntriesExact
  BY DEF IInv
<1> QED
  BY <1>1, Inductive, PTL

(* The variables keep their types; a reference count is never negative.    *)
THEOREM TypeCorrect == Spec => []TypeOK
<1>1. IInv => TypeOK
  BY DEF IInv
<1> QED
  BY <1>1, Inductive, PTL
=============================================================================
