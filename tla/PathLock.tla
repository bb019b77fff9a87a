------------------------------ MODULE PathLock ------------------------------
(***************************************************************************)
(* What a lock per path promises to the jobs that take it, with no map, no *)
(* mutexes and no reference counts: a path has one holder at a time, and   *)
(* who gets it had asked for it.  KeyedMutex.tla is the lock as it is      *)
(* built and implements this specification.                                *)
(***************************************************************************)
CONSTANTS Threads, Keys

VARIABLES
  waiting,  \* who has asked for each path and not got it
  holders   \* who has it

lock == <<waiting, holders>>

Init == /\ waiting = [k \in Keys |-> {}]
        /\ holders = [k \in Keys |-> {}]

Uninvolved(t) == \A k \in Keys : t \notin waiting[k] \cup holders[k]

Ask(t, k) ==
  /\ Uninvolved(t)
  /\ waiting' = [waiting EXCEPT ![k] = @ \cup {t}]
  /\ UNCHANGED holders

Grant(t, k) ==
  /\ t \in waiting[k] /\ holders[k] = {}
  /\ waiting' = [waiting EXCEPT ![k] = @ \ {t}]
  /\ holders' = [holders EXCEPT ![k] = {t}]

Release(t, k) ==
  /\ t \in holders[k]
  /\ holders' = [holders EXCEPT ![k] = @ \ {t}]
  /\ UNCHANGED waiting

Next == \E t \in Threads, k \in Keys : Ask(t, k) \/ Grant(t, k) \/ Release(t, k)

Spec == Init /\ [][Next]_lock
=============================================================================
