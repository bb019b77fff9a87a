---------------------------- MODULE JobLifecycle ----------------------------
(***************************************************************************)
(* What the job queue of muxprune promises to whoever submits a job, with  *)
(* no workers, processes, locks or crashes in sight: the life of one row   *)
(* of the jobs table.  JobQueue.tla is the queue as it is built (the store *)
(* statements, the runner, the flock, the cancel handlers) and implements  *)
(* this specification.                                                     *)
(***************************************************************************)
EXTENDS Integers

CONSTANT MaxJobs          \* highest row id a behaviour uses

VARIABLE status           \* the status column of each row; "absent": no row

Ids      == 1..MaxJobs
Terminal == {"done", "failed", "skipped", "cancelled"}
Statuses == Terminal \cup {"absent", "queued", "running"}

(* SQLite gives an INTEGER PRIMARY KEY row the largest existing id plus    *)
(* one, so the id of a deleted newest row is used again.                   *)
IsNextId(id) == /\ \A j \in Ids : j >= id => status[j] = "absent"
                /\ \A j \in Ids : j = id - 1 => status[j] # "absent"

IsOldestQueued(id) == /\ status[id] = "queued"
                      /\ \A j \in Ids : j < id => status[j] # "queued"

-----------------------------------------------------------------------------

Init == status = [id \in Ids |-> "absent"]

Become(id, s) == status' = [status EXCEPT ![id] = s]

Submit(id)  == IsNextId(id) /\ Become(id, "queued")
Claim(id)   == IsOldestQueued(id) /\ Become(id, "running")
Finish(id)  == status[id] = "running" /\ \E s \in Terminal : Become(id, s)
Withdraw(id) == status[id] = "queued" /\ Become(id, "cancelled")
Remove(id)  == status[id] \in Terminal \cup {"queued"} /\ Become(id, "absent")

(* A restart fails every job the previous owner of the queue left running. *)
FailRunning ==
  /\ \E id \in Ids : status[id] = "running"
  /\ status' = [id \in Ids |->
                  IF status[id] = "running" THEN "failed" ELSE status[id]]

Next == \/ \E id \in Ids : \/ Submit(id) \/ Claim(id) \/ Finish(id)
                           \/ Withdraw(id) \/ Remove(id)
        \/ FailRunning

Spec == Init /\ [][Next]_status
=============================================================================
