--------------------------- MODULE JobQueueProofs ---------------------------
(***************************************************************************)
(* Proofs about JobQueue for any number of processes, workers and jobs and *)
(* any bound on stops, crashes and failed writes.                          *)
(*                                                                         *)
(* The safety invariants are not inductive one by one.  IInv joins them    *)
(* with the facts they lean on: the flock and the state of the processes   *)
(* agree, a goroutine lives only where Start has put it, a job on its way  *)
(* out has an outcome and a job that can be cancelled has its entry in     *)
(* Runner.cancels, and a cancel that was acknowledged travels with the job *)
(* until FinishJob writes it.  There is one lemma per action; under it one *)
(* step per part of IInv that the action can disturb, and one for the rest.*)
(***************************************************************************)
EXTENDS JobQueue, TLAPS

LockAgrees ==
  \A p \in Procs : proc[p] \in {"recovering", "serving"} <=> lock = p

WorkersAtHome ==
  \A w \in Workers : pc[w] # "off" => proc[Home[w]] = "serving"

OutcomeKnown ==
  \A w \in Workers : /\ pc[w] = "collect" => outcome[w] \in Outcomes
                     /\ pc[w] = "finish" => outcome[w] \in Terminal

JobRegistered ==
  \A w \in Workers :
    pc[w] \in {"execute", "collect"} => cancels[Home[w]][cur[w]] = w

CancelCarried ==
  \A w \in Workers :
    /\ pc[w] = "register" => cur[w] \notin acked
    /\ pc[w] \in {"execute", "collect"} /\ cur[w] \in acked
         => cur[w] \in cancelled[Home[w]]
    /\ pc[w] = "finish" /\ cur[w] \in acked => outcome[w] \in {"done", "cancelled"}

\* Of CancelHonoured, what needs no more than IInv: only a recovery makes an
\* acknowledged job failed.
CancelSettled ==
  \A id \in acked :
    \/ status[id] \in {"running", "done", "cancelled"}
    \/ status[id] = "failed" /\ id \in interrupted

IInv ==
  /\ TypeOK
  /\ LockAgrees
  /\ WorkersAtHome
  /\ OutcomeKnown
  /\ HeldJobIsRunning
  /\ ExecutedOnce
  /\ JobRegistered
  /\ CancelMapsExact
  /\ CancelCarried
  /\ CancelSettled

-----------------------------------------------------------------------------

(* A new row is queued: nobody holds it and no cancel was acknowledged for *)
(* it.                                                                     *)
LEMMA SubmitJobPreserves ==
  ASSUME IInv, NEW p \in Procs, SubmitJob(p)
  PROVE  IInv'
<1>1. TypeOK'
  BY ConstantsAssumption DEF IInv, TypeOK, SubmitJob, InsertQueued, IsNextId,
         SetStatus, Wake, threads, maps, budgets, Ids, Statuses, Terminal,
         Outcomes, ProcStates, WorkerStates, history
<1>2. HeldJobIsRunning'
  <2>1. PICK id \in Ids : IsNextId(id) /\ SetStatus(id, "queued")
    BY DEF SubmitJob, InsertQueued
  <2>2. status[id] = "absent" /\ status' = [status EXCEPT ![id] = "queued"]
    BY <2>1, ConstantsAssumption DEF IsNextId, SetStatus, Ids
  <2> QED BY <2>2 DEF IInv, TypeOK, HeldJobIsRunning, Holding, SubmitJob, threads
<1>3. CancelSettled'
  <2>1. PICK id \in Ids : IsNextId(id) /\ SetStatus(id, "queued")
    BY DEF SubmitJob, InsertQueued
  <2>2. status[id] = "absent" /\ status' = [status EXCEPT ![id] = "queued"]
    BY <2>1, ConstantsAssumption DEF IsNextId, SetStatus, Ids
  <2> QED BY <2>2 DEF IInv, TypeOK, CancelSettled, SubmitJob, history
<1>4. /\ LockAgrees'
     /\ WorkersAtHome'
     /\ OutcomeKnown'
     /\ ExecutedOnce'
     /\ JobRegistered'
     /\ CancelMapsExact'
     /\ CancelCarried'
  BY DEF IInv, LockAgrees, WorkersAtHome, OutcomeKnown, ExecutedOnce,
         JobRegistered, CancelMapsExact, CancelCarried, SubmitJob, threads,
         maps, Holds, history
<1> QED BY <1>1, <1>2, <1>3, <1>4 DEF IInv

(* See SubmitJobPreserves; the old row stays as it is.                     *)
LEMMA RetryJobPreserves ==
  ASSUME IInv, NEW p \in Procs, RetryJob(p)
  PROVE  IInv'
<1>1. TypeOK'
  BY ConstantsAssumption DEF IInv, TypeOK, RetryJob, InsertQueued, IsNextId,
         SetStatus, Wake, threads, maps, budgets, Ids, Statuses, Terminal,
         Outcomes, ProcStates, WorkerStates, history
<1>2. HeldJobIsRunning'
  <2>1. PICK id \in Ids : IsNextId(id) /\ SetStatus(id, "queued")
    BY DEF RetryJob, InsertQueued
  <2>2. status[id] = "absent" /\ status' = [status EXCEPT ![id] = "queued"]
    BY <2>1, ConstantsAssumption DEF IsNextId, SetStatus, Ids
  <2> QED BY <2>2 DEF IInv, TypeOK, HeldJobIsRunning, Holding, RetryJob, threads
<1>3. CancelSettled'
  <2>1. PICK id \in Ids : IsNextId(id) /\ SetStatus(id, "queued")
    BY DEF RetryJob, InsertQueued
  <2>2. status[id] = "absent" /\ status' = [status EXCEPT ![id] = "queued"]
    BY <2>1, ConstantsAssumption DEF IsNextId, SetStatus, Ids
  <2> QED BY <2>2 DEF IInv, TypeOK, CancelSettled, RetryJob, history
<1>4. /\ LockAgrees'
     /\ WorkersAtHome'
     /\ OutcomeKnown'
     /\ ExecutedOnce'
     /\ JobRegistered'
     /\ CancelMapsExact'
     /\ CancelCarried'
  BY DEF IInv, LockAgrees, WorkersAtHome, OutcomeKnown, ExecutedOnce,
         JobRegistered, CancelMapsExact, CancelCarried, RetryJob, threads,
         maps, Holds, history
<1> QED BY <1>1, <1>2, <1>3, <1>4 DEF IInv

(* Only rows that no worker holds can be deleted.                          *)
LEMMA DeleteJobPreserves ==
  ASSUME IInv, NEW p \in Procs, DeleteJob(p)
  PROVE  IInv'
<1>1. TypeOK'
  BY ConstantsAssumption DEF IInv, TypeOK, DeleteJob, Deletable, SetStatus,
         procs, threads, maps, budgets, Ids, Statuses, Terminal, Outcomes,
         ProcStates, WorkerStates, history
<1>2. HeldJobIsRunning'
  BY DEF IInv, TypeOK, HeldJobIsRunning, DeleteJob, Deletable, SetStatus,
         procs, threads, maps, budgets, Holding
<1>3. CancelCarried'
  BY DEF IInv, TypeOK, CancelCarried, DeleteJob, Deletable, SetStatus, procs,
         threads, maps, budgets, history
<1>4. CancelSettled'
  BY DEF IInv, TypeOK, CancelSettled, DeleteJob, Deletable, SetStatus, procs,
         threads, maps, budgets, history
<1>5. /\ LockAgrees'
     /\ WorkersAtHome'
     /\ OutcomeKnown'
     /\ ExecutedOnce'
     /\ JobRegistered'
     /\ CancelMapsExact'
  BY DEF IInv, LockAgrees, WorkersAtHome, OutcomeKnown, ExecutedOnce,
         JobRegistered, CancelMapsExact, DeleteJob, procs, threads, maps,
         Holds
<1> QED BY <1>1, <1>2, <1>3, <1>4, <1>5 DEF IInv

(* The job whose cancel is acknowledged is marked in the map its worker    *)
(* will read.                                                              *)
LEMMA CancelRunningPreserves ==
  ASSUME IInv, NEW p \in Procs, CancelRunning(p)
  PROVE  IInv'
<1>1. TypeOK'
  BY ConstantsAssumption DEF IInv, TypeOK, CancelRunning, rows, procs, budgets,
         Ids, Statuses, Terminal, Outcomes, ProcStates, WorkerStates, history
<1>2. CancelMapsExact'
  BY DEF IInv, TypeOK, CancelMapsExact, CancelRunning, rows, procs, budgets
<1>3. CancelCarried'
  <2>1. PICK id \in Ids :
          /\ cancels[p][id] # NoWorker
          /\ cancelled' = [cancelled EXCEPT ![p] = @ \cup {id}]
          /\ acked' = acked \cup {id}
    BY DEF CancelRunning
  <2> DEFINE v == cancels[p][id]
  <2>2. /\ v \in Workers /\ Home[v] = p /\ cur[v] = id
        /\ pc[v] \in {"execute", "collect"}
    BY <2>1 DEF IInv, TypeOK, CancelMapsExact
  <2>3. \A w \in Workers : pc[w] \in Holding /\ cur[w] = id => w = v
    BY <2>2 DEF IInv, ExecutedOnce, Holds, Holding
  <2>4. UNCHANGED <<pc, cur, outcome>>
    BY DEF CancelRunning
  <2> QED BY <2>1, <2>2, <2>3, <2>4
          DEF IInv, TypeOK, CancelCarried, Holding
<1>4. CancelSettled'
  BY DEF IInv, TypeOK, CancelSettled, CancelRunning, rows, procs, budgets,
         CancelMapsExact, HeldJobIsRunning, Holding, history
<1>5. /\ LockAgrees'
     /\ WorkersAtHome'
     /\ OutcomeKnown'
     /\ HeldJobIsRunning'
     /\ ExecutedOnce'
     /\ JobRegistered'
  BY DEF IInv, LockAgrees, WorkersAtHome, OutcomeKnown, HeldJobIsRunning,
         ExecutedOnce, JobRegistered, CancelRunning, rows, procs, Holds
<1> QED BY <1>1, <1>2, <1>3, <1>4, <1>5 DEF IInv

(* A cancel that finds no entry only goes on to the row.                   *)
LEMMA CancelNotHerePreserves ==
  ASSUME IInv, NEW p \in Procs, CancelNotHere(p)
  PROVE  IInv'
<1>1. TypeOK'
  BY ConstantsAssumption DEF IInv, TypeOK, CancelNotHere, rows, procs, threads,
         maps, budgets, Ids, Statuses, Terminal, Outcomes, ProcStates,
         WorkerStates, history
<1>2. /\ LockAgrees'
     /\ WorkersAtHome'
     /\ OutcomeKnown'
     /\ HeldJobIsRunning'
     /\ ExecutedOnce'
     /\ JobRegistered'
     /\ CancelMapsExact'
     /\ CancelCarried'
     /\ CancelSettled'
  BY DEF IInv, LockAgrees, WorkersAtHome, OutcomeKnown, HeldJobIsRunning,
         ExecutedOnce, JobRegistered, CancelMapsExact, CancelCarried,
         CancelSettled, CancelNotHere, rows, procs, threads, maps, Holds,
         history
<1> QED BY <1>1, <1>2 DEF IInv

(* Reading the row changes nothing but the request.                        *)
LEMMA CancelGetJobPreserves ==
  ASSUME IInv, NEW p \in Procs, CancelGetJob(p)
  PROVE  IInv'
<1>1. TypeOK'
  BY ConstantsAssumption DEF IInv, TypeOK, CancelGetJob, Idle, rows, procs,
         threads, maps, budgets, Ids, Statuses, Terminal, Outcomes, ProcStates,
         WorkerStates, history
<1>2. /\ LockAgrees'
     /\ WorkersAtHome'
     /\ OutcomeKnown'
     /\ HeldJobIsRunning'
     /\ ExecutedOnce'
     /\ JobRegistered'
     /\ CancelMapsExact'
     /\ CancelCarried'
     /\ CancelSettled'
  BY DEF IInv, LockAgrees, WorkersAtHome, OutcomeKnown, HeldJobIsRunning,
         ExecutedOnce, JobRegistered, CancelMapsExact, CancelCarried,
         CancelSettled, CancelGetJob, rows, procs, threads, maps, Holds,
         history
<1> QED BY <1>1, <1>2 DEF IInv

(* Only a queued row, which no worker holds, becomes cancelled.            *)
LEMMA CancelUpdatePreserves ==
  ASSUME IInv, NEW p \in Procs, CancelUpdate(p)
  PROVE  IInv'
<1>1. TypeOK'
  BY ConstantsAssumption DEF IInv, TypeOK, CancelUpdate, Idle, Cancellable,
         SetStatus, procs, threads, maps, budgets, Ids, Statuses, Terminal,
         Outcomes, ProcStates, WorkerStates, history
<1>2. HeldJobIsRunning'
  BY DEF IInv, TypeOK, HeldJobIsRunning, CancelUpdate, Idle, Cancellable,
         SetStatus, procs, threads, maps, budgets, Holding
<1>3. CancelSettled'
  BY DEF IInv, TypeOK, CancelSettled, CancelUpdate, Idle, Cancellable,
         SetStatus, procs, threads, maps, budgets, history
<1>4. /\ LockAgrees'
     /\ WorkersAtHome'
     /\ OutcomeKnown'
     /\ ExecutedOnce'
     /\ JobRegistered'
     /\ CancelMapsExact'
     /\ CancelCarried'
  BY DEF IInv, LockAgrees, WorkersAtHome, OutcomeKnown, ExecutedOnce,
         JobRegistered, CancelMapsExact, CancelCarried, CancelUpdate, procs,
         threads, maps, Holds, history
<1> QED BY <1>1, <1>2, <1>3, <1>4 DEF IInv

(* A process that starts has neither the lock nor workers.                 *)
LEMMA StartProcessPreserves ==
  ASSUME IInv, NEW p \in Procs, StartProcess(p)
  PROVE  IInv'
<1>1. TypeOK'
  BY ConstantsAssumption DEF IInv, TypeOK, StartProcess, rows, threads, maps,
         budgets, Ids, Statuses, Terminal, Outcomes, ProcStates, WorkerStates,
         history
<1>2. LockAgrees'
  BY DEF IInv, TypeOK, LockAgrees, StartProcess, rows, threads, maps, budgets
<1>3. WorkersAtHome'
  BY DEF IInv, TypeOK, WorkersAtHome, StartProcess, rows, threads, maps,
         budgets
<1>4. /\ OutcomeKnown'
     /\ HeldJobIsRunning'
     /\ ExecutedOnce'
     /\ JobRegistered'
     /\ CancelMapsExact'
     /\ CancelCarried'
     /\ CancelSettled'
  BY DEF IInv, OutcomeKnown, HeldJobIsRunning, ExecutedOnce, JobRegistered,
         CancelMapsExact, CancelCarried, CancelSettled, StartProcess, rows,
         threads, maps, Holds, history
<1> QED BY <1>1, <1>2, <1>3, <1>4 DEF IInv

(* The lock goes to a process without workers.                             *)
LEMMA TryLockPreserves ==
  ASSUME IInv, NEW p \in Procs, TryLock(p)
  PROVE  IInv'
<1>1. TypeOK'
  BY ConstantsAssumption DEF IInv, TypeOK, TryLock, LockFree, rows, threads,
         maps, budgets, Ids, Statuses, Terminal, Outcomes, ProcStates,
         WorkerStates, history
<1>2. LockAgrees'
  BY ConstantsAssumption DEF IInv, TypeOK, LockAgrees, TryLock, LockFree,
         rows, threads, maps, budgets
<1>3. WorkersAtHome'
  BY DEF IInv, TypeOK, WorkersAtHome, TryLock, LockFree, rows, threads, maps,
         budgets
<1>4. /\ OutcomeKnown'
     /\ HeldJobIsRunning'
     /\ ExecutedOnce'
     /\ JobRegistered'
     /\ CancelMapsExact'
     /\ CancelCarried'
     /\ CancelSettled'
  BY DEF IInv, OutcomeKnown, HeldJobIsRunning, ExecutedOnce, JobRegistered,
         CancelMapsExact, CancelCarried, CancelSettled, TryLock, rows, threads,
         maps, Holds, history
<1> QED BY <1>1, <1>2, <1>3, <1>4 DEF IInv

(* A process that gives up waiting has neither the lock nor workers.       *)
LEMMA GiveUpLockPreserves ==
  ASSUME IInv, NEW p \in Procs, GiveUpLock(p)
  PROVE  IInv'
<1>1. TypeOK'
  BY ConstantsAssumption DEF IInv, TypeOK, GiveUpLock, rows, threads, maps,
         budgets, Ids, Statuses, Terminal, Outcomes, ProcStates, WorkerStates,
         history
<1>2. LockAgrees'
  BY DEF IInv, TypeOK, LockAgrees, GiveUpLock, rows, threads, maps, budgets
<1>3. WorkersAtHome'
  BY DEF IInv, TypeOK, WorkersAtHome, GiveUpLock, rows, threads, maps, budgets
<1>4. /\ OutcomeKnown'
     /\ HeldJobIsRunning'
     /\ ExecutedOnce'
     /\ JobRegistered'
     /\ CancelMapsExact'
     /\ CancelCarried'
     /\ CancelSettled'
  BY DEF IInv, OutcomeKnown, HeldJobIsRunning, ExecutedOnce, JobRegistered,
         CancelMapsExact, CancelCarried, CancelSettled, GiveUpLock, rows,
         threads, maps, Holds, history
<1> QED BY <1>1, <1>2, <1>3, <1>4 DEF IInv

(* The owner of the lock has no workers yet and nobody else has any, so no *)
(* row it fails is held.                                                   *)
LEMMA RecoverPreserves ==
  ASSUME IInv, NEW p \in Procs, Recover(p)
  PROVE  IInv'
<1>1. TypeOK'
  BY ConstantsAssumption DEF IInv, TypeOK, Recover, IsRunning, StartWorkers,
         maps, budgets, Ids, Statuses, Terminal, Outcomes, ProcStates,
         WorkerStates, history
<1>2. LockAgrees'
  BY DEF IInv, TypeOK, LockAgrees, Recover, IsRunning, StartWorkers, maps,
         budgets
<1>3. WorkersAtHome'
  BY DEF IInv, TypeOK, WorkersAtHome, Recover, IsRunning, StartWorkers, maps,
         budgets
<1>4. OutcomeKnown'
  BY DEF IInv, TypeOK, OutcomeKnown, Recover, IsRunning, StartWorkers, maps,
         budgets, Outcomes, Terminal
<1>5. HeldJobIsRunning'
  BY ConstantsAssumption DEF IInv, TypeOK, HeldJobIsRunning, Recover,
         IsRunning, StartWorkers, maps, budgets, Holding, WorkersAtHome,
         LockAgrees
<1>6. ExecutedOnce'
  BY DEF IInv, TypeOK, ExecutedOnce, Recover, IsRunning, StartWorkers, maps,
         budgets, Holds, Holding
<1>7. JobRegistered'
  BY DEF IInv, TypeOK, JobRegistered, Recover, IsRunning, StartWorkers, maps,
         budgets
<1>8. CancelMapsExact'
  <2>1. \A w \in Workers : pc[w] \in {"execute", "collect"} => pc'[w] = pc[w]
    BY DEF IInv, TypeOK, WorkersAtHome, Recover, StartWorkers
  <2>2. UNCHANGED <<cur, cancels, cancelled>>
    BY DEF Recover, maps
  <2>3. /\ CancelMapsExact
        /\ \A q \in Procs : cancels[q] \in [Ids -> Workers \cup {NoWorker}]
    BY DEF IInv, TypeOK
  <2> QED BY <2>1, <2>2, <2>3 DEF CancelMapsExact
<1>9. CancelCarried'
  BY DEF IInv, TypeOK, CancelCarried, Recover, IsRunning, StartWorkers, maps,
         budgets, history
<1>10. CancelSettled'
  BY DEF IInv, TypeOK, CancelSettled, Recover, IsRunning, StartWorkers, maps,
         budgets, history
<1> QED BY <1>1, <1>2, <1>3, <1>4, <1>5, <1>6, <1>7, <1>8, <1>9, <1>10 DEF IInv

(* See RecoverPreserves; the rows stay running, which no part of IInv      *)
(* forbids.                                                                *)
LEMMA RecoverFailsPreserves ==
  ASSUME IInv, NEW p \in Procs, RecoverFails(p)
  PROVE  IInv'
<1>1. TypeOK'
  BY ConstantsAssumption DEF IInv, TypeOK, RecoverFails, StartWorkers, rows,
         maps, Ids, Statuses, Terminal, Outcomes, ProcStates, WorkerStates,
         history
<1>2. LockAgrees'
  BY DEF IInv, TypeOK, LockAgrees, RecoverFails, StartWorkers, rows, maps
<1>3. WorkersAtHome'
  BY DEF IInv, TypeOK, WorkersAtHome, RecoverFails, StartWorkers, rows, maps
<1>4. OutcomeKnown'
  BY DEF IInv, TypeOK, OutcomeKnown, RecoverFails, StartWorkers, rows, maps,
         Outcomes, Terminal
<1>5. HeldJobIsRunning'
  BY DEF IInv, TypeOK, HeldJobIsRunning, RecoverFails, StartWorkers, rows,
         maps, Holding
<1>6. ExecutedOnce'
  BY DEF IInv, TypeOK, ExecutedOnce, RecoverFails, StartWorkers, rows, maps,
         Holds, Holding
<1>7. JobRegistered'
  BY DEF IInv, TypeOK, JobRegistered, RecoverFails, StartWorkers, rows, maps
<1>8. CancelMapsExact'
  <2>1. \A w \in Workers : pc[w] \in {"execute", "collect"} => pc'[w] = pc[w]
    BY DEF IInv, TypeOK, WorkersAtHome, RecoverFails, StartWorkers
  <2>2. UNCHANGED <<cur, cancels, cancelled>>
    BY DEF RecoverFails, maps
  <2>3. /\ CancelMapsExact
        /\ \A q \in Procs : cancels[q] \in [Ids -> Workers \cup {NoWorker}]
    BY DEF IInv, TypeOK
  <2> QED BY <2>1, <2>2, <2>3 DEF CancelMapsExact
<1>9. CancelCarried'
  BY DEF IInv, TypeOK, CancelCarried, RecoverFails, StartWorkers, rows, maps,
         history
<1>10. CancelSettled'
  BY DEF IInv, CancelSettled, RecoverFails, rows, history
<1> QED BY <1>1, <1>2, <1>3, <1>4, <1>5, <1>6, <1>7, <1>8, <1>9, <1>10 DEF IInv

(* Asking a process to stop changes nothing but its context.               *)
LEMMA StopProcessPreserves ==
  ASSUME IInv, NEW p \in Procs, StopProcess(p)
  PROVE  IInv'
<1>1. TypeOK'
  BY ConstantsAssumption DEF IInv, TypeOK, StopProcess, rows, threads, maps,
         Ids, Statuses, Terminal, Outcomes, ProcStates, WorkerStates, history
<1>2. /\ LockAgrees'
     /\ WorkersAtHome'
     /\ OutcomeKnown'
     /\ HeldJobIsRunning'
     /\ ExecutedOnce'
     /\ JobRegistered'
     /\ CancelMapsExact'
     /\ CancelCarried'
     /\ CancelSettled'
  BY DEF IInv, LockAgrees, WorkersAtHome, OutcomeKnown, HeldJobIsRunning,
         ExecutedOnce, JobRegistered, CancelMapsExact, CancelCarried,
         CancelSettled, StopProcess, rows, threads, maps, Holds, history
<1> QED BY <1>1, <1>2 DEF IInv

(* The lock is dropped once the last worker is gone.                       *)
LEMMA ReleaseLockPreserves ==
  ASSUME IInv, NEW p \in Procs, ReleaseLock(p)
  PROVE  IInv'
<1>1. TypeOK'
  BY ConstantsAssumption DEF IInv, TypeOK, ReleaseLock, WorkersGone, WorkersOf,
         rows, threads, maps, budgets, Ids, Statuses, Terminal, Outcomes,
         ProcStates, WorkerStates, history
<1>2. LockAgrees'
  BY ConstantsAssumption DEF IInv, TypeOK, LockAgrees, ReleaseLock,
         WorkersGone, WorkersOf, rows, threads, maps, budgets
<1>3. WorkersAtHome'
  BY DEF IInv, TypeOK, WorkersAtHome, ReleaseLock, WorkersGone, WorkersOf,
         rows, threads, maps, budgets
<1>4. /\ OutcomeKnown'
     /\ HeldJobIsRunning'
     /\ ExecutedOnce'
     /\ JobRegistered'
     /\ CancelMapsExact'
     /\ CancelCarried'
     /\ CancelSettled'
  BY DEF IInv, OutcomeKnown, HeldJobIsRunning, ExecutedOnce, JobRegistered,
         CancelMapsExact, CancelCarried, CancelSettled, ReleaseLock, rows,
         threads, maps, Holds, history
<1> QED BY <1>1, <1>2, <1>3, <1>4 DEF IInv

(* A process that released the lock has no workers to lose.                *)
LEMMA ExitProcessPreserves ==
  ASSUME IInv, NEW p \in Procs, ExitProcess(p)
  PROVE  IInv'
<1>1. TypeOK'
  BY ConstantsAssumption DEF IInv, TypeOK, ExitProcess, ForgetProcess,
         NoCancels, Idle, rows, budgets, Ids, Statuses, Terminal, Outcomes,
         ProcStates, WorkerStates, history
<1>2. LockAgrees'
  BY DEF IInv, TypeOK, LockAgrees, ExitProcess, ForgetProcess, NoCancels,
         Idle, rows, budgets
<1>3. WorkersAtHome'
  BY DEF IInv, TypeOK, WorkersAtHome, ExitProcess, ForgetProcess, NoCancels,
         Idle, rows, budgets
<1>4. OutcomeKnown'
  BY DEF IInv, TypeOK, OutcomeKnown, ExitProcess, ForgetProcess, NoCancels,
         Idle, rows, budgets, Outcomes, Terminal
<1>5. HeldJobIsRunning'
  BY DEF IInv, TypeOK, HeldJobIsRunning, ExitProcess, ForgetProcess,
         NoCancels, Idle, rows, budgets, Holding
<1>6. ExecutedOnce'
  BY DEF IInv, TypeOK, ExecutedOnce, ExitProcess, ForgetProcess, NoCancels,
         Idle, rows, budgets, Holds, Holding
<1>7. JobRegistered'
  BY DEF IInv, TypeOK, JobRegistered, ExitProcess, ForgetProcess, NoCancels,
         Idle, rows, budgets
<1>8. CancelMapsExact'
  BY DEF IInv, TypeOK, CancelMapsExact, ExitProcess, ForgetProcess, NoCancels,
         Idle, rows, budgets
<1>9. CancelCarried'
  BY DEF IInv, TypeOK, CancelCarried, ExitProcess, ForgetProcess, NoCancels,
         Idle, rows, budgets, history
<1>10. CancelSettled'
  BY DEF IInv, CancelSettled, ExitProcess, ForgetProcess, rows, history
<1> QED BY <1>1, <1>2, <1>3, <1>4, <1>5, <1>6, <1>7, <1>8, <1>9, <1>10 DEF IInv

(* A crash takes the workers, their maps and the lock together.            *)
LEMMA CrashPreserves ==
  ASSUME IInv, NEW p \in Procs, Crash(p)
  PROVE  IInv'
<1>1. TypeOK'
  <2>1. /\ crashes' \in 0..MaxCrashes
        /\ UNCHANGED <<status, acked, interrupted, stops, faults>>
        /\ lock' \in Procs \cup {NoProc}
    BY ConstantsAssumption DEF IInv, TypeOK, Crash, rows, history
  <2>2. ForgetProcess(p)
    BY DEF Crash
  <2> QED BY <2>1, <2>2, ConstantsAssumption
          DEF IInv, TypeOK, ForgetProcess, NoCancels, Idle, Ids, Statuses,
              Terminal, Outcomes, ProcStates, WorkerStates
<1>2. LockAgrees'
  BY ConstantsAssumption DEF IInv, TypeOK, LockAgrees, Crash, ForgetProcess,
         NoCancels, Idle, rows
<1>3. WorkersAtHome'
  BY DEF IInv, TypeOK, WorkersAtHome, Crash, ForgetProcess, NoCancels, Idle,
         rows
<1>4. OutcomeKnown'
  BY DEF IInv, TypeOK, OutcomeKnown, Crash, ForgetProcess, NoCancels, Idle,
         rows, Outcomes, Terminal
<1>5. HeldJobIsRunning'
  BY DEF IInv, TypeOK, HeldJobIsRunning, Crash, ForgetProcess, NoCancels,
         Idle, rows, Holding
<1>6. ExecutedOnce'
  BY DEF IInv, TypeOK, ExecutedOnce, Crash, ForgetProcess, NoCancels, Idle,
         rows, Holds, Holding
<1>7. JobRegistered'
  BY DEF IInv, TypeOK, JobRegistered, Crash, ForgetProcess, NoCancels, Idle,
         rows
<1>8. CancelMapsExact'
  BY DEF IInv, TypeOK, CancelMapsExact, Crash, ForgetProcess, NoCancels, Idle,
         rows
<1>9. CancelCarried'
  BY DEF IInv, TypeOK, CancelCarried, Crash, ForgetProcess, NoCancels, Idle,
         rows, history
<1>10. CancelSettled'
  BY DEF IInv, CancelSettled, Crash, ForgetProcess, rows, history
<1> QED BY <1>1, <1>2, <1>3, <1>4, <1>5, <1>6, <1>7, <1>8, <1>9, <1>10 DEF IInv

(* A worker between jobs holds nothing.                                    *)
LEMMA CheckContextPreserves ==
  ASSUME IInv, NEW w \in Workers, CheckContext(w)
  PROVE  IInv'
<1>1. TypeOK'
  BY ConstantsAssumption DEF IInv, TypeOK, CheckContext, Goto, rows, procs,
         maps, budgets, Ids, Statuses, Terminal, Outcomes, ProcStates,
         WorkerStates, history
<1>2. WorkersAtHome'
  BY DEF IInv, TypeOK, WorkersAtHome, CheckContext, Goto, rows, procs, maps,
         budgets
<1>3. OutcomeKnown'
  BY DEF IInv, TypeOK, OutcomeKnown, CheckContext, Goto, rows, procs, maps,
         budgets, Outcomes, Terminal
<1>4. HeldJobIsRunning'
  BY DEF IInv, TypeOK, HeldJobIsRunning, CheckContext, Goto, rows, procs,
         maps, budgets, Holding
<1>5. ExecutedOnce'
  BY DEF IInv, TypeOK, ExecutedOnce, CheckContext, Goto, rows, procs, maps,
         budgets, Holds, Holding
<1>6. JobRegistered'
  BY DEF IInv, TypeOK, JobRegistered, CheckContext, Goto, rows, procs, maps,
         budgets
<1>7. CancelMapsExact'
  BY DEF IInv, TypeOK, CancelMapsExact, CheckContext, Goto, rows, procs, maps,
         budgets
<1>8. CancelCarried'
  BY DEF IInv, TypeOK, CancelCarried, CheckContext, Goto, rows, procs, maps,
         budgets, history
<1>9. /\ LockAgrees'
     /\ CancelSettled'
  BY DEF IInv, LockAgrees, CancelSettled, CheckContext, rows, procs, history
<1> QED BY <1>1, <1>2, <1>3, <1>4, <1>5, <1>6, <1>7, <1>8, <1>9 DEF IInv

(* The claimed row was queued, so nobody held it and no cancel of it was   *)
(* acknowledged.                                                           *)
LEMMA ClaimJobPreserves ==
  ASSUME IInv, NEW w \in Workers, ClaimJob(w)
  PROVE  IInv'
<1>1. TypeOK'
  BY ConstantsAssumption DEF IInv, TypeOK, ClaimJob, Goto, IsOldestQueued,
         SetStatus, procs, maps, budgets, Ids, Statuses, Terminal, Outcomes,
         ProcStates, WorkerStates, history
<1>2. WorkersAtHome'
  BY DEF IInv, TypeOK, WorkersAtHome, ClaimJob, Goto, IsOldestQueued,
         SetStatus, procs, maps, budgets
<1>3. OutcomeKnown'
  BY DEF IInv, TypeOK, OutcomeKnown, ClaimJob, Goto, IsOldestQueued,
         SetStatus, procs, maps, budgets, Outcomes, Terminal
<1>4. HeldJobIsRunning'
  BY DEF IInv, TypeOK, HeldJobIsRunning, ClaimJob, Goto, IsOldestQueued,
         SetStatus, procs, maps, budgets, Holding
<1>5. ExecutedOnce'
  BY DEF IInv, TypeOK, ExecutedOnce, ClaimJob, Goto, IsOldestQueued,
         SetStatus, procs, maps, budgets, Holds, Holding, HeldJobIsRunning
<1>6. JobRegistered'
  BY DEF IInv, TypeOK, JobRegistered, ClaimJob, Goto, IsOldestQueued,
         SetStatus, procs, maps, budgets
<1>7. CancelMapsExact'
  BY DEF IInv, TypeOK, CancelMapsExact, ClaimJob, Goto, IsOldestQueued,
         SetStatus, procs, maps, budgets
<1>8. CancelCarried'
  BY DEF IInv, TypeOK, CancelCarried, ClaimJob, Goto, IsOldestQueued,
         SetStatus, procs, maps, budgets, CancelSettled, history
<1>9. CancelSettled'
  BY DEF IInv, TypeOK, CancelSettled, ClaimJob, Goto, IsOldestQueued,
         SetStatus, procs, maps, budgets, history
<1>10. LockAgrees'
  BY DEF IInv, LockAgrees, ClaimJob, procs
<1> QED BY <1>1, <1>2, <1>3, <1>4, <1>5, <1>6, <1>7, <1>8, <1>9, <1>10 DEF IInv

(* See CheckContextPreserves.                                              *)
LEMMA ClaimNothingPreserves ==
  ASSUME IInv, NEW w \in Workers, ClaimNothing(w)
  PROVE  IInv'
<1>1. TypeOK'
  BY ConstantsAssumption DEF IInv, TypeOK, ClaimNothing, Goto, rows, procs,
         maps, budgets, Ids, Statuses, Terminal, Outcomes, ProcStates,
         WorkerStates, history
<1>2. WorkersAtHome'
  BY DEF IInv, TypeOK, WorkersAtHome, ClaimNothing, Goto, rows, procs, maps,
         budgets
<1>3. OutcomeKnown'
  BY DEF IInv, TypeOK, OutcomeKnown, ClaimNothing, Goto, rows, procs, maps,
         budgets, Outcomes, Terminal
<1>4. HeldJobIsRunning'
  BY DEF IInv, TypeOK, HeldJobIsRunning, ClaimNothing, Goto, rows, procs,
         maps, budgets, Holding
<1>5. ExecutedOnce'
  BY DEF IInv, TypeOK, ExecutedOnce, ClaimNothing, Goto, rows, procs, maps,
         budgets, Holds, Holding
<1>6. JobRegistered'
  BY DEF IInv, TypeOK, JobRegistered, ClaimNothing, Goto, rows, procs, maps,
         budgets
<1>7. CancelMapsExact'
  BY DEF IInv, TypeOK, CancelMapsExact, ClaimNothing, Goto, rows, procs, maps,
         budgets
<1>8. CancelCarried'
  BY DEF IInv, TypeOK, CancelCarried, ClaimNothing, Goto, rows, procs, maps,
         budgets, history
<1>9. /\ LockAgrees'
     /\ CancelSettled'
  BY DEF IInv, LockAgrees, CancelSettled, ClaimNothing, rows, procs, history
<1> QED BY <1>1, <1>2, <1>3, <1>4, <1>5, <1>6, <1>7, <1>8, <1>9 DEF IInv

(* See CheckContextPreserves.                                              *)
LEMMA ClaimFailsPreserves ==
  ASSUME IInv, NEW w \in Workers, ClaimFails(w)
  PROVE  IInv'
<1>1. TypeOK'
  BY ConstantsAssumption DEF IInv, TypeOK, ClaimFails, Goto, rows, procs, maps,
         Ids, Statuses, Terminal, Outcomes, ProcStates, WorkerStates, history
<1>2. WorkersAtHome'
  BY DEF IInv, TypeOK, WorkersAtHome, ClaimFails, Goto, rows, procs, maps
<1>3. OutcomeKnown'
  BY DEF IInv, TypeOK, OutcomeKnown, ClaimFails, Goto, rows, procs, maps,
         Outcomes, Terminal
<1>4. HeldJobIsRunning'
  BY DEF IInv, TypeOK, HeldJobIsRunning, ClaimFails, Goto, rows, procs, maps,
         Holding
<1>5. ExecutedOnce'
  BY DEF IInv, TypeOK, ExecutedOnce, ClaimFails, Goto, rows, procs, maps,
         Holds, Holding
<1>6. JobRegistered'
  BY DEF IInv, TypeOK, JobRegistered, ClaimFails, Goto, rows, procs, maps
<1>7. CancelMapsExact'
  BY DEF IInv, TypeOK, CancelMapsExact, ClaimFails, Goto, rows, procs, maps
<1>8. CancelCarried'
  BY DEF IInv, TypeOK, CancelCarried, ClaimFails, Goto, rows, procs, maps,
         history
<1>9. /\ LockAgrees'
     /\ CancelSettled'
  BY DEF IInv, LockAgrees, CancelSettled, ClaimFails, rows, procs, history
<1> QED BY <1>1, <1>2, <1>3, <1>4, <1>5, <1>6, <1>7, <1>8, <1>9 DEF IInv

(* No other worker holds the id, so its entry is free.                     *)
LEMMA RegisterCancelPreserves ==
  ASSUME IInv, NEW w \in Workers, RegisterCancel(w)
  PROVE  IInv'
<1>1. TypeOK'
  BY ConstantsAssumption DEF IInv, TypeOK, RegisterCancel, Goto, rows, procs,
         budgets, Ids, Statuses, Terminal, Outcomes, ProcStates, WorkerStates,
         history
<1>2. WorkersAtHome'
  BY DEF IInv, TypeOK, WorkersAtHome, RegisterCancel, Goto, rows, procs,
         budgets
<1>3. OutcomeKnown'
  BY DEF IInv, TypeOK, OutcomeKnown, RegisterCancel, Goto, rows, procs,
         budgets, Outcomes, Terminal
<1>4. HeldJobIsRunning'
  BY DEF IInv, TypeOK, HeldJobIsRunning, RegisterCancel, Goto, rows, procs,
         budgets, Holding
<1>5. ExecutedOnce'
  BY DEF IInv, TypeOK, ExecutedOnce, RegisterCancel, Goto, rows, procs,
         budgets, Holds, Holding
<1>6. JobRegistered'
  <2>1. /\ cur[w] \in Ids /\ cur' = cur
        /\ pc[w] = "register" /\ pc' = [pc EXCEPT ![w] = "execute"]
        /\ cancels' = [cancels EXCEPT ![Home[w]] = [@ EXCEPT ![cur[w]] = w]]
    BY DEF IInv, HeldJobIsRunning, Holding, RegisterCancel, Goto
  <2>2. ASSUME NEW v \in Workers, pc'[v] \in {"execute", "collect"}
        PROVE  cancels'[Home[v]][cur[v]] = v
    <3>1. CASE v = w
      BY <2>1, <3>1, ConstantsAssumption DEF IInv, TypeOK
    <3>2. CASE v # w
      <4>1. pc[v] \in {"execute", "collect"} /\ cancels[Home[v]][cur[v]] = v
        BY <2>1, <2>2, <3>2 DEF IInv, TypeOK, JobRegistered
      <4>2. cur[v] \in Ids /\ cur[v] # cur[w]
        BY <2>1, <3>2, <4>1
        DEF IInv, HeldJobIsRunning, ExecutedOnce, Holds, Holding
      <4> QED BY <2>1, <4>1, <4>2, ConstantsAssumption DEF IInv, TypeOK
    <3> QED BY <3>1, <3>2
  <2> QED BY <2>1, <2>2 DEF JobRegistered
<1>7. CancelMapsExact'
  BY ConstantsAssumption DEF IInv, TypeOK, CancelMapsExact, RegisterCancel,
         Goto, rows, procs, budgets, HeldJobIsRunning, Holding
<1>8. CancelCarried'
  BY DEF IInv, TypeOK, CancelCarried, RegisterCancel, Goto, rows, procs,
         budgets, history
<1>9. /\ LockAgrees'
     /\ CancelSettled'
  BY DEF IInv, LockAgrees, CancelSettled, RegisterCancel, rows, procs, history
<1> QED BY <1>1, <1>2, <1>3, <1>4, <1>5, <1>6, <1>7, <1>8, <1>9 DEF IInv

(* The end of the grace changes nothing but the job's context.             *)
LEMMA GraceExpiresPreserves ==
  ASSUME IInv, NEW w \in Workers, GraceExpires(w)
  PROVE  IInv'
<1>1. TypeOK'
  BY ConstantsAssumption DEF IInv, TypeOK, GraceExpires, rows, procs, maps,
         budgets, Ids, Statuses, Terminal, Outcomes, ProcStates, WorkerStates,
         history
<1>2. /\ LockAgrees'
     /\ WorkersAtHome'
     /\ OutcomeKnown'
     /\ HeldJobIsRunning'
     /\ ExecutedOnce'
     /\ JobRegistered'
     /\ CancelMapsExact'
     /\ CancelCarried'
     /\ CancelSettled'
  BY DEF IInv, LockAgrees, WorkersAtHome, OutcomeKnown, HeldJobIsRunning,
         ExecutedOnce, JobRegistered, CancelMapsExact, CancelCarried,
         CancelSettled, GraceExpires, rows, procs, maps, Holds, history
<1> QED BY <1>1, <1>2 DEF IInv

(* What the job ended in is one of the outcomes.                           *)
LEMMA ExecutePreserves ==
  ASSUME IInv, NEW w \in Workers, Execute(w)
  PROVE  IInv'
<1>1. TypeOK'
  BY ConstantsAssumption DEF IInv, TypeOK, Execute, Goto, rows, procs, maps,
         budgets, Ids, Statuses, Terminal, Outcomes, ProcStates, WorkerStates,
         history
<1>2. WorkersAtHome'
  BY DEF IInv, TypeOK, WorkersAtHome, Execute, Goto, rows, procs, maps,
         budgets
<1>3. OutcomeKnown'
  BY DEF IInv, TypeOK, OutcomeKnown, Execute, Goto, rows, procs, maps,
         budgets, Outcomes, Terminal
<1>4. HeldJobIsRunning'
  BY DEF IInv, TypeOK, HeldJobIsRunning, Execute, Goto, rows, procs, maps,
         budgets, Holding
<1>5. ExecutedOnce'
  BY DEF IInv, TypeOK, ExecutedOnce, Execute, Goto, rows, procs, maps,
         budgets, Holds, Holding
<1>6. JobRegistered'
  BY DEF IInv, TypeOK, JobRegistered, Execute, Goto, rows, procs, maps,
         budgets
<1>7. CancelMapsExact'
  BY DEF IInv, TypeOK, CancelMapsExact, Execute, Goto, rows, procs, maps,
         budgets
<1>8. CancelCarried'
  BY DEF IInv, TypeOK, CancelCarried, Execute, Goto, rows, procs, maps,
         budgets, history
<1>9. /\ LockAgrees'
     /\ CancelSettled'
  BY DEF IInv, LockAgrees, CancelSettled, Execute, rows, procs, history
<1> QED BY <1>1, <1>2, <1>3, <1>4, <1>5, <1>6, <1>7, <1>8, <1>9 DEF IInv

(* The mark of a cancel moves into the outcome as both map entries go.     *)
LEMMA CollectPreserves ==
  ASSUME IInv, NEW w \in Workers, Collect(w)
  PROVE  IInv'
<1>1. TypeOK'
  BY ConstantsAssumption DEF IInv, TypeOK, Collect, Goto, ForgetJob,
         DropCancel, FinalStatus, rows, procs, budgets, Ids, Statuses,
         Terminal, Outcomes, ProcStates, WorkerStates, history
<1>2. WorkersAtHome'
  BY DEF IInv, TypeOK, WorkersAtHome, Collect, Goto, ForgetJob, DropCancel,
         FinalStatus, rows, procs, budgets
<1>3. OutcomeKnown'
  BY DEF IInv, TypeOK, OutcomeKnown, Collect, Goto, ForgetJob, DropCancel,
         FinalStatus, rows, procs, budgets, Outcomes, Terminal
<1>4. HeldJobIsRunning'
  BY DEF IInv, TypeOK, HeldJobIsRunning, Collect, Goto, ForgetJob, DropCancel,
         FinalStatus, rows, procs, budgets, Holding
<1>5. ExecutedOnce'
  BY DEF IInv, TypeOK, ExecutedOnce, Collect, Goto, ForgetJob, DropCancel,
         FinalStatus, rows, procs, budgets, Holds, Holding
<1>6. JobRegistered'
  BY DEF IInv, TypeOK, JobRegistered, Collect, Goto, ForgetJob, DropCancel,
         FinalStatus, rows, procs, budgets, ExecutedOnce, Holds, Holding,
         HeldJobIsRunning
<1>7. CancelMapsExact'
  BY DEF IInv, TypeOK, CancelMapsExact, Collect, Goto, ForgetJob, DropCancel,
         FinalStatus, rows, procs, budgets, HeldJobIsRunning, Holding,
         JobRegistered
<1>8. CancelCarried'
  BY DEF IInv, TypeOK, CancelCarried, Collect, Goto, ForgetJob, DropCancel,
         FinalStatus, rows, procs, budgets, ExecutedOnce, Holds, Holding,
         OutcomeKnown, Outcomes, HeldJobIsRunning, history
<1>9. /\ LockAgrees'
     /\ CancelSettled'
  BY DEF IInv, LockAgrees, CancelSettled, Collect, rows, procs, history
<1> QED BY <1>1, <1>2, <1>3, <1>4, <1>5, <1>6, <1>7, <1>8, <1>9 DEF IInv

(* The row gets the settled outcome, and no other worker holds it.         *)
LEMMA FinishJobPreserves ==
  ASSUME IInv, NEW w \in Workers, FinishJob(w)
  PROVE  IInv'
<1>1. TypeOK'
  BY ConstantsAssumption DEF IInv, TypeOK, FinishJob, Release, Goto, SetStatus,
         procs, maps, budgets, Ids, Statuses, Terminal, Outcomes, ProcStates,
         WorkerStates, OutcomeKnown, history
<1>2. WorkersAtHome'
  BY DEF IInv, TypeOK, WorkersAtHome, FinishJob, Release, Goto, SetStatus,
         procs, maps, budgets
<1>3. OutcomeKnown'
  BY DEF IInv, TypeOK, OutcomeKnown, FinishJob, Release, Goto, SetStatus,
         procs, maps, budgets, Outcomes, Terminal
<1>4. HeldJobIsRunning'
  BY DEF IInv, TypeOK, HeldJobIsRunning, FinishJob, Release, Goto, SetStatus,
         procs, maps, budgets, Holding, ExecutedOnce, Holds
<1>5. ExecutedOnce'
  BY DEF IInv, TypeOK, ExecutedOnce, FinishJob, Release, Goto, SetStatus,
         procs, maps, budgets, Holds, Holding
<1>6. JobRegistered'
  BY DEF IInv, TypeOK, JobRegistered, FinishJob, Release, Goto, SetStatus,
         procs, maps, budgets
<1>7. CancelMapsExact'
  BY DEF IInv, TypeOK, CancelMapsExact, FinishJob, Release, Goto, SetStatus,
         procs, maps, budgets
<1>8. CancelCarried'
  BY DEF IInv, TypeOK, CancelCarried, FinishJob, Release, Goto, SetStatus,
         procs, maps, budgets, history
<1>9. CancelSettled'
  BY DEF IInv, TypeOK, CancelSettled, FinishJob, Release, Goto, SetStatus,
         procs, maps, budgets, CancelCarried, OutcomeKnown, Terminal,
         HeldJobIsRunning, Holding, history
<1>10. LockAgrees'
  BY DEF IInv, LockAgrees, FinishJob, Release, procs
<1> QED BY <1>1, <1>2, <1>3, <1>4, <1>5, <1>6, <1>7, <1>8, <1>9, <1>10 DEF IInv

(* The row stays running and nobody holds it any more.                     *)
LEMMA FinishFailsPreserves ==
  ASSUME IInv, NEW w \in Workers, FinishFails(w)
  PROVE  IInv'
<1>1. TypeOK'
  BY ConstantsAssumption DEF IInv, TypeOK, FinishFails, Release, Goto, rows,
         procs, maps, Ids, Statuses, Terminal, Outcomes, ProcStates,
         WorkerStates, history
<1>2. WorkersAtHome'
  BY DEF IInv, TypeOK, WorkersAtHome, FinishFails, Release, Goto, rows, procs,
         maps
<1>3. OutcomeKnown'
  BY DEF IInv, TypeOK, OutcomeKnown, FinishFails, Release, Goto, rows, procs,
         maps, Outcomes, Terminal
<1>4. HeldJobIsRunning'
  BY DEF IInv, TypeOK, HeldJobIsRunning, FinishFails, Release, Goto, rows,
         procs, maps, Holding
<1>5. ExecutedOnce'
  BY DEF IInv, TypeOK, ExecutedOnce, FinishFails, Release, Goto, rows, procs,
         maps, Holds, Holding
<1>6. JobRegistered'
  BY DEF IInv, TypeOK, JobRegistered, FinishFails, Release, Goto, rows, procs,
         maps
<1>7. CancelMapsExact'
  BY DEF IInv, TypeOK, CancelMapsExact, FinishFails, Release, Goto, rows,
         procs, maps
<1>8. CancelCarried'
  BY DEF IInv, TypeOK, CancelCarried, FinishFails, Release, Goto, rows, procs,
         maps, history
<1>9. /\ LockAgrees'
     /\ CancelSettled'
  BY DEF IInv, LockAgrees, CancelSettled, FinishFails, Release, rows, procs,
         history
<1> QED BY <1>1, <1>2, <1>3, <1>4, <1>5, <1>6, <1>7, <1>8, <1>9 DEF IInv

(* See CheckContextPreserves.                                              *)
LEMMA WaitStoppedPreserves ==
  ASSUME IInv, NEW w \in Workers, WaitStopped(w)
  PROVE  IInv'
<1>1. TypeOK'
  BY ConstantsAssumption DEF IInv, TypeOK, WaitStopped, Goto, rows, procs,
         maps, budgets, Ids, Statuses, Terminal, Outcomes, ProcStates,
         WorkerStates, history
<1>2. WorkersAtHome'
  BY DEF IInv, TypeOK, WorkersAtHome, WaitStopped, Goto, rows, procs, maps,
         budgets
<1>3. OutcomeKnown'
  BY DEF IInv, TypeOK, OutcomeKnown, WaitStopped, Goto, rows, procs, maps,
         budgets, Outcomes, Terminal
<1>4. HeldJobIsRunning'
  BY DEF IInv, TypeOK, HeldJobIsRunning, WaitStopped, Goto, rows, procs, maps,
         budgets, Holding
<1>5. ExecutedOnce'
  BY DEF IInv, TypeOK, ExecutedOnce, WaitStopped, Goto, rows, procs, maps,
         budgets, Holds, Holding
<1>6. JobRegistered'
  BY DEF IInv, TypeOK, JobRegistered, WaitStopped, Goto, rows, procs, maps,
         budgets
<1>7. CancelMapsExact'
  BY DEF IInv, TypeOK, CancelMapsExact, WaitStopped, Goto, rows, procs, maps,
         budgets
<1>8. CancelCarried'
  BY DEF IInv, TypeOK, CancelCarried, WaitStopped, Goto, rows, procs, maps,
         budgets, history
<1>9. /\ LockAgrees'
     /\ CancelSettled'
  BY DEF IInv, LockAgrees, CancelSettled, WaitStopped, rows, procs, history
<1> QED BY <1>1, <1>2, <1>3, <1>4, <1>5, <1>6, <1>7, <1>8, <1>9 DEF IInv

(* See CheckContextPreserves.                                              *)
LEMMA WaitWokenPreserves ==
  ASSUME IInv, NEW w \in Workers, WaitWoken(w)
  PROVE  IInv'
<1>1. TypeOK'
  BY ConstantsAssumption DEF IInv, TypeOK, WaitWoken, Goto, rows, maps,
         budgets, Ids, Statuses, Terminal, Outcomes, ProcStates, WorkerStates,
         history
<1>2. WorkersAtHome'
  BY DEF IInv, TypeOK, WorkersAtHome, WaitWoken, Goto, rows, maps, budgets
<1>3. OutcomeKnown'
  BY DEF IInv, TypeOK, OutcomeKnown, WaitWoken, Goto, rows, maps, budgets,
         Outcomes, Terminal
<1>4. HeldJobIsRunning'
  BY DEF IInv, TypeOK, HeldJobIsRunning, WaitWoken, Goto, rows, maps, budgets,
         Holding
<1>5. ExecutedOnce'
  BY DEF IInv, TypeOK, ExecutedOnce, WaitWoken, Goto, rows, maps, budgets,
         Holds, Holding
<1>6. JobRegistered'
  BY DEF IInv, TypeOK, JobRegistered, WaitWoken, Goto, rows, maps, budgets
<1>7. CancelMapsExact'
  BY DEF IInv, TypeOK, CancelMapsExact, WaitWoken, Goto, rows, maps, budgets
<1>8. CancelCarried'
  BY DEF IInv, TypeOK, CancelCarried, WaitWoken, Goto, rows, maps, budgets,
         history
<1>9. /\ LockAgrees'
     /\ CancelSettled'
  BY DEF IInv, LockAgrees, CancelSettled, WaitWoken, rows, history
<1> QED BY <1>1, <1>2, <1>3, <1>4, <1>5, <1>6, <1>7, <1>8, <1>9 DEF IInv

(* See CheckContextPreserves.                                              *)
LEMMA WaitTickerPreserves ==
  ASSUME IInv, NEW w \in Workers, WaitTicker(w)
  PROVE  IInv'
<1>1. TypeOK'
  BY ConstantsAssumption DEF IInv, TypeOK, WaitTicker, Goto, rows, procs, maps,
         budgets, Ids, Statuses, Terminal, Outcomes, ProcStates, WorkerStates,
         history
<1>2. WorkersAtHome'
  BY DEF IInv, TypeOK, WorkersAtHome, WaitTicker, Goto, rows, procs, maps,
         budgets
<1>3. OutcomeKnown'
  BY DEF IInv, TypeOK, OutcomeKnown, WaitTicker, Goto, rows, procs, maps,
         budgets, Outcomes, Terminal
<1>4. HeldJobIsRunning'
  BY DEF IInv, TypeOK, HeldJobIsRunning, WaitTicker, Goto, rows, procs, maps,
         budgets, Holding
<1>5. ExecutedOnce'
  BY DEF IInv, TypeOK, ExecutedOnce, WaitTicker, Goto, rows, procs, maps,
         budgets, Holds, Holding
<1>6. JobRegistered'
  BY DEF IInv, TypeOK, JobRegistered, WaitTicker, Goto, rows, procs, maps,
         budgets
<1>7. CancelMapsExact'
  BY DEF IInv, TypeOK, CancelMapsExact, WaitTicker, Goto, rows, procs, maps,
         budgets
<1>8. CancelCarried'
  BY DEF IInv, TypeOK, CancelCarried, WaitTicker, Goto, rows, procs, maps,
         budgets, history
<1>9. /\ LockAgrees'
     /\ CancelSettled'
  BY DEF IInv, LockAgrees, CancelSettled, WaitTicker, rows, procs, history
<1> QED BY <1>1, <1>2, <1>3, <1>4, <1>5, <1>6, <1>7, <1>8, <1>9 DEF IInv

-----------------------------------------------------------------------------

(* At the start there are no rows, no processes and no workers.            *)
LEMMA InitEstablishes == Init => IInv
<1> SUFFICES ASSUME Init PROVE IInv
  OBVIOUS
<1>1. TypeOK
  BY ConstantsAssumption
  DEF Init, TypeOK, NoCancels, Idle, Ids, Statuses, Terminal, Outcomes,
      ProcStates, WorkerStates
<1>2. LockAgrees /\ WorkersAtHome /\ OutcomeKnown
  BY ConstantsAssumption DEF Init, LockAgrees, WorkersAtHome, OutcomeKnown
<1>3. HeldJobIsRunning /\ ExecutedOnce /\ JobRegistered
  BY DEF Init, HeldJobIsRunning, ExecutedOnce, Holds, Holding, JobRegistered
<1>4. CancelMapsExact /\ CancelCarried /\ CancelSettled
  BY ConstantsAssumption
  DEF Init, NoCancels, CancelMapsExact, CancelCarried, CancelSettled
<1> QED BY <1>1, <1>2, <1>3, <1>4 DEF IInv

(* IInv speaks of the variables only.                                      *)
LEMMA StutterPreserves == ASSUME IInv, UNCHANGED vars PROVE IInv'
BY DEF IInv, vars, rows, procs, threads, maps, history, budgets, TypeOK,
       LockAgrees, WorkersAtHome, OutcomeKnown, HeldJobIsRunning, ExecutedOnce, Holds,
       JobRegistered, CancelMapsExact, CancelCarried, CancelSettled

(* Every step keeps IInv.                                                  *)
LEMMA NextPreserves == IInv /\ [Next]_vars => IInv'
<1> SUFFICES ASSUME IInv, [Next]_vars PROVE IInv'
  OBVIOUS
<1>1. ASSUME NEW p \in Procs, Handler(p) PROVE IInv'
  BY <1>1, SubmitJobPreserves, RetryJobPreserves, DeleteJobPreserves,
     CancelRunningPreserves, CancelNotHerePreserves, CancelGetJobPreserves,
     CancelUpdatePreserves DEF Handler
<1>2. ASSUME NEW p \in Procs, QueueOwner(p) PROVE IInv'
  BY <1>2, TryLockPreserves, GiveUpLockPreserves, RecoverPreserves,
     RecoverFailsPreserves, ReleaseLockPreserves, ExitProcessPreserves
     DEF QueueOwner
<1>3. ASSUME NEW p \in Procs, StartProcess(p) \/ StopProcess(p) \/ Crash(p)
      PROVE  IInv'
  BY <1>3, StartProcessPreserves, StopProcessPreserves, CrashPreserves
<1>4. ASSUME NEW w \in Workers, Worker(w) PROVE IInv'
  BY <1>4, CheckContextPreserves, ClaimJobPreserves, ClaimNothingPreserves,
     ClaimFailsPreserves, RegisterCancelPreserves, ExecutePreserves,
     CollectPreserves, FinishJobPreserves, FinishFailsPreserves,
     WaitStoppedPreserves, WaitWokenPreserves, WaitTickerPreserves
     DEF Worker
<1>5. ASSUME NEW w \in Workers, GraceExpires(w) PROVE IInv'
  BY <1>5, GraceExpiresPreserves
<1> QED BY <1>1, <1>2, <1>3, <1>4, <1>5, StutterPreserves DEF Next

(* IInv holds of every state the queue can reach.                          *)
THEOREM Inductive == Spec => []IInv
BY InitEstablishes, NextPreserves, PTL DEF Spec

(* The variables have their types: no id outside the table, no status      *)
(* that is not one of the table's, no outcome left unsettled.              *)
THEOREM TypeCorrect == Spec => []TypeOK
<1>1. IInv => TypeOK
  BY DEF IInv
<1> QED BY <1>1, Inductive, PTL

(* At most one process runs workers, the holder of the flock, whatever     *)
(* processes start, stop and crash.                                        *)
THEOREM SingleOwner == Spec => []OneQueueRunner
<1>1. IInv => OneQueueRunner
  BY DEF IInv, LockAgrees, WorkersAtHome, OneQueueRunner, Live, WorkersOf
<1> QED BY <1>1, Inductive, PTL

(* A job is never executed by two workers.                                 *)
THEOREM NoDoubleExecution == Spec => []ExecutedOnce
<1>1. IInv => ExecutedOnce
  BY DEF IInv
<1> QED BY <1>1, Inductive, PTL

(* The row of a job in a worker's hands stays running until the worker     *)
(* writes it.                                                              *)
THEOREM HeldRowsStayRunning == Spec => []HeldJobIsRunning
<1>1. IInv => HeldJobIsRunning
  BY DEF IInv
<1> QED BY <1>1, Inductive, PTL

(* Runner.cancels and Runner.cancelled speak of the jobs being executed.   *)
THEOREM CancelMapsCorrect == Spec => []CancelMapsExact
<1>1. IInv => CancelMapsExact
  BY DEF IInv
<1> QED BY <1>1, Inductive, PTL

-----------------------------------------------------------------------------
(* The queue implements the life of a job: the statements that change the  *)
(* status column map to the actions of JobLifecycle, everything else       *)
(* leaves the column alone.                                                *)

(* Only seven actions write the jobs table.                                *)
LEMMA StatusUntouched ==
  /\ \A p \in Procs :
       \/ CancelRunning(p) \/ CancelNotHere(p) \/ CancelGetJob(p)
       \/ TryLock(p) \/ GiveUpLock(p) \/ RecoverFails(p) \/ ReleaseLock(p)
       \/ ExitProcess(p) \/ StartProcess(p) \/ StopProcess(p) \/ Crash(p)
       => UNCHANGED status
  /\ \A w \in Workers :
       \/ CheckContext(w) \/ ClaimNothing(w) \/ ClaimFails(w)
       \/ RegisterCancel(w) \/ Execute(w) \/ Collect(w) \/ FinishFails(w)
       \/ WaitStopped(w) \/ WaitWoken(w) \/ WaitTicker(w) \/ GraceExpires(w)
       => UNCHANGED status
BY DEF rows, CancelRunning, CancelNotHere, CancelGetJob, TryLock, GiveUpLock,
       RecoverFails, ReleaseLock, ExitProcess, StartProcess, StopProcess, Crash,
       CheckContext, ClaimNothing, ClaimFails, RegisterCancel, Execute, Collect,
       FinishFails, WaitStopped, WaitWoken, WaitTicker, GraceExpires

(* Every step of the queue is a step of JobLifecycle or none.              *)
LEMMA StepRefines == IInv /\ [Next]_vars => [Lifecycle!Next]_status
<1> SUFFICES ASSUME IInv, [Next]_vars PROVE [Lifecycle!Next]_status
  OBVIOUS
<1> USE DEF Lifecycle!Next, Lifecycle!Ids, Ids, Lifecycle!Become, SetStatus
<1>1. ASSUME NEW p \in Procs, SubmitJob(p) \/ RetryJob(p)
      PROVE  \E id \in Ids : Lifecycle!Submit(id)
  BY <1>1 DEF SubmitJob, RetryJob, InsertQueued, IsNextId, Lifecycle!Submit,
              Lifecycle!IsNextId
<1>2. ASSUME NEW p \in Procs, DeleteJob(p)
      PROVE  \E id \in Ids : Lifecycle!Remove(id)
  <2>1. PICK id \in Ids : Deletable(id) /\ SetStatus(id, "absent")
    BY <1>2 DEF DeleteJob
  <2> QED BY <2>1 DEF IInv, TypeOK, Deletable, Statuses, Terminal,
                      Lifecycle!Remove, Lifecycle!Terminal
<1>3. ASSUME NEW p \in Procs, CancelUpdate(p)
      PROVE  UNCHANGED status \/ \E id \in Ids : Lifecycle!Withdraw(id)
  <2> DEFINE id == request[p].id
  <2>1. id \in Ids \cup {0}
    BY DEF IInv, TypeOK
  <2>2. CASE id \in Ids
    BY <1>3, <2>2 DEF CancelUpdate, Cancellable, Lifecycle!Withdraw
  <2>3. CASE id = 0
    BY <1>3, <2>3, ConstantsAssumption DEF CancelUpdate, IInv, TypeOK
  <2> QED BY <2>1, <2>2, <2>3
<1>4. ASSUME NEW p \in Procs, Recover(p)
      PROVE  UNCHANGED status \/ Lifecycle!FailRunning
  <2>1. CASE \E id \in Ids : status[id] = "running"
    BY <1>4, <2>1 DEF Recover, IsRunning, Lifecycle!FailRunning
  <2>2. CASE ~ \E id \in Ids : status[id] = "running"
    BY <1>4, <2>2 DEF Recover, IsRunning, IInv, TypeOK
  <2> QED BY <2>1, <2>2
<1>5. ASSUME NEW w \in Workers, ClaimJob(w)
      PROVE  \E id \in Ids : Lifecycle!Claim(id)
  BY <1>5 DEF ClaimJob, IsOldestQueued, Lifecycle!Claim, Lifecycle!IsOldestQueued
<1>6. ASSUME NEW w \in Workers, FinishJob(w)
      PROVE  \E id \in Ids : Lifecycle!Finish(id)
  <2>1. cur[w] \in Ids /\ status[cur[w]] = "running" /\ outcome[w] \in Terminal
    BY <1>6 DEF FinishJob, IInv, HeldJobIsRunning, Holding, OutcomeKnown
  <2> QED BY <1>6, <2>1 DEF FinishJob, Lifecycle!Finish, Lifecycle!Terminal, Terminal
<1>7. CASE UNCHANGED vars
  BY <1>7 DEF vars, rows
<1>8. CASE Next
  <2>1. ASSUME NEW p \in Procs, Handler(p) PROVE [Lifecycle!Next]_status
    BY <2>1, <1>1, <1>2, <1>3, StatusUntouched DEF Handler
  <2>2. ASSUME NEW p \in Procs, QueueOwner(p) PROVE [Lifecycle!Next]_status
    BY <2>2, <1>4, StatusUntouched DEF QueueOwner
  <2>3. ASSUME NEW w \in Workers, Worker(w) PROVE [Lifecycle!Next]_status
    BY <2>3, <1>5, <1>6, StatusUntouched DEF Worker
  <2> QED BY <1>8, <2>1, <2>2, <2>3, StatusUntouched DEF Next
<1> QED BY <1>7, <1>8

(* The queue, with its workers, processes, stops, crashes and failed       *)
(* writes, implements the life of a job as JobLifecycle states it.         *)
THEOREM LifecycleImplemented == Spec => ImplementsLifecycle
<1>1. Init => Lifecycle!Init
  BY DEF Init, Lifecycle!Init, Ids, Lifecycle!Ids
<1> QED BY <1>1, StepRefines, Inductive, PTL
        DEF Spec, ImplementsLifecycle, Lifecycle!Spec

(* The end of a job is never rewritten, only deleted.                      *)
THEOREM EndNeverRewritten == Spec => EndIsFinal
<1> DEFINE Kept == \A id \in Ids : status[id] \in Terminal =>
                                     status'[id] \in {status[id], "absent"}
<1>1. IInv /\ [Next]_vars => Kept
  <2> SUFFICES ASSUME IInv, [Next]_vars PROVE Kept
    OBVIOUS
  <2>1. [Lifecycle!Next]_status
    BY StepRefines
  <2>2. CASE UNCHANGED status
    BY <2>2
  <2>3. CASE Lifecycle!Next
    <3>1. ASSUME NEW id \in Ids, status[id] \in Terminal
          PROVE  status'[id] \in {status[id], "absent"}
      <4> USE DEF Lifecycle!Ids, Ids, Lifecycle!Become
      <4>1. status \in [Ids -> Statuses] /\ status[id] \notin {"absent", "queued", "running"}
        BY <3>1 DEF IInv, TypeOK, Terminal
      <4>2. ASSUME NEW k \in Ids, Lifecycle!Submit(k)
            PROVE  status'[id] = status[id]
        <5>1. status[k] = "absent" /\ status' = [status EXCEPT ![k] = "queued"]
          BY <4>2, ConstantsAssumption DEF Lifecycle!Submit, Lifecycle!IsNextId
        <5> QED BY <4>1, <5>1
      <4>3. ASSUME NEW k \in Ids,
                   Lifecycle!Claim(k) \/ Lifecycle!Finish(k) \/ Lifecycle!Withdraw(k)
            PROVE  status'[id] = status[id]
        BY <4>1, <4>3 DEF Lifecycle!Claim, Lifecycle!IsOldestQueued,
                          Lifecycle!Finish, Lifecycle!Withdraw
      <4>4. ASSUME NEW k \in Ids, Lifecycle!Remove(k)
            PROVE  status'[id] \in {status[id], "absent"}
        BY <4>1, <4>4 DEF Lifecycle!Remove
      <4>5. Lifecycle!FailRunning => status'[id] = status[id]
        BY <4>1 DEF Lifecycle!FailRunning
      <4> QED BY <2>3, <4>2, <4>3, <4>4, <4>5 DEF Lifecycle!Next
    <3> QED BY <3>1
  <2> QED BY <2>1, <2>2, <2>3
<1> QED BY <1>1, Inductive, PTL DEF Spec, EndIsFinal

-----------------------------------------------------------------------------
(* NoOrphanJob is inductive relative to IInv: a row that is running after  *)
(* a step was claimed in it, or was running before it and its holder still *)
(* holds it.                                                               *)

(* A worker that holds a job still holds it after any step that is not a   *)
(* crash, unless that step ends the job's row.                             *)
LEMMA HolderStays ==
  ASSUME IInv, Next, faults' = 0, crashes' = 0,
         NEW w \in Workers, NEW id \in Ids, Holds(w, id), status'[id] = "running"
  PROVE  Holds(w, id)'
<1> USE DEF Holds, Holding
<1>1. /\ pc \in [Workers -> WorkerStates] /\ cur \in [Workers -> Ids \cup {0}]
      /\ status \in [Ids -> Statuses] /\ outcome[w] # "running"
      /\ faults \in Nat /\ crashes \in Nat
      /\ pc[w] = "finish" => outcome[w] \in Terminal
      /\ proc[Home[w]] = "serving"
      /\ pc[w] \in {"register", "execute", "collect", "finish"} /\ cur[w] = id
  BY ConstantsAssumption
  DEF IInv, TypeOK, OutcomeKnown, WorkersAtHome, Outcomes, Terminal
<1>2. ASSUME NEW p \in Procs, Handler(p) PROVE pc'[w] = pc[w] /\ cur'[w] = cur[w]
  BY <1>2 DEF Handler, SubmitJob, RetryJob, DeleteJob, CancelRunning,
              CancelNotHere, CancelGetJob, CancelUpdate, threads
<1>3. ASSUME NEW p \in Procs, QueueOwner(p) PROVE pc'[w] = pc[w] /\ cur'[w] = cur[w]
  <2>1. TryLock(p) \/ GiveUpLock(p) \/ ReleaseLock(p)
          => pc'[w] = pc[w] /\ cur'[w] = cur[w]
    BY DEF TryLock, GiveUpLock, ReleaseLock, threads
  <2>2. Recover(p) \/ RecoverFails(p) => pc'[w] = pc[w] /\ cur'[w] = cur[w]
    BY <1>1 DEF Recover, RecoverFails, StartWorkers
  <2>3. ExitProcess(p) => pc'[w] = pc[w] /\ cur'[w] = cur[w]
    BY <1>1 DEF ExitProcess, ForgetProcess
  <2> QED BY <1>3, <2>1, <2>2, <2>3 DEF QueueOwner
<1>4. ASSUME NEW p \in Procs, StartProcess(p) \/ StopProcess(p)
      PROVE  pc'[w] = pc[w] /\ cur'[w] = cur[w]
  BY <1>4 DEF StartProcess, StopProcess, threads
<1>5. ASSUME NEW p \in Procs, Crash(p) PROVE FALSE
  BY <1>1, <1>5 DEF Crash
<1>6. ASSUME NEW v \in Workers, Worker(v)
      PROVE  pc'[w] \in Holding /\ cur'[w] = id
  <2>1. CASE v # w
    BY <1>1, <1>6, <2>1
    DEF Worker, CheckContext, ClaimJob, ClaimNothing, ClaimFails, RegisterCancel,
        Execute, Collect, FinishJob, FinishFails, WaitStopped, WaitWoken,
        WaitTicker, Goto, Release
  <2>2. CASE v = w
    <3>1. ~FinishFails(v) /\ ~FinishJob(v)
      BY <1>1, <2>2 DEF FinishFails, FinishJob, SetStatus, Terminal
    <3> QED BY <1>1, <1>6, <2>2, <3>1
        DEF Worker, CheckContext, ClaimJob, ClaimNothing, ClaimFails,
            RegisterCancel, Execute, Collect, WaitStopped, WaitWoken,
            WaitTicker, Goto
  <2> QED BY <2>1, <2>2
<1>7. ASSUME NEW v \in Workers, GraceExpires(v)
      PROVE  pc'[w] = pc[w] /\ cur'[w] = cur[w]
  BY <1>7 DEF GraceExpires
<1> QED BY <1>1, <1>2, <1>3, <1>4, <1>5, <1>6, <1>7 DEF Next

(* A row becomes running only by being claimed, and its worker then holds  *)
(* it.                                                                     *)
LEMMA RunningWasClaimed ==
  ASSUME IInv, Next, NEW id \in Ids, status[id] # "running", status'[id] = "running"
  PROVE  Held(id)'
<1> USE DEF IInv, TypeOK
<1>1. \A p \in Procs : ~SubmitJob(p) /\ ~RetryJob(p)
  BY DEF SubmitJob, RetryJob, InsertQueued, SetStatus
<1>2. \A p \in Procs : ~DeleteJob(p) /\ ~CancelUpdate(p) /\ ~Recover(p)
  BY DEF DeleteJob, CancelUpdate, Recover, SetStatus
<1>3. ASSUME NEW w \in Workers, FinishJob(w) PROVE FALSE
  BY <1>3 DEF FinishJob, SetStatus, OutcomeKnown, Terminal
<1>4. ASSUME NEW w \in Workers, ClaimJob(w) PROVE Held(id)'
  <2>1. PICK j \in Ids : SetStatus(j, "running") /\ cur' = [cur EXCEPT ![w] = j]
    BY <1>4 DEF ClaimJob
  <2>2. j = id /\ pc'[w] = "register"
    BY <1>4, <2>1 DEF ClaimJob, SetStatus, Goto
  <2> QED BY <2>1, <2>2 DEF Held, Holds, Holding
<1>5. \E w \in Workers : ClaimJob(w)
  BY <1>1, <1>2, <1>3, StatusUntouched DEF Next, Handler, QueueOwner, Worker
<1> QED BY <1>4, <1>5

(* Without crashes and failed writes a running row keeps its worker.       *)
LEMMA NoOrphanPreserved == IInv /\ NoOrphanJob /\ [Next]_vars => NoOrphanJob'
<1> SUFFICES ASSUME IInv, NoOrphanJob, Next, faults' = 0, crashes' = 0,
                    NEW id \in Ids, status'[id] = "running"
             PROVE  Held(id)'
  BY DEF NoOrphanJob, Held, Holds, vars, rows, threads, budgets
<1>1. faults = 0 /\ crashes = 0
  <2>1. faults \in Nat /\ crashes \in Nat
    BY ConstantsAssumption DEF IInv, TypeOK
  <2>2. UNCHANGED faults \/ faults' = faults + 1
    BY DEF Next, Handler, QueueOwner, Worker, SubmitJob, RetryJob, DeleteJob,
      CancelRunning, CancelNotHere, CancelGetJob, CancelUpdate, TryLock,
      GiveUpLock, Recover, RecoverFails, ReleaseLock, ExitProcess, StartProcess,
      StopProcess, Crash, CheckContext, ClaimJob, ClaimNothing, ClaimFails,
      RegisterCancel, Execute, Collect, FinishJob, FinishFails, WaitStopped,
      WaitWoken, WaitTicker, GraceExpires, budgets
  <2>3. UNCHANGED crashes \/ crashes' = crashes + 1
    BY DEF Next, Handler, QueueOwner, Worker, SubmitJob, RetryJob, DeleteJob,
      CancelRunning, CancelNotHere, CancelGetJob, CancelUpdate, TryLock,
      GiveUpLock, Recover, RecoverFails, ReleaseLock, ExitProcess, StartProcess,
      StopProcess, Crash, CheckContext, ClaimJob, ClaimNothing, ClaimFails,
      RegisterCancel, Execute, Collect, FinishJob, FinishFails, WaitStopped,
      WaitWoken, WaitTicker, GraceExpires, budgets
  <2> QED BY <2>1, <2>2, <2>3
<1>2. CASE status[id] = "running"
  <2>1. PICK w \in Workers : Holds(w, id)
    BY <1>1, <1>2 DEF NoOrphanJob, Held
  <2> QED BY <2>1, HolderStays DEF Held
<1>3. CASE status[id] # "running"
  BY <1>3, RunningWasClaimed
<1> QED BY <1>2, <1>3

(* Without a crash or a failed write every running row is in the hands of  *)
(* a worker; a graceful stop leaves no row running behind it.              *)
THEOREM NothingLeftBehind == Spec => []NoOrphanJob
<1>1. Init => NoOrphanJob
  BY DEF Init, NoOrphanJob
<1> QED BY <1>1, NoOrphanPreserved, Inductive, PTL DEF Spec

-----------------------------------------------------------------------------
(* A recovery that fails an acknowledged job found its row running with no *)
(* worker anywhere, which NoOrphanJob allows only after a crash or a       *)
(* failed write.                                                           *)

InterruptedInTrouble == interrupted # {} => crashes + faults > 0

(* Only a recovery adds to interrupted, and the trouble so far is never    *)
(* forgotten.                                                              *)
LEMMA TroubleRemembered ==
  IInv /\ NoOrphanJob /\ InterruptedInTrouble /\ [Next]_vars
    => InterruptedInTrouble'
<1> SUFFICES ASSUME IInv, NoOrphanJob, InterruptedInTrouble, [Next]_vars
             PROVE  InterruptedInTrouble'
  OBVIOUS
<1>1. faults \in Nat /\ crashes \in Nat
  BY ConstantsAssumption DEF IInv, TypeOK
<1>2. UNCHANGED faults \/ faults' = faults + 1
  BY DEF Next, Handler, QueueOwner, Worker, SubmitJob, RetryJob, DeleteJob,
    CancelRunning, CancelNotHere, CancelGetJob, CancelUpdate, TryLock,
    GiveUpLock, Recover, RecoverFails, ReleaseLock, ExitProcess, StartProcess,
    StopProcess, Crash, CheckContext, ClaimJob, ClaimNothing, ClaimFails,
    RegisterCancel, Execute, Collect, FinishJob, FinishFails, WaitStopped,
    WaitWoken, WaitTicker, GraceExpires, budgets, vars
<1>3. UNCHANGED crashes \/ crashes' = crashes + 1
  BY DEF Next, Handler, QueueOwner, Worker, SubmitJob, RetryJob, DeleteJob,
    CancelRunning, CancelNotHere, CancelGetJob, CancelUpdate, TryLock,
    GiveUpLock, Recover, RecoverFails, ReleaseLock, ExitProcess, StartProcess,
    StopProcess, Crash, CheckContext, ClaimJob, ClaimNothing, ClaimFails,
    RegisterCancel, Execute, Collect, FinishJob, FinishFails, WaitStopped,
    WaitWoken, WaitTicker, GraceExpires, budgets, vars
<1>4. CASE \E p \in Procs : Recover(p)
  <2>1. PICK p \in Procs : Recover(p)
    BY <1>4
  <2>2. \A w \in Workers : pc[w] = "off"
    BY <2>1, ConstantsAssumption
    DEF Recover, IInv, TypeOK, WorkersAtHome, LockAgrees
  <2>3. \A id \in Ids : ~Held(id)
    BY <2>2 DEF Held, Holds, Holding
  <2>4. CASE \E id \in acked : IsRunning(id)
    <3>1. ~(faults = 0 /\ crashes = 0)
      BY <2>3, <2>4 DEF NoOrphanJob, IsRunning, IInv, TypeOK
    <3> QED BY <1>1, <1>2, <1>3, <3>1 DEF InterruptedInTrouble
  <2>5. CASE ~ \E id \in acked : IsRunning(id)
    <3>1. interrupted' = interrupted
      BY <2>1, <2>5 DEF Recover
    <3> QED BY <1>1, <1>2, <1>3, <3>1 DEF InterruptedInTrouble
  <2> QED BY <2>4, <2>5
<1>5. CASE ~ \E p \in Procs : Recover(p)
  <2>1. interrupted' \subseteq interrupted
    BY <1>5
    DEF Next, Handler, QueueOwner, Worker, SubmitJob, RetryJob, DeleteJob,
      CancelRunning, CancelNotHere, CancelGetJob, CancelUpdate, TryLock,
      GiveUpLock, RecoverFails, ReleaseLock, ExitProcess, StartProcess,
      StopProcess, Crash, CheckContext, ClaimJob, ClaimNothing, ClaimFails,
      RegisterCancel, Execute, Collect, FinishJob, FinishFails, WaitStopped,
      WaitWoken, WaitTicker, GraceExpires, history, vars
  <2> QED BY <1>1, <1>2, <1>3, <2>1 DEF InterruptedInTrouble
<1> QED BY <1>4, <1>5

(* A cancel that was acknowledged ends as cancelled or done, unless a      *)
(* recovery reported the job failed, and that happens only after a crash   *)
(* or a failed write: not by the job's own end, nor by a graceful stop.    *)
THEOREM CancelNeverLost == Spec => []CancelHonoured
<1>1. Init => NoOrphanJob /\ InterruptedInTrouble
  BY DEF Init, NoOrphanJob, InterruptedInTrouble
<1>2. IInv /\ NoOrphanJob /\ InterruptedInTrouble /\ [Next]_vars
        => (NoOrphanJob /\ InterruptedInTrouble)'
  BY NoOrphanPreserved, TroubleRemembered
<1>3. IInv /\ InterruptedInTrouble => CancelHonoured
  BY DEF IInv, CancelSettled, InterruptedInTrouble, CancelHonoured
<1> QED BY <1>1, <1>2, <1>3, Inductive, PTL DEF Spec
=============================================================================
