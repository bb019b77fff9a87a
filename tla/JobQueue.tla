------------------------------ MODULE JobQueue ------------------------------
(***************************************************************************)
(* The persistent job queue: the jobs table and its statements             *)
(* (internal/store/store.go), the runner and its workers                   *)
(* (internal/jobs/runner.go), the flock that elects one queue owner among  *)
(* the muxprune processes that share a database (cmd/muxprune/main.go,     *)
(* lock_unix.go) and the job handlers of the API and of the MCP tools      *)
(* (internal/api/server.go, mcp.go).                                       *)
(*                                                                         *)
(* The database has one connection and every statement is atomic, so each  *)
(* statement is one step; so is each critical section of Runner.cmu.  What *)
(* a job does to files is not here: executing ends in some outcome.        *)
(***************************************************************************)
EXTENDS Integers

CONSTANTS
  Procs,           \* the muxprune processes (serve, mcp) sharing one database
  Workers,         \* the worker goroutines of all the processes
  Home,            \* Home[w]: the process whose runner starts worker w
  NoProc,          \* the flock is free
  NoWorker,        \* no entry in Runner.cancels
  Cancellers,      \* bound: the processes that are sent cancel requests
  MaxJobs,         \* bound: ids run over 1..MaxJobs
  MaxStops,        \* bound: graceful stops in a behaviour
  MaxCrashes,      \* bound: crashes in a behaviour
  MaxFaults,       \* bound: failed writes to the database in a behaviour
  MaxTrouble       \* bound: stops, crashes and failed writes together

ASSUME ConstantsAssumption ==
  /\ MaxJobs \in Nat \ {0}
  /\ MaxStops \in Nat
  /\ MaxCrashes \in Nat
  /\ MaxFaults \in Nat
  /\ MaxTrouble \in Nat
  /\ Home \in [Workers -> Procs]
  /\ Cancellers \subseteq Procs
  /\ NoProc \notin Procs
  /\ NoWorker \notin Workers

VARIABLES
  status,      \* jobs.status of each row, "absent" when there is no row
  proc,        \* where each process is in startQueueOwner and Start
  stopping,    \* the process' context is cancelled (signal, end of stdin)
  lock,        \* the process that holds the flock on muxprune.lock
  wake,        \* Runner.wake, a channel of capacity one, has a token
  pc,          \* where each worker is in worker and run
  cur,         \* the job a worker claimed, 0 when it has none
  ctxDone,     \* the job context of the worker's job is cancelled
  outcome,     \* what the worker's job ended in, "none" while it has not
  cancels,     \* Runner.cancels: whose cancel function an id is mapped to
  cancelled,   \* Runner.cancelled
  request,     \* the cancel request each process is handling
  acked,       \* history: jobs whose caller was answered "cancelling"
  interrupted, \* history: those of them that a recovery failed
  stops,       \* graceful stops so far
  crashes,     \* crashes so far
  faults       \* failed writes so far

rows    == <<status>>
procs   == <<proc, stopping, lock, wake>>
threads == <<pc, cur, ctxDone, outcome>>
maps    == <<cancels, cancelled>>
history == <<acked, interrupted>>
budgets == <<stops, crashes, faults>>
vars    == <<rows, procs, threads, maps, request, history, budgets>>

Ids      == 1..MaxJobs
Terminal == {"done", "failed", "skipped", "cancelled"}
Statuses == Terminal \cup {"absent", "queued", "running"}

\* "killed" is a failure under a dead job context (killed && status == "failed").
Outcomes == {"done", "failed", "skipped", "killed"}

ProcStates == {"down", "waiting", "recovering", "serving", "released"}

WorkerStates == {"off", "check", "claim", "register", "execute", "collect",
                 "finish", "wait"}

\* The states in which a worker answers for the job it claimed.
Holding == {"register", "execute", "collect", "finish"}

Idle == [at |-> "idle", id |-> 0]

WorkersOf(p) == {w \in Workers : Home[w] = p}

TypeOK ==
  /\ status \in [Ids -> Statuses]
  /\ proc \in [Procs -> ProcStates]
  /\ stopping \in [Procs -> BOOLEAN]
  /\ lock \in Procs \cup {NoProc}
  /\ wake \in [Procs -> BOOLEAN]
  /\ pc \in [Workers -> WorkerStates]
  /\ cur \in [Workers -> Ids \cup {0}]
  /\ ctxDone \in [Workers -> BOOLEAN]
  /\ outcome \in [Workers -> Outcomes \cup Terminal \cup {"none"}]
  /\ cancels \in [Procs -> [Ids -> Workers \cup {NoWorker}]]
  /\ cancelled \in [Procs -> SUBSET Ids]
  /\ request \in [Procs -> [at : {"idle", "get", "update"}, id : Ids \cup {0}]]
  /\ acked \in SUBSET Ids
  /\ interrupted \in SUBSET Ids
  /\ stops \in 0..MaxStops
  /\ crashes \in 0..MaxCrashes
  /\ faults \in 0..MaxFaults

NoCancels == [id \in Ids |-> NoWorker]

Init ==
  /\ status = [id \in Ids |-> "absent"]
  /\ proc = [p \in Procs |-> "down"]
  /\ stopping = [p \in Procs |-> FALSE]
  /\ lock = NoProc
  /\ wake = [p \in Procs |-> FALSE]
  /\ pc = [w \in Workers |-> "off"]
  /\ cur = [w \in Workers |-> 0]
  /\ ctxDone = [w \in Workers |-> FALSE]
  /\ outcome = [w \in Workers |-> "none"]
  /\ cancels = [p \in Procs |-> NoCancels]
  /\ cancelled = [p \in Procs |-> {}]
  /\ request = [p \in Procs |-> Idle]
  /\ acked = {}
  /\ interrupted = {}
  /\ stops = 0
  /\ crashes = 0
  /\ faults = 0

Calm == stops + crashes + faults < MaxTrouble

Up(p) == proc[p] # "down"

-----------------------------------------------------------------------------
(* The jobs table.                                                         *)

SetStatus(id, s) == status' = [status EXCEPT ![id] = s]

(* INTEGER PRIMARY KEY without AUTOINCREMENT: the largest id plus one.     *)
IsNextId(id) == /\ \A j \in Ids : j >= id => status[j] = "absent"
                /\ \A j \in Ids : j = id - 1 => status[j] # "absent"

InsertQueued == \E id \in Ids : IsNextId(id) /\ SetStatus(id, "queued")

Wake(p) == wake' = [wake EXCEPT ![p] = TRUE]

(* Any handler that queues a job: CreateJob, then Runner.Wake of its own   *)
(* process, which need not be the one that runs the workers.               *)
SubmitJob(p) ==
  /\ Up(p)
  /\ InsertQueued
  /\ Wake(p)
  /\ UNCHANGED <<proc, stopping, lock, threads, maps, request, history, budgets>>

\* Mutant: a retry that puts the old row back in the queue.
RetryInPlace(p) ==
  /\ Up(p)
  /\ \E old \in Ids : /\ status[old] \in {"failed", "skipped", "cancelled"}
                      /\ SetStatus(old, "queued")
  /\ Wake(p)
  /\ UNCHANGED <<proc, stopping, lock, threads, maps, request, history, budgets>>

(* handleRetryJob: one INSERT ... SELECT copies a row that ended without   *)
(* doing its work to a new row.                                            *)
RetryJob(p) ==
  /\ Up(p)
  /\ \E old \in Ids : status[old] \in {"failed", "skipped", "cancelled"}
  /\ InsertQueued
  /\ Wake(p)
  /\ UNCHANGED <<proc, stopping, lock, threads, maps, request, history, budgets>>

Deletable(id) == status[id] \notin {"absent", "running"}

DeleteJob(p) ==
  /\ Up(p)
  /\ \E id \in Ids : /\ Deletable(id)
                     /\ SetStatus(id, "absent")
                     /\ acked' = acked \ {id}
                     /\ interrupted' = interrupted \ {id}
  /\ UNCHANGED <<procs, threads, maps, request, budgets>>

-----------------------------------------------------------------------------
(* Cancelling: Runner.Cancel under cmu, else GetJob, else CancelJob, three *)
(* steps between which the worker and the other processes go on.           *)

CancelRunning(p) ==
  /\ p \in Cancellers /\ Up(p)
  /\ request[p] = Idle
  /\ \E id \in Ids :
       /\ cancels[p][id] # NoWorker
       /\ cancelled' = [cancelled EXCEPT ![p] = @ \cup {id}]
       /\ ctxDone' = [ctxDone EXCEPT ![cancels[p][id]] = TRUE]
       /\ acked' = acked \cup {id}
  /\ UNCHANGED <<rows, procs, pc, cur, outcome, cancels, request, interrupted, budgets>>

CancelNotHere(p) ==
  /\ p \in Cancellers /\ Up(p)
  /\ request[p] = Idle
  /\ \E id \in Ids : /\ cancels[p][id] = NoWorker
                     /\ request' = [request EXCEPT ![p] = [at |-> "get", id |-> id]]
  /\ UNCHANGED <<rows, procs, threads, maps, history, budgets>>

(* cancelQueuedJob reads the row: a running one is refused.                *)
CancelGetJob(p) ==
  /\ request[p].at = "get"
  /\ request' = [request EXCEPT ![p] =
                   IF status[request[p].id] = "running"
                   THEN Idle ELSE [@ EXCEPT !.at = "update"]]
  /\ UNCHANGED <<rows, procs, threads, maps, history, budgets>>

\* Mutant: the row's status was checked a step ago, the UPDATE does not again.
StillThere(id) == status[id] # "absent"

Cancellable(id) == status[id] = "queued"

(* CancelJob: UPDATE ... WHERE id=? AND status='queued', or an error.      *)
CancelUpdate(p) ==
  /\ request[p].at = "update"
  /\ LET id == request[p].id
     IN  IF Cancellable(id) THEN SetStatus(id, "cancelled") ELSE UNCHANGED status
  /\ request' = [request EXCEPT ![p] = Idle]
  /\ UNCHANGED <<procs, threads, maps, history, budgets>>

-----------------------------------------------------------------------------
(* Processes: start, the flock, recovery, graceful stop, crash.            *)

StartProcess(p) ==
  /\ proc[p] = "down"
  /\ proc' = [proc EXCEPT ![p] = "waiting"]
  /\ UNCHANGED <<rows, stopping, lock, wake, threads, maps, request, history, budgets>>

\* Mutant: the lock is taken whoever holds it.
LockIgnored == TRUE

LockFree == lock = NoProc

(* One turn of the loop in startQueueOwner.  It tries the lock before it   *)
(* looks at the context, so a stopping process may still take it.          *)
TryLock(p) ==
  /\ proc[p] = "waiting"
  /\ LockFree
  /\ lock' = p
  /\ proc' = [proc EXCEPT ![p] = "recovering"]
  /\ UNCHANGED <<rows, stopping, wake, threads, maps, request, history, budgets>>

\* Mutant: the wait for the lock does not select on the context.
NeverGiveUp(p) == FALSE /\ UNCHANGED vars

GiveUpLock(p) ==
  /\ proc[p] = "waiting"
  /\ stopping[p]
  /\ proc' = [proc EXCEPT ![p] = "released"]
  /\ UNCHANGED <<rows, stopping, lock, wake, threads, maps, request, history, budgets>>

StartWorkers(p) ==
  /\ proc' = [proc EXCEPT ![p] = "serving"]
  /\ pc' = [w \in Workers |-> IF Home[w] = p THEN "check" ELSE pc[w]]

IsRunning(id) == status[id] = "running"

\* Mutant: FailInterrupted never runs.
NoRecovery(p) ==
  /\ proc[p] = "recovering"
  /\ StartWorkers(p)
  /\ UNCHANGED <<rows, stopping, lock, wake, cur, ctxDone, outcome, maps,
                 request, history, budgets>>

(* Runner.Start: FailInterrupted, then the workers.                        *)
Recover(p) ==
  /\ proc[p] = "recovering"
  /\ status' = [id \in Ids |-> IF IsRunning(id) THEN "failed" ELSE status[id]]
  /\ interrupted' = interrupted \cup {id \in acked : IsRunning(id)}
  /\ StartWorkers(p)
  /\ UNCHANGED <<stopping, lock, wake, cur, ctxDone, outcome, maps, request, acked,
                 budgets>>

(* Start ignores the error of FailInterrupted.                             *)
RecoverFails(p) ==
  /\ proc[p] = "recovering"
  /\ faults < MaxFaults /\ Calm
  /\ faults' = faults + 1
  /\ StartWorkers(p)
  /\ UNCHANGED <<rows, stopping, lock, wake, cur, ctxDone, outcome, maps,
                 request, history, stops, crashes>>

StopProcess(p) ==
  /\ Up(p)
  /\ ~stopping[p]
  /\ stops < MaxStops /\ Calm
  /\ stops' = stops + 1
  /\ stopping' = [stopping EXCEPT ![p] = TRUE]
  /\ UNCHANGED <<rows, proc, lock, wake, threads, maps, request, history, crashes, faults>>

\* Mutant: Start returns without waiting for its workers.
NoWait(p) == stopping[p]

WorkersGone(p) == \A w \in WorkersOf(p) : pc[w] = "off"

(* Start returned because its WaitGroup drained; the deferred Close drops  *)
(* the flock.                                                              *)
ReleaseLock(p) ==
  /\ proc[p] = "serving"
  /\ WorkersGone(p)
  /\ lock' = NoProc
  /\ proc' = [proc EXCEPT ![p] = "released"]
  /\ UNCHANGED <<rows, stopping, wake, threads, maps, request, history, budgets>>

(* What lives in the memory of a process goes with it.                     *)
ForgetProcess(p) ==
  /\ proc' = [proc EXCEPT ![p] = "down"]
  /\ stopping' = [stopping EXCEPT ![p] = FALSE]
  /\ wake' = [wake EXCEPT ![p] = FALSE]
  /\ pc' = [w \in Workers |-> IF Home[w] = p THEN "off" ELSE pc[w]]
  /\ cur' = [w \in Workers |-> IF Home[w] = p THEN 0 ELSE cur[w]]
  /\ ctxDone' = [w \in Workers |-> IF Home[w] = p THEN FALSE ELSE ctxDone[w]]
  /\ outcome' = [w \in Workers |-> IF Home[w] = p THEN "none" ELSE outcome[w]]
  /\ cancels' = [cancels EXCEPT ![p] = NoCancels]
  /\ cancelled' = [cancelled EXCEPT ![p] = {}]
  /\ request' = [request EXCEPT ![p] = Idle]

ExitProcess(p) ==
  /\ proc[p] = "released"
  /\ ForgetProcess(p)
  /\ UNCHANGED <<rows, lock, history, budgets>>

(* The kernel drops the flock of a process that dies.                      *)
Crash(p) ==
  /\ Up(p)
  /\ crashes < MaxCrashes /\ Calm
  /\ crashes' = crashes + 1
  /\ ForgetProcess(p)
  /\ lock' = IF lock = p THEN NoProc ELSE lock
  /\ UNCHANGED <<rows, history, stops, faults>>

-----------------------------------------------------------------------------
(* A worker: worker and run of runner.go.                                  *)

Goto(w, l) == pc' = [pc EXCEPT ![w] = l]

CheckContext(w) ==
  /\ pc[w] = "check"
  /\ Goto(w, IF stopping[Home[w]] THEN "off" ELSE "claim")
  /\ UNCHANGED <<rows, procs, cur, ctxDone, outcome, maps, request, history, budgets>>

IsOldestQueued(id) ==
  /\ status[id] = "queued"
  /\ \A j \in Ids : j < id => status[j] # "queued"

(* ClaimNextJob, and the job context and the shutdown watch that run sets  *)
(* up before it can be cancelled.                                          *)
ClaimJob(w) ==
  /\ pc[w] = "claim"
  /\ \E id \in Ids : /\ IsOldestQueued(id)
                     /\ SetStatus(id, "running")
                     /\ cur' = [cur EXCEPT ![w] = id]
  /\ Goto(w, "register")
  /\ UNCHANGED <<procs, ctxDone, outcome, maps, request, history, budgets>>

ClaimNothing(w) ==
  /\ pc[w] = "claim"
  /\ \A id \in Ids : status[id] # "queued"
  /\ Goto(w, "wait")
  /\ UNCHANGED <<rows, procs, cur, ctxDone, outcome, maps, request, history, budgets>>

(* An error of the UPDATE is taken for an empty queue.                     *)
ClaimFails(w) ==
  /\ pc[w] = "claim"
  /\ faults < MaxFaults /\ Calm
  /\ faults' = faults + 1
  /\ Goto(w, "wait")
  /\ UNCHANGED <<rows, procs, cur, ctxDone, outcome, maps, request, history, stops, crashes>>

RegisterCancel(w) ==
  /\ pc[w] = "register"
  /\ cancels' = [cancels EXCEPT ![Home[w]] = [@ EXCEPT ![cur[w]] = w]]
  /\ Goto(w, "execute")
  /\ UNCHANGED <<rows, procs, cur, ctxDone, outcome, cancelled, request, history, budgets>>

(* The timer of context.AfterFunc: the grace after a stop has passed.      *)
GraceExpires(w) ==
  /\ pc[w] \in {"register", "execute"}
  /\ stopping[Home[w]]
  /\ ctxDone' = [ctxDone EXCEPT ![w] = TRUE]
  /\ UNCHANGED <<rows, procs, pc, cur, outcome, maps, request, history, budgets>>

(* execute returns and run reads killed.  A tool whose context is dead     *)
(* fails, but a job past its last use of the context still ends as done.   *)
Execute(w) ==
  /\ pc[w] = "execute"
  /\ \E o \in {"done", "skipped", IF ctxDone[w] THEN "killed" ELSE "failed"} :
       outcome' = [outcome EXCEPT ![w] = o]
  /\ Goto(w, "collect")
  /\ UNCHANGED <<rows, procs, cur, ctxDone, maps, request, history, budgets>>

\* Mutants: a finalStatus that forgets the user's cancel; one that forgets
\* the shutdown.
ShutdownOnly(wasCancelled, o) == IF o = "killed" THEN "cancelled" ELSE o
UserOnly(wasCancelled, o) == IF wasCancelled /\ o # "done" THEN "cancelled" ELSE o

FinalStatus(wasCancelled, o) ==
  IF (wasCancelled /\ o # "done") \/ o = "killed" THEN "cancelled" ELSE o

DropCancel(w) ==
  cancels' = [cancels EXCEPT ![Home[w]] = [@ EXCEPT ![cur[w]] = NoWorker]]

\* Mutant: the cancelled mark of the job is left behind.
LeaveMark(w) == DropCancel(w) /\ UNCHANGED cancelled

ForgetJob(w) ==
  /\ DropCancel(w)
  /\ cancelled' = [cancelled EXCEPT ![Home[w]] = @ \ {cur[w]}]

(* The second critical section of run: read and drop both map entries,     *)
(* then settle the final status; nothing reads the job context after that. *)
Collect(w) ==
  /\ pc[w] = "collect"
  /\ outcome' = [outcome EXCEPT ![w] =
                   FinalStatus(cur[w] \in cancelled[Home[w]], @)]
  /\ ForgetJob(w)
  /\ ctxDone' = [ctxDone EXCEPT ![w] = FALSE]
  /\ Goto(w, "finish")
  /\ UNCHANGED <<rows, procs, cur, request, history, budgets>>

Release(w) ==
  /\ cur' = [cur EXCEPT ![w] = 0]
  /\ outcome' = [outcome EXCEPT ![w] = "none"]
  /\ Goto(w, "check")

\* Mutant: a job that a stopping process ends is not written back.
FinishUnlessStopping(w) ==
  /\ pc[w] = "finish"
  /\ IF stopping[Home[w]] THEN UNCHANGED status ELSE SetStatus(cur[w], outcome[w])
  /\ Release(w)
  /\ UNCHANGED <<procs, ctxDone, maps, request, history, budgets>>

(* FinishJob: UPDATE ... WHERE id=?, whatever the row's status is.         *)
FinishJob(w) ==
  /\ pc[w] = "finish"
  /\ SetStatus(cur[w], outcome[w])
  /\ Release(w)
  /\ UNCHANGED <<procs, ctxDone, maps, request, history, budgets>>

(* The error is printed and the worker goes on; the row stays running.     *)
FinishFails(w) ==
  /\ pc[w] = "finish"
  /\ faults < MaxFaults /\ Calm
  /\ faults' = faults + 1
  /\ Release(w)
  /\ UNCHANGED <<rows, procs, ctxDone, maps, request, history, stops, crashes>>

(* The select at the end of worker's loop: the context, a wake token or    *)
(* the five second ticker.                                                 *)
WaitStopped(w) ==
  /\ pc[w] = "wait"
  /\ stopping[Home[w]]
  /\ Goto(w, "off")
  /\ UNCHANGED <<rows, procs, cur, ctxDone, outcome, maps, request, history, budgets>>

WaitWoken(w) ==
  /\ pc[w] = "wait"
  /\ wake[Home[w]]
  /\ wake' = [wake EXCEPT ![Home[w]] = FALSE]
  /\ Goto(w, "check")
  /\ UNCHANGED <<rows, proc, stopping, lock, cur, ctxDone, outcome, maps, request,
                 history, budgets>>

\* Mutant: a worker that relies on Wake alone.
NoTicker(w) == FALSE /\ UNCHANGED vars

WaitTicker(w) ==
  /\ pc[w] = "wait"
  /\ Goto(w, "check")
  /\ UNCHANGED <<rows, procs, cur, ctxDone, outcome, maps, request, history, budgets>>

-----------------------------------------------------------------------------

Handler(p) == \/ SubmitJob(p) \/ RetryJob(p) \/ DeleteJob(p)
              \/ CancelRunning(p) \/ CancelNotHere(p)
              \/ CancelGetJob(p) \/ CancelUpdate(p)

QueueOwner(p) == \/ TryLock(p) \/ GiveUpLock(p) \/ Recover(p) \/ RecoverFails(p)
                 \/ ReleaseLock(p) \/ ExitProcess(p)

Worker(w) == \/ CheckContext(w) \/ ClaimJob(w) \/ ClaimNothing(w) \/ ClaimFails(w)
             \/ RegisterCancel(w) \/ Execute(w) \/ Collect(w)
             \/ FinishJob(w) \/ FinishFails(w)
             \/ WaitStopped(w) \/ WaitWoken(w) \/ WaitTicker(w)

Next == \/ \E p \in Procs : \/ Handler(p) \/ QueueOwner(p)
                            \/ StartProcess(p) \/ StopProcess(p) \/ Crash(p)
        \/ \E w \in Workers : Worker(w) \/ GraceExpires(w)

Spec == Init /\ [][Next]_vars

(* Goroutines that can run do run, jobs end (every tool is a child process *)
(* that exits or is killed), and a process that is down is started again   *)
(* by its supervisor.  Handlers, stops and crashes owe nothing.            *)
Fairness == /\ \A p \in Procs : /\ WF_vars(QueueOwner(p))
                                /\ WF_vars(StartProcess(p))
            /\ \A w \in Workers : WF_vars(Worker(w))

FairSpec == Spec /\ Fairness

-----------------------------------------------------------------------------
(* Properties.                                                             *)

Live(p)      == \E w \in WorkersOf(p) : pc[w] # "off"
Holds(w, id) == pc[w] \in Holding /\ cur[w] = id
Held(id)     == \E w \in Workers : Holds(w, id)

(* Workers run in one process at a time, the one that holds the flock, and *)
(* not before it has failed what the previous owner left running           *)
(* (startQueueOwner, lock_unix.go, Runner.Start).                          *)
OneQueueRunner ==
  \A p \in Procs : Live(p) => lock = p /\ proc[p] = "serving"

(* No job is executed by two workers, whatever is claimed, retried, deleted *)
(* or recovered meanwhile (ClaimNextJob).                                   *)
ExecutedOnce ==
  \A id \in Ids : \A v, w \in Workers : Holds(v, id) /\ Holds(w, id) => v = w

(* The row of a job that a worker answers for is running until that worker *)
(* writes its end: no deletion, cancel or recovery by another process      *)
(* touches it, so the unguarded UPDATE of FinishJob overwrites nothing.    *)
HeldJobIsRunning ==
  \A w \in Workers : pc[w] \in Holding => cur[w] \in Ids /\ status[cur[w]] = "running"

(* A running row has its worker, unless a process crashed or a write to    *)
(* the database failed: a graceful stop, grace expired or not, leaves none *)
(* behind.                                                                 *)
NoOrphanJob ==
  faults = 0 /\ crashes = 0 => \A id \in Ids : status[id] = "running" => Held(id)

(* Runner.cancels maps an id to the worker that executes that very job and *)
(* Runner.cancelled marks mapped ids only, so a row that takes over the id *)
(* of a deleted job is never born cancelled.                               *)
CancelMapsExact ==
  \A p \in Procs : \A id \in Ids :
    /\ cancels[p][id] # NoWorker =>
         LET w == cancels[p][id]
         IN  Home[w] = p /\ pc[w] \in {"execute", "collect"} /\ cur[w] = id
    /\ id \in cancelled[p] => cancels[p][id] # NoWorker

(* A job whose caller was told "cancelling" ends as cancelled, or as done  *)
(* when the cancel came too late, with one exception: when its process     *)
(* crashed, or the write of its end failed, the next recovery reports it   *)
(* failed (FailInterrupted, which knows nothing of the cancel).  Neither   *)
(* its own outcome nor a graceful stop makes it failed or skipped.         *)
CancelHonoured ==
  \A id \in acked :
    \/ status[id] \in {"running", "done", "cancelled"}
    \/ status[id] = "failed" /\ id \in interrupted /\ crashes + faults > 0

(* What a job ended as is final: the row changes again only by being       *)
(* deleted, and never while a cancel handler still believes it queued.     *)
EndIsFinal ==
  [][\A id \in Ids : status[id] \in Terminal =>
       status'[id] \in {status[id], "absent"}]_vars

Lifecycle == INSTANCE JobLifecycle

(* The queue implements the life of a job promised by JobLifecycle.        *)
ImplementsLifecycle == Lifecycle!Spec

(* A queued job is claimed, cancelled or deleted in the end, also when it  *)
(* was queued by a process that runs no workers, when its wake-up token    *)
(* was merged with another or the owner of the queue stopped or died.      *)
QueuedIsServed == \A id \in Ids : status[id] = "queued" ~> status[id] # "queued"

(* No row is left running for ever unless a write is lost: the worker      *)
(* finishes it, or the next owner of the queue fails it.                   *)
RunningEnds ==
  \A id \in Ids : status[id] = "running" ~> status[id] # "running" \/ faults > 0

(* A process asked to stop lets its jobs end and exits.                    *)
StopCompletes == \A p \in Procs : stopping[p] ~> ~stopping[p]
=============================================================================
