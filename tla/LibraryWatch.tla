---------------------------- MODULE LibraryWatch ----------------------------
(***************************************************************************)
(* Watching a library: the watcher of its directories                      *)
(* (internal/watch/watcher.go), the monitor that starts, stops and         *)
(* replaces watchers (internal/watch/monitor.go) and the enqueue function  *)
(* that turns their triggers into scan jobs (cmd/muxprune/main.go).        *)
(*                                                                         *)
(* One library with a subdirectory.  Directories are told apart by their   *)
(* inode.  fsnotify delivers what the kernel queued in order, through one  *)
(* goroutine, so each watcher has one queue; the kernel merges an event    *)
(* with an equal one before it, drops what does not fit and queues one     *)
(* overflow event at a time for that.  A scan sees all that happened       *)
(* before it started.                                                      *)
(***************************************************************************)
EXTENDS Integers, Sequences

CONSTANTS
  Roots,       \* the paths the library may have
  Local,       \* those on a local file system (isLocalFS)
  NoRoot,      \* there is no such library
  Watchers,    \* the libWatcher structs
  NoWatcher,   \* none is registered
  Ticker,      \* the monitor's tick, a caller of enqueue
  Handler,     \* handleUpdateLibrary, which queues a scan without it
  Limit,       \* whether the watch limit may be reached below the root
  Behind,      \* whether events may be queued behind an overflow event
  MaxQueue,    \* capacity of the kernel's event queue
  MaxInodes,   \* bound: directories made
  MaxChanges,  \* bound: changes of files and of the library, ticks, requests
               \* and faults
  MaxFaults    \* bound: watchers that do not start, calls of the database that fail

ASSUME ConstantsAssumption ==
  /\ Local \subseteq Roots
  /\ NoRoot \notin Roots
  /\ NoWatcher \notin Watchers
  /\ Ticker \notin Watchers /\ Handler \notin Watchers /\ Ticker # Handler
  /\ Limit \in BOOLEAN /\ Behind \in BOOLEAN
  /\ MaxQueue \in Nat \ {0} /\ MaxInodes \in Nat \ {0} /\ MaxChanges \in Nat
  /\ MaxFaults \in Nat

VARIABLES
  lib,      \* path and watch_enabled of the library's row
  top,      \* the directory at each root, 0 when there is none
  sub,      \* its subdirectory, 0 when there is none
  inodes,   \* directories made so far
  root,     \* libWatcher.root
  onTop,    \* the directory its watch on root stands on, 0 without a watch
  onSub,    \* the same for the subdirectory
  info,     \* rootInfo
  queue,    \* events it has still to handle
  loop,     \* its goroutine runs
  done,     \* its context is cancelled
  dead,     \* libWatcher.dead
  degraded, \* libWatcher.degraded
  timer,    \* its timer is armed
  rec,      \* where Reconcile is
  snap,     \* the library as Reconcile listed it
  cur,      \* the watcher it is stopping or starting
  reg,      \* Monitor.watchers
  catchup,  \* Monitor.catchup
  enq,      \* where each caller is in enqueue
  scans,    \* scan jobs of the library that enqueue queued
  asked,    \* those that handlers queued
  covered,  \* history: the library has been watched since it was added
  unseen,   \* history: a change that no scan has started after
  lost,     \* history: the caller that was to queue that scan gave up
  changes, faults

files    == <<lib, top, sub, inodes, changes>>
watches  == <<root, onTop, onSub, info, queue, loop, dead, degraded>>
control  == <<done, timer>>
monitor  == <<rec, snap, cur, reg, catchup>>
jobs     == <<enq, scans, asked, faults>>
history  == <<covered, unseen, lost>>
vars     == <<files, watches, control, monitor, jobs, history>>

Inodes  == 0..MaxInodes
Events  == {"file", "mkdir", "rmdir", "rootgone", "overflow"}
Callers == Watchers \cup {Ticker, Handler}
Library == [root : Roots \cup {NoRoot}, on : BOOLEAN]
NoLib   == [root |-> NoRoot, on |-> FALSE]

TypeOK ==
  /\ lib \in Library /\ snap \in Library
  /\ top \in [Roots -> Inodes] /\ sub \in [Roots -> Inodes]
  /\ inodes \in Inodes
  /\ root \in [Watchers -> Roots \cup {NoRoot}]
  /\ onTop \in [Watchers -> Inodes] /\ onSub \in [Watchers -> Inodes]
  /\ info \in [Watchers -> Inodes]
  /\ queue \in [Watchers -> Seq(Events)]
  /\ \A w \in Watchers : Len(queue[w]) <= MaxQueue + 1
  /\ loop \in [Watchers -> BOOLEAN] /\ done \in [Watchers -> BOOLEAN]
  /\ dead \in [Watchers -> BOOLEAN] /\ degraded \in [Watchers -> BOOLEAN]
  /\ timer \in [Watchers -> BOOLEAN]
  /\ rec \in {"idle", "drop", "halt", "look", "forget", "start", "stat", "walk",
              "register"}
  /\ cur \in Watchers \cup {NoWatcher} /\ reg \in Watchers \cup {NoWatcher}
  /\ catchup \in BOOLEAN
  /\ enq \in [Callers -> {"idle", "fired", "lock", "check", "get", "create"}]
  /\ scans \in Nat /\ asked \in 0..1
  /\ covered \in BOOLEAN /\ unseen \in BOOLEAN /\ lost \in BOOLEAN
  /\ changes \in 0..MaxChanges /\ faults \in 0..MaxFaults

(* The monitor starts over a library that may or may not be watched.       *)
Init ==
  /\ lib \in {l \in Library : l.root = NoRoot => ~l.on}
  /\ top = [r \in Roots |-> 1] /\ sub = [r \in Roots |-> 0]
  /\ inodes = 1
  /\ root = [w \in Watchers |-> NoRoot]
  /\ onTop = [w \in Watchers |-> 0] /\ onSub = [w \in Watchers |-> 0]
  /\ info = [w \in Watchers |-> 0]
  /\ queue = [w \in Watchers |-> <<>>]
  /\ loop = [w \in Watchers |-> FALSE] /\ done = [w \in Watchers |-> FALSE]
  /\ dead = [w \in Watchers |-> FALSE] /\ degraded = [w \in Watchers |-> FALSE]
  /\ timer = [w \in Watchers |-> FALSE]
  /\ rec = "idle" /\ snap = NoLib /\ cur = NoWatcher /\ reg = NoWatcher
  /\ catchup = FALSE
  /\ enq = [c \in Callers |-> "idle"]
  /\ scans = 0 /\ asked = 0
  /\ covered = FALSE /\ unseen = FALSE /\ lost = FALSE
  /\ changes = 0 /\ faults = 0

-----------------------------------------------------------------------------
(* Files and directories of the library change.                            *)

InQueue(q, e) == \E i \in DOMAIN q : q[i] = e

Merged(q, e)  == q # <<>> /\ q[Len(q)] = e
Dropped(q)    == InQueue(q, "overflow") /\ (Len(q) >= MaxQueue \/ ~Behind)

Put(q, e) == IF Merged(q, e) \/ Dropped(q) THEN q
             ELSE Append(q, IF Len(q) < MaxQueue THEN e ELSE "overflow")

Notify(ws, e) ==
  queue' = [w \in Watchers |-> IF w \in ws THEN Put(queue[w], e) ELSE queue[w]]

OnTop(r) == {w \in Watchers : top[r] # 0 /\ root[w] = r /\ onTop[w] = top[r]}
OnSub(r) == {w \in Watchers : sub[r] # 0 /\ root[w] = r /\ onSub[w] = sub[r]}

Room   == changes + faults < MaxChanges
Change == Room /\ changes' = changes + 1
Fault  == Room /\ faults < MaxFaults /\ faults' = faults + 1

\* Below a watch limit only polling is promised; nor is more where events
\* may be queued behind an overflow event, see WholeTreeWatched.
Owed(r, below) ==
  /\ r = lib.root /\ covered
  /\ below => reg = NoWatcher \/ ~(degraded[reg] \/ Behind)

See(r, below) == /\ unseen' = (unseen \/ Owed(r, below))
                 /\ UNCHANGED <<covered, lost>>

ChangeFile(r) ==
  /\ Change
  /\ top[r] # 0
  /\ Notify(OnTop(r), "file")
  /\ See(r, FALSE)
  /\ UNCHANGED <<lib, top, sub, inodes, root, onTop, onSub, info, loop, dead,
                 degraded, control, monitor, jobs>>

ChangeBelow(r) ==
  /\ Change
  /\ top[r] # 0 /\ sub[r] # 0
  /\ Notify(OnSub(r), "file")
  /\ See(r, TRUE)
  /\ UNCHANGED <<lib, top, sub, inodes, root, onTop, onSub, info, loop, dead,
                 degraded, control, monitor, jobs>>

MakeSub(r) ==
  /\ Change
  /\ top[r] # 0 /\ sub[r] = 0
  /\ inodes < MaxInodes /\ inodes' = inodes + 1
  /\ sub' = [sub EXCEPT ![r] = inodes + 1]
  /\ Notify(OnTop(r), "mkdir")
  /\ See(r, FALSE)
  /\ UNCHANGED <<lib, top, root, onTop, onSub, info, loop, dead, degraded,
                 control, monitor, jobs>>

RemoveSub(r) ==
  /\ Change
  /\ top[r] # 0 /\ sub[r] # 0
  /\ sub' = [sub EXCEPT ![r] = 0]
  /\ Notify(OnTop(r), "rmdir")
  /\ See(r, FALSE)
  /\ UNCHANGED <<lib, top, inodes, root, onTop, onSub, info, loop, dead, degraded,
                 control, monitor, jobs>>

(* The root is removed, renamed or unmounted, and comes back as another    *)
(* directory, without a subdirectory.                                      *)
RemoveRoot(r) ==
  /\ Change
  /\ top[r] # 0
  /\ top' = [top EXCEPT ![r] = 0] /\ sub' = [sub EXCEPT ![r] = 0]
  /\ Notify(OnTop(r), "rootgone")
  /\ See(r, FALSE)
  /\ UNCHANGED <<lib, inodes, root, onTop, onSub, info, loop, dead, degraded,
                 control, monitor, jobs>>

MakeRoot(r) ==
  /\ top[r] = 0
  /\ inodes < MaxInodes /\ inodes' = inodes + 1
  /\ top' = [top EXCEPT ![r] = inodes + 1]
  /\ See(r, FALSE)
  /\ UNCHANGED <<lib, sub, changes, watches, control, monitor, jobs>>

-----------------------------------------------------------------------------
(* A watcher.                                                              *)

Schedule(w) == timer' = [timer EXCEPT ![w] = TRUE]

Stop(w) == /\ done' = [done EXCEPT ![w] = TRUE]
           /\ timer' = [timer EXCEPT ![w] = FALSE]

(* A directory that is not watched yet may exceed the limit.               *)
MayRefuse(w) ==
  IF sub[root[w]] # 0 /\ onSub[w] = 0 THEN {FALSE, Limit} ELSE {FALSE}

\* Mutant: only the root is watched again.
AddRoot(w) ==
  /\ onTop' = [onTop EXCEPT ![w] = IF top[root[w]] # 0 THEN top[root[w]] ELSE @]
  /\ UNCHANGED <<onSub, degraded>>

(* addRecursive from the root, which the walk adds again.                  *)
AddRecursive(w) ==
  \E refused \in MayRefuse(w) :
    /\ onTop' = [onTop EXCEPT ![w] = IF top[root[w]] # 0 THEN top[root[w]] ELSE @]
    /\ onSub' = [onSub EXCEPT ![w] = IF refused THEN 0 ELSE sub[root[w]]]
    /\ degraded' = [degraded EXCEPT ![w] = refused]

(* fsw.Close, deferred in loop.                                            *)
CloseWatch(w) ==
  /\ loop' = [loop EXCEPT ![w] = FALSE]
  /\ onTop' = [onTop EXCEPT ![w] = 0] /\ onSub' = [onSub EXCEPT ![w] = 0]
  /\ queue' = [queue EXCEPT ![w] = <<>>]

Pop(w) == queue' = [queue EXCEPT ![w] = Tail(@)]
Next1(w, e) == loop[w] /\ queue[w] # <<>> /\ Head(queue[w]) = e

HandleFile(w) ==
  /\ Next1(w, "file")
  /\ Pop(w)
  /\ Schedule(w)
  /\ UNCHANGED <<files, root, onTop, onSub, info, loop, dead, degraded, done,
                 monitor, jobs, history>>

(* A directory that is gone again is not a relevant file.                  *)
HandleMkdir(w) ==
  /\ Next1(w, "mkdir")
  /\ Pop(w)
  /\ IF sub[root[w]] # 0
     THEN /\ \E refused \in MayRefuse(w) :
               /\ onSub' = [onSub EXCEPT ![w] = IF refused THEN 0 ELSE sub[root[w]]]
               /\ degraded' = [degraded EXCEPT ![w] = @ \/ refused]
          /\ Schedule(w)
     ELSE UNCHANGED <<onSub, degraded, timer>>
  /\ UNCHANGED <<files, root, onTop, info, loop, dead, done, monitor, jobs, history>>

HandleRmdir(w) ==
  /\ Next1(w, "rmdir")
  /\ Pop(w)
  /\ onSub' = [onSub EXCEPT ![w] = 0]
  /\ Schedule(w)
  /\ UNCHANGED <<files, root, onTop, info, loop, dead, degraded, done, monitor,
                 jobs, history>>

HandleRootGone(w) ==
  /\ Next1(w, "rootgone")
  /\ Pop(w)
  /\ onTop' = [onTop EXCEPT ![w] = 0] /\ onSub' = [onSub EXCEPT ![w] = 0]
  /\ Schedule(w)
  /\ UNCHANGED <<files, root, info, loop, dead, degraded, done, monitor, jobs,
                 history>>

HandleOverflow(w) ==
  /\ Next1(w, "overflow")
  /\ top[root[w]] # 0
  /\ Pop(w)
  /\ AddRecursive(w)
  /\ Schedule(w)
  /\ UNCHANGED <<files, root, info, loop, dead, done, monitor, jobs, history>>

(* died and the end of loop.                                               *)
Die(w) ==
  /\ Next1(w, "overflow")
  /\ top[root[w]] = 0
  /\ dead' = [dead EXCEPT ![w] = ~done[w]]
  /\ CloseWatch(w)
  /\ UNCHANGED <<files, root, info, degraded, control, monitor, jobs, history>>

LoopEnds(w) ==
  /\ loop[w] /\ done[w]
  /\ CloseWatch(w)
  /\ UNCHANGED <<files, root, info, dead, degraded, control, monitor, jobs, history>>

(* The timer runs out and fire resets it; a second fire of one watcher     *)
(* waits for the first.                                                    *)
Fire(w) ==
  /\ timer[w]
  /\ enq[w] = "idle"
  /\ timer' = [timer EXCEPT ![w] = FALSE]
  /\ enq' = [enq EXCEPT ![w] = "fired"]
  /\ UNCHANGED <<files, watches, done, monitor, scans, asked, faults, history>>

FireChecks(w) ==
  /\ enq[w] = "fired"
  /\ enq' = [enq EXCEPT ![w] = IF done[w] \/ dead[w] THEN "idle" ELSE "lock"]
  /\ UNCHANGED <<files, watches, control, monitor, scans, asked, faults, history>>

-----------------------------------------------------------------------------
(* enqueue: one caller at a time from "check" on.                          *)

Held == {"check", "get", "create"}

\* Mutant: enqueue without its mutex.
NoMutex == TRUE

EnqMuFree == \A c \in Callers \ {Handler} : enq[c] \notin Held

EnqLock(c) ==
  /\ enq[c] = "lock" /\ EnqMuFree
  /\ enq' = [enq EXCEPT ![c] = "check"]
  /\ UNCHANGED <<files, watches, control, monitor, scans, asked, faults, history>>

\* Mutant: the jobs of the handlers are not counted.
OwnQueued == scans > 0

(* IsScanQueued, here and in the handlers.                                 *)
IsScanQueued == scans + asked > 0

EnqCheck(c) ==
  /\ enq[c] = "check"
  /\ enq' = [enq EXCEPT ![c] = IF IsScanQueued THEN "idle"
                               ELSE IF c = Handler THEN "create" ELSE "get"]
  /\ UNCHANGED <<files, watches, control, monitor, scans, asked, faults, history>>

EnqGet(c) ==
  /\ enq[c] = "get"
  /\ enq' = [enq EXCEPT ![c] = IF lib.root = NoRoot THEN "idle" ELSE "create"]
  /\ UNCHANGED <<files, watches, control, monitor, scans, asked, faults, history>>

EnqCreate(c) ==
  /\ enq[c] = "create"
  /\ enq' = [enq EXCEPT ![c] = "idle"]
  /\ IF c = Handler THEN asked' = asked + 1 /\ UNCHANGED scans
                    ELSE scans' = scans + 1 /\ UNCHANGED asked
  /\ UNCHANGED <<files, watches, control, monitor, faults, history>>

(* The library cannot be read or the job not written; a handler also gives *)
(* up when its question fails.                                             *)
EnqFails(c) ==
  /\ enq[c] \in {"get", "create"} \/ (c = Handler /\ enq[c] = "check")
  /\ Fault
  /\ enq' = [enq EXCEPT ![c] = "idle"]
  /\ lost' = (lost \/ unseen)
  /\ UNCHANGED <<files, watches, control, monitor, scans, asked, covered, unseen>>

(* enqueue takes a question that fails for a no.                           *)
EnqMisread(c) ==
  /\ enq[c] = "check" /\ c # Handler
  /\ Fault
  /\ enq' = [enq EXCEPT ![c] = "get"]
  /\ UNCHANGED <<files, watches, control, monitor, scans, asked, history>>

(* tick finds the library due.                                             *)
Tick ==
  /\ Change
  /\ enq[Ticker] = "idle" /\ lib.root # NoRoot /\ ~IsScanQueued
  /\ enq' = [enq EXCEPT ![Ticker] = "lock"]
  /\ UNCHANGED <<lib, top, sub, inodes, watches, control, monitor, scans, asked,
                 faults, history>>

(* The webhook wants a scan.                                               *)
Ask ==
  /\ Change
  /\ enq[Handler] = "idle" /\ lib.root # NoRoot
  /\ enq' = [enq EXCEPT ![Handler] = "check"]
  /\ UNCHANGED <<lib, top, sub, inodes, watches, control, monitor, scans, asked,
                 faults, history>>

(* A worker takes the job; without the root the job fails, and only a      *)
(* library that has been watched is scanned again when the root is back.   *)
StartScan ==
  /\ \/ scans > 0 /\ scans' = scans - 1 /\ UNCHANGED asked
     \/ asked > 0 /\ asked' = asked - 1 /\ UNCHANGED scans
  /\ IF lib.root # NoRoot /\ top[lib.root] # 0
     THEN unseen' = FALSE /\ lost' = FALSE
     ELSE unseen' = (unseen /\ covered) /\ UNCHANGED lost
  /\ UNCHANGED <<files, watches, control, monitor, enq, faults, covered>>

-----------------------------------------------------------------------------
(* The library's row.                                                      *)

AddLibrary(r, on) ==
  /\ Change
  /\ lib = NoLib /\ top[r] # 0
  /\ lib' = [root |-> r, on |-> on]
  /\ UNCHANGED <<top, sub, inodes, watches, control, monitor, jobs, history>>

UpdateLibrary(r, on) ==
  /\ Change
  /\ lib # NoLib /\ top[r] # 0 /\ enq[Handler] = "idle"
  /\ lib' = [root |-> r, on |-> on] /\ lib' # lib
  /\ IF r # lib.root
     THEN unseen' = TRUE /\ enq' = [enq EXCEPT ![Handler] = "check"]
     ELSE UNCHANGED <<unseen, enq>>
  /\ UNCHANGED <<top, sub, inodes, watches, control, monitor, scans, asked, faults,
                 covered, lost>>

DeleteLibrary ==
  /\ Change
  /\ lib # NoLib
  /\ lib' = NoLib
  /\ covered' = FALSE /\ unseen' = FALSE /\ lost' = FALSE
  /\ UNCHANGED <<top, sub, inodes, watches, control, monitor, jobs>>

-----------------------------------------------------------------------------
(* Reconcile, one at a time: the monitor's own and those the handlers      *)
(* call.                                                                   *)

\* statfs fails where there is no directory.
IsLocalFS(r) == r \in Local /\ top[r] # 0

ShouldWatch(l) == l.on /\ IsLocalFS(l.root)

\* Mutant: any directory at the path will do.
RootExists(w) == top[root[w]] # 0

WatchingRoot(w) == top[root[w]] # 0 /\ info[w] = top[root[w]] /\ onTop[w] # 0

RecList ==
  /\ rec = "idle"
  /\ rec' = "drop" /\ snap' = lib
  /\ UNCHANGED <<files, watches, control, cur, reg, catchup, jobs, history>>

\* Mutant: a library that is no longer watched keeps its watcher.
Moved(w) == root[w] # snap.root

Unwanted(w) == ~ShouldWatch(snap) \/ root[w] # snap.root

RecDrop ==
  /\ rec = "drop"
  /\ IF reg # NoWatcher /\ Unwanted(reg)
     THEN /\ reg' = NoWatcher /\ cur' = reg /\ rec' = "halt"
          /\ catchup' = (snap # NoLib)
     ELSE /\ UNCHANGED <<reg, cur>> /\ rec' = "look"
          /\ catchup' = (catchup /\ snap # NoLib)
  /\ UNCHANGED <<files, watches, control, snap, jobs, history>>

RecHalt ==
  /\ rec = "halt"
  /\ Stop(cur)
  /\ rec' = "look" /\ cur' = NoWatcher
  /\ UNCHANGED <<files, watches, snap, reg, catchup, jobs, history>>

RecSkip ==
  /\ rec = "look"
  /\ ~ShouldWatch(snap)
  /\ rec' = "idle"
  /\ UNCHANGED <<files, watches, control, snap, cur, reg, catchup, jobs, history>>

RecKeep ==
  /\ rec = "look"
  /\ ShouldWatch(snap) /\ reg # NoWatcher /\ ~dead[reg] /\ WatchingRoot(reg)
  /\ rec' = "idle"
  /\ covered' = (covered \/ snap = lib)
  /\ UNCHANGED <<files, watches, control, snap, cur, reg, catchup, jobs, unseen,
                 lost>>

\* Mutant: the watcher that is replaced is not stopped.
LetRun(w) == UNCHANGED <<done, timer>>

StopReplaced(w) == Stop(w)

RecReplace ==
  /\ rec = "look"
  /\ ShouldWatch(snap) /\ reg # NoWatcher /\ (dead[reg] \/ ~WatchingRoot(reg))
  /\ StopReplaced(reg)
  /\ rec' = "forget"
  /\ UNCHANGED <<files, watches, snap, cur, reg, catchup, jobs, history>>

\* Mutant: the watcher is replaced without owing a scan.
NothingOwed == catchup

ScanOwed == TRUE

RecForget ==
  /\ rec = "forget"
  /\ reg' = NoWatcher /\ catchup' = ScanOwed
  /\ rec' = "start"
  /\ UNCHANGED <<files, watches, control, snap, cur, jobs, history>>

RecNone ==
  /\ rec = "look"
  /\ ShouldWatch(snap) /\ reg = NoWatcher
  /\ rec' = "start"
  /\ UNCHANGED <<files, watches, control, snap, cur, reg, catchup, jobs, history>>

Unused(w) == w # reg /\ ~loop[w] /\ ~timer[w] /\ enq[w] = "idle"

RecStart ==
  /\ rec = "start" /\ top[snap.root] # 0
  /\ \E w \in Watchers :
       /\ Unused(w)
       /\ cur' = w
       /\ root' = [root EXCEPT ![w] = snap.root]
       /\ onTop' = [onTop EXCEPT ![w] = top[snap.root]]
       /\ dead' = [dead EXCEPT ![w] = FALSE]
       /\ done' = [done EXCEPT ![w] = FALSE]
  /\ rec' = "stat"
  /\ UNCHANGED <<files, onSub, info, queue, loop, degraded, timer, snap, reg,
                 catchup, jobs, history>>

RecStartFails ==
  /\ rec = "start"
  /\ \/ top[snap.root] = 0 /\ UNCHANGED faults
     \/ Fault
  /\ rec' = "idle"
  /\ UNCHANGED <<files, watches, control, snap, cur, reg, catchup, enq, scans,
                 asked, history>>

RecStat ==
  /\ rec = "stat"
  /\ info' = [info EXCEPT ![cur] = top[snap.root]]
  /\ rec' = "walk"
  /\ UNCHANGED <<files, root, onTop, onSub, queue, loop, dead, degraded, control,
                 snap, cur, reg, catchup, jobs, history>>

RecWalk ==
  /\ rec = "walk"
  /\ AddRecursive(cur)
  /\ loop' = [loop EXCEPT ![cur] = TRUE]
  /\ rec' = "register"
  /\ UNCHANGED <<files, root, info, queue, dead, control, snap, cur, reg, catchup,
                 jobs, history>>

RecRegister ==
  /\ rec = "register"
  /\ reg' = cur /\ cur' = NoWatcher /\ rec' = "idle"
  /\ catchup' = FALSE
  /\ IF catchup THEN Schedule(cur) ELSE UNCHANGED timer
  /\ covered' = (covered \/ snap = lib)
  /\ UNCHANGED <<files, watches, done, snap, jobs, unseen, lost>>

-----------------------------------------------------------------------------
FileStep(r) == ChangeFile(r) \/ ChangeBelow(r) \/ MakeSub(r) \/ RemoveSub(r)
               \/ RemoveRoot(r) \/ MakeRoot(r)

Loop(w) == HandleFile(w) \/ HandleMkdir(w) \/ HandleRmdir(w) \/ HandleRootGone(w)
           \/ HandleOverflow(w) \/ Die(w) \/ LoopEnds(w)

Enqueue(c) == EnqCheck(c) \/ EnqMisread(c) \/ EnqGet(c) \/ EnqCreate(c)
              \/ EnqFails(c)

Reconcile == \/ RecList \/ RecDrop \/ RecHalt \/ RecSkip \/ RecKeep \/ RecReplace
             \/ RecForget \/ RecNone \/ RecStart \/ RecStartFails \/ RecStat
             \/ RecWalk \/ RecRegister

Next ==
  \/ \E r \in Roots : FileStep(r)
  \/ \E w \in Watchers : Loop(w) \/ Fire(w) \/ FireChecks(w)
  \/ \E c \in Callers : EnqLock(c) \/ Enqueue(c)
  \/ Tick \/ Ask \/ StartScan
  \/ \E r \in Roots, on \in BOOLEAN : AddLibrary(r, on) \/ UpdateLibrary(r, on)
  \/ DeleteLibrary
  \/ Reconcile

(* Every goroutine goes on, timers run out, the mutex starves nobody, a    *)
(* worker takes queued jobs and the monitor reconciles at every tick.      *)
Fairness ==
  /\ \A w \in Watchers : WF_vars(Loop(w)) /\ WF_vars(Fire(w) \/ FireChecks(w))
  /\ \A c \in Callers : SF_vars(EnqLock(c) \/ Enqueue(c))
  /\ WF_vars(StartScan)
  /\ WF_vars(Reconcile)

Spec == Init /\ [][Next]_vars /\ Fairness

-----------------------------------------------------------------------------
(* A change of a library that has been watched is never forgotten: it      *)
(* waits in a scan job, in a caller of enqueue, in the registered watcher  *)
(* (an event, the timer, or a failure the next Reconcile will find) or in  *)
(* the catch-up the monitor owes (Reconcile in monitor.go), while watchers *)
(* are replaced, the library moves and its root comes and goes.  As to     *)
(* changes in the subdirectory it rests on WholeTreeWatched, and so leaves *)
(* them out where events may be queued behind an overflow (Owed).          *)
Noticed(w) ==
  \/ timer[w] \/ queue[w] # <<>>
  \/ enq[w] = "fired" /\ ~done[w] /\ ~dead[w]
  \/ dead[w] \/ ~WatchingRoot(w) \/ root[w] # lib.root

ChangeRemembered ==
  unseen /\ ~lost =>
    \/ IsScanQueued
    \/ \E c \in Callers : enq[c] \in {"lock", "check", "get", "create"}
    \/ catchup
    \/ reg # NoWatcher /\ (rec = "forget" \/ Noticed(reg))

(* Every watcher that runs and has not been stopped is the registered one  *)
(* or the one Reconcile holds: replacing, path changes and deletions leak  *)
(* none.                                                                   *)
NoLeakedWatcher ==
  \A w \in Watchers : loop[w] /\ ~done[w] => w \in {reg, cur}

(* Timers of several watchers and the tick at once queue one scan, not     *)
(* two (enqueue holds its mutex over the question and the INSERT); each    *)
(* call of the database that fails may let in one more, since enqueue      *)
(* takes a question that fails for a no.                                   *)
OneQueuedScan == scans <= 1 + faults

(* A watcher that has handled all its events, was not refused a watch and  *)
(* still stands on its root watches the whole tree, also after an overflow *)
(* (addRecursive in loop).  It holds without Behind, when nothing is       *)
(* queued behind an overflow event, and fails with it: see                 *)
(* MCLibraryWatchOverflow.                                                 *)
WholeTreeWatched ==
  \A w \in Watchers :
    /\ loop[w] /\ ~done[w] /\ ~degraded[w] /\ queue[w] = <<>>
    /\ onTop[w] # 0 /\ onTop[w] = top[root[w]]
    => onSub[w] = sub[root[w]]

(* While the library can be watched, a scan is started after each change   *)
(* of it, unless a call of the database failed on the way to its job.      *)
ChangeIsScanned == []<>(unseen => lost \/ ~ShouldWatch(lib))

(* Watching ends when it is turned off, when the library moves and when    *)
(* it is deleted: what runs in the end is the watcher of this root.        *)
OnlyWantedRuns ==
  []<>(\A w \in Watchers : loop[w] => w = reg /\ lib.on /\ root[w] = lib.root)
=============================================================================
