------------------------- MODULE LibraryWatchProofs -------------------------
(***************************************************************************)
(* Proofs about LibraryWatch, for any number of watchers, roots and bounds *)
(* and for any capacity of the event queue.                                *)
(***************************************************************************)
EXTENDS LibraryWatch, TLAPS

\* The callers that take enqMu.
Locking == Callers \ {Handler}

(* A caller that was told no scan is queued is the only one that was told, *)
(* and nobody but it will queue one.                                       *)
EnqueueInv ==
  /\ enq \in [Callers -> {"idle", "fired", "lock", "check", "get", "create"}]
  /\ scans \in Nat /\ asked \in Nat /\ faults \in Nat
  /\ \A c, d \in Locking : enq[c] \in Held /\ enq[d] \in Held => c = d
  /\ \A c \in Locking : enq[c] \in {"get", "create"} => scans <= faults
  /\ OneQueuedScan

(* Reconcile holds a watcher exactly while it stops or starts one, and     *)
(* then none is registered; one it forgets has been stopped.               *)
ReconcileInv ==
  /\ loop \in [Watchers -> BOOLEAN] /\ done \in [Watchers -> BOOLEAN]
  /\ reg \in Watchers \cup {NoWatcher}
  /\ rec \in {"idle", "drop", "look", "forget", "start"} => cur = NoWatcher
  /\ rec \in {"halt", "stat", "walk", "register"} => cur \in Watchers
  /\ rec \in {"halt", "start", "stat", "walk", "register"} => reg = NoWatcher
  /\ rec = "forget" => reg \in Watchers /\ done[reg]
  /\ NoLeakedWatcher

IInv == EnqueueInv /\ ReconcileInv

-----------------------------------------------------------------------------

LEMMA InitHolds == ASSUME Init PROVE IInv
<1>1. EnqueueInv
  BY DEF Init, EnqueueInv, OneQueuedScan, Held, Locking
<1>2. ReconcileInv
  BY DEF Init, ReconcileInv, NoLeakedWatcher
<1> QED
  BY <1>1, <1>2 DEF IInv

(* The steps of the goroutines of watchers, callers of enqueue, handlers,  *)
(* workers and other programs leave Reconcile's variables alone, and stop  *)
(* watchers only.                                                          *)
LEMMA OthersKeepWatchers ==
  ASSUME ReconcileInv, UNCHANGED <<reg, cur, rec, done>>,
         \/ UNCHANGED loop
         \/ \E w \in Watchers : loop' = [loop EXCEPT ![w] = FALSE]
  PROVE  ReconcileInv'
BY DEF ReconcileInv, NoLeakedWatcher

(* A caller that goes from one place to another that is not under the      *)
(* mutex disturbs nobody.                                                  *)
LEMMA CallerOutside ==
  ASSUME EnqueueInv, NEW c \in Callers, NEW p \in {"idle", "fired", "lock"},
         enq' = [enq EXCEPT ![c] = p], UNCHANGED <<scans, asked>>,
         faults' = faults \/ faults' = faults + 1
  PROVE  EnqueueInv'
<1>1. /\ faults' \in Nat
      /\ \A n \in Nat : n <= faults => n <= faults'
      /\ \A n \in Nat : n <= 1 + faults => n <= 1 + faults'
  <2>1. faults \in Nat
    BY DEF EnqueueInv
  <2> QED
    BY <2>1
<1>2. p \notin Held /\ p \notin {"get", "create"}
  BY DEF Held
<1> QED
  BY <1>1, <1>2 DEF EnqueueInv, OneQueuedScan, Locking

(* So does a handler: it does not hold the mutex and counts on its own.    *)
LEMMA HandlerMoves ==
  ASSUME EnqueueInv, NEW p \in {"idle", "check", "create"},
         enq' = [enq EXCEPT ![Handler] = p], UNCHANGED <<scans, faults>>, asked' \in Nat
  PROVE  EnqueueInv'
BY DEF EnqueueInv, OneQueuedScan, Held, Locking

LEMMA EnqueueHolds ==
  ASSUME EnqueueInv, NEW c \in Callers, EnqLock(c) \/ Enqueue(c)
  PROVE  EnqueueInv'
<1> USE DEF EnqueueInv, OneQueuedScan, Held, Locking
<1>1. CASE EnqLock(c)
  <2>1. CASE c = Handler
    BY <1>1, <2>1, HandlerMoves DEF EnqLock
  <2>2. CASE c # Handler
    BY <1>1, <2>2 DEF EnqLock, EnqMuFree
  <2> QED
    BY <2>1, <2>2
<1>2. CASE EnqCheck(c)
  <2>1. CASE c = Handler
    BY <1>2, <2>1, HandlerMoves DEF EnqCheck
  <2>2. CASE c # Handler
    BY <1>2, <2>2 DEF EnqCheck, IsScanQueued
  <2> QED
    BY <2>1, <2>2
<1>3. CASE EnqGet(c)
  <2>1. CASE c = Handler
    BY <1>3, <2>1, HandlerMoves DEF EnqGet
  <2>2. CASE c # Handler
    BY <1>3, <2>2 DEF EnqGet
  <2> QED
    BY <2>1, <2>2
<1>4. CASE EnqCreate(c)
  <2>1. CASE c = Handler
    BY <1>4, <2>1, HandlerMoves DEF EnqCreate
  <2>2. CASE c # Handler
    BY <1>4, <2>2 DEF EnqCreate
  <2> QED
    BY <2>1, <2>2
<1>5. CASE EnqFails(c)
  BY <1>5, CallerOutside DEF EnqFails, Fault
<1>6. CASE EnqMisread(c)
  <2>1. faults' = faults + 1 /\ scans' = scans /\ asked' = asked
    BY <1>6 DEF EnqMisread, Fault
  <2>2. enq' = [enq EXCEPT ![c] = "get"] /\ enq[c] = "check" /\ c # Handler
    BY <1>6 DEF EnqMisread
  <2> QED
    BY <2>1, <2>2
<1> QED
  BY <1>1, <1>2, <1>3, <1>4, <1>5, <1>6 DEF Enqueue

(* A worker takes a job away, which leaves room for the next.              *)
LEMMA StartScanHolds == ASSUME EnqueueInv, StartScan PROVE EnqueueInv'
BY DEF EnqueueInv, StartScan, OneQueuedScan

(* Reconcile stops what it takes out of the map before it looks on, and    *)
(* registers what it starts.                                               *)
LEMMA ReconcileHolds == ASSUME ReconcileInv, Reconcile PROVE ReconcileInv'
<1> USE ConstantsAssumption DEF ReconcileInv, NoLeakedWatcher
<1>1. CASE RecList \/ RecSkip \/ RecKeep \/ RecNone
  BY <1>1 DEF RecList, RecSkip, RecKeep, RecNone, watches, control
<1>2. CASE RecDrop
  BY <1>2 DEF RecDrop, watches, control
<1>3. CASE RecHalt
  BY <1>3 DEF RecHalt, Stop, watches
<1>4. CASE RecReplace
  BY <1>4 DEF RecReplace, StopReplaced, Stop, watches
<1>5. CASE RecForget
  BY <1>5 DEF RecForget, watches, control
<1>6. CASE RecStart
  <2>1. PICK w \in Watchers : /\ Unused(w) /\ cur' = w
                              /\ done' = [done EXCEPT ![w] = FALSE]
    BY <1>6 DEF RecStart
  <2>2. ~loop[w] /\ UNCHANGED <<loop, reg>> /\ rec = "start" /\ rec' = "stat"
    BY <1>6, <2>1 DEF RecStart, Unused
  <2> QED
    BY <2>1, <2>2
<1>7. CASE RecStartFails
  BY <1>7 DEF RecStartFails, watches, control
<1>8. CASE RecStat
  BY <1>8 DEF RecStat, control
<1>9. CASE RecWalk
  BY <1>9 DEF RecWalk, control
<1>10. CASE RecRegister
  BY <1>10 DEF RecRegister, watches
<1> QED
  BY <1>1, <1>2, <1>3, <1>4, <1>5, <1>6, <1>7, <1>8, <1>9, <1>10 DEF Reconcile

-----------------------------------------------------------------------------

(* Every step preserves both parts.                                        *)
LEMMA NextHolds == ASSUME IInv, [Next]_vars PROVE IInv'
<1> USE DEF IInv
<1>1. CASE UNCHANGED vars
  <2>1. UNCHANGED <<enq, scans, asked, faults, reg, cur, rec, done, loop>>
    BY <1>1 DEF vars, jobs, monitor, control, watches
  <2> QED
    BY <2>1, OthersKeepWatchers DEF EnqueueInv, OneQueuedScan
<1>2. ASSUME NEW r \in Roots, FileStep(r) PROVE IInv'
  <2>1. UNCHANGED <<enq, scans, asked, faults, reg, cur, rec, done, loop>>
    BY <1>2 DEF FileStep, ChangeFile, ChangeBelow, MakeSub, RemoveSub, RemoveRoot,
                MakeRoot, jobs, monitor, control, watches
  <2> QED
    BY <2>1, OthersKeepWatchers DEF EnqueueInv, OneQueuedScan
<1>3. ASSUME NEW w \in Watchers, Loop(w) PROVE IInv'
  <2>1. UNCHANGED <<enq, scans, asked, faults, reg, cur, rec, done>>
    BY <1>3 DEF Loop, HandleFile, HandleMkdir, HandleRmdir, HandleRootGone,
                HandleOverflow, Die, LoopEnds, jobs, monitor, control
  <2>2. UNCHANGED loop \/ loop' = [loop EXCEPT ![w] = FALSE]
    BY <1>3 DEF Loop, HandleFile, HandleMkdir, HandleRmdir, HandleRootGone,
                HandleOverflow, Die, LoopEnds, CloseWatch
  <2> QED
    BY <2>1, <2>2, OthersKeepWatchers DEF EnqueueInv, OneQueuedScan
<1>4. ASSUME NEW w \in Watchers, Fire(w) \/ FireChecks(w) PROVE IInv'
  <2>1. UNCHANGED <<scans, asked, faults, reg, cur, rec, done, loop>>
    BY <1>4 DEF Fire, FireChecks, monitor, control, watches
  <2>2. w \in Callers /\ \E p \in {"idle", "fired", "lock"} : enq' = [enq EXCEPT ![w] = p]
    BY <1>4 DEF Fire, FireChecks, Callers
  <2> QED
    BY <2>1, <2>2, CallerOutside, OthersKeepWatchers
<1>5. ASSUME NEW c \in Callers, EnqLock(c) \/ Enqueue(c) PROVE IInv'
  <2>1. UNCHANGED <<reg, cur, rec, done, loop>>
    BY <1>5 DEF EnqLock, Enqueue, EnqCheck, EnqMisread, EnqGet, EnqCreate, EnqFails, monitor,
                control, watches
  <2> QED
    BY <1>5, <2>1, EnqueueHolds, OthersKeepWatchers
<1>6. CASE Tick \/ Ask
  <2>1. UNCHANGED <<scans, asked, faults, reg, cur, rec, done, loop>>
    BY <1>6 DEF Tick, Ask, monitor, control, watches
  <2>2. EnqueueInv'
    BY <1>6, <2>1, CallerOutside, HandlerMoves DEF Tick, Ask, Callers, EnqueueInv
  <2> QED
    BY <2>1, <2>2, OthersKeepWatchers
<1>7. CASE StartScan
  <2>1. UNCHANGED <<reg, cur, rec, done, loop>>
    BY <1>7 DEF StartScan, monitor, control, watches
  <2> QED
    BY <1>7, <2>1, StartScanHolds, OthersKeepWatchers
<1>8. ASSUME NEW r \in Roots, NEW on \in BOOLEAN,
             AddLibrary(r, on) \/ UpdateLibrary(r, on)
      PROVE  IInv'
  <2>1. UNCHANGED <<scans, asked, faults, reg, cur, rec, done, loop>>
    BY <1>8 DEF AddLibrary, UpdateLibrary, jobs, monitor, control, watches
  <2>2. UNCHANGED enq \/ enq' = [enq EXCEPT ![Handler] = "check"]
    BY <1>8 DEF AddLibrary, UpdateLibrary, jobs
  <2>3. EnqueueInv'
    BY <2>1, <2>2, HandlerMoves DEF EnqueueInv, OneQueuedScan
  <2> QED
    BY <2>1, <2>3, OthersKeepWatchers
<1>9. CASE DeleteLibrary
  <2>1. UNCHANGED <<enq, scans, asked, faults, reg, cur, rec, done, loop>>
    BY <1>9 DEF DeleteLibrary, jobs, monitor, control, watches
  <2> QED
    BY <2>1, OthersKeepWatchers DEF EnqueueInv, OneQueuedScan
<1>10. CASE Reconcile
  <2>1. UNCHANGED <<enq, scans, asked>> /\ (faults' = faults \/ faults' = faults + 1)
    BY <1>10 DEF Reconcile, RecList, RecDrop, RecHalt, RecSkip, RecKeep, RecReplace,
                 RecForget, RecNone, RecStart, RecStartFails, RecStat, RecWalk,
                 RecRegister, jobs, Fault
  <2> QED
    BY <1>10, <2>1, ReconcileHolds DEF EnqueueInv, OneQueuedScan
<1> QED
  BY <1>1, <1>2, <1>3, <1>4, <1>5, <1>6, <1>7, <1>8, <1>9, <1>10 DEF Next

(* The inductive invariant holds in every reachable state.                 *)
THEOREM Inductive == Spec => []IInv
<1>1. Init => IInv
  BY InitHolds
<1>2. IInv /\ [Next]_vars => IInv'
  BY NextHolds
<1> QED
  BY <1>1, <1>2, PTL DEF Spec

(* enqueue never queues a second scan of the library, however many timers  *)
(* and ticks call it at once.                                              *)
THEOREM OneScanQueued == Spec => []OneQueuedScan
<1>1. IInv => OneQueuedScan
  BY DEF IInv, EnqueueInv
<1> QED
  BY <1>1, Inductive, PTL

(* A watcher that runs and was not stopped is the registered one or the    *)
(* one Reconcile holds, whatever happens to roots and libraries meanwhile. *)
THEOREM WatchersAccounted == Spec => []NoLeakedWatcher
<1>1. IInv => NoLeakedWatcher
  BY DEF IInv, ReconcileInv
<1> QED
  BY <1>1, Inductive, PTL

-----------------------------------------------------------------------------
(* Types.                                                                  *)

(* What the kernel queued for a watcher: events, and one overflow event    *)
(* more than it has room for.                                              *)
Queues ==
  {q \in Seq(Events) : /\ Len(q) <= MaxQueue + 1
                       /\ Len(q) > MaxQueue => InQueue(q, "overflow")}

FileTypes ==
  /\ lib \in Library
  /\ top \in [Roots -> Inodes] /\ sub \in [Roots -> Inodes]
  /\ inodes \in Inodes /\ changes \in 0..MaxChanges

\* A watcher whose goroutine runs was given a root.
WatchTypes ==
  /\ root \in [Watchers -> Roots \cup {NoRoot}]
  /\ onTop \in [Watchers -> Inodes] /\ onSub \in [Watchers -> Inodes]
  /\ info \in [Watchers -> Inodes]
  /\ queue \in [Watchers -> Queues]
  /\ loop \in [Watchers -> BOOLEAN] /\ done \in [Watchers -> BOOLEAN]
  /\ dead \in [Watchers -> BOOLEAN] /\ degraded \in [Watchers -> BOOLEAN]
  /\ timer \in [Watchers -> BOOLEAN]
  /\ \A w \in Watchers : loop[w] => root[w] \in Roots

\* Reconcile starts a watcher only on a root that the list had.
MonitorTypes ==
  /\ snap \in Library
  /\ rec \in {"idle", "drop", "halt", "look", "forget", "start", "stat", "walk",
              "register"}
  /\ cur \in Watchers \cup {NoWatcher} /\ reg \in Watchers \cup {NoWatcher}
  /\ catchup \in BOOLEAN
  /\ rec \in {"forget", "start", "stat"} => snap.root \in Roots
  /\ rec \in {"stat", "walk"} => cur \in Watchers /\ root[cur] \in Roots

\* The handler asks and inserts without the mutex, one of it at a time.
JobTypes ==
  /\ enq \in [Callers -> {"idle", "fired", "lock", "check", "get", "create"}]
  /\ scans \in Nat /\ asked \in 0..1 /\ faults \in 0..MaxFaults
  /\ enq[Handler] \in {"idle", "check", "create"}
  /\ enq[Handler] = "create" => asked = 0

HistoryTypes == covered \in BOOLEAN /\ unseen \in BOOLEAN /\ lost \in BOOLEAN

TypeInv == FileTypes /\ WatchTypes /\ MonitorTypes /\ JobTypes /\ HistoryTypes

LEMMA InodesZero == 0 \in Inodes /\ (inodes \in Inodes /\ inodes < MaxInodes => inodes + 1 \in Inodes)
BY ConstantsAssumption DEF Inodes

LEMMA ChangeCounts ==
  ASSUME FileTypes, JobTypes, Change PROVE changes' \in 0..MaxChanges
BY ConstantsAssumption DEF FileTypes, JobTypes, Change, Room

LEMMA RowsAreTyped ==
  /\ NoLib \in Library
  /\ \A r \in Roots, on \in BOOLEAN : [root |-> r, on |-> on] \in Library
BY DEF Library, NoLib

LEMMA PutStays ==
  ASSUME NEW q \in Queues, NEW e \in Events PROVE Put(q, e) \in Queues
<1> USE ConstantsAssumption
<1>1. q \in Seq(Events) /\ Len(q) <= MaxQueue + 1 /\ "overflow" \in Events
  BY DEF Queues, Events
<1>2. CASE Merged(q, e) \/ Dropped(q)
  BY <1>2 DEF Put
<1>3. CASE ~(Merged(q, e) \/ Dropped(q)) /\ Len(q) < MaxQueue
  BY <1>1, <1>3 DEF Put, Queues
<1>4. CASE ~(Merged(q, e) \/ Dropped(q)) /\ ~(Len(q) < MaxQueue)
  <2>1. Put(q, e) = Append(q, "overflow")
    BY <1>4 DEF Put
  <2>2. Len(q) <= MaxQueue
    BY <1>1, <1>4 DEF Queues, Dropped
  <2>3. /\ Append(q, "overflow") \in Seq(Events)
        /\ Len(Append(q, "overflow")) = Len(q) + 1
        /\ Append(q, "overflow")[Len(q) + 1] = "overflow"
        /\ Len(q) + 1 \in DOMAIN Append(q, "overflow")
    BY <1>1
  <2>4. InQueue(Append(q, "overflow"), "overflow")
    BY <2>3 DEF InQueue
  <2>5. Append(q, "overflow") \in Queues
    BY <1>1, <2>2, <2>3, <2>4 DEF Queues
  <2> QED
    BY <2>1, <2>5
<1> QED
  BY <1>2, <1>3, <1>4

LEMMA TailStays ==
  ASSUME NEW q \in Queues, q # <<>> PROVE Tail(q) \in Queues
BY ConstantsAssumption DEF Queues

(* Events are told to watchers; nothing else of them changes.              *)
LEMMA NotifyKeeps ==
  ASSUME WatchTypes, NEW ws, NEW e \in Events, Notify(ws, e),
         UNCHANGED <<root, onTop, onSub, info, loop, dead, degraded, control>>
  PROVE  WatchTypes'
BY PutStays DEF WatchTypes, Notify, control

LEMMA FileStepTypes ==
  ASSUME TypeInv, NEW r \in Roots, FileStep(r) PROVE TypeInv'
<1> USE ConstantsAssumption DEF TypeInv
<1>1. FileTypes'
  <2>1. lib' = lib /\ changes' \in 0..MaxChanges
    <3>1. lib' = lib /\ (Change \/ changes' = changes)
      BY DEF FileStep, ChangeFile, ChangeBelow, MakeSub, RemoveSub, RemoveRoot, MakeRoot
    <3> QED
      BY <3>1, ChangeCounts DEF FileTypes
  <2>2. /\ top' \in [Roots -> Inodes] /\ sub' \in [Roots -> Inodes]
        /\ inodes' \in Inodes
    BY InodesZero DEF FileTypes, FileStep, ChangeFile, ChangeBelow, MakeSub, RemoveSub,
       RemoveRoot, MakeRoot
  <2> QED
    BY <2>1, <2>2 DEF FileTypes
<1>2. HistoryTypes'
  BY DEF HistoryTypes, FileStep, ChangeFile, ChangeBelow, MakeSub, RemoveSub,
     RemoveRoot, MakeRoot, See
<1>3. UNCHANGED <<control, monitor, jobs, root>>
  BY DEF FileStep, ChangeFile, ChangeBelow, MakeSub, RemoveSub, RemoveRoot, MakeRoot, watches
<1>4. MonitorTypes' /\ JobTypes'
  BY <1>3 DEF MonitorTypes, JobTypes, monitor, jobs
<1>5. WatchTypes'
  <2>1. CASE MakeRoot(r)
    BY <2>1 DEF MakeRoot, WatchTypes, watches, control
  <2>2. CASE ~MakeRoot(r)
    <3>1. /\ \E ws, e : e \in Events /\ Notify(ws, e)
          /\ UNCHANGED <<root, onTop, onSub, info, loop, dead, degraded, control>>
      BY <2>2 DEF FileStep, ChangeFile, ChangeBelow, MakeSub, RemoveSub, RemoveRoot, Events
    <3> QED
      BY <3>1, NotifyKeeps
  <2> QED
    BY <2>1, <2>2
<1> QED
  BY <1>1, <1>2, <1>4, <1>5

(* Watches are placed on directories that are there.                       *)
LEMMA AddTypes ==
  ASSUME FileTypes, WatchTypes, NEW w \in Watchers, root[w] \in Roots, AddRecursive(w)
  PROVE  /\ onTop' \in [Watchers -> Inodes] /\ onSub' \in [Watchers -> Inodes]
         /\ degraded' \in [Watchers -> BOOLEAN]
<1>1. PICK refused \in MayRefuse(w) :
        /\ onTop' = [onTop EXCEPT ![w] = IF top[root[w]] # 0 THEN top[root[w]] ELSE @]
        /\ onSub' = [onSub EXCEPT ![w] = IF refused THEN 0 ELSE sub[root[w]]]
        /\ degraded' = [degraded EXCEPT ![w] = refused]
  BY DEF AddRecursive
<1>2. refused \in BOOLEAN
  BY ConstantsAssumption DEF MayRefuse
<1>3. top[root[w]] \in Inodes /\ sub[root[w]] \in Inodes /\ 0 \in Inodes
  BY InodesZero DEF FileTypes
<1> QED
  BY <1>1, <1>2, <1>3 DEF WatchTypes

LEMMA LoopTypes ==
  ASSUME TypeInv, NEW w \in Watchers, Loop(w) PROVE TypeInv'
<1> USE DEF TypeInv
<1>1. UNCHANGED <<files, monitor, jobs, history, root, info>>
  BY DEF Loop, HandleFile, HandleMkdir, HandleRmdir, HandleRootGone, HandleOverflow,
     Die, LoopEnds
<1>2. FileTypes' /\ MonitorTypes' /\ JobTypes' /\ HistoryTypes'
  BY <1>1 DEF FileTypes, MonitorTypes, JobTypes, HistoryTypes, files, monitor, jobs, history
<1>3. WatchTypes'
  <2>1. loop[w] /\ root[w] \in Roots
    BY DEF Loop, HandleFile, HandleMkdir, HandleRmdir, HandleRootGone, HandleOverflow,
       Die, LoopEnds, Next1, WatchTypes
  <2>2. top[root[w]] \in Inodes /\ sub[root[w]] \in Inodes /\ 0 \in Inodes
    BY <2>1, InodesZero DEF FileTypes
  <2>3. queue' \in [Watchers -> Queues]
    <3>1. CASE Die(w) \/ LoopEnds(w)
      <4>1. <<>> \in Queues
        BY ConstantsAssumption DEF Queues
      <4> QED
        BY <3>1, <4>1 DEF Die, LoopEnds, CloseWatch, WatchTypes
    <3>2. CASE ~(Die(w) \/ LoopEnds(w))
      <4>1. queue[w] # <<>> /\ queue' = [queue EXCEPT ![w] = Tail(@)]
        BY <3>2 DEF Loop, HandleFile, HandleMkdir, HandleRmdir, HandleRootGone,
           HandleOverflow, Next1, Pop
      <4> QED
        BY <4>1, TailStays DEF WatchTypes
    <3> QED
      BY <3>1, <3>2
  <2>4. /\ onTop' \in [Watchers -> Inodes] /\ onSub' \in [Watchers -> Inodes]
        /\ degraded' \in [Watchers -> BOOLEAN]
    <3>1. CASE HandleOverflow(w)
      BY <2>1, <3>1, AddTypes DEF HandleOverflow
    <3>2. CASE HandleMkdir(w)
      <4>1. CASE sub[root[w]] # 0
        <5>1. PICK refused \in MayRefuse(w) :
                /\ onSub' = [onSub EXCEPT ![w] = IF refused THEN 0 ELSE sub[root[w]]]
                /\ degraded' = [degraded EXCEPT ![w] = @ \/ refused]
          BY <3>2, <4>1 DEF HandleMkdir
        <5>2. refused \in BOOLEAN /\ degraded[w] \in BOOLEAN
          BY ConstantsAssumption DEF MayRefuse, WatchTypes
        <5>3. (degraded[w] \/ refused) \in BOOLEAN
          BY <5>2
        <5>4. UNCHANGED onTop
          BY <3>2 DEF HandleMkdir
        <5> QED
          BY <2>2, <5>1, <5>2, <5>3, <5>4 DEF WatchTypes
      <4>2. CASE sub[root[w]] = 0
        BY <3>2, <4>2 DEF HandleMkdir, WatchTypes
      <4> QED
        BY <4>1, <4>2
    <3>3. CASE ~HandleOverflow(w) /\ ~HandleMkdir(w)
      BY <2>2, <3>3 DEF Loop, HandleFile, HandleRmdir, HandleRootGone, Die, LoopEnds,
         CloseWatch, WatchTypes
    <3> QED
      BY <3>1, <3>2, <3>3
  <2>5. /\ loop' \in [Watchers -> BOOLEAN] /\ dead' \in [Watchers -> BOOLEAN]
        /\ \A v \in Watchers : loop'[v] => loop[v]
    BY DEF Loop, HandleFile, HandleMkdir, HandleRmdir, HandleRootGone, HandleOverflow,
       Die, LoopEnds, CloseWatch, WatchTypes
  <2>6. done' \in [Watchers -> BOOLEAN] /\ timer' \in [Watchers -> BOOLEAN]
    BY DEF Loop, HandleFile, HandleMkdir, HandleRmdir, HandleRootGone, HandleOverflow,
       Die, LoopEnds, Schedule, control, WatchTypes
  <2> QED
    BY <1>1, <2>3, <2>4, <2>5, <2>6 DEF WatchTypes
<1> QED
  BY <1>2, <1>3

(* Timers and callers of enqueue.                                          *)
LEMMA CallerTypes ==
  ASSUME TypeInv,
         \/ \E w \in Watchers : Fire(w) \/ FireChecks(w)
         \/ \E c \in Callers : EnqLock(c) \/ Enqueue(c)
         \/ Tick \/ Ask \/ StartScan
  PROVE  TypeInv'
<1> USE ConstantsAssumption DEF TypeInv
<1>1. UNCHANGED <<lib, top, sub, inodes, watches, done, monitor>> /\ changes' \in 0..MaxChanges
  BY DEF Fire, FireChecks, EnqLock, Enqueue, EnqCheck, EnqMisread, EnqGet, EnqCreate, EnqFails, Tick,
     Ask, StartScan, Change, Room, files, control, FileTypes, JobTypes
<1>2. FileTypes' /\ MonitorTypes'
  BY <1>1 DEF FileTypes, MonitorTypes, monitor, watches
<1>3. timer' \in [Watchers -> BOOLEAN]
  BY DEF Fire, FireChecks, EnqLock, Enqueue, EnqCheck, EnqMisread, EnqGet, EnqCreate, EnqFails, Tick,
     Ask, StartScan, control, WatchTypes
<1>4. WatchTypes'
  BY <1>1, <1>3 DEF WatchTypes, watches
<1>5. HistoryTypes'
  <2>1. (lost \/ unseen) \in BOOLEAN /\ (unseen /\ covered) \in BOOLEAN
    BY DEF HistoryTypes
  <2> QED
    BY <2>1 DEF Fire, FireChecks, EnqLock, Enqueue, EnqCheck, EnqMisread, EnqGet, EnqCreate, EnqFails,
     Tick, Ask, StartScan, history, HistoryTypes
<1>6. JobTypes'
  <2>1. CASE \E w \in Watchers : Fire(w) \/ FireChecks(w)
    BY <2>1 DEF JobTypes, Fire, FireChecks, Callers
  <2>2. ASSUME NEW c \in Callers, EnqLock(c) \/ Enqueue(c) PROVE JobTypes'
    <3>1. CASE EnqLock(c)
      BY <3>1 DEF JobTypes, EnqLock
    <3>2. CASE EnqCheck(c)
      BY <3>2 DEF JobTypes, EnqCheck, IsScanQueued
    <3>3. CASE EnqGet(c)
      BY <3>3 DEF JobTypes, EnqGet
    <3>4. CASE EnqCreate(c)
      BY <3>4 DEF JobTypes, EnqCreate
    <3>5. CASE EnqFails(c)
      BY <3>5 DEF JobTypes, EnqFails, Fault
    <3>6. CASE EnqMisread(c)
      BY <3>6 DEF JobTypes, EnqMisread, Fault
    <3> QED
      BY <2>2, <3>1, <3>2, <3>3, <3>4, <3>5, <3>6 DEF Enqueue
  <2>3. CASE Tick \/ Ask
    BY <2>3 DEF JobTypes, Tick, Ask, Callers
  <2>4. CASE StartScan
    BY <2>4 DEF JobTypes, StartScan
  <2> QED
    BY <2>1, <2>2, <2>3, <2>4
<1> QED
  BY <1>2, <1>4, <1>5, <1>6

(* The handlers that change the row.                                       *)
LEMMA RowTypes ==
  ASSUME TypeInv,
         \/ \E r \in Roots, on \in BOOLEAN : AddLibrary(r, on) \/ UpdateLibrary(r, on)
         \/ DeleteLibrary
  PROVE  TypeInv'
<1> USE ConstantsAssumption DEF TypeInv
<1>1. UNCHANGED <<top, sub, inodes, watches, control, monitor, scans, asked, faults>>
  BY DEF AddLibrary, UpdateLibrary, DeleteLibrary, jobs
<1>2. changes' \in 0..MaxChanges /\ lib' \in Library
  <2>1. changes' \in 0..MaxChanges
    BY ChangeCounts DEF AddLibrary, UpdateLibrary, DeleteLibrary
  <2>2. \/ lib' = NoLib
        \/ \E r \in Roots, on \in BOOLEAN : lib' = [root |-> r, on |-> on]
    BY DEF AddLibrary, UpdateLibrary, DeleteLibrary
  <2> QED
    BY <2>1, <2>2, RowsAreTyped
<1>3. FileTypes' /\ WatchTypes' /\ MonitorTypes'
  BY <1>1, <1>2 DEF FileTypes, WatchTypes, MonitorTypes, watches, control, monitor
<1>4. HistoryTypes'
  BY DEF AddLibrary, UpdateLibrary, DeleteLibrary, history, HistoryTypes
<1>5. UNCHANGED enq \/ enq' = [enq EXCEPT ![Handler] = "check"]
  BY DEF AddLibrary, UpdateLibrary, DeleteLibrary, jobs
<1>6. JobTypes'
  BY <1>1, <1>5 DEF JobTypes, Callers
<1> QED
  BY <1>3, <1>4, <1>6

LEMMA ReconcileTypes == ASSUME TypeInv, ReconcileInv, Reconcile PROVE TypeInv'
<1> USE ConstantsAssumption DEF TypeInv
<1>1. UNCHANGED <<files, queue, enq, scans, asked, unseen, lost>>
  BY DEF Reconcile, RecList, RecDrop, RecHalt, RecSkip, RecKeep, RecReplace, RecForget,
     RecNone, RecStart, RecStartFails, RecStat, RecWalk, RecRegister, watches, jobs, history
<1>2. faults' \in 0..MaxFaults
  BY DEF Reconcile, RecList, RecDrop, RecHalt, RecSkip, RecKeep, RecReplace, RecForget,
     RecNone, RecStart, RecStartFails, RecStat, RecWalk, RecRegister, jobs, JobTypes,
     Fault
<1>3. covered' \in BOOLEAN
  <2>1. (covered \/ snap = lib) \in BOOLEAN
    BY DEF HistoryTypes
  <2> QED
    BY <2>1 DEF Reconcile, RecList, RecDrop, RecHalt, RecSkip, RecKeep, RecReplace, RecForget,
     RecNone, RecStart, RecStartFails, RecStat, RecWalk, RecRegister, history, HistoryTypes
<1>4. FileTypes' /\ JobTypes' /\ HistoryTypes'
  BY <1>1, <1>2, <1>3 DEF FileTypes, JobTypes, HistoryTypes, files
<1>5. ShouldWatch(snap) => snap.root \in Roots
  BY DEF ShouldWatch, IsLocalFS
<1>6. CASE RecList \/ RecSkip \/ RecKeep \/ RecNone
  BY <1>4, <1>5, <1>6 DEF RecList, RecSkip, RecKeep, RecNone, WatchTypes, MonitorTypes,
     FileTypes, watches, control
<1>7. CASE RecDrop
  <2>1. (snap # NoLib) \in BOOLEAN /\ (catchup /\ snap # NoLib) \in BOOLEAN
    BY DEF MonitorTypes
  <2> QED
    BY <1>4, <1>7, <2>1 DEF RecDrop, WatchTypes, MonitorTypes, watches, control
<1>8. CASE RecHalt
  BY <1>4, <1>8 DEF RecHalt, Stop, WatchTypes, MonitorTypes, watches
<1>9. CASE RecReplace
  BY <1>4, <1>5, <1>9 DEF RecReplace, StopReplaced, Stop, WatchTypes, MonitorTypes, watches
<1>10. CASE RecForget
  BY <1>4, <1>10 DEF RecForget, ScanOwed, WatchTypes, MonitorTypes, watches, control
<1>11. CASE RecStart
  <2>1. snap.root \in Roots /\ top[snap.root] \in Inodes
    BY <1>11 DEF RecStart, MonitorTypes, FileTypes
  <2>2. PICK w \in Watchers :
          /\ cur' = w
          /\ root' = [root EXCEPT ![w] = snap.root]
          /\ onTop' = [onTop EXCEPT ![w] = top[snap.root]]
          /\ dead' = [dead EXCEPT ![w] = FALSE]
          /\ done' = [done EXCEPT ![w] = FALSE]
    BY <1>11 DEF RecStart
  <2>3. /\ rec' = "stat"
        /\ UNCHANGED <<onSub, info, queue, loop, degraded, timer, snap, reg, catchup>>
    BY <1>11 DEF RecStart
  <2>4. WatchTypes'
    BY <2>1, <2>2, <2>3 DEF WatchTypes
  <2>5. MonitorTypes'
    BY <2>1, <2>2, <2>3 DEF WatchTypes, MonitorTypes
  <2> QED
    BY <1>4, <2>4, <2>5
<1>12. CASE RecStartFails
  BY <1>4, <1>12 DEF RecStartFails, WatchTypes, MonitorTypes, watches, control
<1>13. CASE RecStat
  <2>1. top[snap.root] \in Inodes
    BY <1>13 DEF RecStat, MonitorTypes, FileTypes
  <2> QED
    BY <1>4, <1>13, <2>1 DEF RecStat, WatchTypes, MonitorTypes, control
<1>14. CASE RecWalk
  <2>1. cur \in Watchers /\ root[cur] \in Roots
    BY <1>14 DEF RecWalk, MonitorTypes
  <2>2. /\ onTop' \in [Watchers -> Inodes] /\ onSub' \in [Watchers -> Inodes]
        /\ degraded' \in [Watchers -> BOOLEAN]
    BY <1>14, <2>1, AddTypes DEF RecWalk
  <2> QED
    BY <1>4, <1>14, <2>1, <2>2 DEF RecWalk, WatchTypes, MonitorTypes, control
<1>15. CASE RecRegister
  BY <1>4, <1>15 DEF RecRegister, Schedule, WatchTypes, MonitorTypes, ReconcileInv, watches
<1> QED
  BY <1>6, <1>7, <1>8, <1>9, <1>10, <1>11, <1>12, <1>13, <1>14, <1>15 DEF Reconcile

LEMMA InitTypes == ASSUME Init PROVE TypeInv
<1> USE ConstantsAssumption
<1>1. <<>> \in Queues /\ 0 \in Inodes /\ 1 \in Inodes
  BY DEF Queues, Inodes
<1>2. FileTypes /\ HistoryTypes
  <2>1. lib \in Library
    BY DEF Init
  <2>2. changes \in 0..MaxChanges /\ top \in [Roots -> Inodes] /\ sub \in [Roots -> Inodes]
    BY <1>1 DEF Init
  <2> QED
    BY <1>1, <2>1, <2>2 DEF Init, FileTypes, HistoryTypes
<1>5. JobTypes
  BY DEF Init, JobTypes, Callers
<1>3. WatchTypes
  BY <1>1 DEF Init, WatchTypes
<1>4. MonitorTypes
  BY DEF Init, MonitorTypes, Library, NoLib
<1> QED
  BY <1>2, <1>3, <1>4, <1>5 DEF TypeInv

LEMMA NextTypes == ASSUME IInv, TypeInv, [Next]_vars PROVE TypeInv'
<1>1. CASE UNCHANGED vars
  BY <1>1 DEF vars, files, watches, control, monitor, jobs, history, TypeInv, FileTypes,
     WatchTypes, MonitorTypes, JobTypes, HistoryTypes
<1>2. CASE Next
  BY <1>2, FileStepTypes, LoopTypes, CallerTypes, RowTypes, ReconcileTypes DEF Next, IInv
<1> QED
  BY <1>1, <1>2

(* Type correctness, with queues that hold no more than the kernel allows  *)
(* and one overflow event, and at most one scan queued by the handlers.    *)
THEOREM TypeCorrect == Spec => []TypeOK
<1>1. Init => TypeInv
  BY InitTypes
<1>2. IInv /\ TypeInv /\ [Next]_vars => TypeInv'
  BY NextTypes
<1>3. TypeInv => TypeOK
  <2> SUFFICES ASSUME TypeInv PROVE TypeOK
    OBVIOUS
  <2>1. queue \in [Watchers -> Seq(Events)] /\ \A w \in Watchers : Len(queue[w]) <= MaxQueue + 1
    BY DEF TypeInv, WatchTypes, Queues
  <2> QED
    BY <2>1 DEF TypeInv, FileTypes, WatchTypes, MonitorTypes, JobTypes, HistoryTypes, TypeOK
<1> QED
  BY <1>1, <1>2, <1>3, Inductive, PTL DEF Spec
=============================================================================
