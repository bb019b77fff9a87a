-------------------------- MODULE WatchMemoryProofs --------------------------
(***************************************************************************)
(* What watchers and the monitor remember (LibraryWatch): a watcher that   *)
(* has handled its events watches the whole tree, if nothing is ever       *)
(* queued behind an overflow event (~Behind), and no change of a library   *)
(* that is owed a scan is forgotten, whether or not something is.  All     *)
(* other constants are arbitrary.                                          *)
(***************************************************************************)
EXTENDS LibraryWatchProofs

-----------------------------------------------------------------------------
(* Queues of events.                                                       *)

Structural == {"mkdir", "rmdir"}

\* The last event about the subdirectory in a queue; that there is none.
LastIs(q, e) == \E i \in DOMAIN q : /\ q[i] = e
                                    /\ \A j \in DOMAIN q : j > i => q[j] \notin Structural
NoneLeft(q)  == \A i \in DOMAIN q : q[i] \notin Structural

OverflowLast(q) == \A i \in DOMAIN q : q[i] = "overflow" => i = Len(q)

(* The kernel merges an event, drops it for an overflow event, or queues   *)
(* it; in each case the queue tells of it and of all it told before.       *)
LEMMA PutTells ==
  ASSUME NEW q \in Seq(Events), NEW e \in Events
  PROVE  /\ InQueue(Put(q, e), e) \/ InQueue(Put(q, e), "overflow")
         /\ \A x : InQueue(q, x) => InQueue(Put(q, e), x)
<1>1. CASE Merged(q, e)
  <2>1. Put(q, e) = q /\ q # <<>> /\ q[Len(q)] = e /\ Len(q) \in DOMAIN q
    BY <1>1 DEF Put, Merged
  <2> QED
    BY <2>1 DEF InQueue
<1>2. CASE ~Merged(q, e) /\ Dropped(q)
  BY <1>2 DEF Put, Dropped
<1>3. CASE ~Merged(q, e) /\ ~Dropped(q)
  <2> DEFINE f == IF Len(q) < MaxQueue THEN e ELSE "overflow"
             p == Append(q, f)
  <2>1. Put(q, e) = p
    BY <1>3 DEF Put
  <2>2. /\ p[Len(q) + 1] = f /\ Len(q) + 1 \in DOMAIN p
        /\ \A i \in DOMAIN q : i \in DOMAIN p /\ p[i] = q[i]
    OBVIOUS
  <2> HIDE DEF p
  <2>3. InQueue(p, f) /\ \A x : InQueue(q, x) => InQueue(p, x)
    BY <2>2 DEF InQueue
  <2> QED
    BY <2>1, <2>3
<1> QED
  BY <1>1, <1>2, <1>3

(* With nothing behind an overflow event the last event about the          *)
(* subdirectory in the queue is the last that happened.                    *)
LEMMA PutRemembers ==
  ASSUME ~Behind, NEW q \in Seq(Events), NEW e \in Events \ {"overflow"}, OverflowLast(q)
  PROVE  /\ OverflowLast(Put(q, e))
         /\ ~InQueue(Put(q, e), "overflow") =>
              /\ NoneLeft(Put(q, e)) => NoneLeft(q) /\ e \notin Structural
              /\ \A x \in Structural :
                   LastIs(Put(q, e), x) => IF e \in Structural THEN x = e ELSE LastIs(q, x)
<1>1. CASE Merged(q, e)
  <2>1. Put(q, e) = q /\ q # <<>> /\ q[Len(q)] = e /\ Len(q) \in DOMAIN q
    BY <1>1 DEF Put, Merged
  <2>2. NoneLeft(q) => e \notin Structural
    BY <2>1 DEF NoneLeft
  <2>3. \A x \in Structural : LastIs(q, x) /\ e \in Structural => x = e
    BY <2>1 DEF LastIs
  <2> QED
    BY <2>1, <2>2, <2>3
<1>2. CASE ~Merged(q, e) /\ Dropped(q)
  <2>1. Put(q, e) = q /\ InQueue(q, "overflow")
    BY <1>2 DEF Put, Dropped
  <2> QED
    BY <2>1
<1>3. CASE ~Merged(q, e) /\ ~Dropped(q)
  <2> DEFINE f == IF Len(q) < MaxQueue THEN e ELSE "overflow"
             p == Append(q, f)
  <2>1. Put(q, e) = p /\ ~InQueue(q, "overflow")
    BY <1>3 DEF Put, Dropped
  <2>2. /\ p # <<>> /\ Len(p) = Len(q) + 1 /\ p[Len(q) + 1] = f
        /\ DOMAIN p = 1..(Len(q) + 1) /\ DOMAIN q = 1..Len(q) /\ Len(q) \in Nat
        /\ \A i \in DOMAIN q : i \in DOMAIN p /\ p[i] = q[i]
    OBVIOUS
  <2> HIDE DEF p
  <2>3. OverflowLast(p)
    BY <2>1, <2>2 DEF OverflowLast, InQueue
  <2>4. ~InQueue(p, "overflow") => f = e
    BY <2>2 DEF InQueue
  <2>5. ASSUME f = e
        PROVE  /\ NoneLeft(p) => NoneLeft(q) /\ e \notin Structural
               /\ \A x \in Structural :
                    LastIs(p, x) => IF e \in Structural THEN x = e ELSE LastIs(q, x)
    <3>1. NoneLeft(p) => NoneLeft(q) /\ e \notin Structural
      BY <2>2, <2>5 DEF NoneLeft
    <3>2. ASSUME NEW x \in Structural, LastIs(p, x)
          PROVE  IF e \in Structural THEN x = e ELSE LastIs(q, x)
      <4>1. PICK i \in DOMAIN p : /\ p[i] = x
                                  /\ \A j \in DOMAIN p : j > i => p[j] \notin Structural
        BY <3>2 DEF LastIs
      <4>2. CASE i = Len(q) + 1
        BY <2>2, <2>5, <4>1, <4>2
      <4>3. CASE i # Len(q) + 1
        <5>1. i \in DOMAIN q /\ Len(q) + 1 > i /\ Len(q) + 1 \in DOMAIN p
          BY <2>2, <4>1, <4>3
        <5>2. e \notin Structural
          BY <2>2, <2>5, <4>1, <5>1
        <5>3. LastIs(q, x)
          BY <2>2, <4>1, <5>1 DEF LastIs
        <5> QED
          BY <5>2, <5>3
      <4> QED
        BY <4>2, <4>3
    <3> QED
      BY <3>1, <3>2
  <2> QED
    BY <2>1, <2>3, <2>4, <2>5
<1> QED
  BY <1>1, <1>2, <1>3

(* What is left when the first event is taken.                             *)
LEMMA TailRemembers ==
  ASSUME NEW q \in Seq(Events), q # <<>>
  PROVE  /\ \A x : InQueue(Tail(q), x) => InQueue(q, x)
         /\ \A x : InQueue(q, x) /\ x # Head(q) => InQueue(Tail(q), x)
         /\ \A x : LastIs(Tail(q), x) => LastIs(q, x)
         /\ NoneLeft(Tail(q)) => IF Head(q) \in Structural THEN LastIs(q, Head(q))
                                                           ELSE NoneLeft(q)
         /\ OverflowLast(q) =>
              OverflowLast(Tail(q)) /\ (Head(q) = "overflow" => Tail(q) = <<>>)
<1> DEFINE p == Tail(q)
<1>1. /\ Len(q) \in Nat /\ Len(q) > 0 /\ DOMAIN q = 1..Len(q)
      /\ Len(p) = Len(q) - 1 /\ DOMAIN p = 1..(Len(q) - 1)
      /\ \A i \in DOMAIN p : p[i] = q[i + 1] /\ i + 1 \in DOMAIN q
      /\ Head(q) = q[1] /\ 1 \in DOMAIN q
  OBVIOUS
<1>2. \A i \in DOMAIN q : i # 1 => i - 1 \in DOMAIN p /\ q[i] = p[i - 1]
  BY <1>1
<1>3. Len(q) = 1 => p = <<>>
  BY <1>1
<1> HIDE DEF p
<1>4. OverflowLast(q) => OverflowLast(p)
  BY <1>1 DEF OverflowLast
<1>5. \A x : InQueue(p, x) => InQueue(q, x)
  BY <1>1 DEF InQueue
<1>6. \A x : InQueue(q, x) /\ x # q[1] => InQueue(p, x)
  BY <1>1, <1>2 DEF InQueue
<1>7. ASSUME NEW x, LastIs(p, x) PROVE LastIs(q, x)
  <2>1. PICK i \in DOMAIN p : p[i] = x /\ \A j \in DOMAIN p : j > i => p[j] \notin Structural
    BY <1>7 DEF LastIs
  <2>2. i + 1 \in DOMAIN q /\ q[i + 1] = x
    BY <1>1, <2>1
  <2>3. ASSUME NEW j \in DOMAIN q, j > i + 1 PROVE q[j] \notin Structural
    <3>1. j # 1 /\ j - 1 \in DOMAIN p /\ q[j] = p[j - 1] /\ j - 1 > i
      BY <1>1, <1>2, <2>1, <2>3
    <3> QED
      BY <2>1, <3>1
  <2> QED
    BY <2>2, <2>3 DEF LastIs
<1>8. ASSUME NoneLeft(p) PROVE \A j \in DOMAIN q : j # 1 => q[j] \notin Structural
  BY <1>2, <1>8 DEF NoneLeft
<1>9. NoneLeft(p) => IF q[1] \in Structural THEN LastIs(q, q[1]) ELSE NoneLeft(q)
  BY <1>1, <1>8 DEF NoneLeft, LastIs
<1>10. OverflowLast(q) /\ q[1] = "overflow" => p = <<>>
  BY <1>1, <1>3 DEF OverflowLast
<1> QED
  BY <1>1, <1>4, <1>5, <1>6, <1>7, <1>9, <1>10 DEF p

-----------------------------------------------------------------------------
(* The watches of a watcher.                                               *)

\* Reconcile is between the first watch and the walk over the tree.
Starting(w) == w = cur /\ rec \in {"stat", "walk"}

\* Its watch stands on the root, and it will not be told otherwise.
Attached(w) == /\ onTop[w] # 0 /\ onTop[w] = top[root[w]]
               /\ ~InQueue(queue[w], "overflow") /\ ~InQueue(queue[w], "rootgone")

\* Directories are numbered as they are made.
NumbersKnown == /\ \A r \in Roots : top[r] <= inodes
                /\ \A w \in Watchers : onTop[w] <= inodes /\ info[w] <= inodes

Resting(w) ==
  ~loop[w] /\ ~Starting(w) => onTop[w] = 0 /\ onSub[w] = 0 /\ queue[w] = <<>>

\* A root that is replaced before the walk has told the first watch.
FirstWatch(w) ==
  Starting(w) => /\ ~loop[w] /\ onTop[w] # 0
                 /\ \/ onTop[w] = top[root[w]]
                    \/ InQueue(queue[w], "rootgone") \/ InQueue(queue[w], "overflow")

\* The last event about the subdirectory says what there is; without one the
\* watch on it is right.
Followed(w) ==
  Attached(w) => /\ LastIs(queue[w], "mkdir") => sub[root[w]] # 0
                 /\ LastIs(queue[w], "rmdir") => sub[root[w]] = 0
                 /\ loop[w] /\ ~degraded[w] /\ NoneLeft(queue[w]) => onSub[w] = sub[root[w]]

\* While the root is the one it was started on, its watch is there or gone.
RootSeen(w) ==
  loop[w] /\ top[root[w]] # 0 /\ info[w] = top[root[w]] => onTop[w] \in {0, top[root[w]]}

\* What the events tell of the subdirectory is the whole of it only if none
\* of them is lost behind an overflow event.
Faithful(w) == Followed(w) /\ OverflowLast(queue[w])

WatchInv(w) == /\ Resting(w) /\ FirstWatch(w) /\ RootSeen(w)
               /\ ~Behind => Faithful(w)

TreeInv == NumbersKnown /\ \A w \in Watchers : WatchInv(w)

(* Where nothing of a watcher changes, what is said of it stays.           *)
LEMMA WatchStays ==
  ASSUME NEW w \in Watchers, WatchInv(w),
         onTop'[w] = onTop[w], onSub'[w] = onSub[w], info'[w] = info[w],
         queue'[w] = queue[w], loop'[w] = loop[w], degraded'[w] = degraded[w],
         root'[w] = root[w], Starting(w)' <=> Starting(w),
         \/ top'[root[w]] = top[root[w]] /\ sub'[root[w]] = sub[root[w]]
         \/ ~loop[w] /\ ~Starting(w)
  PROVE  WatchInv(w)'
<1>1. CASE ~loop[w] /\ ~Starting(w)
  BY <1>1 DEF WatchInv, Resting, FirstWatch, Faithful, Followed, RootSeen, Attached
<1>2. CASE top'[root[w]] = top[root[w]] /\ sub'[root[w]] = sub[root[w]]
  <2>1. Attached(w)' <=> Attached(w)
    BY <1>2 DEF Attached
  <2> QED
    BY <1>2, <2>1 DEF WatchInv, Resting, FirstWatch, Faithful, Followed, RootSeen
<1> QED
  BY <1>1, <1>2

(* An event is queued for a watcher: about a file, about the subdirectory  *)
(* that was made or removed, or about the root that is gone.               *)
LEMMA EventNoticed ==
  ASSUME NEW w \in Watchers, WatchInv(w), queue[w] \in Seq(Events),
         loop[w] \/ Starting(w),
         NEW e \in {"file", "mkdir", "rmdir", "rootgone"},
         queue'[w] = Put(queue[w], e),
         UNCHANGED <<root, onTop, onSub, info, loop, degraded, cur, rec>>,
         IF e = "rootgone" THEN top'[root[w]] = 0
         ELSE /\ top'[root[w]] = top[root[w]]
              /\ e = "file" => sub'[root[w]] = sub[root[w]]
              /\ e = "mkdir" => sub'[root[w]] # 0
              /\ e = "rmdir" => sub'[root[w]] = 0
  PROVE  WatchInv(w)'
<1> DEFINE q == queue[w]
           p == queue'[w]
<1>1. e \in Events \ {"overflow"} /\ (e \in Structural <=> e \in {"mkdir", "rmdir"})
      /\ "mkdir" \in Structural /\ "rmdir" \in Structural /\ "mkdir" # "rmdir"
  BY DEF Events, Structural
<1>2. /\ InQueue(p, e) \/ InQueue(p, "overflow")
      /\ \A x : InQueue(q, x) => InQueue(p, x)
  BY <1>1, PutTells
<1> HIDE DEF p, q
<1>3. (Starting(w)' <=> Starting(w)) /\ p = queue'[w] /\ q = queue[w]
  BY DEF Starting, p, q
<1>4. Resting(w)'
  BY <1>3 DEF Resting
<1>5. FirstWatch(w)'
  BY <1>2, <1>3 DEF FirstWatch, WatchInv
<1>6. RootSeen(w)'
  BY DEF RootSeen, WatchInv
<1>7. ASSUME ~Behind PROVE Faithful(w)'
  <2>1. q \in Seq(Events) /\ p = Put(q, e) /\ OverflowLast(q)
    BY <1>3, <1>7 DEF WatchInv, Faithful
  <2>2. /\ OverflowLast(p)
        /\ ~InQueue(p, "overflow") =>
             /\ NoneLeft(p) => NoneLeft(q) /\ e \notin Structural
             /\ \A x \in Structural :
                  LastIs(p, x) => IF e \in Structural THEN x = e ELSE LastIs(q, x)
    BY <1>1, <1>7, <2>1, PutRemembers
  <2> SUFFICES ASSUME Attached(w)'
               PROVE  /\ LastIs(p, "mkdir") => sub'[root[w]] # 0
                      /\ LastIs(p, "rmdir") => sub'[root[w]] = 0
                      /\ loop[w] /\ ~degraded[w] /\ NoneLeft(p) => onSub[w] = sub'[root[w]]
    BY <1>3, <2>2 DEF Faithful, Followed
  <2>3. /\ onTop[w] # 0 /\ onTop[w] = top'[root[w]]
        /\ ~InQueue(p, "overflow") /\ ~InQueue(p, "rootgone")
    BY <1>3 DEF Attached
  <2>4. e # "rootgone" /\ Attached(w)
    BY <1>2, <1>3, <2>3 DEF Attached
  <2>5. /\ LastIs(q, "mkdir") => sub[root[w]] # 0
        /\ LastIs(q, "rmdir") => sub[root[w]] = 0
        /\ loop[w] /\ ~degraded[w] /\ NoneLeft(q) => onSub[w] = sub[root[w]]
    BY <1>3, <1>7, <2>4 DEF WatchInv, Faithful, Followed
  <2> QED
    BY <1>1, <2>2, <2>3, <2>4, <2>5
<1> QED
  BY <1>4, <1>5, <1>6, <1>7 DEF WatchInv

(* A watcher that has no watch on the directory that changes hears nothing *)
(* of it, and has either heard that its root is gone or is at rest.        *)
LEMMA DetachedStays ==
  ASSUME NEW w \in Watchers, WatchInv(w), queue'[w] = queue[w],
         UNCHANGED <<root, onTop, onSub, info, loop, degraded, cur, rec>>,
         onTop[w] # 0 => onTop[w] # top[root[w]] /\ onTop[w] # top'[root[w]],
         top'[root[w]] # 0 => top'[root[w]] = top[root[w]] \/ info[w] # top'[root[w]]
  PROVE  WatchInv(w)'
<1>1. Starting(w)' <=> Starting(w)
  BY DEF Starting
<1>2. ~Attached(w)'
  BY DEF Attached
<1>3. FirstWatch(w)'
  BY <1>1 DEF FirstWatch, WatchInv
<1>4. RootSeen(w)'
  BY DEF RootSeen, WatchInv
<1> QED
  BY <1>1, <1>2, <1>3, <1>4 DEF WatchInv, Resting, Faithful, Followed

LEMMA FileStepTree ==
  ASSUME TypeInv, TreeInv, NEW r \in Roots, FileStep(r)
  PROVE  TreeInv'
<1>1. UNCHANGED <<root, onTop, onSub, info, loop, degraded, cur, rec>>
  BY DEF FileStep, ChangeFile, ChangeBelow, MakeSub, RemoveSub, RemoveRoot, MakeRoot,
     watches, control, monitor
<1>2. /\ \A x \in Roots \ {r} : top'[x] = top[x] /\ sub'[x] = sub[x]
      /\ top[r] \in Nat /\ inodes \in Nat /\ inodes <= inodes' /\ inodes' \in Nat
      /\ \A x \in Roots : top[x] \in Nat
      /\ \A w \in Watchers : onTop[w] \in Nat /\ info[w] \in Nat
  <2>1. /\ top \in [Roots -> Nat] /\ sub \in [Roots -> Nat] /\ inodes \in Nat
        /\ onTop \in [Watchers -> Nat] /\ info \in [Watchers -> Nat]
    BY ConstantsAssumption DEF TypeInv, FileTypes, WatchTypes, Inodes
  <2>2. \A x \in Roots \ {r} : top'[x] = top[x] /\ sub'[x] = sub[x]
    BY <2>1 DEF FileStep, ChangeFile, ChangeBelow, MakeSub, RemoveSub, RemoveRoot,
       MakeRoot
  <2>3. inodes' \in {inodes, inodes + 1}
    BY DEF FileStep, ChangeFile, ChangeBelow, MakeSub, RemoveSub, RemoveRoot, MakeRoot
  <2> QED
    BY <2>1, <2>2, <2>3
<1>3. NumbersKnown'
  <2>1. \A x \in Roots : top'[x] <= inodes'
    <3>1. top'[r] \in {0, top[r], inodes'}
      BY DEF FileStep, ChangeFile, ChangeBelow, MakeSub, RemoveSub, RemoveRoot,
         MakeRoot, TypeInv, FileTypes
    <3> QED
      BY <1>2, <3>1 DEF TreeInv, NumbersKnown
  <2> QED
    BY <1>1, <1>2, <2>1 DEF TreeInv, NumbersKnown
<1>4. ASSUME NEW w \in Watchers PROVE WatchInv(w)'
  <2>1. WatchInv(w) /\ queue[w] \in Seq(Events) /\ onTop[w] <= inodes /\ info[w] <= inodes
    BY <1>4 DEF TreeInv, NumbersKnown, TypeInv, WatchTypes, Queues
  <2>2. Starting(w)' <=> Starting(w)
    BY <1>1 DEF Starting
  <2>3. CASE ~loop[w] /\ ~Starting(w)
    <3>1. onTop[w] = 0 /\ onSub[w] = 0
      BY <2>1, <2>3 DEF WatchInv, Resting
    <3>2. w \notin OnTop(r) /\ w \notin OnSub(r)
      BY <3>1 DEF OnTop, OnSub
    <3>3. queue'[w] = queue[w]
      BY <3>2 DEF FileStep, ChangeFile, ChangeBelow, MakeSub, RemoveSub, RemoveRoot,
         MakeRoot, Notify, watches
    <3> QED
      BY <1>1, <2>1, <2>2, <2>3, <3>3, WatchStays
  <2>4. CASE (loop[w] \/ Starting(w)) /\ root[w] # r
    <3>1. root[w] \in Roots
      BY <2>4 DEF TypeInv, WatchTypes, MonitorTypes, Starting
    <3>2. w \notin OnTop(r) /\ w \notin OnSub(r)
      BY <2>4 DEF OnTop, OnSub
    <3>3. queue'[w] = queue[w]
      BY <3>2 DEF FileStep, ChangeFile, ChangeBelow, MakeSub, RemoveSub, RemoveRoot,
         MakeRoot, Notify, watches
    <3> QED
      BY <1>1, <1>2, <2>1, <2>2, <2>4, <3>1, <3>3, WatchStays
  <2>5. CASE (loop[w] \/ Starting(w)) /\ root[w] = r
    <3>1. CASE ChangeFile(r) \/ ChangeBelow(r)
      <4>1. queue'[w] \in {queue[w], Put(queue[w], "file")} /\ UNCHANGED <<top, sub>>
        BY <3>1 DEF ChangeFile, ChangeBelow, Notify
      <4>2. CASE queue'[w] = queue[w]
        BY <1>1, <2>1, <2>2, <4>1, <4>2, WatchStays
      <4>3. CASE queue'[w] = Put(queue[w], "file")
        BY <1>1, <2>1, <2>5, <4>1, <4>3, EventNoticed
      <4> QED
        BY <4>1, <4>2, <4>3
    <3>2. CASE MakeSub(r) \/ RemoveSub(r)
      <4>1. PICK e \in {"mkdir", "rmdir"} :
              /\ Notify(OnTop(r), e)
              /\ e = "mkdir" => sub'[r] # 0
              /\ e = "rmdir" => sub'[r] = 0
        <5>1. CASE MakeSub(r)
          <6>1. sub'[r] # 0 /\ Notify(OnTop(r), "mkdir")
            BY <1>2, <5>1 DEF MakeSub, TypeInv, FileTypes
          <6> QED
            BY <6>1
        <5>2. CASE RemoveSub(r)
          <6>1. sub'[r] = 0 /\ Notify(OnTop(r), "rmdir")
            BY <5>2 DEF RemoveSub, TypeInv, FileTypes
          <6> QED
            BY <6>1
        <5> QED
          BY <3>2, <5>1, <5>2
      <4>2. top' = top /\ top[r] # 0
        BY <3>2 DEF MakeSub, RemoveSub
      <4>3. CASE onTop[w] = top[r]
        <5>1. queue'[w] = Put(queue[w], e)
          BY <2>5, <4>1, <4>2, <4>3 DEF OnTop, Notify
        <5> QED
          BY <1>1, <2>1, <2>5, <4>1, <4>2, <5>1, EventNoticed
      <4>4. CASE onTop[w] # top[r]
        <5>1. queue'[w] = queue[w]
          BY <4>1, <4>4 DEF OnTop, Notify
        <5> QED
          BY <1>1, <2>1, <2>5, <4>2, <4>4, <5>1, DetachedStays
      <4> QED
        BY <4>3, <4>4
    <3>3. CASE RemoveRoot(r)
      <4>1. Notify(OnTop(r), "rootgone") /\ top[r] # 0 /\ top'[r] = 0
        BY <3>3 DEF RemoveRoot, TypeInv, FileTypes
      <4>2. CASE onTop[w] = top[r]
        <5>1. queue'[w] = Put(queue[w], "rootgone")
          BY <2>5, <4>1, <4>2 DEF OnTop, Notify
        <5> QED
          BY <1>1, <2>1, <2>5, <4>1, <5>1, EventNoticed
      <4>3. CASE onTop[w] # top[r]
        <5>1. queue'[w] = queue[w]
          BY <4>1, <4>3 DEF OnTop, Notify
        <5> QED
          BY <1>1, <2>1, <2>5, <4>1, <4>3, <5>1, DetachedStays
      <4> QED
        BY <4>2, <4>3
    <3>4. CASE MakeRoot(r)
      <4>1. top[r] = 0 /\ top'[r] = inodes + 1 /\ queue' = queue
        BY <3>4 DEF MakeRoot, TypeInv, FileTypes, watches
      <4>2. onTop[w] # top'[r] /\ info[w] # top'[r]
        BY <1>2, <2>1, <4>1
      <4> QED
        BY <1>1, <2>1, <2>5, <4>1, <4>2, DetachedStays
    <3> QED
      BY <3>1, <3>2, <3>3, <3>4 DEF FileStep
  <2> QED
    BY <2>3, <2>4, <2>5
<1> QED
  BY <1>3, <1>4 DEF TreeInv

(* The goroutine of a watcher takes an event, or ends.                     *)
LEMMA LoopTree ==
  ASSUME TypeInv, TreeInv, NEW w \in Watchers, Loop(w)
  PROVE  TreeInv'
<1> DEFINE q == queue[w]
           p == queue'[w]
<1>1. /\ loop[w] /\ root[w] \in Roots /\ q \in Seq(Events) /\ WatchInv(w)
      /\ ~Starting(w)
  <2>1. loop[w]
    BY DEF Loop, HandleFile, HandleMkdir, HandleRmdir, HandleRootGone, HandleOverflow,
       Die, LoopEnds, Next1
  <2> QED
    BY <2>1 DEF TypeInv, WatchTypes, Queues, TreeInv, WatchInv, FirstWatch
<1>2. UNCHANGED <<top, sub, inodes, root, info, cur, rec>>
  BY DEF Loop, HandleFile, HandleMkdir, HandleRmdir, HandleRootGone, HandleOverflow,
     Die, LoopEnds, files, monitor
<1>3. \A v \in Watchers : (Starting(v)' <=> Starting(v))
  BY <1>2 DEF Starting
<1>4. \A v \in Watchers \ {w} : /\ onTop'[v] = onTop[v] /\ onSub'[v] = onSub[v]
                                /\ queue'[v] = queue[v] /\ loop'[v] = loop[v]
                                /\ degraded'[v] = degraded[v]
  BY DEF Loop, HandleFile, HandleMkdir, HandleRmdir, HandleRootGone, HandleOverflow,
     Die, LoopEnds, CloseWatch, Pop, AddRecursive, TypeInv, WatchTypes
<1>5. \A v \in Watchers \ {w} : WatchInv(v)'
  BY <1>2, <1>3, <1>4, WatchStays DEF TreeInv
<1>6. onTop'[w] \in {0, onTop[w], top[root[w]]}
  BY DEF Loop, HandleFile, HandleMkdir, HandleRmdir, HandleRootGone, HandleOverflow,
     Die, LoopEnds, CloseWatch, AddRecursive, TypeInv, WatchTypes
<1>7. NumbersKnown'
  <2>1. inodes \in Nat
    BY DEF TypeInv, FileTypes, Inodes
  <2> QED
    BY <1>1, <1>2, <1>4, <1>6, <2>1 DEF TreeInv, NumbersKnown
<1>8. WatchInv(w)'
  <2>1. CASE Die(w) \/ LoopEnds(w)
    <3>1. ~loop'[w] /\ onTop'[w] = 0 /\ onSub'[w] = 0 /\ p = <<>>
      BY <2>1 DEF Die, LoopEnds, CloseWatch, TypeInv, WatchTypes
    <3> QED
      BY <1>1, <1>3, <3>1 DEF WatchInv, Resting, FirstWatch, Faithful, Followed,
         RootSeen, Attached, OverflowLast
  <2>2. CASE ~(Die(w) \/ LoopEnds(w))
    <3>1. q # <<>> /\ p = Tail(q) /\ loop'[w]
      BY <2>2 DEF Loop, HandleFile, HandleMkdir, HandleRmdir, HandleRootGone,
         HandleOverflow, Next1, Pop, TypeInv, WatchTypes
    <3>2. /\ \A x : InQueue(p, x) => InQueue(q, x)
          /\ \A x : InQueue(q, x) /\ x # Head(q) => InQueue(p, x)
          /\ \A x : LastIs(p, x) => LastIs(q, x)
          /\ NoneLeft(p) => IF Head(q) \in Structural THEN LastIs(q, Head(q)) ELSE NoneLeft(q)
          /\ ~Behind => OverflowLast(p) /\ (Head(q) = "overflow" => p = <<>>)
      BY <1>1, <3>1, TailRemembers DEF WatchInv, Faithful
    <3> HIDE DEF p, q
    <3>3. p = queue'[w] /\ q = queue[w]
      BY DEF p, q
    <3>4. /\ ~Behind /\ Attached(w) =>
               /\ LastIs(q, "mkdir") => sub[root[w]] # 0
               /\ LastIs(q, "rmdir") => sub[root[w]] = 0
               /\ ~degraded[w] /\ NoneLeft(q) => onSub[w] = sub[root[w]]
          /\ top[root[w]] # 0 /\ info[w] = top[root[w]] => onTop[w] \in {0, top[root[w]]}
      BY <1>1, <3>3 DEF WatchInv, Faithful, Followed, RootSeen
    <3>5. SUFFICES /\ onTop'[w] # 0 => onTop'[w] = onTop[w] \/ onTop'[w] = top[root[w]]
                   /\ ~Behind /\ Attached(w)' =>
                        /\ LastIs(p, "mkdir") => sub[root[w]] # 0
                        /\ LastIs(p, "rmdir") => sub[root[w]] = 0
                        /\ ~degraded'[w] /\ NoneLeft(p) => onSub'[w] = sub[root[w]]
      BY <1>1, <1>2, <1>3, <3>1, <3>2, <3>3, <3>4 DEF WatchInv, Resting, FirstWatch,
         Faithful, Followed, RootSeen
    <3>6. "mkdir" \in Structural /\ "rmdir" \in Structural /\ "file" \notin Structural
      BY DEF Structural
    <3>7. ASSUME Head(q) \notin {"rootgone", "overflow"}, onTop'[w] = onTop[w], Attached(w)'
          PROVE  Attached(w)
      <4>1. onTop[w] # 0 /\ onTop[w] = top[root[w]]
            /\ ~InQueue(p, "overflow") /\ ~InQueue(p, "rootgone")
        BY <1>2, <3>3, <3>7 DEF Attached
      <4> QED
        BY <3>2, <3>3, <3>7, <4>1 DEF Attached
    <3>8. CASE HandleFile(w)
      <4>1. /\ Head(q) = "file" /\ onTop'[w] = onTop[w] /\ onSub'[w] = onSub[w]
            /\ degraded'[w] = degraded[w]
        BY <3>3, <3>8 DEF HandleFile, Next1
      <4> QED
        BY <3>2, <3>4, <3>6, <3>7, <4>1
    <3>9. CASE HandleMkdir(w)
      <4>1. Head(q) = "mkdir" /\ onTop'[w] = onTop[w]
        BY <3>3, <3>9 DEF HandleMkdir, Next1
      <4>2. sub[root[w]] # 0 => degraded'[w] \/ onSub'[w] = sub[root[w]]
        <5> SUFFICES ASSUME sub[root[w]] # 0 PROVE degraded'[w] \/ onSub'[w] = sub[root[w]]
          OBVIOUS
        <5>1. PICK refused \in MayRefuse(w) :
                /\ onSub' = [onSub EXCEPT ![w] = IF refused THEN 0 ELSE sub[root[w]]]
                /\ degraded' = [degraded EXCEPT ![w] = @ \/ refused]
          BY <3>9 DEF HandleMkdir
        <5>2. onSub'[w] = (IF refused THEN 0 ELSE sub[root[w]])
          BY <5>1 DEF TypeInv, WatchTypes
        <5>3. degraded'[w] = (degraded[w] \/ refused)
          BY <5>1 DEF TypeInv, WatchTypes
        <5> QED
          BY <5>2, <5>3
      <4> QED
        BY <3>2, <3>4, <3>6, <3>7, <4>1, <4>2
    <3>10. CASE HandleRmdir(w)
      <4>1. /\ Head(q) = "rmdir" /\ onTop'[w] = onTop[w] /\ onSub'[w] = 0
        BY <3>3, <3>10 DEF HandleRmdir, Next1, TypeInv, WatchTypes
      <4> QED
        BY <3>2, <3>4, <3>6, <3>7, <4>1
    <3>11. CASE HandleRootGone(w)
      <4>1. onTop'[w] = 0
        BY <3>11 DEF HandleRootGone, TypeInv, WatchTypes
      <4> QED
        BY <4>1 DEF Attached
    <3>12. CASE HandleOverflow(w)
      <4>1. Head(q) = "overflow" /\ AddRecursive(w)
        BY <3>3, <3>12 DEF HandleOverflow, Next1
      <4>2. ~Behind => ~LastIs(p, "mkdir") /\ ~LastIs(p, "rmdir")
        BY <3>2, <4>1 DEF LastIs
      <4>3. degraded'[w] \/ onSub'[w] = sub[root[w]]
        <5>1. PICK refused \in MayRefuse(w) :
                /\ onSub' = [onSub EXCEPT ![w] = IF refused THEN 0 ELSE sub[root[w]]]
                /\ degraded' = [degraded EXCEPT ![w] = refused]
          BY <4>1 DEF AddRecursive
        <5>2. onSub'[w] = (IF refused THEN 0 ELSE sub[root[w]])
          BY <5>1 DEF TypeInv, WatchTypes
        <5>3. degraded'[w] = refused
          BY <5>1 DEF TypeInv, WatchTypes
        <5> QED
          BY <5>2, <5>3
      <4> QED
        BY <1>6, <4>2, <4>3
    <3> QED
      BY <2>2, <3>8, <3>9, <3>10, <3>11, <3>12 DEF Loop
  <2> QED
    BY <2>1, <2>2
<1> QED
  BY <1>5, <1>7, <1>8 DEF TreeInv

(* Reconcile puts the first watch on the root, looks at it, and walks the  *)
(* tree.                                                                   *)
LEMMA ReconcileTree ==
  ASSUME TypeInv, ReconcileInv, TreeInv, Reconcile
  PROVE  TreeInv'
<1>1. UNCHANGED <<top, sub, inodes, queue>>
  BY DEF Reconcile, RecList, RecDrop, RecHalt, RecSkip, RecKeep, RecReplace, RecForget,
     RecNone, RecStart, RecStartFails, RecStat, RecWalk, RecRegister, files, watches
<1>2. inodes \in Nat /\ \A r \in Roots : top[r] \in Nat
  BY DEF TypeInv, FileTypes, Inodes
<1>3. CASE RecStart
  <2>1. PICK w \in Watchers :
          /\ Unused(w) /\ cur' = w
          /\ root' = [root EXCEPT ![w] = snap.root]
          /\ onTop' = [onTop EXCEPT ![w] = top[snap.root]]
    BY <1>3 DEF RecStart
  <2>2. /\ rec = "start" /\ rec' = "stat" /\ snap.root \in Roots /\ top[snap.root] # 0
        /\ UNCHANGED <<onSub, info, loop, degraded>>
    BY <1>3 DEF RecStart, TypeInv, MonitorTypes
  <2>3. onTop'[w] = top[snap.root] /\ root'[w] = snap.root
    BY <2>1 DEF TypeInv, WatchTypes
  <2>4. NumbersKnown'
    BY <1>1, <2>1, <2>2 DEF TreeInv, NumbersKnown, TypeInv, WatchTypes
  <2>5. \A v \in Watchers \ {w} : WatchInv(v)'
    <3> TAKE v \in Watchers \ {w}
    <3>1. /\ onTop'[v] = onTop[v] /\ root'[v] = root[v] /\ ~Starting(v) /\ ~Starting(v)'
      BY <2>1, <2>2 DEF Starting, TypeInv, WatchTypes
    <3> QED
      BY <1>1, <2>2, <3>1, WatchStays DEF TreeInv
  <2>6. WatchInv(w)'
    <3>1. ~loop[w] /\ queue[w] = <<>> /\ Starting(w)'
      BY <2>1, <2>2 DEF Unused, TreeInv, WatchInv, Resting, Starting
    <3>2. ~LastIs(queue[w], "mkdir") /\ ~LastIs(queue[w], "rmdir") /\ OverflowLast(queue[w])
      BY <3>1 DEF LastIs, OverflowLast
    <3> QED
      BY <1>1, <2>2, <2>3, <3>1, <3>2 DEF WatchInv, Resting, FirstWatch, Faithful,
         Followed, RootSeen
  <2> QED
    BY <2>4, <2>5, <2>6 DEF TreeInv
<1>4. CASE RecStat
  <2>1. /\ rec = "stat" /\ rec' = "walk" /\ cur' = cur /\ cur \in Watchers
        /\ snap.root \in Roots
        /\ info' = [info EXCEPT ![cur] = top[snap.root]]
        /\ UNCHANGED <<root, onTop, onSub, loop, degraded>>
    BY <1>4 DEF RecStat, TypeInv, MonitorTypes
  <2>2. NumbersKnown'
    BY <1>1, <2>1 DEF TreeInv, NumbersKnown, TypeInv, WatchTypes
  <2>3. ASSUME NEW v \in Watchers PROVE WatchInv(v)'
    <3>1. Starting(v)' <=> Starting(v)
      BY <2>1 DEF Starting
    <3>2. CASE v # cur
      <4>1. info'[v] = info[v]
        BY <2>1, <3>2 DEF TypeInv, WatchTypes
      <4> QED
        BY <1>1, <2>1, <3>1, <4>1, WatchStays DEF TreeInv
    <3>3. CASE v = cur
      <4>1. Starting(v) /\ ~loop[v] /\ WatchInv(v)
        BY <2>1, <3>3 DEF Starting, TreeInv, WatchInv, FirstWatch
      <4>2. Attached(v)' <=> Attached(v)
        BY <1>1, <2>1 DEF Attached
      <4> QED
        BY <1>1, <2>1, <3>1, <4>1, <4>2 DEF WatchInv, Resting, FirstWatch, Faithful,
           Followed, RootSeen
    <3> QED
      BY <3>2, <3>3
  <2> QED
    BY <2>2, <2>3 DEF TreeInv
<1>5. CASE RecWalk
  <2>1. /\ rec = "walk" /\ rec' = "register" /\ cur' = cur /\ cur \in Watchers
        /\ root[cur] \in Roots
        /\ loop' = [loop EXCEPT ![cur] = TRUE]
        /\ AddRecursive(cur)
        /\ UNCHANGED <<root, info>>
    BY <1>5 DEF RecWalk, TypeInv, MonitorTypes
  <2>2. PICK refused \in MayRefuse(cur) :
          /\ onTop' = [onTop EXCEPT ![cur] = IF top[root[cur]] # 0 THEN top[root[cur]] ELSE @]
          /\ onSub' = [onSub EXCEPT ![cur] = IF refused THEN 0 ELSE sub[root[cur]]]
          /\ degraded' = [degraded EXCEPT ![cur] = refused]
    BY <2>1 DEF AddRecursive
  <2>3. NumbersKnown'
    BY <1>1, <1>2, <2>1, <2>2 DEF TreeInv, NumbersKnown, TypeInv, WatchTypes
  <2>4. ASSUME NEW v \in Watchers \ {cur} PROVE WatchInv(v)'
    <3>1. /\ onTop'[v] = onTop[v] /\ onSub'[v] = onSub[v] /\ degraded'[v] = degraded[v]
          /\ loop'[v] = loop[v] /\ ~Starting(v) /\ ~Starting(v)'
      BY <2>1, <2>2, <2>4 DEF Starting, TypeInv, WatchTypes
    <3> QED
      BY <1>1, <2>1, <3>1, WatchStays DEF TreeInv
  <2>5. WatchInv(cur)'
    <3>1. Starting(cur) /\ WatchInv(cur) /\ onTop[cur] # 0
      BY <2>1 DEF Starting, TreeInv, WatchInv, FirstWatch
    <3>2. ~Starting(cur)' /\ cur' = cur
      BY <2>1 DEF Starting
    <3>3. /\ loop'[cur]
          /\ onTop'[cur] = (IF top[root[cur]] # 0 THEN top[root[cur]] ELSE onTop[cur])
          /\ onSub'[cur] = (IF refused THEN 0 ELSE sub[root[cur]])
          /\ degraded'[cur] = refused
      BY <2>1, <2>2 DEF TypeInv, WatchTypes
    <3>4. Attached(cur)' => Attached(cur)
      BY <1>1, <2>1, <3>1, <3>2, <3>3 DEF Attached, WatchInv, FirstWatch
    <3> QED
      BY <1>1, <2>1, <3>1, <3>2, <3>3, <3>4 DEF WatchInv, Resting, FirstWatch, Faithful,
         Followed, RootSeen
  <2> QED
    BY <2>1, <2>3, <2>4, <2>5 DEF TreeInv
<1>6. CASE RecList \/ RecDrop \/ RecHalt \/ RecSkip \/ RecKeep \/ RecReplace \/ RecForget
           \/ RecNone \/ RecStartFails \/ RecRegister
  <2>1. UNCHANGED <<root, onTop, onSub, info, loop, degraded>>
    BY <1>6 DEF RecList, RecDrop, RecHalt, RecSkip, RecKeep, RecReplace, RecForget,
       RecNone, RecStartFails, RecRegister, watches
  <2>2. rec \notin {"stat", "walk"} /\ rec' \notin {"stat", "walk"}
    BY <1>6 DEF RecList, RecDrop, RecHalt, RecSkip, RecKeep, RecReplace, RecForget,
       RecNone, RecStartFails, RecRegister
  <2>3. \A v \in Watchers : ~Starting(v) /\ ~Starting(v)'
    BY <2>2 DEF Starting
  <2>4. \A v \in Watchers : WatchInv(v)'
    BY <1>1, <2>1, <2>3, WatchStays DEF TreeInv
  <2> QED
    BY <1>1, <2>1, <2>4 DEF TreeInv, NumbersKnown
<1> QED
  BY <1>3, <1>4, <1>5, <1>6 DEF Reconcile

(* Timers, callers of enqueue, workers and the row of the library have     *)
(* nothing to do with watches.                                             *)
LEMMA OthersTree ==
  ASSUME TypeInv, TreeInv,
         \/ UNCHANGED vars
         \/ \E w \in Watchers : Fire(w) \/ FireChecks(w)
         \/ \E c \in Callers : EnqLock(c) \/ Enqueue(c)
         \/ Tick \/ Ask \/ StartScan
         \/ \E r \in Roots, on \in BOOLEAN : AddLibrary(r, on) \/ UpdateLibrary(r, on)
         \/ DeleteLibrary
  PROVE  TreeInv'
<1>1. UNCHANGED <<top, sub, inodes, watches, rec, cur>>
  <2>1. CASE UNCHANGED vars
    BY <2>1 DEF vars, files, monitor
  <2>2. CASE \E w \in Watchers : Fire(w) \/ FireChecks(w)
    BY <2>2 DEF Fire, FireChecks, files, monitor
  <2>3. CASE \E c \in Callers : EnqLock(c) \/ Enqueue(c)
    BY <2>3 DEF EnqLock, Enqueue, EnqCheck, EnqMisread, EnqGet, EnqCreate, EnqFails, files, monitor
  <2>4. CASE Tick \/ Ask \/ StartScan \/ DeleteLibrary
    BY <2>4 DEF Tick, Ask, StartScan, DeleteLibrary, files, monitor
  <2>5. CASE \E r \in Roots, on \in BOOLEAN : AddLibrary(r, on) \/ UpdateLibrary(r, on)
    BY <2>5 DEF AddLibrary, UpdateLibrary, monitor
  <2> QED
    BY <2>1, <2>2, <2>3, <2>4, <2>5
<1>2. UNCHANGED <<root, onTop, onSub, info, queue, loop, degraded>>
  BY <1>1 DEF watches
<1>3. \A w \in Watchers : (Starting(w)' <=> Starting(w))
  BY <1>1 DEF Starting
<1>4. \A w \in Watchers : WatchInv(w)'
  BY <1>1, <1>2, <1>3, WatchStays DEF TreeInv
<1> QED
  BY <1>1, <1>2, <1>4 DEF TreeInv, NumbersKnown

LEMMA InitTree == ASSUME Init PROVE TreeInv
<1>1. NumbersKnown
  BY DEF Init, NumbersKnown
<1>2. ASSUME NEW w \in Watchers PROVE WatchInv(w)
  <2>1. /\ ~loop[w] /\ onTop[w] = 0 /\ onSub[w] = 0 /\ queue[w] = <<>>
        /\ rec = "idle"
    BY DEF Init
  <2> QED
    BY <2>1 DEF WatchInv, Resting, FirstWatch, Faithful, Followed, RootSeen, Attached,
       Starting, OverflowLast
<1> QED
  BY <1>1, <1>2 DEF TreeInv

LEMMA NextTree ==
  ASSUME IInv, TypeInv, TreeInv, [Next]_vars
  PROVE  TreeInv'
<1>1. CASE UNCHANGED vars
  BY <1>1, OthersTree
<1>2. CASE Next
  <2>1. ASSUME NEW r \in Roots, FileStep(r) PROVE TreeInv'
    BY <2>1, FileStepTree
  <2>2. ASSUME NEW w \in Watchers, Loop(w) PROVE TreeInv'
    BY <2>2, LoopTree
  <2>3. CASE Reconcile
    BY <2>3, ReconcileTree DEF IInv
  <2> QED
    BY <1>2, <2>1, <2>2, <2>3, OthersTree DEF Next
<1> QED
  BY <1>1, <1>2

LEMMA NothingLeft == ASSUME ~Behind, TreeInv PROVE WholeTreeWatched
<1> SUFFICES ASSUME NEW w \in Watchers, loop[w], ~degraded[w], queue[w] = <<>>,
                    onTop[w] # 0, onTop[w] = top[root[w]]
             PROVE  onSub[w] = sub[root[w]]
  BY DEF WholeTreeWatched
<1>1. ~InQueue(queue[w], "overflow") /\ ~InQueue(queue[w], "rootgone") /\ NoneLeft(queue[w])
  BY DEF InQueue, NoneLeft
<1> QED
  BY <1>1 DEF TreeInv, WatchInv, Faithful, Followed, Attached

(* A watcher that has handled its events, was not refused a watch and      *)
(* stands on its root watches the whole tree: directories that are made,   *)
(* removed and made again, roots that are replaced and overflows leave no  *)
(* watch behind (addRecursive in watcher.go).                              *)
THEOREM WholeTree == ASSUME ~Behind PROVE Spec => []WholeTreeWatched
<1>1. Init => TypeInv /\ TreeInv
  BY InitTypes, InitTree
<1>2. IInv /\ TypeInv /\ TreeInv /\ [Next]_vars => TypeInv' /\ TreeInv'
  BY NextTypes, NextTree
<1> QED
  BY <1>1, <1>2, NothingLeft, Inductive, PTL DEF Spec

-----------------------------------------------------------------------------
(* What is remembered of a change.                                         *)

\* It waits in a scan job or in a caller of enqueue that will see to one.
ScanComing == \/ IsScanQueued
              \/ \E c \in Callers : enq[c] \in {"lock", "check", "get", "create"}

\* Its events will have it schedule a scan: all but that of a subdirectory
\* that was made and is gone again do.
Tells(w) == \E i \in DOMAIN queue[w] : queue[w][i] # "mkdir" \/ sub[root[w]] # 0

\* It has noticed, or will: Noticed where events tell what they are queued for.
Aware(w) ==
  \/ timer[w] \/ Tells(w)
  \/ enq[w] = "fired" /\ ~done[w] /\ ~dead[w]
  \/ dead[w] \/ ~WatchingRoot(w) \/ root[w] # lib.root

RegisteredKnows == reg # NoWatcher /\ (rec = "forget" \/ Aware(reg))

\* What ChangeRemembered says, of watchers that are aware.
Kept == unseen /\ ~lost => ScanComing \/ catchup \/ RegisteredKnows

RowKnown == /\ lib.root = NoRoot => lib = NoLib
            /\ unseen => lib.root # NoRoot

\* A library that has been watched has a watcher or is owed a scan.
CoveredKnown ==
  covered => /\ lib # NoLib
             /\ catchup \/ reg # NoWatcher
             /\ rec # "idle" => snap # NoLib

\* Before it is watched only a handler changes what is to be scanned.
UncoveredWaits == unseen /\ ~lost /\ ~covered => ScanComing

\* The registered watcher runs, unless it died or is being replaced.
RegisteredRuns ==
  reg # NoWatcher => /\ done[reg] => rec = "forget"
                     /\ loop[reg] \/ done[reg] \/ dead[reg]

StartedRuns ==
  /\ rec \in {"stat", "walk", "register"} => ~done[cur] /\ snap.root \in Roots
  /\ rec = "register" => loop[cur] \/ dead[cur]

MemoryInv == /\ RowKnown /\ CoveredKnown /\ UncoveredWaits /\ RegisteredRuns
             /\ StartedRuns /\ Kept

LEMMA Remembered == ASSUME MemoryInv PROVE ChangeRemembered
<1>1. Aware(reg) => Noticed(reg)
  BY DEF Aware, Noticed, Tells
<1> QED
  BY <1>1 DEF MemoryInv, Kept, ChangeRemembered, ScanComing, RegisteredKnows

(* The registered watcher of a library whose files change finds out.       *)
LEMMA FileStepNoticed ==
  ASSUME TypeInv, TreeInv, TreeInv', MemoryInv, NEW r \in Roots, FileStep(r),
         reg \in Watchers, rec # "forget",
         Aware(reg) \/ (r = lib.root /\ ~(ChangeBelow(r) /\ (degraded[reg] \/ Behind)))
  PROVE  Aware(reg)'
<1>1. UNCHANGED <<lib, root, onTop, onSub, info, loop, degraded, dead, done, timer, reg, rec, enq>>
  BY DEF FileStep, ChangeFile, ChangeBelow, MakeSub, RemoveSub, RemoveRoot, MakeRoot,
     watches, control, monitor, jobs
<1> SUFFICES ASSUME ~dead[reg], root[reg] = lib.root, WatchingRoot(reg)'
             PROVE  Aware(reg)'
  BY <1>1 DEF Aware
<1>2. loop[reg] /\ ~done[reg]
  BY ConstantsAssumption DEF MemoryInv, RegisteredRuns
<1>3. root[reg] \in Roots /\ queue[reg] \in Seq(Events) /\ info[reg] \in Nat
      /\ onTop[reg] \in Nat /\ inodes \in Nat /\ info[reg] <= inodes
  BY <1>2, ConstantsAssumption DEF TypeInv, WatchTypes, FileTypes, Queues, Inodes,
     TreeInv, NumbersKnown
<1>4. top'[root[reg]] # 0 /\ info[reg] = top'[root[reg]] /\ onTop[reg] = top'[root[reg]]
  BY <1>1, <1>2 DEF WatchingRoot, TreeInv, WatchInv, RootSeen
<1>5. top'[root[reg]] = top[root[reg]]
  <2>1. CASE MakeRoot(r)
    <3>1. top' = [top EXCEPT ![r] = inodes + 1]
      BY <2>1 DEF MakeRoot
    <3> QED
      BY <1>3, <1>4, <3>1 DEF TypeInv, FileTypes
  <2>2. CASE RemoveRoot(r)
    <3>1. top' = [top EXCEPT ![r] = 0]
      BY <2>2 DEF RemoveRoot
    <3> QED
      BY <1>3, <1>4, <3>1 DEF TypeInv, FileTypes
  <2> QED
    BY <2>1, <2>2 DEF FileStep, ChangeFile, ChangeBelow, MakeSub, RemoveSub
<1>6. WatchingRoot(reg)
  BY <1>1, <1>4, <1>5 DEF WatchingRoot
<1>7. CASE r # lib.root
  <2>1. Tells(reg) \/ timer[reg] \/ enq[reg] = "fired"
    BY <1>6, <1>7 DEF Aware
  <2>2. sub'[root[reg]] = sub[root[reg]]
    BY <1>3, <1>7 DEF FileStep, ChangeFile, ChangeBelow, MakeSub, RemoveSub, RemoveRoot,
       MakeRoot, TypeInv, FileTypes
  <2>3. reg \notin OnTop(r) /\ reg \notin OnSub(r)
    BY <1>7 DEF OnTop, OnSub
  <2>4. queue'[reg] = queue[reg]
    BY <2>3 DEF FileStep, ChangeFile, ChangeBelow, MakeSub, RemoveSub, RemoveRoot,
       MakeRoot, Notify, watches
  <2> QED
    BY <1>1, <1>2, <2>1, <2>2, <2>4 DEF Aware, Tells
<1>8. CASE r = lib.root
  <2>1. ~RemoveRoot(r) /\ ~MakeRoot(r)
    BY <1>3, <1>4, <1>5, <1>8 DEF RemoveRoot, MakeRoot, TypeInv, FileTypes
  <2>2. reg \in OnTop(r)
    BY <1>4, <1>5, <1>8 DEF OnTop
  <2>3. CASE ChangeFile(r) \/ RemoveSub(r)
    <3>1. PICK e \in {"file", "rmdir"} : queue'[reg] = Put(queue[reg], e)
      BY <2>2, <2>3 DEF ChangeFile, RemoveSub, Notify
    <3>2. e \in Events /\ e # "mkdir" /\ "overflow" # "mkdir"
      BY DEF Events
    <3>3. InQueue(queue'[reg], e) \/ InQueue(queue'[reg], "overflow")
      BY <1>3, <3>1, <3>2, PutTells
    <3> QED
      BY <1>1, <3>2, <3>3 DEF Aware, Tells, InQueue
  <2>4. CASE MakeSub(r)
    <3>1. queue'[reg] = Put(queue[reg], "mkdir") /\ sub'[root[reg]] # 0
      BY <1>3, <1>8, <2>2, <2>4 DEF MakeSub, Notify, TypeInv, FileTypes
    <3>2. "mkdir" \in Events
      BY DEF Events
    <3>3. InQueue(queue'[reg], "mkdir") \/ InQueue(queue'[reg], "overflow")
      BY <1>3, <3>1, <3>2, PutTells
    <3> QED
      BY <1>1, <3>1, <3>3 DEF Aware, Tells, InQueue
  <2>5. CASE ChangeBelow(r)
    <3>1. UNCHANGED sub /\ sub[r] # 0
      BY <2>5 DEF ChangeBelow
    <3>2. CASE reg \in OnSub(r)
      <4>1. queue'[reg] = Put(queue[reg], "file") /\ "file" \in Events
        BY <2>5, <3>2 DEF ChangeBelow, Notify, Events
      <4>2. InQueue(queue'[reg], "file") \/ InQueue(queue'[reg], "overflow")
        BY <1>3, <4>1, PutTells
      <4> QED
        BY <1>1, <4>2 DEF Aware, Tells, InQueue
    <3>3. CASE reg \notin OnSub(r)
      <4>1. queue'[reg] = queue[reg]
        BY <2>5, <3>3 DEF ChangeBelow, Notify
      <4>2. Aware(reg) => Aware(reg)'
        BY <1>1, <1>6, <3>1, <4>1 DEF Aware, Tells
      <4>3. ASSUME ~Behind, ~degraded[reg] PROVE queue[reg] # <<>>
        <5>1. onSub[reg] # sub[root[reg]]
          BY <1>8, <3>1, <3>3 DEF OnSub
        <5> QED
          BY <1>2, <1>4, <1>5, <4>3, <5>1, NothingLeft DEF WholeTreeWatched
      <4>4. queue[reg] # <<>> => Tells(reg)
        <5>1. queue[reg] # <<>> => 1 \in DOMAIN queue[reg]
          BY <1>3
        <5> QED
          BY <1>8, <3>1, <5>1 DEF Tells
      <4> QED
        BY <1>8, <2>5, <4>2, <4>3, <4>4 DEF Aware
    <3> QED
      BY <3>2, <3>3
  <2> QED
    BY <2>1, <2>3, <2>4, <2>5 DEF FileStep
<1> QED
  BY <1>7, <1>8

LEMMA FileStepMemory ==
  ASSUME TypeInv, TreeInv, TreeInv', ReconcileInv, MemoryInv, NEW r \in Roots,
         FileStep(r)
  PROVE  MemoryInv'
<1>1. UNCHANGED <<lib, loop, dead, done, snap, cur, reg, rec, catchup, enq, scans, asked,
                  covered, lost>>
  BY DEF FileStep, ChangeFile, ChangeBelow, MakeSub, RemoveSub, RemoveRoot, MakeRoot,
     watches, control, monitor, jobs, See
<1>2. unseen' = (unseen \/ Owed(r, FALSE)) \/ (ChangeBelow(r) /\ unseen' = (unseen \/ Owed(r, TRUE)))
  BY DEF FileStep, ChangeFile, ChangeBelow, MakeSub, RemoveSub, RemoveRoot, MakeRoot,
     See
<1>3. unseen' => unseen \/ (covered /\ r = lib.root)
  BY <1>2 DEF Owed
<1>4. unseen' => \/ unseen
                \/ /\ r = lib.root
                   /\ ~(ChangeBelow(r) /\ reg # NoWatcher /\ (degraded[reg] \/ Behind))
  <2>1. ASSUME ChangeBelow(r) PROVE unseen' = (unseen \/ Owed(r, TRUE))
    BY <2>1 DEF ChangeBelow, See
  <2> QED
    BY <1>2, <2>1 DEF Owed
<1>5. ScanComing' <=> ScanComing
  BY <1>1 DEF ScanComing, IsScanQueued
<1>6. r # NoRoot
  BY ConstantsAssumption
<1>7. RowKnown' /\ CoveredKnown' /\ UncoveredWaits' /\ RegisteredRuns' /\ StartedRuns'
  BY <1>1, <1>3, <1>5, <1>6 DEF MemoryInv, RowKnown, CoveredKnown, UncoveredWaits,
     RegisteredRuns, StartedRuns
<1>8. ASSUME unseen', ~lost', ~ScanComing, ~catchup PROVE RegisteredKnows'
  <2>1. reg # NoWatcher
    BY <1>1, <1>3, <1>8 DEF MemoryInv, Kept, CoveredKnown, RegisteredKnows
  <2>2. reg \in Watchers
    BY <2>1 DEF ReconcileInv
  <2>3. unseen => rec = "forget" \/ Aware(reg)
    BY <1>1, <1>8 DEF MemoryInv, Kept, RegisteredKnows
  <2> QED
    BY <1>1, <1>4, <1>8, <2>1, <2>2, <2>3, FileStepNoticed DEF RegisteredKnows
<1>9. Kept'
  BY <1>1, <1>5, <1>8 DEF Kept
<1> QED
  BY <1>7, <1>9 DEF MemoryInv

(* A watcher that takes an event arms its timer, dies, or has learnt of    *)
(* something that the events behind it will tell.                          *)
LEMMA LoopMemory ==
  ASSUME TypeInv, TreeInv, TreeInv', ReconcileInv, MemoryInv, NEW w \in Watchers, Loop(w)
  PROVE  MemoryInv'
<1>1. UNCHANGED <<lib, top, sub, root, info, done, snap, cur, reg, rec, catchup, enq, scans,
                  asked, covered, unseen, lost>>
  BY DEF Loop, HandleFile, HandleMkdir, HandleRmdir, HandleRootGone, HandleOverflow,
     Die, LoopEnds, files, control, monitor, jobs, history
<1>2. \A v \in Watchers \ {w} : /\ onTop'[v] = onTop[v] /\ queue'[v] = queue[v]
                                /\ loop'[v] = loop[v] /\ dead'[v] = dead[v]
                                /\ timer'[v] = timer[v]
  BY DEF Loop, HandleFile, HandleMkdir, HandleRmdir, HandleRootGone, HandleOverflow,
     Die, LoopEnds, CloseWatch, Pop, Schedule, AddRecursive, TypeInv, WatchTypes,
     control
<1>3. loop[w]
  BY DEF Loop, HandleFile, HandleMkdir, HandleRmdir, HandleRootGone, HandleOverflow,
     Die, LoopEnds, Next1
<1>4. \/ timer'[w]
      \/ dead'[w] /\ ~done[w]
      \/ LoopEnds(w)
      \/ done[w] /\ ~loop'[w]
      \/ HandleMkdir(w) /\ sub[root[w]] = 0
  BY DEF Loop, HandleFile, HandleMkdir, HandleRmdir, HandleRootGone, HandleOverflow,
     Die, CloseWatch, Schedule, TypeInv, WatchTypes
<1>5. loop'[w] \/ done[w] \/ dead'[w]
  BY <1>3 DEF Loop, HandleFile, HandleMkdir, HandleRmdir, HandleRootGone,
     HandleOverflow, Die, LoopEnds, CloseWatch, TypeInv, WatchTypes
<1>6. ScanComing' <=> ScanComing
  BY <1>1 DEF ScanComing, IsScanQueued
<1>7. RowKnown' /\ CoveredKnown' /\ UncoveredWaits'
  BY <1>1, <1>6 DEF MemoryInv, RowKnown, CoveredKnown, UncoveredWaits
<1>8. RegisteredRuns'
  <2> SUFFICES ASSUME reg # NoWatcher
               PROVE  (done[reg] => rec = "forget") /\ (loop'[reg] \/ done[reg] \/ dead'[reg])
    BY <1>1 DEF RegisteredRuns
  <2>1. reg \in Watchers
    BY DEF ReconcileInv
  <2> QED
    BY <1>1, <1>2, <1>5, <2>1 DEF MemoryInv, RegisteredRuns
<1>9. StartedRuns'
  <2>1. rec = "register" => loop'[cur] \/ dead'[cur]
    <3> SUFFICES ASSUME rec = "register" PROVE loop'[cur] \/ dead'[cur]
      OBVIOUS
    <3>1. cur \in Watchers /\ ~done[cur] /\ (loop[cur] \/ dead[cur])
      BY DEF ReconcileInv, MemoryInv, StartedRuns
    <3> QED
      BY <1>1, <1>2, <1>5, <3>1
  <2> QED
    BY <1>1, <2>1 DEF MemoryInv, StartedRuns
<1>10. ASSUME RegisteredKnows PROVE RegisteredKnows'
  <2>1. reg \in Watchers /\ reg # NoWatcher
    BY <1>10 DEF ReconcileInv, RegisteredKnows
  <2>2. CASE reg # w
    BY <1>1, <1>2, <1>10, <2>1, <2>2 DEF RegisteredKnows, Aware, Tells, WatchingRoot
  <2>3. CASE reg = w /\ (timer'[w] \/ done[w] \/ dead'[w])
    BY <1>1, <2>1, <2>3 DEF RegisteredKnows, Aware, MemoryInv, RegisteredRuns
  <2>4. CASE reg = w /\ LoopEnds(w)
    BY <1>1, <2>1, <2>4 DEF LoopEnds, RegisteredKnows, MemoryInv, RegisteredRuns
  <2>5. CASE reg = w /\ HandleMkdir(w) /\ sub[root[w]] = 0
    <3>1. /\ queue[w] \in Seq(Events) /\ queue[w] # <<>>
          /\ Head(queue[w]) = "mkdir" /\ queue'[w] = Tail(queue[w])
      BY <2>5 DEF HandleMkdir, Next1, Pop, TypeInv, WatchTypes, Queues
    <3>2. UNCHANGED <<onTop, timer, dead>>
      BY <2>5 DEF HandleMkdir
    <3>3. ASSUME Tells(w) PROVE Tells(w)'
      <4>1. PICK x : InQueue(queue[w], x) /\ x # "mkdir"
        BY <2>5, <3>3 DEF Tells, InQueue
      <4>2. InQueue(queue'[w], x)
        BY <3>1, <4>1, TailRemembers
      <4> QED
        BY <4>1, <4>2 DEF Tells, InQueue
    <3> QED
      BY <1>1, <1>10, <2>5, <3>2, <3>3 DEF RegisteredKnows, Aware, WatchingRoot
  <2> QED
    BY <1>4, <2>2, <2>3, <2>4, <2>5
<1>11. Kept'
  BY <1>1, <1>6, <1>10 DEF MemoryInv, Kept
<1> QED
  BY <1>7, <1>8, <1>9, <1>11 DEF MemoryInv

(* A caller of enqueue sees to a scan, or another one will.                *)
LEMMA CallerMemory ==
  ASSUME TypeInv, MemoryInv,
         \/ \E w \in Watchers : Fire(w) \/ FireChecks(w)
         \/ \E c \in Callers : EnqLock(c) \/ Enqueue(c)
         \/ Tick \/ Ask
  PROVE  MemoryInv'
<1>1. UNCHANGED <<lib, top, sub, root, onTop, info, queue, loop, dead, done, snap, cur, reg, rec,
                  catchup, covered, unseen>>
  BY DEF Fire, FireChecks, EnqLock, Enqueue, EnqCheck, EnqMisread, EnqGet, EnqCreate, EnqFails,
     Tick, Ask, watches, control, monitor, history, files
<1>2. lost' = lost \/ lost' = (lost \/ unseen)
  BY DEF Fire, FireChecks, EnqLock, Enqueue, EnqCheck, EnqMisread, EnqGet, EnqCreate, EnqFails,
     Tick, Ask, history
<1>3. RowKnown' /\ CoveredKnown' /\ RegisteredRuns' /\ StartedRuns'
  BY <1>1 DEF MemoryInv, RowKnown, CoveredKnown, RegisteredRuns, StartedRuns
<1>4. Watchers \subseteq Callers /\ Ticker \in Callers /\ Handler \in Callers
  BY DEF Callers
<1>5. ASSUME unseen, ~lost' PROVE ScanComing => ScanComing'
  <2> SUFFICES ASSUME ScanComing PROVE ScanComing'
    OBVIOUS
  <2>1. ASSUME NEW w \in Watchers, Fire(w) \/ FireChecks(w) PROVE ScanComing'
    <3>1. /\ enq[w] \notin {"lock", "check", "get", "create"} /\ UNCHANGED <<scans, asked>>
          /\ \A c \in Callers \ {w} : enq'[c] = enq[c]
      BY <2>1 DEF Fire, FireChecks, TypeInv, JobTypes
    <3> QED
      BY <3>1 DEF ScanComing, IsScanQueued
  <2>2. ASSUME NEW c \in Callers, EnqLock(c) \/ Enqueue(c) PROVE ScanComing'
    <3>1. CASE EnqLock(c)
      BY <3>1 DEF EnqLock, ScanComing, TypeInv, JobTypes
    <3>2. CASE EnqCheck(c)
      BY <3>2 DEF EnqCheck, ScanComing, IsScanQueued, TypeInv, JobTypes
    <3>3. CASE EnqGet(c)
      BY <1>5, <3>3 DEF EnqGet, ScanComing, TypeInv, JobTypes, MemoryInv, RowKnown
    <3>4. CASE EnqCreate(c)
      BY <3>4 DEF EnqCreate, ScanComing, IsScanQueued, TypeInv, JobTypes
    <3>5. CASE EnqFails(c)
      BY <1>5, <3>5 DEF EnqFails
    <3>6. CASE EnqMisread(c)
      BY <3>6 DEF EnqMisread, ScanComing, TypeInv, JobTypes
    <3> QED
      BY <2>2, <3>1, <3>2, <3>3, <3>4, <3>5, <3>6 DEF Enqueue
  <2>3. CASE Tick
    BY <1>4, <2>3 DEF Tick, ScanComing, TypeInv, JobTypes
  <2>4. CASE Ask
    BY <1>4, <2>4 DEF Ask, ScanComing, TypeInv, JobTypes
  <2> QED
    BY <2>1, <2>2, <2>3, <2>4
<1>6. ASSUME unseen, ~lost', RegisteredKnows PROVE RegisteredKnows' \/ ScanComing'
  <2>1. ASSUME NEW w \in Watchers, Fire(w) PROVE RegisteredKnows'
    <3>1. /\ \A v \in Watchers \ {w} : timer'[v] = timer[v] /\ enq'[v] = enq[v]
          /\ enq'[w] = "fired" /\ enq[w] = "idle"
      BY <1>4, <2>1 DEF Fire, TypeInv, JobTypes, WatchTypes
    <3>2. reg \in Watchers
      BY <1>6 DEF RegisteredKnows, TypeInv, MonitorTypes
    <3> QED
      BY <1>1, <1>6, <3>1, <3>2 DEF RegisteredKnows, Aware, Tells, WatchingRoot,
         MemoryInv, RegisteredRuns
  <2>2. ASSUME NEW w \in Watchers, FireChecks(w) PROVE RegisteredKnows' \/ ScanComing'
    <3>1. /\ \A v \in Watchers \ {w} : enq'[v] = enq[v]
          /\ enq'[w] = (IF done[w] \/ dead[w] THEN "idle" ELSE "lock") /\ UNCHANGED timer
      BY <1>4, <2>2 DEF FireChecks, TypeInv, JobTypes, control
    <3>2. reg \in Watchers
      BY <1>6 DEF RegisteredKnows, TypeInv, MonitorTypes
    <3> QED
      BY <1>1, <1>4, <1>6, <3>1, <3>2 DEF RegisteredKnows, Aware, Tells, WatchingRoot,
         ScanComing
  <2>3. ASSUME NEW c \in Callers, EnqLock(c) \/ Enqueue(c) PROVE ScanComing'
    <3>1. ScanComing
      BY <2>3 DEF EnqLock, Enqueue, EnqCheck, EnqMisread, EnqGet, EnqCreate, EnqFails, ScanComing
    <3> QED
      BY <1>5, <1>6, <3>1
  <2>4. CASE Tick
    BY <1>4, <2>4 DEF Tick, ScanComing, TypeInv, JobTypes
  <2>5. CASE Ask
    BY <1>4, <2>5 DEF Ask, ScanComing, TypeInv, JobTypes
  <2> QED
    BY <2>1, <2>2, <2>3, <2>4, <2>5
<1>7. UncoveredWaits'
  BY <1>1, <1>2, <1>5 DEF MemoryInv, UncoveredWaits
<1>8. Kept'
  <2>1. ASSUME unseen, ~lost' PROVE ScanComing' \/ catchup \/ RegisteredKnows'
    BY <1>2, <1>5, <1>6, <2>1 DEF MemoryInv, Kept
  <2> QED
    BY <1>1, <2>1 DEF Kept, ScanComing, RegisteredKnows
<1> QED
  BY <1>3, <1>7, <1>8 DEF MemoryInv

(* A scan that finds no root is owed again by the watcher of that root.    *)
LEMMA StartScanMemory ==
  ASSUME TypeInv, MemoryInv, StartScan
  PROVE  MemoryInv'
<1>1. UNCHANGED <<lib, top, sub, root, onTop, info, queue, loop, dead, done, timer, snap, cur, reg,
                  rec, catchup, covered, enq>>
  BY DEF StartScan, watches, control, monitor, files
<1>2. \/ unseen' = FALSE
      \/ /\ unseen' = (unseen /\ covered) /\ lost' = lost
         /\ lib.root = NoRoot \/ top[lib.root] = 0
  BY DEF StartScan
<1>3. RowKnown' /\ CoveredKnown' /\ RegisteredRuns' /\ StartedRuns' /\ UncoveredWaits'
  BY <1>1, <1>2 DEF MemoryInv, RowKnown, CoveredKnown, RegisteredRuns, StartedRuns,
     UncoveredWaits
<1>4. unseen' => catchup \/ RegisteredKnows'
  BY <1>1, <1>2 DEF MemoryInv, RowKnown, CoveredKnown, RegisteredKnows, Aware, Tells,
     WatchingRoot
<1> QED
  BY <1>1, <1>3, <1>4 DEF MemoryInv, Kept, RegisteredKnows

(* A library that is moved is scanned; one that is deleted is forgotten.   *)
LEMMA RowMemory ==
  ASSUME TypeInv, MemoryInv,
         \/ \E r \in Roots, on \in BOOLEAN : AddLibrary(r, on) \/ UpdateLibrary(r, on)
         \/ DeleteLibrary
  PROVE  MemoryInv'
<1>1. UNCHANGED <<top, sub, root, onTop, info, queue, loop, dead, done, timer, snap, cur, reg,
                  rec, catchup, scans, asked>>
  BY DEF AddLibrary, UpdateLibrary, DeleteLibrary, watches, control, monitor, jobs
<1>2. RegisteredRuns' /\ StartedRuns'
  BY <1>1 DEF MemoryInv, RegisteredRuns, StartedRuns
<1>3. ASSUME NEW r \in Roots, NEW on \in BOOLEAN, AddLibrary(r, on) PROVE MemoryInv'
  <2>1. lib = NoLib /\ lib'.root = r /\ UNCHANGED <<covered, unseen, lost, enq>>
    BY <1>3 DEF AddLibrary, history, jobs
  <2>2. r # NoRoot /\ ~covered /\ ~unseen
    BY <2>1, ConstantsAssumption DEF MemoryInv, CoveredKnown, RowKnown, NoLib
  <2> QED
    BY <1>2, <2>1, <2>2 DEF MemoryInv, RowKnown, CoveredKnown, UncoveredWaits, Kept
<1>4. ASSUME NEW r \in Roots, NEW on \in BOOLEAN, UpdateLibrary(r, on) PROVE MemoryInv'
  <2>1. lib # NoLib /\ lib'.root = r /\ UNCHANGED <<covered, lost>>
    BY <1>4 DEF UpdateLibrary
  <2>2. r # NoRoot /\ lib' # NoLib
    BY <2>1, ConstantsAssumption DEF NoLib
  <2>3. RowKnown' /\ CoveredKnown'
    BY <1>1, <2>1, <2>2 DEF MemoryInv, RowKnown, CoveredKnown
  <2>4. CASE r # lib.root
    <3>1. ScanComing'
      BY <1>4, <2>4 DEF UpdateLibrary, ScanComing, TypeInv, JobTypes, Callers
    <3> QED
      BY <1>2, <2>3, <3>1 DEF MemoryInv, UncoveredWaits, Kept, ScanComing
  <2>5. CASE r = lib.root
    <3>1. UNCHANGED <<unseen, enq>>
      BY <1>4, <2>5 DEF UpdateLibrary
    <3>2. ScanComing' <=> ScanComing
      BY <1>1, <3>1 DEF ScanComing, IsScanQueued
    <3>3. RegisteredKnows' <=> RegisteredKnows
      BY <1>1, <2>1, <2>5, <3>1 DEF RegisteredKnows, Aware, Tells, WatchingRoot
    <3>4. UncoveredWaits'
      BY <2>1, <3>1, <3>2 DEF MemoryInv, UncoveredWaits
    <3>5. Kept'
      BY <1>1, <2>1, <3>1, <3>2, <3>3 DEF MemoryInv, Kept, ScanComing,
         RegisteredKnows
    <3> QED
      BY <1>2, <2>3, <3>4, <3>5 DEF MemoryInv
  <2> QED
    BY <2>4, <2>5
<1>5. CASE DeleteLibrary
  BY <1>2, <1>5 DEF DeleteLibrary, MemoryInv, RowKnown, CoveredKnown, UncoveredWaits,
     Kept, NoLib
<1> QED
  BY <1>3, <1>4, <1>5

(* Reconcile forgets a watcher only for a scan that it owes, or because    *)
(* the library is gone.                                                    *)
LEMMA ReconcileMemory ==
  ASSUME TypeInv, ReconcileInv, MemoryInv, Reconcile
  PROVE  MemoryInv'
<1>1. UNCHANGED <<lib, top, sub, queue, enq, scans, asked, unseen, lost>>
  BY DEF Reconcile, RecList, RecDrop, RecHalt, RecSkip, RecKeep, RecReplace, RecForget,
     RecNone, RecStart, RecStartFails, RecStat, RecWalk, RecRegister, files, watches,
     jobs, history
<1>2. RowKnown' /\ (ScanComing' <=> ScanComing)
  BY <1>1 DEF MemoryInv, RowKnown, ScanComing, IsScanQueued
<1>3. covered => covered'
  BY DEF Reconcile, RecList, RecDrop, RecHalt, RecSkip, RecKeep, RecReplace, RecForget,
     RecNone, RecStart, RecStartFails, RecStat, RecWalk, RecRegister, history
<1>4. UncoveredWaits'
  BY <1>1, <1>2, <1>3 DEF MemoryInv, UncoveredWaits
<1>5. ShouldWatch(snap) => snap # NoLib
  BY DEF ShouldWatch, NoLib
<1>6. (reg # NoWatcher => reg \in Watchers) /\ (snap.root \in Roots => snap # NoLib)
  BY ConstantsAssumption DEF ReconcileInv, NoLib
<1>7. SUFFICES /\ CoveredKnown' /\ RegisteredRuns' /\ StartedRuns'
               /\ unseen /\ ~lost /\ ~ScanComing => catchup' \/ RegisteredKnows'
  BY <1>1, <1>2, <1>4 DEF MemoryInv, Kept, ScanComing, RegisteredKnows
<1>8. /\ unseen /\ ~lost /\ ~ScanComing => covered /\ (catchup \/ RegisteredKnows)
      /\ CoveredKnown /\ RegisteredRuns /\ StartedRuns
  BY DEF MemoryInv, Kept, UncoveredWaits
<1>9. CASE RecList \/ RecSkip \/ RecKeep \/ RecNone
  <2>1. /\ UNCHANGED <<root, onTop, info, loop, dead, done, timer, cur, reg, catchup>>
        /\ rec' \in {"idle", "drop", "start"} /\ rec \in {"idle", "look"}
    BY <1>9 DEF RecList, RecSkip, RecKeep, RecNone, watches, control
  <2>2. CoveredKnown'
    BY <1>1, <1>5, <1>8, <1>9, <2>1 DEF RecList, RecSkip, RecKeep, RecNone, history,
       CoveredKnown
  <2>3. RegisteredKnows' <=> RegisteredKnows
    BY <1>1, <2>1 DEF RegisteredKnows, Aware, Tells, WatchingRoot
  <2> QED
    BY <1>8, <2>1, <2>2, <2>3 DEF RegisteredRuns, StartedRuns
<1>10. CASE RecDrop
  <2>1. /\ UNCHANGED <<root, onTop, info, loop, dead, done, timer, snap, covered>>
        /\ rec = "drop" /\ rec' \in {"halt", "look"}
        /\ \/ reg' = NoWatcher /\ catchup' = (snap # NoLib)
           \/ reg' = reg /\ catchup' = (catchup /\ snap # NoLib)
    BY <1>10 DEF RecDrop, watches, control, history
  <2>2. covered => snap # NoLib
    BY <1>8, <2>1 DEF CoveredKnown
  <2>3. CoveredKnown'
    BY <1>1, <1>8, <2>1, <2>2 DEF CoveredKnown
  <2>4. RegisteredRuns' /\ StartedRuns'
    BY <1>8, <2>1 DEF RegisteredRuns, StartedRuns
  <2>5. reg' = reg => (RegisteredKnows' <=> RegisteredKnows)
    BY <1>1, <2>1 DEF RegisteredKnows, Aware, Tells, WatchingRoot
  <2> QED
    BY <1>8, <2>1, <2>2, <2>3, <2>4, <2>5
<1>11. CASE RecHalt \/ RecStartFails \/ RecStat \/ RecWalk
  <2>1. /\ reg = NoWatcher /\ UNCHANGED <<reg, snap, catchup, covered>>
        /\ rec \in {"halt", "start", "stat", "walk"}
        /\ rec' \in {"look", "idle", "walk", "register"}
    BY <1>11 DEF RecHalt, RecStartFails, RecStat, RecWalk, ReconcileInv, history
  <2>2. CoveredKnown' /\ RegisteredRuns'
    BY <1>1, <1>8, <2>1 DEF CoveredKnown, RegisteredRuns
  <2>3. StartedRuns'
    <3>1. CASE RecHalt \/ RecStartFails
      BY <3>1 DEF RecHalt, RecStartFails, StartedRuns
    <3>2. CASE RecStat
      BY <1>8, <3>2 DEF RecStat, StartedRuns, control
    <3>3. CASE RecWalk
      BY <1>8, <3>3 DEF RecWalk, StartedRuns, control, ReconcileInv
    <3> QED
      BY <1>11, <3>1, <3>2, <3>3
  <2>4. ~RegisteredKnows
    BY <2>1 DEF RegisteredKnows
  <2> QED
    BY <1>8, <2>1, <2>2, <2>3, <2>4
<1>12. CASE RecReplace
  <2>1. /\ UNCHANGED <<snap, reg, catchup, covered, loop, dead>>
        /\ rec = "look" /\ rec' = "forget" /\ reg # NoWatcher
        /\ done' = [done EXCEPT ![reg] = TRUE]
    BY <1>12 DEF RecReplace, StopReplaced, Stop, history, watches
  <2>2. CoveredKnown' /\ StartedRuns'
    BY <1>1, <1>8, <2>1 DEF CoveredKnown, StartedRuns
  <2>3. RegisteredRuns' /\ RegisteredKnows'
    BY <1>6, <2>1 DEF RegisteredRuns, RegisteredKnows, ReconcileInv
  <2> QED
    BY <2>2, <2>3
<1>13. CASE RecForget
  <2>1. UNCHANGED <<snap, covered>> /\ rec' = "start" /\ reg' = NoWatcher /\ catchup'
        /\ rec = "forget"
    BY <1>13 DEF RecForget, ScanOwed, history
  <2> QED
    BY <1>1, <1>8, <2>1 DEF CoveredKnown, RegisteredRuns, StartedRuns
<1>14. CASE RecStart
  <2>1. /\ UNCHANGED <<snap, reg, catchup, covered>> /\ reg = NoWatcher
        /\ rec = "start" /\ rec' = "stat"
        /\ \E w \in Watchers : cur' = w /\ done' = [done EXCEPT ![w] = FALSE]
    BY <1>14 DEF RecStart, ReconcileInv, history
  <2>2. CoveredKnown' /\ RegisteredRuns'
    BY <1>1, <1>8, <2>1 DEF CoveredKnown, RegisteredRuns
  <2>3. StartedRuns'
    BY <2>1 DEF StartedRuns, ReconcileInv, TypeInv, MonitorTypes
  <2>4. ~RegisteredKnows
    BY <2>1 DEF RegisteredKnows
  <2> QED
    BY <1>8, <2>1, <2>2, <2>3, <2>4
<1>15. CASE RecRegister
  <2>1. /\ UNCHANGED <<snap, done, loop, dead>> /\ reg = NoWatcher /\ reg' = cur
        /\ rec = "register" /\ rec' = "idle" /\ cur \in Watchers
        /\ catchup => timer'[cur]
        /\ covered' = (covered \/ snap = lib)
    BY <1>15 DEF RecRegister, Schedule, ReconcileInv, watches, TypeInv, WatchTypes
  <2>2. cur # NoWatcher /\ ~done[cur] /\ (loop[cur] \/ dead[cur]) /\ snap # NoLib
    BY <1>6, <1>8, <2>1, ConstantsAssumption DEF StartedRuns
  <2>3. CoveredKnown' /\ RegisteredRuns' /\ StartedRuns'
    BY <1>1, <1>8, <2>1, <2>2 DEF CoveredKnown, RegisteredRuns, StartedRuns
  <2>4. catchup => RegisteredKnows'
    BY <2>1, <2>2 DEF RegisteredKnows, Aware, Tells
  <2>5. ~RegisteredKnows
    BY <2>1 DEF RegisteredKnows
  <2> QED
    BY <1>8, <2>3, <2>4, <2>5
<1> QED
  BY <1>9, <1>10, <1>11, <1>12, <1>13, <1>14, <1>15 DEF Reconcile

LEMMA InitMemory == ASSUME Init PROVE MemoryInv
<1>1. lib.root = NoRoot => lib = NoLib
  BY DEF Init, Library, NoLib
<1>2. ~covered /\ ~unseen /\ reg = NoWatcher /\ rec = "idle"
  BY DEF Init
<1> QED
  BY <1>1, <1>2 DEF MemoryInv, RowKnown, CoveredKnown, UncoveredWaits, RegisteredRuns,
     StartedRuns, Kept

LEMMA NextMemory ==
  ASSUME IInv, TypeInv, TreeInv, TreeInv', MemoryInv, [Next]_vars
  PROVE  MemoryInv'
<1>1. CASE UNCHANGED vars
  <2>1. UNCHANGED <<lib, top, sub, root, onTop, info, queue, loop, dead, done, timer, snap, cur,
                    reg, rec, catchup, enq, scans, asked, covered, unseen, lost>>
    BY <1>1 DEF vars, files, watches, control, monitor, jobs, history
  <2> QED
    BY <2>1 DEF MemoryInv, RowKnown, CoveredKnown, UncoveredWaits, RegisteredRuns,
       StartedRuns, Kept, ScanComing, IsScanQueued, RegisteredKnows, Aware, Tells,
       WatchingRoot
<1>2. ASSUME NEW r \in Roots, FileStep(r) PROVE MemoryInv'
  BY <1>2, FileStepMemory DEF IInv
<1>3. ASSUME NEW w \in Watchers, Loop(w) PROVE MemoryInv'
  BY <1>3, LoopMemory DEF IInv
<1>4. CASE Reconcile
  BY <1>4, ReconcileMemory DEF IInv
<1> QED
  BY <1>1, <1>2, <1>3, <1>4, CallerMemory, StartScanMemory, RowMemory DEF Next

(* A change of a library that has been watched is never forgotten: when    *)
(* its event is merged or dropped, its timer is stopped or its scan finds  *)
(* no root, something else still knows of it (Reconcile in monitor.go).    *)
THEOREM ChangeKept == Spec => []ChangeRemembered
<1>1. Init => TypeInv /\ TreeInv /\ MemoryInv
  BY InitTypes, InitTree, InitMemory
<1>2. IInv /\ TypeInv /\ TreeInv /\ MemoryInv /\ [Next]_vars
      => TypeInv' /\ TreeInv' /\ MemoryInv'
  BY NextTypes, NextTree, NextMemory
<1> QED
  BY <1>1, <1>2, Remembered, Inductive, PTL DEF Spec
=============================================================================
