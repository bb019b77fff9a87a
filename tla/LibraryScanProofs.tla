------------------------- MODULE LibraryScanProofs -------------------------
(***************************************************************************)
(* What the scans of a library keep, for any paths, any number of workers  *)
(* and any bounds, with the inductive invariant IInv: a scan can answer    *)
(* for every file of its root that it has not missed. Such a file is still *)
(* to come in the walk, in the list of videos or in the probe, or its row  *)
(* has a stamp the prune spares or will get one from pendingIDs.           *)
(***************************************************************************)
EXTENDS LibraryScan, TLAPS, FiniteSetTheorems

Spared(s, p)  == Has(p) /\ rows[p].stamp >= scan[s].start
Pending(s, p) == Has(p) /\ rows[p].id \in scan[s].pending
Probed(s, p)  == /\ p = scan[s].cur
                 /\ scan[s].id # 0 => Has(p) /\ rows[p].id = scan[s].id

Covered(s, p) ==
  \/ scan[s].err
  \/ Spared(s, p)
  \/ scan[s].at = "walk" /\ p \in scan[s].todo \cup scan[s].videos
  \/ scan[s].at \in {"files", "probe"} /\ p \in scan[s].left
  \/ scan[s].at = "probe" /\ Probed(s, p)
  \/ scan[s].at \in {"files", "probe", "check", "touch"} /\ Pending(s, p)

Answers(s) ==
  scan[s].at \notin {"idle", "load"} /\ ~scan[s].one =>
    \A p \in Paths : Root[p] = scan[s].root /\ p \notin missed[s] =>
      p \in disk /\ Covered(s, p)

Control(s) ==
  /\ scan[s].one => scan[s].at \in {"files", "probe"}
  /\ scan[s].at = "probe" => scan[s].cur \in Paths
  /\ scan[s].at \in {"count", "prune"} => ~scan[s].err

Checked(s) == ~Window /\ scan[s].at \in Pruning => lib = scan[s].root

IInv == TypeOK /\ \A s \in Scans : Control(s) /\ Answers(s) /\ Checked(s)

(* What a row looks like.                                                  *)
LEMMA RowTyped ==
  ASSUME TypeOK, NEW p \in Paths
  PROVE  /\ rows[p].id \in Ids \cup {0} /\ rows[p].stamp \in Times
         /\ Has(p) => rows[p].id \in Ids
PROOF BY ConstantsAssumption DEF TypeOK, Has, NoRow, Ids, Times

(* A worker that scans nothing.                                            *)
LEMMA IdleTyped == Idle \in Scan
PROOF BY ConstantsAssumption, FS_CardinalityType DEF Idle, Scan, Stages, Times

(* The rows of the library are no more than the paths.                     *)
LEMMA CountTyped == TypeOK => Cardinality(Stored) \in 0..Cardinality(Paths)
PROOF BY ConstantsAssumption, FS_Subset, FS_CardinalityType DEF Stored

(* A step leaves a scan what it answers for: it keeps ids and does not     *)
(* lower stamps, unless the scan has now missed the file.                  *)
KeepsFor(t) ==
  /\ missed[t] \subseteq missed'[t]
  /\ \A p \in Paths \ missed'[t] :
       /\ p \in disk => p \in disk'
       /\ Has(p) => Has(p)' /\ rows'[p].id = rows[p].id /\ rows'[p].stamp >= rows[p].stamp

(* The scans that do not move keep their answers over such a step.         *)
LEMMA Beside ==
  ASSUME TypeOK, TypeOK', NEW t \in Scans, scan'[t] = scan[t], KeepsFor(t),
         Control(t), Answers(t)
  PROVE  Control(t)' /\ Answers(t)'
<1>1. Control(t)'
  BY DEF Control
<1>2. ASSUME NEW p \in Paths, Covered(t, p), p \notin missed'[t]
      PROVE  Covered(t, p)'
  <2>1. /\ scan[t].start \in Int
        /\ rows[p].stamp \in Int /\ rows'[p].stamp \in Int
    BY ConstantsAssumption, RowTyped DEF TypeOK, Scan, Times, NoRow
  <2>2. /\ Spared(t, p) => Spared(t, p)'
        /\ Pending(t, p) => Pending(t, p)'
        /\ Probed(t, p) => Probed(t, p)'
    BY <1>2, <2>1 DEF KeepsFor, Spared, Pending, Probed
  <2>3. QED
    BY <1>2, <2>2 DEF Covered
<1>3. Answers(t)'
  BY <1>2 DEF Answers, KeepsFor
<1>4. QED
  BY <1>1, <1>3

(* A stamp never gets lower.                                               *)
LEMMA StampGrows ==
  ASSUME NEW old \in Times, NEW start \in Times
  PROVE  Stamp(old, start) \in Times /\ Stamp(old, start) >= old /\ Stamp(old, start) >= start
PROOF BY ConstantsAssumption DEF Stamp, Times

(* Touching rows keeps every row, and spares those it touches.             *)
LEMMA Touched ==
  ASSUME TypeOK, NEW ids, NEW start \in Times, Touch(ids, start)
  PROVE  /\ rows' \in [Paths -> [id : Ids, stamp : Times] \cup {NoRow}]
         /\ \A p \in Paths : Has(p) => /\ Has(p)'
                                       /\ rows'[p].id = rows[p].id
                                       /\ rows'[p].stamp >= rows[p].stamp
                                       /\ rows[p].id \in ids => rows'[p].stamp >= start
         /\ \A p \in Paths : ~Has(p) => rows'[p] = rows[p]
<1>1. SUFFICES ASSUME NEW p \in Paths
               PROVE  /\ rows'[p] \in [id : Ids, stamp : Times] \cup {NoRow}
                      /\ Has(p) => /\ Has(p)'
                                   /\ rows'[p].id = rows[p].id
                                   /\ rows'[p].stamp >= rows[p].stamp
                                   /\ rows[p].id \in ids => rows'[p].stamp >= start
                      /\ ~Has(p) => rows'[p] = rows[p]
  BY DEF Touch
<1>2. CASE Has(p)
  <2>1. rows[p] \in [id : Ids, stamp : Times] /\ rows[p].id # 0
    BY <1>2 DEF TypeOK, Has, NoRow, Ids
  <2>2. /\ Stamp(rows[p].stamp, start) \in Times
        /\ Stamp(rows[p].stamp, start) >= rows[p].stamp
        /\ Stamp(rows[p].stamp, start) >= start
    BY <2>1, StampGrows
  <2>3. CASE rows[p].id \in ids
    <3>1. rows'[p] = [rows[p] EXCEPT !.stamp = Stamp(rows[p].stamp, start)]
      BY <1>2, <2>3 DEF Touch
    <3>2. QED
      BY <1>2, <2>1, <2>2, <3>1 DEF Has, NoRow
  <2>4. CASE rows[p].id \notin ids
    <3>1. rows'[p] = rows[p]
      BY <1>2, <2>4 DEF Touch
    <3>2. QED
      BY <1>2, <2>1, <2>4, <3>1, ConstantsAssumption DEF Has, Times
  <2>5. QED
    BY <2>3, <2>4
<1>3. CASE ~Has(p)
  <2>1. rows'[p] = rows[p]
    BY <1>3 DEF Touch
  <2>2. QED
    BY <1>3, <2>1 DEF TypeOK
<1>4. QED
  BY <1>2, <1>3

(* Storing a probe keeps every row, and spares the one it stores.          *)
LEMMA Upserted ==
  ASSUME TypeOK, NEW c \in Paths, NEW start \in Times, UpsertMediaFile(c, start)
  PROVE  /\ rows' \in [Paths -> [id : Ids, stamp : Times] \cup {NoRow}]
         /\ \A p \in Paths : Has(p) => /\ Has(p)'
                                       /\ rows'[p].id = rows[p].id
                                       /\ rows'[p].stamp >= rows[p].stamp
         /\ Has(c)' /\ rows'[c].stamp >= start /\ rows'[c].id \in Ids
<1>1. CASE Has(c) /\ rows' = [rows EXCEPT ![c].stamp = Stamp(@, start)]
  <2>1. rows[c] \in [id : Ids, stamp : Times]
    BY <1>1 DEF TypeOK, Has
  <2>2. /\ Stamp(rows[c].stamp, start) \in Times
        /\ Stamp(rows[c].stamp, start) >= rows[c].stamp
        /\ Stamp(rows[c].stamp, start) >= start
    BY <2>1, StampGrows
  <2>3. /\ rows'[c] = [rows[c] EXCEPT !.stamp = Stamp(rows[c].stamp, start)]
        /\ \A p \in Paths \ {c} : rows'[p] = rows[p]
        /\ DOMAIN rows' = Paths /\ rows' = [p \in Paths |-> rows'[p]]
    BY <1>1 DEF TypeOK
  <2>4. rows'[c] \in [id : Ids, stamp : Times] /\ rows'[c].id # 0
    BY <2>1, <2>2, <2>3 DEF Ids
  <2>5. \A p \in Paths : rows[p].stamp >= rows[p].stamp
    BY RowTyped, ConstantsAssumption DEF Times
  <2>6. QED
    BY <1>1, <2>1, <2>2, <2>3, <2>4, <2>5 DEF TypeOK, Has, NoRow
<1>2. CASE ~Has(c) /\ \E id \in Ids : rows' = [rows EXCEPT ![c] = [id |-> id, stamp |-> start]]
  <2>1. PICK id \in Ids : rows' = [rows EXCEPT ![c] = [id |-> id, stamp |-> start]]
    BY <1>2
  <2>2. /\ rows'[c] = [id |-> id, stamp |-> start]
        /\ \A p \in Paths \ {c} : rows'[p] = rows[p]
    BY <2>1 DEF TypeOK
  <2>3. id # 0 /\ start >= start
    BY <2>1, ConstantsAssumption DEF Ids, Times
  <2>4. \A p \in Paths : rows[p].stamp >= rows[p].stamp
    BY RowTyped, ConstantsAssumption DEF Times
  <2>5. QED
    BY <1>2, <2>1, <2>2, <2>3, <2>4 DEF TypeOK, Has, NoRow
<1>3. QED
  BY <1>1, <1>2 DEF UpsertMediaFile

(* The scans have missed whatever is deleted.                              *)
LEMMA Deleted ==
  ASSUME TypeOK, NEW gone, gone \subseteq Paths, Delete(gone)
  PROVE  /\ rows' \in [Paths -> [id : Ids, stamp : Times] \cup {NoRow}]
         /\ missed' \in [Scans -> SUBSET Paths]
         /\ \A t \in Scans : missed[t] \subseteq missed'[t]
         /\ \A t \in Scans : \A p \in Paths \ missed'[t] : Has(p) => Has(p)' /\ rows'[p] = rows[p]
PROOF BY DEF TypeOK, Delete, Has

(* A scan that has only its library loaded answers for nothing.            *)
LEMMA LoadLibraryKeeps ==
  ASSUME IInv, NEW s \in Scans, LoadLibrary(s)
  PROVE  IInv'
<1>1. /\ scan' = [scan EXCEPT ![s] = scan'[s]]
      /\ scan'[s] = [scan[s] EXCEPT !.at = "load", !.root = lib]
  BY DEF IInv, TypeOK, LoadLibrary
<1>2. TypeOK'
  <2>1. scan[s] \in Scan
    BY DEF IInv, TypeOK
  <2>2. scan'[s] \in Scan
    BY <1>1, <2>1 DEF IInv, TypeOK, Scan, Stages
  <2>3. QED
    BY <1>1, <2>2 DEF IInv, TypeOK, LoadLibrary
<1>3. ASSUME NEW t \in Scans, t # s
      PROVE  Control(t)' /\ Answers(t)' /\ Checked(t)'
  <2>1. scan'[t] = scan[t] /\ lib' = lib
    BY <1>1, <1>3 DEF IInv, TypeOK, LoadLibrary
  <2>2. KeepsFor(t)
    BY <1>3, RowTyped, ConstantsAssumption DEF IInv, TypeOK, KeepsFor, Times, Has,
       LoadLibrary
  <2>3. QED
    BY <1>2, <2>1, <2>2, <1>3, Beside DEF IInv, Checked
<1>4. Control(s)' /\ Checked(s)' /\ Answers(s)'
  BY <1>1, <1>2, ConstantsAssumption DEF IInv, TypeOK, Scan, Control, Checked, Answers,
     Pruning, LoadLibrary
<1>5. QED
  BY <1>2, <1>3, <1>4 DEF IInv

(* What is not there at the start is missed; all else the walk will come   *)
(* to.                                                                     *)
LEMMA StartScanKeeps ==
  ASSUME IInv, NEW s \in Scans, StartScan(s)
  PROVE  IInv'
<1>1. /\ scan' = [scan EXCEPT ![s] = scan'[s]]
      /\ scan'[s] = [scan[s] EXCEPT !.at = "walk", !.start = now,
                                !.todo = {p \in Paths : Root[p] = scan[s].root}]
  BY DEF IInv, TypeOK, StartScan
<1>2. TypeOK'
  <2>1. scan[s] \in Scan
    BY DEF IInv, TypeOK
  <2>2. scan'[s] \in Scan
    BY <1>1, <2>1 DEF IInv, TypeOK, Scan, Stages
  <2>3. QED
    BY <1>1, <2>2 DEF IInv, TypeOK, StartScan
<1>3. ASSUME NEW t \in Scans, t # s
      PROVE  Control(t)' /\ Answers(t)' /\ Checked(t)'
  <2>1. scan'[t] = scan[t] /\ lib' = lib
    BY <1>1, <1>3 DEF IInv, TypeOK, StartScan
  <2>2. KeepsFor(t)
    BY <1>3, RowTyped, ConstantsAssumption DEF IInv, TypeOK, KeepsFor, Times, Has,
       StartScan
  <2>3. QED
    BY <1>2, <2>1, <2>2, <1>3, Beside DEF IInv, Checked
<1>4. Control(s)' /\ Checked(s)' /\ Answers(s)'
  <2>1. /\ scan'[s].at = "walk" /\ scan'[s].one = scan[s].one /\ scan'[s].root = scan[s].root
        /\ scan'[s].todo = {p \in Paths : Root[p] = scan[s].root}
        /\ missed'[s] = Paths \ disk /\ disk' = disk
    BY <1>1 DEF IInv, TypeOK, Scan, StartScan
  <2>2. ~scan[s].one
    BY DEF IInv, Control, StartScan
  <2>3. Control(s)' /\ Checked(s)'
    BY <2>1, <2>2 DEF Control, Checked, Pruning
  <2>4. Answers(s)'
    BY <2>1 DEF Answers, Covered
  <2>5. QED
    BY <2>3, <2>4
<1>5. QED
  BY <1>2, <1>3, <1>4 DEF IInv

(* A rescan of one file prunes nothing.                                    *)
LEMMA StartRefreshKeeps ==
  ASSUME IInv, NEW s \in Scans, StartRefresh(s)
  PROVE  IInv'
<1>1. PICK p \in Stored \cap disk :
       /\ scan' = [scan EXCEPT ![s] = scan'[s]]
       /\ scan'[s] = [Idle EXCEPT !.at = "files", !.one = TRUE, !.root = lib,
                             !.start = now, !.left = {p}]
  BY DEF IInv, TypeOK, StartRefresh
<1>2. TypeOK'
  <2>1. scan[s] \in Scan
    BY DEF IInv, TypeOK
  <2>2. scan'[s] \in Scan
    <3>1. /\ Idle \in Scan /\ p \in Paths /\ lib \in Roots \cup {NoRoot} /\ now \in Times
      BY <1>1, IdleTyped DEF IInv, TypeOK, Stored
    <3>2. /\ scan'[s] = [Idle EXCEPT !.at = "files", !.one = TRUE, !.root = lib,
                                      !.start = now, !.left = {p}]
          /\ {p} \in SUBSET Paths
      BY <1>1, <3>1
    <3>3. QED
      BY <3>1, <3>2 DEF Scan, Stages
  <2>3. QED
    BY <1>1, <2>2 DEF IInv, TypeOK, StartRefresh
<1>3. ASSUME NEW t \in Scans, t # s
      PROVE  Control(t)' /\ Answers(t)' /\ Checked(t)'
  <2>1. scan'[t] = scan[t] /\ lib' = lib
    BY <1>1, <1>3 DEF IInv, TypeOK, StartRefresh
  <2>2. KeepsFor(t)
    BY <1>3, RowTyped, ConstantsAssumption DEF IInv, TypeOK, KeepsFor, Times, Has,
       StartRefresh
  <2>3. QED
    BY <1>2, <2>1, <2>2, <1>3, Beside DEF IInv, Checked
<1>4. Control(s)' /\ Checked(s)' /\ Answers(s)'
  BY <1>1, <1>2, ConstantsAssumption DEF IInv, TypeOK, Scan, Control, Checked, Answers,
     Idle, Pruning, StartRefresh, Stored
<1>5. QED
  BY <1>2, <1>3, <1>4 DEF IInv

(* A video that is there goes to videos; what the walk cannot read sets    *)
(* walkErrSeen.                                                            *)
LEMMA WalkEntryKeeps ==
  ASSUME IInv, NEW s \in Scans, WalkEntry(s)
  PROVE  IInv'
<1>1. PICK p \in scan[s].todo :
       /\ scan' = [scan EXCEPT ![s] = scan'[s]]
       /\ \/ p \in disk /\ scan'[s] = [scan[s] EXCEPT !.todo = @ \ {p}, !.videos = @ \cup {p}]
          \/ p \notin disk /\ scan'[s] = [scan[s] EXCEPT !.todo = @ \ {p}]
          \/ scan'[s] = [scan[s] EXCEPT !.todo = @ \ {p}, !.err = TRUE]
  BY DEF IInv, TypeOK, WalkEntry
<1>2. TypeOK'
  <2>1. scan[s] \in Scan
    BY DEF IInv, TypeOK
  <2>2. scan'[s] \in Scan
    <3>1. p \in Paths
      BY <1>1, <2>1 DEF Scan
    <3>2. CASE scan'[s] = [scan[s] EXCEPT !.todo = @ \ {p}, !.videos = @ \cup {p}]
      <4>1. scan[s].todo \ {p} \in SUBSET Paths /\ scan[s].videos \cup {p} \in SUBSET Paths
        BY <2>1, <3>1 DEF Scan
      <4>2. QED
        BY <2>1, <3>2, <4>1 DEF Scan
    <3>3. CASE scan'[s] = [scan[s] EXCEPT !.todo = @ \ {p}]
      BY <2>1, <3>3 DEF Scan
    <3>4. CASE scan'[s] = [scan[s] EXCEPT !.todo = @ \ {p}, !.err = TRUE]
      BY <2>1, <3>4 DEF Scan
    <3>5. QED
      BY <1>1, <3>2, <3>3, <3>4
  <2>3. QED
    BY <1>1, <2>2 DEF IInv, TypeOK, WalkEntry
<1>3. ASSUME NEW t \in Scans, t # s
      PROVE  Control(t)' /\ Answers(t)' /\ Checked(t)'
  <2>1. scan'[t] = scan[t] /\ lib' = lib
    BY <1>1, <1>3 DEF IInv, TypeOK, WalkEntry
  <2>2. KeepsFor(t)
    BY <1>3, RowTyped, ConstantsAssumption DEF IInv, TypeOK, KeepsFor, Times, Has,
       WalkEntry
  <2>3. QED
    BY <1>2, <2>1, <2>2, <1>3, Beside DEF IInv, Checked
<1>4. Control(s)' /\ Checked(s)' /\ Answers(s)'
  BY <1>1, <1>2, ConstantsAssumption DEF IInv, TypeOK, Scan, Control, Checked, Answers,
     Covered, Spared, Pending, Probed, Has, Pruning, WalkEntry
<1>5. QED
  BY <1>2, <1>3, <1>4 DEF IInv

(* The videos of the walk are those scanOne will be called for.            *)
LEMMA WalkDoneKeeps ==
  ASSUME IInv, NEW s \in Scans, WalkDone(s)
  PROVE  IInv'
<1>1. /\ scan' = [scan EXCEPT ![s] = scan'[s]]
      /\ scan'[s] = [scan[s] EXCEPT !.at = "files", !.left = scan[s].videos]
  BY DEF IInv, TypeOK, WalkDone
<1>2. TypeOK'
  <2>1. scan[s] \in Scan
    BY DEF IInv, TypeOK
  <2>2. scan'[s] \in Scan
    BY <1>1, <2>1 DEF IInv, TypeOK, Scan, Stages
  <2>3. QED
    BY <1>1, <2>2 DEF IInv, TypeOK, WalkDone
<1>3. ASSUME NEW t \in Scans, t # s
      PROVE  Control(t)' /\ Answers(t)' /\ Checked(t)'
  <2>1. scan'[t] = scan[t] /\ lib' = lib
    BY <1>1, <1>3 DEF IInv, TypeOK, WalkDone
  <2>2. KeepsFor(t)
    BY <1>3, RowTyped, ConstantsAssumption DEF IInv, TypeOK, KeepsFor, Times, Has,
       WalkDone
  <2>3. QED
    BY <1>2, <2>1, <2>2, <1>3, Beside DEF IInv, Checked
<1>4. Control(s)' /\ Checked(s)' /\ Answers(s)'
  BY <1>1, <1>2, ConstantsAssumption DEF IInv, TypeOK, Scan, Control, Checked, Answers,
     Covered, Spared, Pending, Probed, Has, Pruning, WalkDone
<1>5. QED
  BY <1>2, <1>3, <1>4 DEF IInv

(* A row that was found is touched, is in pendingIDs or is the one to be   *)
(* stored.                                                                 *)
LEMMA LookupRowKeeps ==
  ASSUME IInv, NEW s \in Scans, LookupRow(s)
  PROVE  IInv'
<1>1. PICK p \in scan[s].left :
        \/ /\ Has(p)
           /\ scan' = [scan EXCEPT ![s].left = @ \ {p}, ![s].pending = @ \cup {rows[p].id}]
           /\ UNCHANGED rows
        \/ /\ Has(p)
           /\ \E again \in {{}, {rows[p].id}} :
                scan' = [scan EXCEPT ![s].left = @ \ {p}, ![s].pending = @ \cup again]
           /\ Touch({rows[p].id}, scan[s].start)
        \/ /\ scan' = [scan EXCEPT ![s].at = "probe", ![s].left = @ \ {p},
                                   ![s].cur = p, ![s].id = rows[p].id]
           /\ UNCHANGED rows
  BY DEF LookupRow
<1>2. /\ scan[s] \in Scan /\ scan[s].start \in Times /\ p \in Paths
      /\ scan[s].at = "files" /\ Control(s) /\ Answers(s) /\ Checked(s)
      /\ lib' = lib /\ disk' = disk /\ missed' = missed
  BY <1>1 DEF IInv, TypeOK, Scan, LookupRow
<1>3. \/ \E more \in SUBSET Ids :
              /\ Has(p)
              /\ scan' = [scan EXCEPT ![s] = [scan[s] EXCEPT !.left = @ \ {p},
                                                             !.pending = @ \cup more]]
              /\ \/ rows[p].id \in more /\ UNCHANGED rows
                 \/ Touch({rows[p].id}, scan[s].start)
      \/ /\ scan' = [scan EXCEPT ![s] = [scan[s] EXCEPT !.at = "probe", !.left = @ \ {p},
                                                        !.cur = p, !.id = rows[p].id]]
         /\ UNCHANGED rows
  <2>1. Has(p) => {rows[p].id} \in SUBSET Ids /\ rows[p].id \in {rows[p].id}
    BY <1>2, RowTyped DEF IInv
  <2>2. CASE Has(p) /\ UNCHANGED rows
             /\ scan' = [scan EXCEPT ![s].left = @ \ {p}, ![s].pending = @ \cup {rows[p].id}]
    BY <2>1, <2>2 DEF IInv, TypeOK
  <2>3. CASE /\ Has(p) /\ Touch({rows[p].id}, scan[s].start)
             /\ \E again \in {{}, {rows[p].id}} :
                  scan' = [scan EXCEPT ![s].left = @ \ {p}, ![s].pending = @ \cup again]
    BY <2>1, <2>3 DEF IInv, TypeOK
  <2>4. CASE /\ scan' = [scan EXCEPT ![s].at = "probe", ![s].left = @ \ {p},
                                     ![s].cur = p, ![s].id = rows[p].id]
             /\ UNCHANGED rows
    BY <2>4 DEF IInv, TypeOK
  <2>5. QED
    BY <1>1, <2>2, <2>3, <2>4
<1>4. /\ rows' \in [Paths -> [id : Ids, stamp : Times] \cup {NoRow}]
      /\ \A q \in Paths : Has(q) => /\ Has(q)' /\ rows'[q].id = rows[q].id
                                    /\ rows'[q].stamp >= rows[q].stamp
  <2>1. CASE UNCHANGED rows
    <3>1. \A q \in Paths : rows[q].stamp >= rows[q].stamp
      BY RowTyped, ConstantsAssumption DEF IInv, Times
    <3>2. QED
      BY <2>1, <3>1 DEF IInv, TypeOK, Has
  <2>2. CASE Touch({rows[p].id}, scan[s].start)
    BY <1>2, <2>2, Touched DEF IInv
  <2>3. QED
    BY <1>3, <2>1, <2>2
<1>5. /\ scan' = [scan EXCEPT ![s] = scan'[s]]
      /\ \/ \E more \in SUBSET Ids :
              scan'[s] = [scan[s] EXCEPT !.left = @ \ {p}, !.pending = @ \cup more]
         \/ scan'[s] = [scan[s] EXCEPT !.at = "probe", !.left = @ \ {p},
                                       !.cur = p, !.id = rows[p].id]
  BY <1>3 DEF IInv, TypeOK
<1>6. scan'[s] \in Scan
  <2>1. rows[p].id \in Ids \cup {0}
    BY <1>2, RowTyped DEF IInv
  <2>2. CASE \E more \in SUBSET Ids :
              scan'[s] = [scan[s] EXCEPT !.left = @ \ {p}, !.pending = @ \cup more]
    <3>1. PICK more \in SUBSET Ids :
              scan'[s] = [scan[s] EXCEPT !.left = @ \ {p}, !.pending = @ \cup more]
      BY <2>2
    <3>2. scan[s].pending \cup more \in SUBSET Ids
      BY <1>2 DEF Scan
    <3>3. QED
      BY <1>2, <3>1, <3>2 DEF Scan
  <2>3. CASE scan'[s] = [scan[s] EXCEPT !.at = "probe", !.left = @ \ {p},
                                       !.cur = p, !.id = rows[p].id]
    BY <1>2, <2>1, <2>3 DEF Scan, Stages
  <2>4. QED
    BY <1>5, <2>2, <2>3
<1>7. /\ scan'[s].at \in {"files", "probe"}
      /\ scan'[s].one = scan[s].one /\ scan'[s].root = scan[s].root
      /\ scan'[s].at = "probe" => scan'[s].cur = p
  <2>1. ASSUME NEW more \in SUBSET Ids,
               scan'[s] = [scan[s] EXCEPT !.left = @ \ {p}, !.pending = @ \cup more]
        PROVE  /\ scan'[s].at = "files"
               /\ scan'[s].one = scan[s].one /\ scan'[s].root = scan[s].root
    BY <1>2, <2>1 DEF Scan
  <2>2. CASE scan'[s] = [scan[s] EXCEPT !.at = "probe", !.left = @ \ {p},
                                       !.cur = p, !.id = rows[p].id]
    BY <1>2, <2>2 DEF Scan
  <2>3. QED
    BY <1>5, <2>1, <2>2
<1>8. TypeOK'
  BY <1>2, <1>4, <1>5, <1>6 DEF IInv, TypeOK, LookupRow
<1>9. ASSUME NEW t \in Scans, t # s
      PROVE  Control(t)' /\ Answers(t)' /\ Checked(t)'
  <2>1. scan'[t] = scan[t] /\ KeepsFor(t)
    BY <1>2, <1>4, <1>5, <1>9 DEF IInv, TypeOK, KeepsFor
  <2>2. QED
    BY <1>2, <1>8, <1>9, <2>1, Beside DEF IInv, Checked
<1>10. Control(s)' /\ Checked(s)'
  BY <1>2, <1>7 DEF Control, Checked, Pruning
<1>11. ASSUME NEW q \in Paths, Covered(s, q)
      PROVE  Covered(s, q)'
  <2>1. /\ scan[s].start \in Int /\ rows[q].stamp \in Int /\ rows'[q].stamp \in Int
        /\ rows'[p].stamp \in Int
    BY <1>2, <1>4, ConstantsAssumption DEF IInv, TypeOK, Times, NoRow
  <2>2. CASE \E more \in SUBSET Ids :
              /\ Has(p)
              /\ scan' = [scan EXCEPT ![s] = [scan[s] EXCEPT !.left = @ \ {p},
                                                             !.pending = @ \cup more]]
              /\ \/ rows[p].id \in more /\ UNCHANGED rows
                 \/ Touch({rows[p].id}, scan[s].start)
    <3>1. PICK more \in SUBSET Ids :
              /\ Has(p)
              /\ scan'[s] = [scan[s] EXCEPT !.left = @ \ {p}, !.pending = @ \cup more]
              /\ \/ rows[p].id \in more /\ UNCHANGED rows
                 \/ Touch({rows[p].id}, scan[s].start)
      BY <2>2 DEF IInv, TypeOK
    <3>2. /\ scan'[s].err = scan[s].err /\ scan'[s].start = scan[s].start
          /\ scan'[s].at = "files" /\ scan'[s].left = scan[s].left \ {p}
          /\ scan'[s].pending = scan[s].pending \cup more
      BY <1>2, <3>1 DEF Scan
    <3>3. Spared(s, p)' \/ Pending(s, p)'
      <4>1. CASE rows[p].id \in more /\ UNCHANGED rows
        BY <3>1, <3>2, <4>1 DEF Pending, Has
      <4>2. CASE Touch({rows[p].id}, scan[s].start)
        <5>1. Has(p)' /\ rows'[p].stamp >= scan[s].start
          BY <1>2, <3>1, <4>2, Touched DEF IInv
        <5>2. QED
          BY <3>2, <5>1 DEF Spared
      <4>3. QED
        BY <3>1, <4>1, <4>2
    <3>4. (Spared(s, q) => Spared(s, q)') /\ (Pending(s, q) => Pending(s, q)')
      BY <1>4, <2>1, <3>2 DEF Spared, Pending
    <3>5. QED
      BY <1>2, <1>11, <3>2, <3>3, <3>4 DEF Covered
  <2>3. CASE /\ scan' = [scan EXCEPT ![s] = [scan[s] EXCEPT !.at = "probe", !.left = @ \ {p},
                                                        !.cur = p, !.id = rows[p].id]]
             /\ UNCHANGED rows
    <3>1. /\ scan'[s].err = scan[s].err /\ scan'[s].start = scan[s].start
          /\ scan'[s].at = "probe" /\ scan'[s].left = scan[s].left \ {p}
          /\ scan'[s].pending = scan[s].pending
          /\ scan'[s].cur = p /\ scan'[s].id = rows[p].id
      BY <1>2, <2>3 DEF IInv, TypeOK, Scan
    <3>2. Probed(s, p)'
      BY <2>3, <3>1 DEF Probed, Has, NoRow, IInv, TypeOK
    <3>3. (Spared(s, q) => Spared(s, q)') /\ (Pending(s, q) => Pending(s, q)')
      BY <2>3, <3>1 DEF Spared, Pending, Has
    <3>4. QED
      BY <1>2, <1>11, <3>1, <3>2, <3>3 DEF Covered
  <2>4. QED
    BY <1>3, <2>2, <2>3
<1>12. Answers(s)'
  BY <1>2, <1>11, <1>7 DEF Answers
<1>13. QED
  BY <1>8, <1>9, <1>10, <1>12 DEF IInv

(* The lookup that fails sets walkErrSeen.                                 *)
LEMMA LookupFailsKeeps ==
  ASSUME IInv, NEW s \in Scans, LookupFails(s)
  PROVE  IInv'
<1>1. PICK p \in scan[s].left :
       /\ scan' = [scan EXCEPT ![s] = scan'[s]]
       /\ scan'[s] = [scan[s] EXCEPT !.left = @ \ {p}, !.err = TRUE]
  BY DEF IInv, TypeOK, LookupFails
<1>2. TypeOK'
  <2>1. scan[s] \in Scan
    BY DEF IInv, TypeOK
  <2>2. scan'[s] \in Scan
    BY <1>1, <2>1 DEF IInv, TypeOK, Scan, Stages
  <2>3. QED
    BY <1>1, <2>2 DEF IInv, TypeOK, LookupFails
<1>3. ASSUME NEW t \in Scans, t # s
      PROVE  Control(t)' /\ Answers(t)' /\ Checked(t)'
  <2>1. scan'[t] = scan[t] /\ lib' = lib
    BY <1>1, <1>3 DEF IInv, TypeOK, LookupFails
  <2>2. KeepsFor(t)
    BY <1>3, RowTyped, ConstantsAssumption DEF IInv, TypeOK, KeepsFor, Times, Has,
       LookupFails
  <2>3. QED
    BY <1>2, <2>1, <2>2, <1>3, Beside DEF IInv, Checked
<1>4. Control(s)' /\ Checked(s)' /\ Answers(s)'
  BY <1>1, <1>2, ConstantsAssumption DEF IInv, TypeOK, Scan, Control, Checked, Answers,
     Covered, Spared, Pending, Probed, Has, Pruning, LookupFails
<1>5. QED
  BY <1>2, <1>3, <1>4 DEF IInv

(* The row that was stored has the stamp of the scan or a later one.       *)
LEMMA StoreProbeKeeps ==
  ASSUME IInv, NEW s \in Scans, StoreProbe(s)
  PROVE  IInv'
<1>1. PICK again \in SUBSET {rows'[scan[s].cur].id} :
        scan' = [scan EXCEPT ![s] = [scan[s] EXCEPT !.at = "files", !.cur = NoPath, !.id = 0,
                                                    !.pending = @ \cup again]]
  BY DEF IInv, TypeOK, StoreProbe
<1>2. /\ scan[s] \in Scan /\ scan[s].start \in Times /\ scan[s].cur \in Paths
      /\ scan[s].at = "probe" /\ Control(s) /\ Answers(s) /\ Checked(s)
      /\ UpsertMediaFile(scan[s].cur, scan[s].start)
      /\ lib' = lib /\ disk' = disk /\ missed' = missed
  BY DEF IInv, TypeOK, Scan, Control, StoreProbe
<1>3. /\ rows' \in [Paths -> [id : Ids, stamp : Times] \cup {NoRow}]
      /\ \A q \in Paths : Has(q) => /\ Has(q)' /\ rows'[q].id = rows[q].id
                                    /\ rows'[q].stamp >= rows[q].stamp
      /\ rows'[scan[s].cur] # NoRow /\ rows'[scan[s].cur].stamp >= scan[s].start
      /\ rows'[scan[s].cur].id \in Ids
  BY <1>2, Upserted DEF IInv, Has
<1>4. TypeOK'
  <2>1. scan'[s] \in Scan
    BY <1>1, <1>2, <1>3 DEF IInv, TypeOK, Scan, Stages
  <2>2. QED
    BY <1>1, <1>2, <1>3, <2>1 DEF IInv, TypeOK, StoreProbe
<1>5. ASSUME NEW t \in Scans, t # s
      PROVE  Control(t)' /\ Answers(t)' /\ Checked(t)'
  <2>1. scan'[t] = scan[t] /\ KeepsFor(t)
    BY <1>1, <1>2, <1>3, <1>5 DEF IInv, TypeOK, KeepsFor
  <2>2. QED
    BY <1>2, <1>4, <1>5, <2>1, Beside DEF IInv, Checked
<1>6. /\ scan'[s].err = scan[s].err /\ scan'[s].start = scan[s].start
      /\ scan'[s].one = scan[s].one /\ scan'[s].root = scan[s].root
      /\ scan'[s].at = "files" /\ scan'[s].left = scan[s].left
      /\ scan'[s].pending = scan[s].pending \cup again
  BY <1>1, <1>2 DEF IInv, TypeOK, Scan
<1>7. Control(s)' /\ Checked(s)'
  BY <1>2, <1>6 DEF Control, Checked, Pruning
<1>8. ASSUME NEW q \in Paths, Covered(s, q)
      PROVE  Covered(s, q)'
  <2>1. scan[s].start \in Int /\ rows[q].stamp \in Int /\ rows'[q].stamp \in Int
    BY <1>2, <1>3, ConstantsAssumption DEF IInv, TypeOK, Times, NoRow
  <2>2. (Spared(s, q) => Spared(s, q)') /\ (Pending(s, q) => Pending(s, q)')
    BY <1>3, <1>6, <2>1 DEF Spared, Pending
  <2>3. Probed(s, q) => Spared(s, q)'
    BY <1>3, <1>6 DEF Probed, Spared, Has
  <2>4. QED
    BY <1>2, <1>6, <1>8, <2>2, <2>3 DEF Covered
<1>9. Answers(s)'
  BY <1>2, <1>6, <1>8 DEF Answers
<1>10. QED
  BY <1>4, <1>5, <1>7, <1>9 DEF IInv

(* After a probe that fails the row is in pendingIDs, or the file is       *)
(* missed.                                                                 *)
LEMMA ProbeFailsKeeps ==
  ASSUME IInv, NEW s \in Scans, ProbeFails(s)
  PROVE  IInv'
<1>1. /\ scan' = [scan EXCEPT ![s] = scan'[s]]
      /\ scan'[s] = [scan[s] EXCEPT !.at = "files", !.cur = NoPath, !.id = 0,
                                !.pending = @ \cup KeptAlive(scan[s].id)]
  BY DEF IInv, TypeOK, ProbeFails
<1>2. TypeOK'
  <2>1. scan[s] \in Scan
    BY DEF IInv, TypeOK
  <2>2. scan'[s] \in Scan
    <3>1. scan[s].pending \cup KeptAlive(scan[s].id) \in SUBSET Ids
      BY <2>1 DEF Scan, KeptAlive
    <3>2. QED
      BY <1>1, <2>1, <3>1 DEF Scan, Stages
  <2>3. missed' \in [Scans -> SUBSET Paths]
    BY DEF IInv, TypeOK, Control, ProbeFails
  <2>4. QED
    BY <1>1, <2>2, <2>3 DEF IInv, TypeOK, ProbeFails
<1>3. ASSUME NEW t \in Scans, t # s
      PROVE  Control(t)' /\ Answers(t)' /\ Checked(t)'
  <2>1. scan'[t] = scan[t] /\ lib' = lib
    BY <1>1, <1>3 DEF IInv, TypeOK, ProbeFails
  <2>2. KeepsFor(t)
    BY <1>3, RowTyped, ConstantsAssumption DEF IInv, TypeOK, KeepsFor, Times, Has,
       ProbeFails
  <2>3. QED
    BY <1>2, <2>1, <2>2, <1>3, Beside DEF IInv, Checked
<1>4. Control(s)' /\ Checked(s)' /\ Answers(s)'
  BY <1>1, <1>2, ConstantsAssumption DEF IInv, TypeOK, Scan, Control, Checked, Answers,
     Covered, Spared, Pending, Probed, Has, Pruning, ProbeFails, KeptAlive, Ids
<1>5. QED
  BY <1>2, <1>3, <1>4 DEF IInv

(* When scanOne was called for all videos, no file is left to a later      *)
(* call.                                                                   *)
LEMMA FilesDoneKeeps ==
  ASSUME IInv, NEW s \in Scans, FilesDone(s)
  PROVE  IInv'
<1>1. /\ scan' = [scan EXCEPT ![s] = scan'[s]]
      /\ \/ scan'[s] = Idle
         \/ ~scan[s].one /\ scan'[s] = [scan[s] EXCEPT !.at = "check"]
  BY DEF IInv, TypeOK, FilesDone
<1>2. TypeOK'
  <2>1. scan[s] \in Scan
    BY DEF IInv, TypeOK
  <2>2. scan'[s] \in Scan
    BY <1>1, <2>1, IdleTyped DEF IInv, TypeOK, Scan, Stages
  <2>3. QED
    BY <1>1, <2>2 DEF IInv, TypeOK, FilesDone
<1>3. ASSUME NEW t \in Scans, t # s
      PROVE  Control(t)' /\ Answers(t)' /\ Checked(t)'
  <2>1. scan'[t] = scan[t] /\ lib' = lib
    BY <1>1, <1>3 DEF IInv, TypeOK, FilesDone
  <2>2. KeepsFor(t)
    BY <1>3, RowTyped, ConstantsAssumption DEF IInv, TypeOK, KeepsFor, Times, Has,
       FilesDone
  <2>3. QED
    BY <1>2, <2>1, <2>2, <1>3, Beside DEF IInv, Checked
<1>4. Control(s)' /\ Checked(s)' /\ Answers(s)'
  BY <1>1, <1>2, ConstantsAssumption DEF IInv, TypeOK, Scan, Control, Checked, Answers,
     Covered, Spared, Pending, Probed, Has, Idle, Pruning, FilesDone
<1>5. QED
  BY <1>2, <1>3, <1>4 DEF IInv

(* The scan goes on with the root the library has.                         *)
LEMMA CheckLibraryKeeps ==
  ASSUME IInv, NEW s \in Scans, CheckLibrary(s)
  PROVE  IInv'
<1>1. /\ scan' = [scan EXCEPT ![s] = scan'[s]]
      /\ \/ scan'[s] = Idle
         \/ SameRoot(s) /\ scan'[s] = [scan[s] EXCEPT !.at = "touch"]
  BY DEF IInv, TypeOK, CheckLibrary
<1>2. TypeOK'
  <2>1. scan[s] \in Scan
    BY DEF IInv, TypeOK
  <2>2. scan'[s] \in Scan
    BY <1>1, <2>1, IdleTyped DEF IInv, TypeOK, Scan, Stages
  <2>3. QED
    BY <1>1, <2>2 DEF IInv, TypeOK, CheckLibrary
<1>3. ASSUME NEW t \in Scans, t # s
      PROVE  Control(t)' /\ Answers(t)' /\ Checked(t)'
  <2>1. scan'[t] = scan[t] /\ lib' = lib
    BY <1>1, <1>3 DEF IInv, TypeOK, CheckLibrary
  <2>2. KeepsFor(t)
    BY <1>3, RowTyped, ConstantsAssumption DEF IInv, TypeOK, KeepsFor, Times, Has,
       CheckLibrary
  <2>3. QED
    BY <1>2, <2>1, <2>2, <1>3, Beside DEF IInv, Checked
<1>4. Control(s)' /\ Checked(s)' /\ Answers(s)'
  <2>1. CASE scan'[s] = Idle
    BY <2>1 DEF Idle, Control, Checked, Answers, Pruning
  <2>2. CASE SameRoot(s) /\ scan'[s] = [scan[s] EXCEPT !.at = "touch"]
    <3>1. /\ scan[s] \in Scan /\ lib' = lib /\ rows' = rows /\ disk' = disk /\ missed' = missed
          /\ Control(s) /\ Answers(s) /\ scan[s].at = "check"
      BY DEF IInv, TypeOK, CheckLibrary
    <3>2. Control(s)' /\ Checked(s)'
      BY <2>2, <3>1 DEF Scan, Control, Checked, SameRoot
    <3>3. Answers(s)'
      BY <2>2, <3>1 DEF Scan, Answers, Covered, Spared, Pending, Has
    <3>4. QED
      BY <3>2, <3>3
  <2>3. QED
    BY <1>1, <2>1, <2>2
<1>5. QED
  BY <1>2, <1>3, <1>4 DEF IInv

(* The rows of pendingIDs get the stamp of the scan.                       *)
LEMMA TouchFilesBulkKeeps ==
  ASSUME IInv, NEW s \in Scans, TouchFilesBulk(s)
  PROVE  IInv'
<1>1. /\ scan' = [scan EXCEPT ![s] = scan'[s]]
      /\ scan'[s] = [scan[s] EXCEPT !.at = "outside"]
  BY DEF IInv, TypeOK, TouchFilesBulk
<1>2. TypeOK'
  <2>1. scan[s] \in Scan
    BY DEF IInv, TypeOK
  <2>2. scan'[s] \in Scan
    BY <1>1, <2>1 DEF IInv, TypeOK, Scan, Stages
  <2>3. QED
    BY <1>1, <2>1, <2>2, Touched DEF IInv, TypeOK, Scan, TouchFilesBulk
<1>3. ASSUME NEW t \in Scans, t # s
      PROVE  Control(t)' /\ Answers(t)' /\ Checked(t)'
  <2>1. scan'[t] = scan[t] /\ lib' = lib
    BY <1>1, <1>3 DEF IInv, TypeOK, TouchFilesBulk
  <2>2. KeepsFor(t)
    BY <1>3, Touched DEF IInv, TypeOK, Scan, KeepsFor, TouchFilesBulk
  <2>3. QED
    BY <1>2, <2>1, <2>2, <1>3, Beside DEF IInv, Checked
<1>4. Control(s)' /\ Checked(s)' /\ Answers(s)'
  <2>1. /\ scan[s] \in Scan /\ lib' = lib /\ disk' = disk /\ missed' = missed
        /\ Control(s) /\ Answers(s) /\ Checked(s) /\ scan[s].at = "touch"
        /\ Touch(scan[s].pending, scan[s].start)
    BY DEF IInv, TypeOK, TouchFilesBulk
  <2>2. Control(s)' /\ Checked(s)'
    BY <1>1, <2>1 DEF Scan, Control, Checked, Pruning
  <2>3. ASSUME NEW p \in Paths, Covered(s, p)
        PROVE  Covered(s, p)'
    <3>1. /\ scan[s].start \in Times /\ scan[s].start \in Int
          /\ rows[p].stamp \in Int /\ rows'[p].stamp \in Int
      BY <1>2, <2>1, ConstantsAssumption DEF IInv, TypeOK, Scan, Times, NoRow
    <3>2. Has(p) => Has(p)' /\ rows'[p].stamp >= rows[p].stamp
                  /\ (Pending(s, p) => rows'[p].stamp >= scan[s].start)
      BY <2>1, <3>1, Touched DEF IInv, Pending
    <3>3. scan'[s].start = scan[s].start /\ scan'[s].err = scan[s].err
      BY <1>1, <2>1 DEF Scan
    <3>4. Spared(s, p) \/ Pending(s, p) => Spared(s, p)'
      BY <3>1, <3>2, <3>3 DEF Spared, Pending
    <3>5. QED
      BY <2>1, <2>3, <3>3, <3>4 DEF Covered
  <2>4. Answers(s)'
    BY <1>1, <2>1, <2>3 DEF Scan, Answers
  <2>5. QED
    BY <2>2, <2>4
<1>5. QED
  BY <1>2, <1>3, <1>4 DEF IInv

(* The rows that go do not lie under the root, and other scans have missed *)
(* them now.                                                               *)
LEMMA PruneFilesOutsideKeeps ==
  ASSUME IInv, NEW s \in Scans, PruneFilesOutside(s)
  PROVE  IInv'
<1>1. /\ scan' = [scan EXCEPT ![s] = scan'[s]]
      /\ scan'[s] = [scan[s] EXCEPT !.at = "guard"]
  BY DEF IInv, TypeOK, PruneFilesOutside
<1>2. TypeOK'
  <2>1. scan[s] \in Scan
    BY DEF IInv, TypeOK
  <2>2. scan'[s] \in Scan
    BY <1>1, <2>1 DEF IInv, TypeOK, Scan, Stages
  <2>3. QED
    BY <1>1, <2>2, Deleted DEF IInv, TypeOK, PruneFilesOutside, Outside, Stored
<1>3. ASSUME NEW t \in Scans, t # s
      PROVE  Control(t)' /\ Answers(t)' /\ Checked(t)'
  <2>1. scan'[t] = scan[t] /\ lib' = lib
    BY <1>1, <1>3 DEF IInv, TypeOK, PruneFilesOutside
  <2>2. KeepsFor(t)
    BY <1>3, Deleted, RowTyped, ConstantsAssumption DEF IInv, TypeOK, KeepsFor, Times,
       PruneFilesOutside, Outside, Stored
  <2>3. QED
    BY <1>2, <2>1, <2>2, <1>3, Beside DEF IInv, Checked
<1>4. Control(s)' /\ Checked(s)' /\ Answers(s)'
  BY <1>1, <1>2, ConstantsAssumption, Deleted DEF IInv, TypeOK, Scan, Control, Checked,
     Answers, Covered, Spared, Pending, Probed, Has, Pruning, PruneFilesOutside,
     Outside, Stored
<1>5. QED
  BY <1>2, <1>3, <1>4 DEF IInv

(* The scan goes on only without walkErrSeen.                              *)
LEMMA GuardKeeps ==
  ASSUME IInv, NEW s \in Scans, Guard(s)
  PROVE  IInv'
<1>1. /\ scan' = [scan EXCEPT ![s] = scan'[s]]
      /\ \/ scan'[s] = Idle
         \/ ~scan[s].err /\ scan'[s] = [scan[s] EXCEPT !.at = "count", !.total = Cardinality(Stored)]
  BY DEF IInv, TypeOK, Guard
<1>2. TypeOK'
  <2>1. scan[s] \in Scan
    BY DEF IInv, TypeOK
  <2>2. scan'[s] \in Scan
    BY <1>1, <2>1, IdleTyped, CountTyped DEF IInv, TypeOK, Scan, Stages
  <2>3. QED
    BY <1>1, <2>2 DEF IInv, TypeOK, Guard
<1>3. ASSUME NEW t \in Scans, t # s
      PROVE  Control(t)' /\ Answers(t)' /\ Checked(t)'
  <2>1. scan'[t] = scan[t] /\ lib' = lib
    BY <1>1, <1>3 DEF IInv, TypeOK, Guard
  <2>2. KeepsFor(t)
    BY <1>3, RowTyped, ConstantsAssumption DEF IInv, TypeOK, KeepsFor, Times, Has, Guard
  <2>3. QED
    BY <1>2, <2>1, <2>2, <1>3, Beside DEF IInv, Checked
<1>4. Control(s)' /\ Checked(s)' /\ Answers(s)'
  <2>1. CASE scan'[s] = Idle
    BY <2>1 DEF Idle, Control, Checked, Answers, Pruning
  <2>2. CASE ~scan[s].err /\ scan'[s] = [scan[s] EXCEPT !.at = "count", !.total = Cardinality(Stored)]
    <3>1. /\ scan[s] \in Scan /\ lib' = lib /\ rows' = rows /\ disk' = disk /\ missed' = missed
          /\ Control(s) /\ Answers(s) /\ Checked(s) /\ scan[s].at = "guard"
      BY DEF IInv, TypeOK, Guard
    <3>2. Control(s)' /\ Checked(s)'
      BY <2>2, <3>1 DEF Scan, Control, Checked, Pruning
    <3>3. Answers(s)'
      BY <2>2, <3>1 DEF Scan, Answers, Covered, Spared, Has
    <3>4. QED
      BY <3>2, <3>3
  <2>3. QED
    BY <1>1, <2>1, <2>2
<1>5. QED
  BY <1>2, <1>3, <1>4 DEF IInv

(* Counting changes nothing but the next statement.                        *)
LEMMA CountStaleKeeps ==
  ASSUME IInv, NEW s \in Scans, CountStale(s)
  PROVE  IInv'
<1>1. /\ scan' = [scan EXCEPT ![s] = scan'[s]]
      /\ \/ scan'[s] = Idle
         \/ scan'[s] = [scan[s] EXCEPT !.at = "prune"]
  BY DEF IInv, TypeOK, CountStale
<1>2. TypeOK'
  <2>1. scan[s] \in Scan
    BY DEF IInv, TypeOK
  <2>2. scan'[s] \in Scan
    BY <1>1, <2>1, IdleTyped DEF IInv, TypeOK, Scan, Stages
  <2>3. QED
    BY <1>1, <2>2 DEF IInv, TypeOK, CountStale
<1>3. ASSUME NEW t \in Scans, t # s
      PROVE  Control(t)' /\ Answers(t)' /\ Checked(t)'
  <2>1. scan'[t] = scan[t] /\ lib' = lib
    BY <1>1, <1>3 DEF IInv, TypeOK, CountStale
  <2>2. KeepsFor(t)
    BY <1>3, RowTyped, ConstantsAssumption DEF IInv, TypeOK, KeepsFor, Times, Has,
       CountStale
  <2>3. QED
    BY <1>2, <2>1, <2>2, <1>3, Beside DEF IInv, Checked
<1>4. Control(s)' /\ Checked(s)' /\ Answers(s)'
  <2>1. CASE scan'[s] = Idle
    BY <2>1 DEF Idle, Control, Checked, Answers, Pruning
  <2>2. CASE scan'[s] = [scan[s] EXCEPT !.at = "prune"]
    <3>1. /\ scan[s] \in Scan /\ lib' = lib /\ rows' = rows /\ disk' = disk /\ missed' = missed
          /\ Control(s) /\ Answers(s) /\ Checked(s) /\ scan[s].at = "count"
      BY DEF IInv, TypeOK, CountStale
    <3>2. Control(s)' /\ Checked(s)'
      BY <2>2, <3>1 DEF Scan, Control, Checked, Pruning
    <3>3. Answers(s)'
      BY <2>2, <3>1 DEF Scan, Answers, Covered, Spared, Has
    <3>4. QED
      BY <3>2, <3>3
  <2>3. QED
    BY <1>1, <2>1, <2>2
<1>5. QED
  BY <1>2, <1>3, <1>4 DEF IInv

(* The scan is over, and other scans have missed the rows that went.       *)
LEMMA PruneFilesKeeps ==
  ASSUME IInv, NEW s \in Scans, PruneFiles(s)
  PROVE  IInv'
<1>1. /\ scan' = [scan EXCEPT ![s] = scan'[s]]
      /\ scan'[s] = Idle
  BY DEF IInv, TypeOK, PruneFiles
<1>2. TypeOK'
  <2>1. scan[s] \in Scan
    BY DEF IInv, TypeOK
  <2>2. scan'[s] \in Scan
    BY <1>1, <2>1, IdleTyped DEF IInv, TypeOK, Scan, Stages
  <2>3. QED
    BY <1>1, <2>2, Deleted DEF IInv, TypeOK, PruneFiles, Stale, Stored
<1>3. ASSUME NEW t \in Scans, t # s
      PROVE  Control(t)' /\ Answers(t)' /\ Checked(t)'
  <2>1. scan'[t] = scan[t] /\ lib' = lib
    BY <1>1, <1>3 DEF IInv, TypeOK, PruneFiles
  <2>2. KeepsFor(t)
    BY <1>3, Deleted, RowTyped, ConstantsAssumption DEF IInv, TypeOK, KeepsFor, Times,
       PruneFiles, Stale, Stored
  <2>3. QED
    BY <1>2, <2>1, <2>2, <1>3, Beside DEF IInv, Checked
<1>4. Control(s)' /\ Checked(s)' /\ Answers(s)'
  BY <1>1 DEF Idle, Control, Checked, Answers, Pruning
<1>5. QED
  BY <1>2, <1>3, <1>4 DEF IInv

(* The scan is over.                                                       *)
LEMMA GiveUpKeeps ==
  ASSUME IInv, NEW s \in Scans, GiveUp(s)
  PROVE  IInv'
<1>1. /\ scan' = [scan EXCEPT ![s] = scan'[s]]
      /\ scan'[s] = Idle
  BY DEF IInv, TypeOK, GiveUp
<1>2. TypeOK'
  <2>1. scan[s] \in Scan
    BY DEF IInv, TypeOK
  <2>2. scan'[s] \in Scan
    BY <1>1, <2>1, IdleTyped DEF IInv, TypeOK, Scan, Stages
  <2>3. QED
    BY <1>1, <2>2 DEF IInv, TypeOK, GiveUp
<1>3. ASSUME NEW t \in Scans, t # s
      PROVE  Control(t)' /\ Answers(t)' /\ Checked(t)'
  <2>1. scan'[t] = scan[t] /\ lib' = lib
    BY <1>1, <1>3 DEF IInv, TypeOK, GiveUp
  <2>2. KeepsFor(t)
    BY <1>3, RowTyped, ConstantsAssumption DEF IInv, TypeOK, KeepsFor, Times, Has, GiveUp
  <2>3. QED
    BY <1>2, <2>1, <2>2, <1>3, Beside DEF IInv, Checked
<1>4. Control(s)' /\ Checked(s)' /\ Answers(s)'
  BY <1>1 DEF Idle, Control, Checked, Answers, Pruning
<1>5. QED
  BY <1>2, <1>3, <1>4 DEF IInv

(* What changes the files, the clock or the library keeps IInv.            *)
LEMMA OutsideKeeps ==
  ASSUME IInv, Tick \/ Appear \/ Vanish \/ UpdateLibrary \/ DeleteLibrary \/ AddLibrary
  PROVE  IInv'
<1>1. TypeOK'
  <2>1. CASE Tick \/ Appear \/ Vanish \/ AddLibrary
    BY <2>1, ConstantsAssumption DEF IInv, TypeOK, Tick, Appear, Vanish, AddLibrary,
       Change, Times
  <2>2. CASE UpdateLibrary \/ DeleteLibrary
    <3>1. Stored \subseteq Paths /\ Delete(Stored)
      BY <2>2 DEF Stored, UpdateLibrary, DeleteLibrary
    <3>2. QED
      BY <2>2, <3>1, Deleted, ConstantsAssumption
         DEF IInv, TypeOK, UpdateLibrary, DeleteLibrary, Change
  <2>3. QED
    BY <2>1, <2>2
<1>2. ASSUME NEW t \in Scans
      PROVE  Control(t)' /\ Answers(t)' /\ Checked(t)'
  <2>1. scan'[t] = scan[t]
    BY DEF Tick, Appear, Vanish, UpdateLibrary, DeleteLibrary, AddLibrary
  <2>2. KeepsFor(t)
    <3>1. \A p \in Paths : rows[p].stamp >= rows[p].stamp
      BY RowTyped, ConstantsAssumption DEF IInv, Times
    <3>2. CASE Tick \/ Appear \/ AddLibrary
      BY <3>1, <3>2 DEF IInv, TypeOK, KeepsFor, Has, Tick, Appear, AddLibrary
    <3>3. CASE Vanish
      BY <3>1, <3>3 DEF IInv, TypeOK, KeepsFor, Has, Vanish
    <3>4. CASE UpdateLibrary \/ DeleteLibrary
      <4>1. Stored \subseteq Paths /\ Delete(Stored) /\ disk' = disk
        BY <3>4 DEF Stored, UpdateLibrary, DeleteLibrary
      <4>2. QED
        BY <3>1, <4>1, Deleted DEF IInv, KeepsFor
    <3>5. QED
      BY <3>2, <3>3, <3>4
  <2>3. Checked(t)'
    BY <2>1 DEF IInv, Checked, MayChange, Tick, Appear, Vanish, UpdateLibrary,
       DeleteLibrary,
                AddLibrary
  <2>4. QED
    BY <1>1, <2>1, <2>2, <2>3, Beside DEF IInv
<1>3. QED
  BY <1>1, <1>2 DEF IInv

(* Init establishes IInv.                                                  *)
LEMMA InitIInv == Init => IInv
<1>1. SUFFICES ASSUME Init PROVE IInv
  OBVIOUS
<1>2. TypeOK
  <2>1. /\ rows \in [Paths -> [id : Ids, stamp : Times] \cup {NoRow}]
        /\ scan \in [Scans -> Scan] /\ missed \in [Scans -> SUBSET Paths]
    BY <1>1, IdleTyped DEF Init
  <2>2. QED
    BY <1>1, <2>1, ConstantsAssumption DEF Init, TypeOK, Times
<1>3. ASSUME NEW s \in Scans PROVE Control(s) /\ Answers(s) /\ Checked(s)
  <2>1. scan[s].at = "idle" /\ scan[s].one = FALSE
    BY <1>1 DEF Init, Idle
  <2>2. QED
    BY <2>1 DEF Control, Answers, Checked, Pruning
<1>4. QED
  BY <1>2, <1>3 DEF IInv

(* Every step keeps IInv.                                                  *)
LEMMA NextIInv == IInv /\ [Next]_vars => IInv'
<1>1. SUFFICES ASSUME IInv, [Next]_vars PROVE IInv'
  OBVIOUS
<1>2. CASE UNCHANGED vars
  <2>1. TypeOK'
    BY <1>1, <1>2 DEF IInv, TypeOK, vars
  <2>2. ASSUME NEW s \in Scans PROVE Control(s)' /\ Answers(s)' /\ Checked(s)'
    <3>1. Control(s)' /\ Checked(s)'
      BY <1>1, <1>2 DEF IInv, Control, Checked, vars
    <3>2. \A p \in Paths : Covered(s, p) => Covered(s, p)'
      BY <1>2 DEF Covered, Spared, Pending, Probed, Has, vars
    <3>3. Answers(s)'
      BY <1>1, <1>2, <3>2 DEF IInv, Answers, vars
    <3>4. QED
      BY <3>1, <3>3
  <2>3. QED
    BY <2>1, <2>2 DEF IInv
<1>3. ASSUME NEW s \in Scans, LoadLibrary(s) \/ StartRefresh(s) \/ Step(s) \/ GiveUp(s)
      PROVE  IInv'
  BY <1>1, <1>3, LoadLibraryKeeps, StartRefreshKeeps, GiveUpKeeps, StartScanKeeps,
     WalkEntryKeeps, WalkDoneKeeps, LookupRowKeeps, LookupFailsKeeps, StoreProbeKeeps,
     ProbeFailsKeeps, FilesDoneKeeps, CheckLibraryKeeps, TouchFilesBulkKeeps,
     PruneFilesOutsideKeeps, GuardKeeps, CountStaleKeeps, PruneFilesKeeps DEF Step
<1>4. QED
  BY <1>1, <1>2, <1>3, OutsideKeeps DEF Next

(* IInv is an invariant.                                                   *)
THEOREM Inductive == Spec => []IInv
  BY InitIInv, NextIInv, PTL DEF Spec

(* The variables keep their types: the ids in pendingIDs are ids of rows,  *)
(* and a scan that comes to a probe has a file to probe.                   *)
THEOREM TypeCorrect == Spec => []TypeOK
<1>1. IInv => TypeOK
  BY DEF IInv
<1>2. QED
  BY <1>1, Inductive, PTL

(* A scan that prunes spares the files it can answer for: at the prune     *)
(* nothing is left of Covered but the stamp (PruneFiles).                  *)
THEOREM PruneSpares == Spec => PrunesOnlyMissing
<1>1. ASSUME IInv, NEW s \in Scans, Prunes(s)
      PROVE  {p \in Removed : Root[p] = scan[s].root} \subseteq missed[s]
  <2>1. SUFFICES ASSUME NEW p \in Paths, Has(p), rows'[p] = NoRow, Root[p] = scan[s].root,
                        p \notin missed[s]
                 PROVE  FALSE
    BY DEF Removed, Stored
  <2>2. scan[s].at = "prune" /\ Answers(s) /\ Control(s)
    BY <1>1 DEF IInv, Prunes
  <2>3. rows[p].stamp >= scan[s].start
    BY <2>1, <2>2 DEF Answers, Control, Covered, Spared
  <2>4. rows[p].stamp < scan[s].start
    BY <1>1, <2>1 DEF Prunes, PruneFiles, Delete, Stale, Stored, Has
  <2>5. rows[p].stamp \in Int /\ scan[s].start \in Int
    BY <1>1, RowTyped, ConstantsAssumption DEF IInv, TypeOK, Scan, Times
  <2>6. QED
    BY <2>3, <2>4, <2>5
<1>2. IInv => [\A s \in Scans : Prunes(s) =>
                 {p \in Removed : Root[p] = scan[s].root} \subseteq missed[s]]_vars
  BY <1>1
<1>3. QED
  BY <1>2, Inductive, PTL DEF PrunesOnlyMissing

(* Of the root the library has now no statement of a scan deletes another  *)
(* row either, when the library does not change in between (GetLibrary,    *)
(* PruneFilesOutside, PruneFiles).                                         *)
THEOREM CurrentRootKept == ~Window /\ Spec => KeepsCurrentRoot
<1>1. ASSUME ~Window, IInv, [Next]_vars
      PROVE  [\A s \in Scans : scan[s].at \in Pruning /\ scan'[s] # scan[s] =>
                {p \in Removed : Root[p] = lib} \subseteq missed[s]]_vars
  <2>1. SUFFICES ASSUME NEW s \in Scans, scan[s].at \in Pruning, scan'[s] # scan[s],
                        NEW p \in Paths, Has(p), rows'[p] = NoRow, Root[p] = lib,
                        p \notin missed[s]
                 PROVE  FALSE
    BY DEF Removed, Stored
  <2>2. lib = scan[s].root
    BY <1>1, <2>1 DEF IInv, Checked
  <2>3. TypeOK /\ rows' # rows
    BY <1>1, <2>1 DEF IInv, Has
  <2>4. Step(s) \/ GiveUp(s)
    <3>1. ASSUME NEW t \in Scans, LoadLibrary(t) \/ StartRefresh(t) \/ Step(t) \/ GiveUp(t)
          PROVE  t = s
      BY <2>1, <2>3, <3>1 DEF TypeOK, LoadLibrary, StartRefresh, Step, GiveUp, StartScan,
         WalkEntry, WalkDone, LookupRow, LookupFails, StoreProbe, ProbeFails, FilesDone,
         CheckLibrary, TouchFilesBulk, PruneFilesOutside, Guard, CountStale, PruneFiles
    <3>2. scan' # scan /\ rows' # rows
      BY <2>1, <2>3
    <3>3. QED
      BY <1>1, <3>1, <3>2 DEF Next, vars, LoadLibrary, StartRefresh, Tick, Appear, Vanish,
         UpdateLibrary, DeleteLibrary, AddLibrary
  <2>5. CASE PruneFilesOutside(s)
    BY <2>1, <2>2, <2>5 DEF PruneFilesOutside, Delete, Outside, Has
  <2>6. CASE PruneFiles(s)
    <3>1. Answers(s) /\ Control(s) /\ scan[s].at = "prune"
      BY <1>1, <2>6 DEF IInv, PruneFiles
    <3>2. rows[p].stamp >= scan[s].start
      BY <2>1, <2>2, <3>1 DEF Answers, Control, Covered, Spared
    <3>3. rows[p].stamp < scan[s].start
      BY <2>1, <2>6 DEF PruneFiles, Delete, Stale, Stored, Has
    <3>4. rows[p].stamp \in Int /\ scan[s].start \in Int
      BY <2>1, <2>3, RowTyped, ConstantsAssumption DEF TypeOK, Scan, Times
    <3>5. QED
      BY <3>2, <3>3, <3>4
  <2>7. CASE TouchFilesBulk(s)
    <3>1. scan[s].start \in Times
      BY <2>3 DEF TypeOK, Scan
    <3>2. QED
      BY <2>1, <2>3, <2>7, <3>1, Touched DEF TouchFilesBulk, Has
  <2>8. QED
    BY <2>1, <2>3, <2>4, <2>5, <2>6, <2>7 DEF Step, GiveUp, Pruning, StartScan, WalkEntry,
       WalkDone, LookupRow, LookupFails, StoreProbe, ProbeFails, FilesDone, CheckLibrary,
       Guard, CountStale
<1>2. ~Window /\ IInv /\ [Next]_vars
        => [\A s \in Scans : scan[s].at \in Pruning /\ scan'[s] # scan[s] =>
              {p \in Removed : Root[p] = lib} \subseteq missed[s]]_vars
  BY <1>1
<1>3. ~Window => (~Window)'
  OBVIOUS
<1>4. QED
  BY <1>2, <1>3, Inductive, PTL DEF Spec, KeepsCurrentRoot
=============================================================================
