---------------------------- MODULE LibraryScan ----------------------------
(***************************************************************************)
(* Scans of a library and the rows of media_files they keep                *)
(* (internal/scan/scanner.go, internal/store/store.go): walk the root,     *)
(* probe what is new or changed, stamp what was seen with the start of the *)
(* scan and, unless something looks wrong, prune what has an older stamp.  *)
(* Several workers may scan at once, a job may rescan its file, files come *)
(* and go, and the library may be given another root or be deleted.        *)
(*                                                                         *)
(* Each statement is a step, and so is the look at one entry of the walk.  *)
(* Whether a stored probe still fits its file is the matter of FileJobs:   *)
(* here a file that has a row may look changed or unchanged at any time.   *)
(* Videos are taken in any order.                                          *)
(***************************************************************************)
EXTENDS Integers, FiniteSets

CONSTANTS
  Paths,       \* the paths at which videos come and go
  Roots,       \* the roots the library may have
  Root,        \* Root[p]: the root that path p lies under
  NoRoot,      \* there is no such library
  Scans,       \* the workers that may be scanning
  NoPath,      \* no file is being probed
  MinStale,    \* so many stale rows are pruned whatever their share
  MaxPercent,  \* pruneMaxRatio
  Window,      \* whether the library may change between the check of a scan and its end
  MaxId,       \* bound: ids of media_files
  MaxTime,     \* bound: the clock, in seconds
  MaxChanges   \* bound: changes of files, of the root and deletions of the library

ASSUME ConstantsAssumption ==
  /\ IsFiniteSet(Paths)
  /\ Root \in [Paths -> Roots]
  /\ NoRoot \notin Roots
  /\ NoPath \notin Paths
  /\ MinStale \in Nat /\ MaxPercent \in 1..100
  /\ Window \in BOOLEAN
  /\ MaxId \in Nat
  /\ MaxTime \in Nat /\ MaxChanges \in Nat

VARIABLES
  disk,    \* the paths at which there is a video
  lib,     \* libraries.path of the library
  rows,    \* its rows of media_files: id and scanned_at for each path
  now,     \* the clock
  scan,    \* the local variables of each scan, see Scan
  missed,  \* history: what each scan may have missed, see PrunesOnlyMissing
  changes  \* how many of those changes there were

vars == <<disk, lib, rows, now, scan, missed, changes>>

Times  == 0..MaxTime
Ids    == 1..MaxId
NoRow  == [id |-> 0, stamp |-> 0]
Stages == {"idle", "load", "walk", "files", "probe", "check", "touch", "outside",
           "guard", "count", "prune"}

(* A scan: where it is; whether it is the rescan of one file (ScanFile);   *)
(* lib.Path as it was loaded; start; the entries the walk has not come to; *)
(* videos, and those scanOne has not been called for; the file whose probe *)
(* runs and the id its row had before, 0 for none; pendingIDs; walkErrSeen *)
(* and the count of rows the ratio is taken of.                            *)
Scan == [at : Stages, one : BOOLEAN, root : Roots \cup {NoRoot}, start : Times,
         todo : SUBSET Paths, videos : SUBSET Paths, left : SUBSET Paths,
         cur : Paths \cup {NoPath}, id : Ids \cup {0}, pending : SUBSET Ids,
         err : BOOLEAN, total : 0..Cardinality(Paths)]

Idle == [at |-> "idle", one |-> FALSE, root |-> NoRoot, start |-> 0,
         todo |-> {}, videos |-> {}, left |-> {}, cur |-> NoPath, id |-> 0,
         pending |-> {}, err |-> FALSE, total |-> 0]

TypeOK ==
  /\ disk \subseteq Paths
  /\ lib \in Roots \cup {NoRoot}
  /\ rows \in [Paths -> [id : Ids, stamp : Times] \cup {NoRow}]
  /\ now \in Times
  /\ scan \in [Scans -> Scan]
  /\ missed \in [Scans -> SUBSET Paths]
  /\ changes \in 0..MaxChanges

Init ==
  /\ disk \in SUBSET Paths
  /\ lib \in Roots
  /\ rows = [p \in Paths |-> NoRow]
  /\ now = 0
  /\ scan = [s \in Scans |-> Idle]
  /\ missed = [s \in Scans |-> {}]
  /\ changes = 0

-----------------------------------------------------------------------------
(* The statements on media_files.                                          *)

Has(p) == rows[p] # NoRow
Stored == {p \in Paths : Has(p)}
Stale(start) == {p \in Stored : rows[p].stamp < start}

\* Mutant: scanned_at is overwritten.
LastStamp(old, start) == start

\* scanned_at=max(scanned_at, ?)
Stamp(old, start) == IF start > old THEN start ELSE old

(* A new row gets the largest id of the table plus one, and other libraries *)
(* have rows there too. When MaxId is taken any free id stands for it.     *)
IsNewId(id) == /\ \A p \in Paths : rows[p].id # id
               /\ \/ \A p \in Paths : rows[p].id < id
                  \/ \E p \in Paths : rows[p].id = MaxId

UpsertMediaFile(p, start) ==
  \/ /\ Has(p)
     /\ rows' = [rows EXCEPT ![p].stamp = Stamp(@, start)]
  \/ /\ ~Has(p)
     /\ \E id \in Ids : IsNewId(id) /\ rows' = [rows EXCEPT ![p] = [id |-> id, stamp |-> start]]

(* TouchFile and TouchFilesBulk.                                           *)
Touch(ids, start) ==
  rows' = [p \in Paths |-> IF Has(p) /\ rows[p].id \in ids
                           THEN [rows[p] EXCEPT !.stamp = Stamp(@, start)]
                           ELSE rows[p]]

(* No scan can answer for a row that was deleted behind its back.          *)
Delete(gone) ==
  /\ rows' = [p \in Paths |-> IF p \in gone THEN NoRow ELSE rows[p]]
  /\ missed' = [s \in Scans |-> missed[s] \cup gone]

-----------------------------------------------------------------------------
(* A scan: scan_library, scan_all and the rescan of one file.              *)

(* execute reads the library; scan_all reads all of them long before it    *)
(* gets to the last.                                                       *)
LoadLibrary(s) ==
  /\ scan[s].at = "idle"
  /\ lib # NoRoot
  /\ scan' = [scan EXCEPT ![s].at = "load", ![s].root = lib]
  /\ UNCHANGED <<disk, lib, rows, now, missed, changes>>

StartScan(s) ==
  /\ scan[s].at = "load"
  /\ scan' = [scan EXCEPT ![s].at = "walk", ![s].start = now,
                          ![s].todo = {p \in Paths : Root[p] = scan[s].root}]
  /\ missed' = [missed EXCEPT ![s] = Paths \ disk]
  /\ UNCHANGED <<disk, lib, rows, now, changes>>

(* refreshFile and ScanFile: a file that has a row, stamped with the time  *)
(* of the rescan; the library row is the one of that moment.               *)
StartRefresh(s) ==
  /\ scan[s].at = "idle"
  /\ \E p \in Stored \cap disk :
       scan' = [scan EXCEPT ![s] = [Idle EXCEPT !.at = "files", !.one = TRUE,
                                    !.root = lib, !.start = now, !.left = {p}]]
  /\ UNCHANGED <<disk, lib, rows, now, missed, changes>>

(* The walk comes to an entry: a video, nothing, or what it cannot read.   *)
WalkEntry(s) ==
  /\ scan[s].at = "walk"
  /\ \E p \in scan[s].todo :
       \/ /\ p \in disk
          /\ scan' = [scan EXCEPT ![s].todo = @ \ {p}, ![s].videos = @ \cup {p}]
       \/ /\ p \notin disk
          /\ scan' = [scan EXCEPT ![s].todo = @ \ {p}]
       \/ scan' = [scan EXCEPT ![s].todo = @ \ {p}, ![s].err = TRUE]
  /\ UNCHANGED <<disk, lib, rows, now, missed, changes>>

WalkDone(s) ==
  /\ scan[s].at = "walk"
  /\ scan[s].todo = {}
  /\ scan' = [scan EXCEPT ![s].at = "files", ![s].left = scan[s].videos]
  /\ UNCHANGED <<disk, lib, rows, now, missed, changes>>

(* scanOne up to the probe: the row is looked up; a file that looks as it  *)
(* did is left for TouchFilesBulk or, with other links or sidecars,        *)
(* touched at once (and again, when its sidecars could not be stored).     *)
LookupRow(s) ==
  /\ scan[s].at = "files"
  /\ \E p \in scan[s].left :
       \/ /\ Has(p)
          /\ scan' = [scan EXCEPT ![s].left = @ \ {p},
                                  ![s].pending = @ \cup {rows[p].id}]
          /\ UNCHANGED rows
       \/ /\ Has(p)
          /\ \E again \in {{}, {rows[p].id}} :
               scan' = [scan EXCEPT ![s].left = @ \ {p},
                                    ![s].pending = @ \cup again]
          /\ Touch({rows[p].id}, scan[s].start)
       \/ /\ scan' = [scan EXCEPT ![s].at = "probe", ![s].left = @ \ {p},
                                  ![s].cur = p, ![s].id = rows[p].id]
          /\ UNCHANGED rows
  /\ UNCHANGED <<disk, lib, now, missed, changes>>

LookupFails(s) ==
  /\ scan[s].at = "files"
  /\ \E p \in scan[s].left :
       scan' = [scan EXCEPT ![s].left = @ \ {p}, ![s].err = TRUE]
  /\ UNCHANGED <<disk, lib, rows, now, missed, changes>>

(* The file was probed; without the library the foreign key forbids a row. *)
StoreProbe(s) ==
  /\ scan[s].at = "probe"
  /\ lib # NoRoot
  /\ UpsertMediaFile(scan[s].cur, scan[s].start)
  /\ \E again \in {{}, {rows'[scan[s].cur].id}} :
       scan' = [scan EXCEPT ![s].at = "files", ![s].cur = NoPath, ![s].id = 0,
                            ![s].pending = @ \cup again]
  /\ UNCHANGED <<disk, lib, now, missed, changes>>

\* Mutant: whether there was a row is not looked at.
WithoutCheck(id) == {id}

KeptAlive(id) == {id} \ {0}

(* The probe or a statement fails: a row that was there is kept alive, a   *)
(* file without one is passed over.                                        *)
ProbeFails(s) ==
  /\ scan[s].at = "probe"
  /\ scan' = [scan EXCEPT ![s].at = "files", ![s].cur = NoPath, ![s].id = 0,
                          ![s].pending = @ \cup KeptAlive(scan[s].id)]
  /\ missed' = IF scan[s].id = 0
               THEN [missed EXCEPT ![s] = @ \cup {scan[s].cur}] ELSE missed
  /\ UNCHANGED <<disk, lib, rows, now, changes>>

(* The rescan of one file ends here.                                       *)
FilesDone(s) ==
  /\ scan[s].at = "files"
  /\ scan[s].left = {}
  /\ scan' = IF scan[s].one THEN [scan EXCEPT ![s] = Idle]
             ELSE [scan EXCEPT ![s].at = "check"]
  /\ UNCHANGED <<disk, lib, rows, now, missed, changes>>

\* Mutant: the library is not looked up again.
AnyRoot(s) == TRUE

SameRoot(s) == lib = scan[s].root

CheckLibrary(s) ==
  /\ scan[s].at = "check"
  /\ scan' = IF SameRoot(s) THEN [scan EXCEPT ![s].at = "touch"]
             ELSE [scan EXCEPT ![s] = Idle]
  /\ UNCHANGED <<disk, lib, rows, now, missed, changes>>

TouchFilesBulk(s) ==
  /\ scan[s].at = "touch"
  /\ Touch(scan[s].pending, scan[s].start)
  /\ scan' = [scan EXCEPT ![s].at = "outside"]
  /\ UNCHANGED <<disk, lib, now, missed, changes>>

Outside(s) == {p \in Stored : Root[p] # scan[s].root}

PruneFilesOutside(s) ==
  /\ scan[s].at = "outside"
  /\ Delete(Outside(s))
  /\ scan' = [scan EXCEPT ![s].at = "guard"]
  /\ UNCHANGED <<disk, lib, now, changes>>

(* No video at all though there are rows, or an error on the way.          *)
Guard(s) ==
  /\ scan[s].at = "guard"
  /\ scan' = IF (scan[s].videos = {} /\ Stored # {}) \/ scan[s].err
             THEN [scan EXCEPT ![s] = Idle]
             ELSE [scan EXCEPT ![s].at = "count", ![s].total = Cardinality(Stored)]
  /\ UNCHANGED <<disk, lib, rows, now, missed, changes>>

TooMany(stale, total) == stale > MinStale /\ stale * 100 > total * MaxPercent

CountStale(s) ==
  /\ scan[s].at = "count"
  /\ scan' = IF TooMany(Cardinality(Stale(scan[s].start)), scan[s].total)
             THEN [scan EXCEPT ![s] = Idle]
             ELSE [scan EXCEPT ![s].at = "prune"]
  /\ UNCHANGED <<disk, lib, rows, now, missed, changes>>

PruneFiles(s) ==
  /\ scan[s].at = "prune"
  /\ Delete(Stale(scan[s].start))
  /\ scan' = [scan EXCEPT ![s] = Idle]
  /\ UNCHANGED <<disk, lib, now, changes>>

(* The root is not accessible, the context is done or a statement failed.  *)
GiveUp(s) ==
  /\ scan[s].at # "idle"
  /\ scan' = [scan EXCEPT ![s] = Idle]
  /\ UNCHANGED <<disk, lib, rows, now, missed, changes>>

-----------------------------------------------------------------------------
(* Files, the clock and the library.                                       *)

Tick == /\ now < MaxTime
        /\ now' = now + 1
        /\ UNCHANGED <<disk, lib, rows, scan, missed, changes>>

Change == changes < MaxChanges /\ changes' = changes + 1

Appear == /\ Change
          /\ \E p \in Paths \ disk : disk' = disk \cup {p}
          /\ UNCHANGED <<lib, rows, now, scan, missed>>

Vanish == /\ Change
          /\ \E p \in disk :
               /\ disk' = disk \ {p}
               /\ missed' = [s \in Scans |-> missed[s] \cup {p}]
          /\ UNCHANGED <<lib, rows, now, scan>>

(* Where the statements between GetLibrary and the end of a scan stand.    *)
Pruning == {"touch", "outside", "guard", "count", "prune"}

MayChange == Window \/ \A s \in Scans : scan[s].at \notin Pruning

(* handleUpdateLibrary: with another path the rows go in the same          *)
(* transaction.                                                            *)
UpdateLibrary == /\ Change /\ MayChange
                 /\ lib # NoRoot
                 /\ lib' \in Roots \ {lib}
                 /\ Delete(Stored)
                 /\ UNCHANGED <<disk, now, scan>>

(* The rows go with the library (ON DELETE CASCADE).                       *)
DeleteLibrary == /\ Change /\ MayChange
                 /\ lib # NoRoot
                 /\ lib' = NoRoot
                 /\ Delete(Stored)
                 /\ UNCHANGED <<disk, now, scan>>

(* A library added later may get the id of one that was deleted.           *)
AddLibrary == /\ MayChange
              /\ lib = NoRoot
              /\ lib' \in Roots
              /\ UNCHANGED <<disk, rows, now, scan, missed, changes>>

-----------------------------------------------------------------------------

Step(s) == \/ StartScan(s) \/ WalkEntry(s) \/ WalkDone(s)
           \/ LookupRow(s) \/ LookupFails(s) \/ StoreProbe(s) \/ ProbeFails(s)
           \/ FilesDone(s) \/ CheckLibrary(s) \/ TouchFilesBulk(s)
           \/ PruneFilesOutside(s) \/ Guard(s) \/ CountStale(s) \/ PruneFiles(s)

Next == \/ \E s \in Scans : LoadLibrary(s) \/ StartRefresh(s) \/ Step(s) \/ GiveUp(s)
        \/ Tick \/ Appear \/ Vanish
        \/ UpdateLibrary \/ DeleteLibrary \/ AddLibrary

Spec == Init /\ [][Next]_vars

-----------------------------------------------------------------------------
(* Properties.                                                             *)

Removed == {p \in Stored : rows'[p] = NoRow}

Prunes(s) == scan[s].at = "prune" /\ PruneFiles(s)

(* A scan prunes no file of the root it walked that was there from its     *)
(* start to the prune; but it may when it failed on a file that had no     *)
(* row, or when the row was deleted meanwhile by another scan or with the  *)
(* library. Neither slower and faster scans beside it nor rescans after    *)
(* jobs take away the stamp that protects the row (max(scanned_at, ?),     *)
(* pendingIDs and walkErrSeen in ScanLibrary).                             *)
PrunesOnlyMissing ==
  [][\A s \in Scans : Prunes(s) =>
       {p \in Removed : Root[p] = scan[s].root} \subseteq missed[s]]_vars

(* With Window closed, no statement of a scan deletes a row of the root    *)
(* the library has now, but for those PrunesOnlyMissing allows, though the *)
(* scan may have walked another root (the GetLibrary before the prune, and *)
(* the prefix in PruneFilesOutside).                                       *)
KeepsCurrentRoot ==
  [][\A s \in Scans : scan[s].at \in Pruning /\ scan'[s] # scan[s] =>
       {p \in Removed : Root[p] = lib} \subseteq missed[s]]_vars

(* No scan deletes a row that another scan still at work has stored or     *)
(* looked at, of a file that is there.                                     *)
ScansDoNotCollide ==
  [][\A s \in Scans : Prunes(s) =>
       \A p \in Removed \cap disk, t \in Scans \ {s} : p \notin scan[t].videos]_vars
=============================================================================
