------------------------------ MODULE FileJobs ------------------------------
(***************************************************************************)
(* Jobs that rewrite one media file: from the row a client looked at, over *)
(* the fingerprint taken when the job is queued and the check of it under  *)
(* the per-file lock, to the remux that replaces the file or the edit that *)
(* changes it in place, and the rescan after it (internal/api/server.go,   *)
(* internal/jobs/runner.go, internal/engine/engine.go,                     *)
(* internal/scan/scanner.go).  All the while Sonarr or Radarr may replace  *)
(* or remove the file and library scans read it.                           *)
(*                                                                         *)
(* A file at the path is [layout, sig, stamp]: which streams it has at     *)
(* which index, its size and mtime in seconds, and its exact identity      *)
(* (inode, size, mtime in nanoseconds).  Every write gives a new stamp and *)
(* names what it renews after it.  A replacement is assumed to change the  *)
(* size or the second of the mtime; an edit in place need not.             *)
(*                                                                         *)
(* The code checks and acts in separate steps and so leaves three windows  *)
(* open.  Windows names those in which the environment is let act:         *)
(*   "submit"  between the check of the row the client saw and the INSERT  *)
(*             that copies the fingerprint from the row of that moment,    *)
(*   "start"   between the check of the fingerprint and the first look of  *)
(*             the engine at the file (for an edit: its whole run),        *)
(*   "swap"    between the last comparison with the file and the rename.   *)
(***************************************************************************)
EXTENDS Integers

CONSTANTS
  Jobs,        \* the jobs on this file
  Passes,      \* the library scans that come across it
  NoJob,       \* the per-file lock is free
  Windows,     \* the windows in which scans and other programs may act
  MaxWrites,   \* bound: writes of the file, the first one included
  MaxCrashes   \* bound: crashes of the process

ASSUME ConstantsAssumption ==
  /\ Windows \subseteq {"submit", "start", "swap"}
  /\ Jobs \cap Passes = {}
  /\ NoJob \notin Jobs
  /\ MaxWrites \in Nat \ {0}
  /\ MaxCrashes \in Nat

VARIABLES
  disk,     \* what is at the path
  writes,   \* how often the path was written
  row,      \* the row of media_files: the probe and the fingerprint
  pc,       \* where each job is
  kind,     \* remux (also reorder, merge) or edit
  sel,      \* the layout whose indexes the client selected
  expect,   \* expect_size and expect_mtime of the request
  print,    \* file_size and file_mtime of the job's row
  seen,     \* the stamp of the FileInfo the engine took before its work
  input,    \* the file the tool read
  tmp,      \* whether the job's temp file is there
  lock,     \* holder of the per-file lock
  scanPc,   \* where each scan of the file is; a job scans after its write
  scanSig,  \* the size and mtime it found
  scanned,  \* the layout it probed
  crashes

jobVars  == <<kind, sel, expect, print, seen, input, tmp>>
scanVars == <<scanPc, scanSig, scanned>>
fileVars == <<disk, writes>>
vars     == <<fileVars, row, pc, jobVars, lock, scanVars, crashes>>

Scans  == Jobs \cup Passes
Stamps == 0..MaxWrites
File   == [layout : Stamps, sig : Stamps, stamp : Stamps]
Gone   == [layout |-> 0, sig |-> 0, stamp |-> 0]
NoRow  == [layout |-> 0, sig |-> 0]

Fresh(n) == [layout |-> n, sig |-> n, stamp |-> n]

JobStates == {"new", "loaded", "checked", "queued", "print", "stat", "probe",
              "tool", "verify", "compare", "rename", "probeEdit", "statEdit",
              "edit", "refresh", "done", "failed"}
Locked    == {"print", "stat", "probe", "tool", "verify", "compare", "rename",
              "probeEdit", "statEdit", "edit", "refresh"}

\* Where a job stands in each window, and whether the window is closed now.
At(window) == CASE window = "submit" -> {"checked"}
                [] window = "start"  -> {"stat", "probeEdit", "statEdit", "edit"}
                [] window = "swap"   -> {"rename"}
Closed(window) == window \notin Windows /\ \E j \in Jobs : pc[j] \in At(window)

TypeOK ==
  /\ disk \in File
  /\ row \in [layout : 1..MaxWrites, sig : 1..MaxWrites] \cup {NoRow}
  /\ writes \in Stamps
  /\ pc \in [Jobs -> JobStates]
  /\ kind \in [Jobs -> {"remux", "edit"}]
  /\ sel \in [Jobs -> Stamps] /\ expect \in [Jobs -> Stamps]
  /\ print \in [Jobs -> Stamps] /\ seen \in [Jobs -> Stamps]
  /\ input \in [Jobs -> File]
  /\ tmp \in [Jobs -> BOOLEAN]
  /\ lock \in Jobs \cup {NoJob}
  /\ scanPc \in [Scans -> {"idle", "find", "stat", "probe", "store"}]
  /\ scanSig \in [Scans -> Stamps] /\ scanned \in [Scans -> Stamps]
  /\ crashes \in 0..MaxCrashes

Init ==
  /\ disk = Fresh(1) /\ writes = 1
  /\ row = NoRow
  /\ pc = [j \in Jobs |-> "new"]
  /\ kind \in [Jobs -> {"remux", "edit"}]
  /\ sel = [j \in Jobs |-> 0] /\ expect = [j \in Jobs |-> 0]
  /\ print = [j \in Jobs |-> 0] /\ seen = [j \in Jobs |-> 0]
  /\ input = [j \in Jobs |-> Gone]
  /\ tmp = [j \in Jobs |-> FALSE]
  /\ lock = NoJob
  /\ scanPc = [s \in Scans |-> "idle"]
  /\ scanSig = [s \in Scans |-> 0] /\ scanned = [s \in Scans |-> 0]
  /\ crashes = 0

Goto(j, l) == pc' = [pc EXCEPT ![j] = l]

-----------------------------------------------------------------------------
(* Submitting a job.                                                       *)

(* The client loads the file and selects tracks in what it sees.           *)
Load(j) ==
  /\ pc[j] = "new"
  /\ row # NoRow
  /\ sel' = [sel EXCEPT ![j] = row.layout]
  /\ expect' = [expect EXCEPT ![j] = row.sig]
  /\ Goto(j, "loaded")
  /\ UNCHANGED <<fileVars, row, kind, print, seen, input, tmp, lock, scanVars, crashes>>

(* handleFileJobs: loadDetail and changed; a stale request gets a 409 and  *)
(* the client starts again.                                                *)
CheckExpected(j) ==
  /\ pc[j] = "loaded"
  /\ Goto(j, IF row.sig = expect[j] THEN "checked" ELSE "new")
  /\ UNCHANGED <<fileVars, row, jobVars, lock, scanVars, crashes>>

(* CreateJob copies size and mtime out of the row as it is now.            *)
CreateJob(j) ==
  /\ pc[j] = "checked"
  /\ print' = [print EXCEPT ![j] = row.sig]
  /\ Goto(j, "queued")
  /\ UNCHANGED <<fileVars, row, kind, sel, expect, seen, input, tmp, lock,
                 scanVars, crashes>>

(* RetryJob: a job that failed, was skipped or cancelled is queued again   *)
(* with the payload and the fingerprint it had.                            *)
Retry(j) ==
  /\ pc[j] = "failed"
  /\ Goto(j, "queued")
  /\ UNCHANGED <<fileVars, row, jobVars, lock, scanVars, crashes>>

-----------------------------------------------------------------------------
(* Running it.                                                             *)

(* Every way out of execute and RemoveTracks runs the deferred unlock; the *)
(* deferred os.Remove finds the temp file unless it was renamed.  What the *)
(* engine held of the file goes with it.                                   *)
Leave(j, end) ==
  /\ Goto(j, end)
  /\ lock' = NoJob
  /\ seen' = [seen EXCEPT ![j] = 0] /\ input' = [input EXCEPT ![j] = Gone]
  /\ UNCHANGED <<kind, sel, expect, print>>

\* Mutant: a failed job leaves its output behind.
FailKeepingTemp(j) == Leave(j, "failed") /\ UNCHANGED tmp

\* Whatever the reason: a refusal, a tool that fails or is killed, no space.
Fail(j) == Leave(j, "failed") /\ tmp' = [tmp EXCEPT ![j] = FALSE]

\* Mutant: the lock of another spelling of the path is taken.
AnyLock(j) == pc[j] = "queued"

PathFree(j) == lock = NoJob

(* execute, once a worker has claimed the job: locks.Lock(FilePath).       *)
Begin(j) ==
  /\ pc[j] = "queued"
  /\ PathFree(j)
  /\ lock' = j
  /\ Goto(j, "print")
  /\ UNCHANGED <<fileVars, row, jobVars, scanVars, crashes>>

FirstLook(j) == IF kind[j] = "remux" THEN "stat" ELSE "probeEdit"

(* A job without a fingerprint would pass; CreateJob gives each one (only  *)
(* rows queued before the database had the columns lack it).               *)
StaleFingerprint(j) == disk = Gone \/ disk.sig # print[j]

CheckFingerprint(j) ==
  /\ pc[j] = "print"
  /\ IF StaleFingerprint(j) THEN Fail(j)
     ELSE Goto(j, FirstLook(j)) /\ UNCHANGED <<jobVars, lock>>
  /\ UNCHANGED <<fileVars, row, scanVars, crashes>>

(* statReplaceable: Lstat; a symlink or a hardlinked file is skipped.      *)
Stat(j) ==
  /\ pc[j] = "stat"
  /\ \/ /\ disk # Gone
        /\ seen' = [seen EXCEPT ![j] = disk.stamp]
        /\ Goto(j, "probe")
        /\ UNCHANGED <<kind, sel, expect, print, input, tmp, lock>>
     \/ Fail(j)
  /\ UNCHANGED <<fileVars, row, scanVars, crashes>>

(* Probe and validate; an index that is not of the right type in the file  *)
(* that is there is refused, so another layout may or may not pass.        *)
Probe(j) ==
  /\ pc[j] = "probe"
  /\ \/ disk # Gone /\ Goto(j, "tool") /\ UNCHANGED <<jobVars, lock>>
     \/ Fail(j)
  /\ UNCHANGED <<fileVars, row, scanVars, crashes>>

(* mkvmerge or ffmpeg reads the file at the path and writes the temp file. *)
RunTool(j) ==
  /\ pc[j] = "tool"
  /\ disk # Gone
  /\ input' = [input EXCEPT ![j] = disk]
  /\ tmp' = [tmp EXCEPT ![j] = TRUE]
  /\ Goto(j, "verify")
  /\ UNCHANGED <<fileVars, row, kind, sel, expect, print, seen, lock, scanVars, crashes>>

ToolFails(j) ==
  /\ pc[j] = "tool"
  /\ Fail(j)
  /\ UNCHANGED <<fileVars, row, scanVars, crashes>>

(* verify compares counts of streams, durations and sizes: any output may  *)
(* pass here, which ones do is the matter of Streams.                      *)
Verify(j) ==
  /\ pc[j] = "verify"
  /\ \/ Goto(j, "compare") /\ UNCHANGED <<jobVars, lock>>
     \/ Fail(j)
  /\ UNCHANGED <<fileVars, row, scanVars, crashes>>

\* Mutant: the file is not compared before it is replaced.
NotCompared(j) == TRUE

(* SameFile, Size and ModTime of replaceOriginal.                          *)
Untouched(j) == disk # Gone /\ disk.stamp = seen[j]

Compare(j) ==
  /\ pc[j] = "compare"
  /\ IF Untouched(j) THEN Goto(j, "rename") /\ UNCHANGED <<jobVars, lock>>
     ELSE Fail(j)
  /\ UNCHANGED <<fileVars, row, scanVars, crashes>>

Rename(j) ==
  /\ pc[j] = "rename"
  /\ writes < MaxWrites
  /\ writes' = writes + 1
  /\ disk' = Fresh(writes + 1)
  /\ tmp' = [tmp EXCEPT ![j] = FALSE]
  /\ Goto(j, "refresh")
  /\ scanPc' = [scanPc EXCEPT ![j] = "find"]
  /\ UNCHANGED <<row, kind, sel, expect, print, seen, input, lock, scanSig,
                 scanned, crashes>>

RenameFails(j) ==
  /\ pc[j] = "rename"
  /\ Fail(j)
  /\ UNCHANGED <<fileVars, row, scanVars, crashes>>

(* EditMetadata: probe, then the hardlink check, then mkvpropedit, which   *)
(* works on whatever is at the path and is not killed by a cancel.         *)
ProbeEdit(j) ==
  /\ pc[j] = "probeEdit"
  /\ \/ disk # Gone /\ Goto(j, "statEdit") /\ UNCHANGED <<jobVars, lock>>
     \/ Fail(j)
  /\ UNCHANGED <<fileVars, row, scanVars, crashes>>

StatEdit(j) ==
  /\ pc[j] = "statEdit"
  /\ \/ disk # Gone /\ Goto(j, "edit") /\ UNCHANGED <<jobVars, lock>>
     \/ Fail(j)
  /\ UNCHANGED <<fileVars, row, scanVars, crashes>>

EditInPlace(j) ==
  /\ pc[j] = "edit"
  /\ disk # Gone
  /\ writes < MaxWrites
  /\ writes' = writes + 1
  /\ \E sig \in {disk.sig, writes + 1} :
       disk' = [disk EXCEPT !.stamp = writes + 1, !.sig = sig]
  /\ Goto(j, "refresh")
  /\ scanPc' = [scanPc EXCEPT ![j] = "find"]
  /\ UNCHANGED <<row, jobVars, lock, scanSig, scanned, crashes>>

EditFails(j) ==
  /\ pc[j] = "edit"
  /\ Fail(j)
  /\ UNCHANGED <<fileVars, row, scanVars, crashes>>

(* refreshFile is over, whether it stored anything or not.                 *)
Finish(j) ==
  /\ pc[j] = "refresh"
  /\ scanPc[j] = "idle"
  /\ Leave(j, "done")
  /\ UNCHANGED <<fileVars, row, tmp, scanVars, crashes>>

-----------------------------------------------------------------------------
(* scanOne, for a library scan (a pass) or after a job (the job itself).   *)
(* What it found is gone when it ends.                                     *)

Idle(s) == /\ scanPc' = [scanPc EXCEPT ![s] = "idle"]
           /\ scanSig' = [scanSig EXCEPT ![s] = 0] /\ scanned' = [scanned EXCEPT ![s] = 0]

(* The walk, or ScanFile after a job, comes to the file and stats it.      *)
Find(s) ==
  /\ scanPc[s] = "find" \/ (s \in Passes /\ scanPc[s] = "idle")
  /\ IF disk = Gone
     THEN scanPc' = [scanPc EXCEPT ![s] = "idle"] /\ UNCHANGED scanSig
     ELSE /\ scanPc' = [scanPc EXCEPT ![s] = "stat"]
          /\ scanSig' = [scanSig EXCEPT ![s] = disk.sig]
  /\ UNCHANGED <<fileVars, row, pc, jobVars, lock, scanned, crashes>>

(* scanOne stats the file again; when it is gone what was found stands.    *)
LatestSig(s) == IF disk = Gone THEN scanSig[s] ELSE disk.sig

\* Mutant: any stored probe is good enough.
HasProbe(s) == row # NoRow

(* With the same size and mtime the stored probe is kept.                  *)
CacheHit(s) == row # NoRow /\ row.sig = LatestSig(s)

ScanStat(s) ==
  /\ scanPc[s] = "stat"
  /\ scanSig' = [scanSig EXCEPT ![s] = IF CacheHit(s) THEN 0 ELSE LatestSig(s)]
  /\ scanPc' = [scanPc EXCEPT ![s] = IF CacheHit(s) THEN "idle" ELSE "probe"]
  /\ UNCHANGED <<fileVars, row, pc, jobVars, lock, scanned, crashes>>

\* Mutant: an empty probe is stored like any other.
NeverGone == FALSE

NotThere == disk = Gone

ScanProbe(s) ==
  /\ scanPc[s] = "probe"
  /\ IF NotThere THEN Idle(s)
     ELSE /\ scanned' = [scanned EXCEPT ![s] = disk.layout]
          /\ scanPc' = [scanPc EXCEPT ![s] = "store"]
          /\ UNCHANGED scanSig
  /\ UNCHANGED <<fileVars, row, pc, jobVars, lock, crashes>>

\* Mutant: the size and mtime are those of the file when the probe is over.
StatAgain(s) == LatestSig(s)

StatBefore(s) == scanSig[s]

(* UpsertMediaFile.                                                        *)
ScanStore(s) ==
  /\ scanPc[s] = "store"
  /\ ~Closed("submit")
  /\ row' = [layout |-> scanned[s], sig |-> StatBefore(s)]
  /\ Idle(s)
  /\ UNCHANGED <<fileVars, pc, jobVars, lock, crashes>>

(* ffprobe fails, times out or is cancelled, or the database reports an    *)
(* error: the row stays as it is.                                          *)
ScanFails(s) ==
  /\ scanPc[s] # "idle"
  /\ Idle(s)
  /\ UNCHANGED <<fileVars, row, pc, jobVars, lock, crashes>>

-----------------------------------------------------------------------------
(* The world around.                                                       *)

Replace ==
  /\ writes < MaxWrites
  /\ ~Closed("start") /\ ~Closed("swap")
  /\ writes' = writes + 1
  /\ disk' = Fresh(writes + 1)
  /\ UNCHANGED <<row, pc, jobVars, lock, scanVars, crashes>>

Remove ==
  /\ disk # Gone
  /\ ~Closed("start") /\ ~Closed("swap")
  /\ disk' = Gone
  /\ UNCHANGED <<writes, row, pc, jobVars, lock, scanVars, crashes>>

(* The process dies: jobs that were running fail, temp files stay, scans   *)
(* and requests are gone.                                                  *)
Crash ==
  /\ crashes < MaxCrashes
  /\ crashes' = crashes + 1
  /\ pc' = [j \in Jobs |-> CASE pc[j] \in Locked -> "failed"
                             [] pc[j] = "checked" -> "new"
                             [] OTHER -> pc[j]]
  /\ lock' = NoJob
  /\ seen' = [j \in Jobs |-> 0] /\ input' = [j \in Jobs |-> Gone]
  /\ scanPc' = [s \in Scans |-> "idle"]
  /\ scanSig' = [s \in Scans |-> 0] /\ scanned' = [s \in Scans |-> 0]
  /\ UNCHANGED <<fileVars, row, kind, sel, expect, print, tmp>>

-----------------------------------------------------------------------------

Submit(j) == Load(j) \/ CheckExpected(j) \/ CreateJob(j) \/ Retry(j)

Run(j) == \/ CheckFingerprint(j) \/ Stat(j) \/ Probe(j)
          \/ RunTool(j) \/ ToolFails(j) \/ Verify(j)
          \/ Compare(j) \/ Rename(j) \/ RenameFails(j)
          \/ ProbeEdit(j) \/ StatEdit(j) \/ EditInPlace(j) \/ EditFails(j)
          \/ Finish(j)

ScanStep(s) == ScanStat(s) \/ ScanProbe(s) \/ ScanStore(s)

Next == \/ \E j \in Jobs : Submit(j) \/ Begin(j) \/ Run(j)
        \/ \E s \in Scans : ScanStep(s) \/ ScanFails(s) \/ Find(s)
        \/ Replace \/ Remove \/ Crash

Spec == Init /\ [][Next]_vars

(* The library is scanned again and again (auto_scan_interval) and not     *)
(* every attempt to look at the file, probe it and store the result fails; *)
(* a handler that has checked a request goes on to its INSERT; clients and *)
(* jobs owe nothing.                                                       *)
FairSpec ==
  /\ Spec
  /\ \A s \in Passes : /\ WF_vars(Find(s)) /\ SF_vars(ScanStat(s))
                      /\ SF_vars(ScanProbe(s)) /\ SF_vars(ScanStore(s))
  /\ \A j \in Jobs : WF_vars(CreateJob(j))

-----------------------------------------------------------------------------
(* Properties.                                                             *)

Writes(j) == \/ pc[j] = "rename" /\ pc'[j] = "refresh"
             \/ pc[j] = "edit" /\ pc'[j] = "refresh"

(* A file whose size and mtime are those of its row has the streams the    *)
(* row lists, with any number of scans and writes in flight: what is       *)
(* stored is a stat no newer than the probe (scanOne).                     *)
RowDescribesFile == disk # Gone /\ row # NoRow /\ row.sig = disk.sig
                      => row.layout = disk.layout

(* A job changes the file only while it has the streams among which its    *)
(* tracks were selected, however long it was queued, retried after a       *)
(* failure or a crash, or waiting for another job on the file.             *)
RightTracks == [][\A j \in Jobs : Writes(j) => disk.layout = sel[j]]_vars

(* A remux replaces the very file its output was made from, never one that *)
(* took its place while the tool or the verification ran (RemoveTracks,    *)
(* replaceOriginal).                                                       *)
NoLostReplacement ==
  [][\A j \in Jobs : Writes(j) /\ kind[j] = "remux" => input[j] = disk]_vars

(* Jobs on one file are at work one at a time, and a job that waited its   *)
(* turn checks its fingerprint only after the one before it is through     *)
(* (Runner.locks).                                                         *)
OneAtATime == \A j \in Jobs : pc[j] \in Locked => lock = j

(* A temp file belongs to a job at work, or to a crash.                    *)
NoTempLeft == crashes = 0 => \A j \in Jobs : tmp[j] => pc[j] \in Locked

(* The catalogue catches up with the file once nothing writes it any more, *)
(* whatever stale results scans in flight still store.                     *)
CatalogConverges ==
  <>[][UNCHANGED disk]_vars =>
    <>[](disk # Gone => row.sig = disk.sig /\ row.layout = disk.layout)
=============================================================================
