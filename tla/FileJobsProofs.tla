--------------------------- MODULE FileJobsProofs ---------------------------
(***************************************************************************)
(* Proofs about FileJobs for any number of jobs and scans and any bound on *)
(* writes and crashes; each names the windows it needs closed.             *)
(*                                                                         *)
(* Sizes, mtimes and identities are never reused, so it is enough to carry *)
(* along what follows IF the file is still the one that was looked at: the *)
(* selection fits the fingerprint of the request, the stored probe fits    *)
(* the stat before it, the output was made from the file that was seen.    *)
(* The checks of the code turn these implications into facts, and the lock *)
(* keeps other jobs from undoing them before they are used.                *)
(***************************************************************************)
EXTENDS FileJobs, TLAPS

Shut(window) == window \notin Windows

\* What is known of the file or stored about it comes from a write.
Real(n) == n \in 1..writes

\* The file is there with this size and mtime; it is this very file.
StillHas(sig)  == disk # Gone /\ disk.sig = sig
StillIs(stamp) == disk # Gone /\ disk.stamp = stamp

DiskKnown ==
  /\ Real(writes)
  /\ disk # Gone => Real(disk.layout) /\ Real(disk.sig) /\ Real(disk.stamp)
  /\ row # NoRow => Real(row.layout) /\ Real(row.sig)

\* What a scan has read was once in the file, the stat before the probe.
ScanKnown ==
  \A s \in Scans :
    /\ scanPc[s] \in {"stat", "probe", "store"} => Real(scanSig[s])
    /\ scanPc[s] = "store" =>
         /\ Real(scanned[s])
         /\ StillHas(scanSig[s]) => disk.layout = scanned[s]

\* The tracks of a request fit the file it was made for.
SelectionFits ==
  \A j \in Jobs : pc[j] # "new" =>
    /\ Real(expect[j])
    /\ StillHas(expect[j]) => disk.layout = sel[j]

\* The fingerprint of a job is that of its request: the row still had it
\* when it was checked and has it when it is copied.
PrintAsExpected ==
  \A j \in Jobs :
    /\ pc[j] = "checked" => row.sig = expect[j]
    /\ pc[j] \notin {"new", "loaded", "checked"} => print[j] = expect[j]

\* What the fingerprint check found still holds at the engine's first look.
StillFingerprint ==
  \A j \in Jobs : pc[j] \in {"stat", "probeEdit", "statEdit", "edit"} =>
    StillHas(print[j])

\* What the engine saw had the fingerprint of the job.
SeenAsPrinted ==
  \A j \in Jobs : pc[j] \in {"probe", "tool", "verify", "compare", "rename"} =>
    (StillIs(seen[j]) => disk.sig = print[j])

\* What the tool read is what the engine saw, unless it was replaced since.
InputSeen ==
  \A j \in Jobs :
    /\ pc[j] \in {"probe", "tool", "verify", "compare", "rename"} =>
         Real(seen[j])
    /\ pc[j] \in {"verify", "compare", "rename"} =>
         (StillIs(seen[j]) => disk = input[j])
    /\ pc[j] \in {"probeEdit", "statEdit", "edit"} => kind[j] = "edit"
    /\ pc[j] \in {"stat", "probe", "tool", "verify", "compare", "rename"} =>
         kind[j] = "remux"

\* A remux that may be renamed was made from a file with the tracks of the
\* selection, whatever is at the path by then.
InputAsSelected ==
  \A j \in Jobs : pc[j] = "rename" => input[j].layout = sel[j]

\* What the comparison found still holds at the rename.
StillSame ==
  \A j \in Jobs : pc[j] = "rename" => StillIs(seen[j])

\* Without a crash there is a temp file only from the tool to the rename.
TempAtWork ==
  crashes = 0 => \A j \in Jobs :
    tmp[j] => pc[j] \in {"verify", "compare", "rename"}

IInv ==
  /\ TypeOK
  /\ DiskKnown
  /\ OneAtATime
  /\ RowDescribesFile
  /\ ScanKnown
  /\ SelectionFits
  /\ InputSeen
  /\ TempAtWork
  /\ Shut("submit") => PrintAsExpected
  /\ Shut("start") => StillFingerprint
  /\ Shut("start") => SeenAsPrinted
  /\ Shut("submit") /\ Shut("start") => InputAsSelected
  /\ Shut("swap") => StillSame

-----------------------------------------------------------------------------

(* Every way out of a job at work gives the file free and removes its temp *)
(* file.                                                                   *)
LEMMA FailPreserves ==
  ASSUME IInv, NEW j \in Jobs, pc[j] \in Locked, Fail(j),
         UNCHANGED <<fileVars, row, scanVars, crashes>>
  PROVE  IInv'
<1>1. TypeOK'
  BY ConstantsAssumption DEF IInv, TypeOK, Gone, Fail, Leave, Goto, Scans, Stamps,
      File, JobStates, fileVars, scanVars
<1>2. OneAtATime'
  BY DEF IInv, TypeOK, OneAtATime, Fail, Leave, Goto, Locked
<1>3. SelectionFits'
  BY DEF IInv, TypeOK, SelectionFits, Fail, Leave, Goto, StillHas, Real,
      Locked, fileVars
<1>4. InputSeen'
  BY DEF IInv, TypeOK, InputSeen, Fail, Leave, Goto, StillIs, Real, fileVars
<1>5. TempAtWork'
  BY DEF IInv, TypeOK, TempAtWork, Fail, Leave, Goto
<1>6. (Shut("submit") => PrintAsExpected)'
  BY DEF IInv, TypeOK, PrintAsExpected, Fail, Leave, Goto, Locked, Shut
<1>7. (Shut("start") => StillFingerprint)'
  BY DEF IInv, TypeOK, StillFingerprint, Fail, Leave, Goto, StillHas, Shut,
      fileVars
<1>8. (Shut("start") => SeenAsPrinted)'
  BY DEF IInv, TypeOK, SeenAsPrinted, Fail, Leave, Goto, StillIs, Shut,
      fileVars
<1>9. (Shut("submit") /\ Shut("start") => InputAsSelected)'
  BY DEF IInv, TypeOK, InputAsSelected, Fail, Leave, Goto, StillIs, Shut,
      fileVars
<1>10. (Shut("swap") => StillSame)'
  BY DEF IInv, TypeOK, StillSame, Fail, Leave, Goto, StillIs, Shut, fileVars
<1>11. /\ DiskKnown'
     /\ RowDescribesFile'
     /\ ScanKnown'
  BY DEF IInv, DiskKnown, RowDescribesFile, ScanKnown, Fail, Leave, StillHas,
      Real, fileVars, scanVars
<1> QED
  BY <1>1, <1>2, <1>3, <1>4, <1>5, <1>6, <1>7, <1>8, <1>9, <1>10, <1>11
  DEF IInv

(* What the client selects in fits the row it was read from.               *)
LEMMA LoadPreserves == ASSUME IInv, NEW j \in Jobs, Load(j) PROVE IInv'
<1>1. TypeOK'
  BY ConstantsAssumption DEF IInv, TypeOK, Load, Goto, scanVars, Scans,
      Stamps, File, JobStates, fileVars
<1>2. OneAtATime'
  BY DEF IInv, TypeOK, OneAtATime, Load, Goto, scanVars, Locked
<1>3. SelectionFits'
  BY DEF IInv, TypeOK, SelectionFits, Load, Goto, scanVars, StillHas, Real,
      RowDescribesFile, DiskKnown, fileVars
<1>4. InputSeen'
  BY DEF IInv, TypeOK, InputSeen, Load, Goto, scanVars, StillIs, Real,
      fileVars
<1>5. TempAtWork'
  BY DEF IInv, TypeOK, TempAtWork, Load, Goto, scanVars
<1>6. (Shut("submit") => PrintAsExpected)'
  BY DEF IInv, TypeOK, PrintAsExpected, Load, Goto, scanVars, Shut
<1>7. (Shut("start") => StillFingerprint)'
  BY DEF IInv, TypeOK, StillFingerprint, Load, Goto, scanVars, StillHas, Shut,
      fileVars
<1>8. (Shut("start") => SeenAsPrinted)'
  BY DEF IInv, TypeOK, SeenAsPrinted, Load, Goto, scanVars, StillIs, Shut,
      fileVars
<1>9. (Shut("submit") /\ Shut("start") => InputAsSelected)'
  BY DEF IInv, TypeOK, InputAsSelected, Load, Goto, scanVars, StillIs, Shut,
      fileVars
<1>10. (Shut("swap") => StillSame)'
  BY DEF IInv, TypeOK, StillSame, Load, Goto, scanVars, StillIs, Shut,
      fileVars
<1>11. /\ DiskKnown'
     /\ RowDescribesFile'
     /\ ScanKnown'
  BY DEF IInv, DiskKnown, RowDescribesFile, ScanKnown, Load, Goto, scanVars,
      StillHas, Real, fileVars
<1> QED
  BY <1>1, <1>2, <1>3, <1>4, <1>5, <1>6, <1>7, <1>8, <1>9, <1>10, <1>11
  DEF IInv

(* A request that passes the check found its fingerprint in the row.       *)
LEMMA CheckExpectedPreserves ==
  ASSUME IInv, NEW j \in Jobs, CheckExpected(j)
  PROVE  IInv'
<1>1. TypeOK'
  BY ConstantsAssumption DEF IInv, TypeOK, CheckExpected, Goto, jobVars,
      scanVars, Scans, Stamps, File, JobStates, fileVars
<1>2. OneAtATime'
  BY DEF IInv, TypeOK, OneAtATime, CheckExpected, Goto, jobVars, scanVars,
      Locked
<1>3. SelectionFits'
  BY DEF IInv, TypeOK, SelectionFits, CheckExpected, Goto, jobVars, scanVars,
      StillHas, Real, fileVars
<1>4. InputSeen'
  BY DEF IInv, TypeOK, InputSeen, CheckExpected, Goto, jobVars, scanVars,
      StillIs, Real, fileVars
<1>5. TempAtWork'
  BY DEF IInv, TypeOK, TempAtWork, CheckExpected, Goto, jobVars, scanVars
<1>6. (Shut("submit") => PrintAsExpected)'
  BY DEF IInv, TypeOK, PrintAsExpected, CheckExpected, Goto, jobVars,
      scanVars, Shut
<1>7. (Shut("start") => StillFingerprint)'
  BY DEF IInv, TypeOK, StillFingerprint, CheckExpected, Goto, jobVars,
      scanVars, StillHas, Shut, fileVars
<1>8. (Shut("start") => SeenAsPrinted)'
  BY DEF IInv, TypeOK, SeenAsPrinted, CheckExpected, Goto, jobVars, scanVars,
      StillIs, Shut, fileVars
<1>9. (Shut("submit") /\ Shut("start") => InputAsSelected)'
  BY DEF IInv, TypeOK, InputAsSelected, CheckExpected, Goto, jobVars, scanVars,
      StillIs, Shut, fileVars
<1>10. (Shut("swap") => StillSame)'
  BY DEF IInv, TypeOK, StillSame, CheckExpected, Goto, jobVars, scanVars,
      StillIs, Shut, fileVars
<1>11. /\ DiskKnown'
     /\ RowDescribesFile'
     /\ ScanKnown'
  BY DEF IInv, DiskKnown, RowDescribesFile, ScanKnown, CheckExpected, Goto,
      jobVars, scanVars, StillHas, Real, fileVars
<1> QED
  BY <1>1, <1>2, <1>3, <1>4, <1>5, <1>6, <1>7, <1>8, <1>9, <1>10, <1>11
  DEF IInv

(* The fingerprint copied from the row is that of the request.             *)
LEMMA CreateJobPreserves ==
  ASSUME IInv, NEW j \in Jobs, CreateJob(j)
  PROVE  IInv'
<1>1. TypeOK'
  BY ConstantsAssumption DEF IInv, TypeOK, CreateJob, Goto, scanVars, Scans,
      Stamps, File, JobStates, DiskKnown, Real, NoRow, fileVars
<1>2. OneAtATime'
  BY DEF IInv, TypeOK, OneAtATime, CreateJob, Goto, scanVars, Locked
<1>3. SelectionFits'
  BY DEF IInv, TypeOK, SelectionFits, CreateJob, Goto, scanVars, StillHas,
      Real, fileVars
<1>4. InputSeen'
  BY DEF IInv, TypeOK, InputSeen, CreateJob, Goto, scanVars, StillIs, Real,
      fileVars
<1>5. TempAtWork'
  BY DEF IInv, TypeOK, TempAtWork, CreateJob, Goto, scanVars
<1>6. (Shut("submit") => PrintAsExpected)'
  BY DEF IInv, TypeOK, PrintAsExpected, CreateJob, Goto, scanVars, Shut
<1>7. (Shut("start") => StillFingerprint)'
  BY DEF IInv, TypeOK, StillFingerprint, CreateJob, Goto, scanVars, StillHas,
      Shut, fileVars
<1>8. (Shut("start") => SeenAsPrinted)'
  BY DEF IInv, TypeOK, SeenAsPrinted, CreateJob, Goto, scanVars, StillIs, Shut,
      fileVars
<1>9. (Shut("submit") /\ Shut("start") => InputAsSelected)'
  BY DEF IInv, TypeOK, InputAsSelected, CreateJob, Goto, scanVars, StillIs,
      Shut, fileVars
<1>10. (Shut("swap") => StillSame)'
  BY DEF IInv, TypeOK, StillSame, CreateJob, Goto, scanVars, StillIs, Shut,
      fileVars
<1>11. /\ DiskKnown'
     /\ RowDescribesFile'
     /\ ScanKnown'
  BY DEF IInv, DiskKnown, RowDescribesFile, ScanKnown, CreateJob, Goto,
      scanVars, StillHas, Real, fileVars
<1> QED
  BY <1>1, <1>2, <1>3, <1>4, <1>5, <1>6, <1>7, <1>8, <1>9, <1>10, <1>11
  DEF IInv

(* A retry keeps the selection and the fingerprint.                        *)
LEMMA RetryPreserves == ASSUME IInv, NEW j \in Jobs, Retry(j) PROVE IInv'
<1>1. TypeOK'
  BY ConstantsAssumption DEF IInv, TypeOK, Retry, Goto, jobVars, scanVars,
      Scans, Stamps, File, JobStates, fileVars
<1>2. OneAtATime'
  BY DEF IInv, TypeOK, OneAtATime, Retry, Goto, jobVars, scanVars, Locked
<1>3. SelectionFits'
  BY DEF IInv, TypeOK, SelectionFits, Retry, Goto, jobVars, scanVars,
      StillHas, Real, fileVars
<1>4. InputSeen'
  BY DEF IInv, TypeOK, InputSeen, Retry, Goto, jobVars, scanVars, StillIs,
      Real, fileVars
<1>5. TempAtWork'
  BY DEF IInv, TypeOK, TempAtWork, Retry, Goto, jobVars, scanVars
<1>6. (Shut("submit") => PrintAsExpected)'
  BY DEF IInv, TypeOK, PrintAsExpected, Retry, Goto, jobVars, scanVars, Shut
<1>7. (Shut("start") => StillFingerprint)'
  BY DEF IInv, TypeOK, StillFingerprint, Retry, Goto, jobVars, scanVars,
      StillHas, Shut, fileVars
<1>8. (Shut("start") => SeenAsPrinted)'
  BY DEF IInv, TypeOK, SeenAsPrinted, Retry, Goto, jobVars, scanVars, StillIs,
      Shut, fileVars
<1>9. (Shut("submit") /\ Shut("start") => InputAsSelected)'
  BY DEF IInv, TypeOK, InputAsSelected, Retry, Goto, jobVars, scanVars,
      StillIs, Shut, fileVars
<1>10. (Shut("swap") => StillSame)'
  BY DEF IInv, TypeOK, StillSame, Retry, Goto, jobVars, scanVars, StillIs,
      Shut, fileVars
<1>11. /\ DiskKnown'
     /\ RowDescribesFile'
     /\ ScanKnown'
  BY DEF IInv, DiskKnown, RowDescribesFile, ScanKnown, Retry, Goto, jobVars,
      scanVars, StillHas, Real, fileVars
<1> QED
  BY <1>1, <1>2, <1>3, <1>4, <1>5, <1>6, <1>7, <1>8, <1>9, <1>10, <1>11
  DEF IInv

(* A job starts only when no other is at work on the file.                 *)
LEMMA BeginPreserves == ASSUME IInv, NEW j \in Jobs, Begin(j) PROVE IInv'
<1>1. TypeOK'
  BY ConstantsAssumption DEF IInv, TypeOK, Begin, Goto, PathFree, jobVars,
      scanVars, Scans, Stamps, File, JobStates, fileVars
<1>2. OneAtATime'
  BY ConstantsAssumption DEF IInv, TypeOK, OneAtATime, Begin, Goto, PathFree,
      jobVars, scanVars, Locked
<1>3. SelectionFits'
  BY DEF IInv, TypeOK, SelectionFits, Begin, Goto, PathFree, jobVars,
      scanVars, StillHas, Real, fileVars
<1>4. InputSeen'
  BY DEF IInv, TypeOK, InputSeen, Begin, Goto, PathFree, jobVars, scanVars,
      StillIs, Real, fileVars
<1>5. TempAtWork'
  BY DEF IInv, TypeOK, TempAtWork, Begin, Goto, PathFree, jobVars, scanVars
<1>6. (Shut("submit") => PrintAsExpected)'
  BY DEF IInv, TypeOK, PrintAsExpected, Begin, Goto, PathFree, jobVars,
      scanVars, Shut
<1>7. (Shut("start") => StillFingerprint)'
  BY DEF IInv, TypeOK, StillFingerprint, Begin, Goto, PathFree, jobVars,
      scanVars, StillHas, Shut, fileVars
<1>8. (Shut("start") => SeenAsPrinted)'
  BY DEF IInv, TypeOK, SeenAsPrinted, Begin, Goto, PathFree, jobVars, scanVars,
      StillIs, Shut, fileVars
<1>9. (Shut("submit") /\ Shut("start") => InputAsSelected)'
  BY DEF IInv, TypeOK, InputAsSelected, Begin, Goto, PathFree, jobVars,
      scanVars, StillIs, Shut, fileVars
<1>10. (Shut("swap") => StillSame)'
  BY DEF IInv, TypeOK, StillSame, Begin, Goto, PathFree, jobVars, scanVars,
      StillIs, Shut, fileVars
<1>11. /\ DiskKnown'
     /\ RowDescribesFile'
     /\ ScanKnown'
  BY DEF IInv, DiskKnown, RowDescribesFile, ScanKnown, Begin, Goto, PathFree,
      jobVars, scanVars, StillHas, Real, fileVars
<1> QED
  BY <1>1, <1>2, <1>3, <1>4, <1>5, <1>6, <1>7, <1>8, <1>9, <1>10, <1>11
  DEF IInv

(* A job goes on only if the file has its fingerprint.                     *)
LEMMA CheckFingerprintPreserves ==
  ASSUME IInv, NEW j \in Jobs, CheckFingerprint(j)
  PROVE  IInv'
<1>1. CASE Fail(j)
  BY <1>1, FailPreserves DEF CheckFingerprint, Locked, scanVars
<1>2. CASE ~Fail(j)
  <2>1. TypeOK'
    BY <1>2, ConstantsAssumption DEF IInv, TypeOK, CheckFingerprint, Goto,
        StaleFingerprint, FirstLook, jobVars, scanVars, Scans, Stamps, File,
        JobStates, fileVars
  <2>2. OneAtATime'
    BY <1>2 DEF IInv, TypeOK, OneAtATime, CheckFingerprint, Goto,
        StaleFingerprint, FirstLook, jobVars, scanVars, Locked
  <2>3. SelectionFits'
    BY <1>2 DEF IInv, TypeOK, SelectionFits, CheckFingerprint, Goto,
        StaleFingerprint, FirstLook, jobVars, scanVars, StillHas, Real,
        fileVars
  <2>4. InputSeen'
    BY <1>2 DEF IInv, TypeOK, InputSeen, CheckFingerprint, Goto,
        StaleFingerprint, FirstLook, jobVars, scanVars, StillIs, Real,
        fileVars
  <2>5. TempAtWork'
    BY <1>2 DEF IInv, TypeOK, TempAtWork, CheckFingerprint, Goto,
        StaleFingerprint, FirstLook, jobVars, scanVars
  <2>6. (Shut("submit") => PrintAsExpected)'
    BY <1>2 DEF IInv, TypeOK, PrintAsExpected, CheckFingerprint, Goto,
        StaleFingerprint, FirstLook, jobVars, scanVars, Shut
  <2>7. (Shut("start") => StillFingerprint)'
    BY <1>2 DEF IInv, TypeOK, StillFingerprint, CheckFingerprint, Goto,
        StaleFingerprint, FirstLook, jobVars, scanVars, StillHas, Shut,
        fileVars
  <2>8. (Shut("start") => SeenAsPrinted)'
    BY <1>2 DEF IInv, TypeOK, SeenAsPrinted, CheckFingerprint, Goto,
        StaleFingerprint, FirstLook, jobVars, scanVars, StillIs, Shut,
        fileVars
  <2>9. (Shut("submit") /\ Shut("start") => InputAsSelected)'
    BY <1>2 DEF IInv, TypeOK, InputAsSelected, CheckFingerprint, Goto,
        StaleFingerprint, FirstLook, jobVars, scanVars, StillIs, Shut,
        fileVars
  <2>10. (Shut("swap") => StillSame)'
    BY <1>2 DEF IInv, TypeOK, StillSame, CheckFingerprint, Goto,
        StaleFingerprint, FirstLook, jobVars, scanVars, StillIs, Shut,
        fileVars
  <2>11. /\ DiskKnown'
       /\ RowDescribesFile'
       /\ ScanKnown'
    BY <1>2 DEF IInv, DiskKnown, RowDescribesFile, ScanKnown,
        CheckFingerprint, Goto, StaleFingerprint, FirstLook, jobVars,
        scanVars, StillHas, Real, fileVars
  <2> QED
    BY <2>1, <2>2, <2>3, <2>4, <2>5, <2>6, <2>7, <2>8, <2>9, <2>10, <2>11
    DEF IInv
<1> QED
  BY <1>1, <1>2

(* The file the engine sees first still has the fingerprint.               *)
LEMMA StatPreserves == ASSUME IInv, NEW j \in Jobs, Stat(j) PROVE IInv'
<1>1. CASE Fail(j)
  BY <1>1, FailPreserves DEF Stat, Locked, scanVars
<1>2. CASE ~Fail(j)
  <2>1. TypeOK'
    BY <1>2, ConstantsAssumption DEF IInv, TypeOK, Stat, Goto, scanVars,
        Scans, Stamps, File, JobStates, fileVars
  <2>2. OneAtATime'
    BY <1>2 DEF IInv, TypeOK, OneAtATime, Stat, Goto, scanVars, Locked
  <2>3. SelectionFits'
    BY <1>2 DEF IInv, TypeOK, SelectionFits, Stat, Goto, scanVars, StillHas,
        Real, fileVars
  <2>4. InputSeen'
    BY <1>2 DEF IInv, TypeOK, InputSeen, Stat, Goto, scanVars, StillIs, Real,
        DiskKnown, fileVars
  <2>5. TempAtWork'
    BY <1>2 DEF IInv, TypeOK, TempAtWork, Stat, Goto, scanVars
  <2>6. (Shut("submit") => PrintAsExpected)'
    BY <1>2 DEF IInv, TypeOK, PrintAsExpected, Stat, Goto, scanVars, Shut
  <2>7. (Shut("start") => StillFingerprint)'
    BY <1>2 DEF IInv, TypeOK, StillFingerprint, Stat, Goto, scanVars,
        StillHas, Shut, fileVars
  <2>8. (Shut("start") => SeenAsPrinted)'
    BY <1>2 DEF IInv, TypeOK, SeenAsPrinted, Stat, Goto, scanVars, StillIs,
        StillFingerprint, StillHas, PrintAsExpected, SelectionFits, Shut,
        fileVars
  <2>9. (Shut("submit") /\ Shut("start") => InputAsSelected)'
    BY <1>2 DEF IInv, TypeOK, InputAsSelected, Stat, Goto, scanVars, StillIs,
        StillFingerprint, StillHas, PrintAsExpected, SelectionFits, Shut,
        fileVars
  <2>10. (Shut("swap") => StillSame)'
    BY <1>2 DEF IInv, TypeOK, StillSame, Stat, Goto, scanVars, StillIs, Shut,
        fileVars
  <2>11. /\ DiskKnown'
       /\ RowDescribesFile'
       /\ ScanKnown'
    BY <1>2 DEF IInv, DiskKnown, RowDescribesFile, ScanKnown, Stat, Goto,
        scanVars, StillHas, Real, fileVars
  <2> QED
    BY <2>1, <2>2, <2>3, <2>4, <2>5, <2>6, <2>7, <2>8, <2>9, <2>10, <2>11
    DEF IInv
<1> QED
  BY <1>1, <1>2

(* Probing changes nothing that is known.                                  *)
LEMMA ProbePreserves == ASSUME IInv, NEW j \in Jobs, Probe(j) PROVE IInv'
<1>1. CASE Fail(j)
  BY <1>1, FailPreserves DEF Probe, Locked, scanVars
<1>2. CASE ~Fail(j)
  <2>1. TypeOK'
    BY <1>2, ConstantsAssumption DEF IInv, TypeOK, Probe, Goto, jobVars,
        scanVars, Scans, Stamps, File, JobStates, fileVars
  <2>2. OneAtATime'
    BY <1>2 DEF IInv, TypeOK, OneAtATime, Probe, Goto, jobVars, scanVars,
        Locked
  <2>3. SelectionFits'
    BY <1>2 DEF IInv, TypeOK, SelectionFits, Probe, Goto, jobVars, scanVars,
        StillHas, Real, fileVars
  <2>4. InputSeen'
    BY <1>2 DEF IInv, TypeOK, InputSeen, Probe, Goto, jobVars, scanVars,
        StillIs, Real, fileVars
  <2>5. TempAtWork'
    BY <1>2 DEF IInv, TypeOK, TempAtWork, Probe, Goto, jobVars, scanVars
  <2>6. (Shut("submit") => PrintAsExpected)'
    BY <1>2 DEF IInv, TypeOK, PrintAsExpected, Probe, Goto, jobVars, scanVars,
        Shut
  <2>7. (Shut("start") => StillFingerprint)'
    BY <1>2 DEF IInv, TypeOK, StillFingerprint, Probe, Goto, jobVars,
        scanVars, StillHas, Shut, fileVars
  <2>8. (Shut("start") => SeenAsPrinted)'
    BY <1>2 DEF IInv, TypeOK, SeenAsPrinted, Probe, Goto, jobVars, scanVars,
        StillIs, Shut, fileVars
  <2>9. (Shut("submit") /\ Shut("start") => InputAsSelected)'
    BY <1>2 DEF IInv, TypeOK, InputAsSelected, Probe, Goto, jobVars, scanVars,
        StillIs, Shut, fileVars
  <2>10. (Shut("swap") => StillSame)'
    BY <1>2 DEF IInv, TypeOK, StillSame, Probe, Goto, jobVars, scanVars,
        StillIs, Shut, fileVars
  <2>11. /\ DiskKnown'
       /\ RowDescribesFile'
       /\ ScanKnown'
    BY <1>2 DEF IInv, DiskKnown, RowDescribesFile, ScanKnown, Probe, Goto,
        jobVars, scanVars, StillHas, Real, fileVars
  <2> QED
    BY <2>1, <2>2, <2>3, <2>4, <2>5, <2>6, <2>7, <2>8, <2>9, <2>10, <2>11
    DEF IInv
<1> QED
  BY <1>1, <1>2

(* The tool reads the file that is there.                                  *)
LEMMA RunToolPreserves == ASSUME IInv, NEW j \in Jobs, RunTool(j) PROVE IInv'
<1>1. TypeOK'
  BY ConstantsAssumption DEF IInv, TypeOK, RunTool, Goto, scanVars, Scans,
      Stamps, File, JobStates, fileVars
<1>2. OneAtATime'
  BY DEF IInv, TypeOK, OneAtATime, RunTool, Goto, scanVars, Locked
<1>3. SelectionFits'
  BY DEF IInv, TypeOK, SelectionFits, RunTool, Goto, scanVars, StillHas, Real,
      fileVars
<1>4. InputSeen'
  BY DEF IInv, TypeOK, InputSeen, RunTool, Goto, scanVars, StillIs, Real,
      fileVars
<1>5. TempAtWork'
  BY DEF IInv, TypeOK, TempAtWork, RunTool, Goto, scanVars
<1>6. (Shut("submit") => PrintAsExpected)'
  BY DEF IInv, TypeOK, PrintAsExpected, RunTool, Goto, scanVars, Shut
<1>7. (Shut("start") => StillFingerprint)'
  BY DEF IInv, TypeOK, StillFingerprint, RunTool, Goto, scanVars, StillHas,
      Shut, fileVars
<1>8. (Shut("start") => SeenAsPrinted)'
  BY DEF IInv, TypeOK, SeenAsPrinted, RunTool, Goto, scanVars, StillIs, Shut,
      fileVars
<1>9. (Shut("submit") /\ Shut("start") => InputAsSelected)'
  BY DEF IInv, TypeOK, InputAsSelected, RunTool, Goto, scanVars, StillIs, Shut,
      fileVars
<1>10. (Shut("swap") => StillSame)'
  BY DEF IInv, TypeOK, StillSame, RunTool, Goto, scanVars, StillIs, Shut,
      fileVars
<1>11. /\ DiskKnown'
     /\ RowDescribesFile'
     /\ ScanKnown'
  BY DEF IInv, DiskKnown, RowDescribesFile, ScanKnown, RunTool, Goto,
      scanVars, StillHas, Real, fileVars
<1> QED
  BY <1>1, <1>2, <1>3, <1>4, <1>5, <1>6, <1>7, <1>8, <1>9, <1>10, <1>11
  DEF IInv

(* The tool fails.                                                         *)
LEMMA ToolFailsPreserves ==
  ASSUME IInv, NEW j \in Jobs, ToolFails(j)
  PROVE  IInv'
BY FailPreserves DEF ToolFails, Locked

(* Which outputs pass makes no difference to what is known of the file.    *)
LEMMA VerifyPreserves == ASSUME IInv, NEW j \in Jobs, Verify(j) PROVE IInv'
<1>1. CASE Fail(j)
  BY <1>1, FailPreserves DEF Verify, Locked, scanVars
<1>2. CASE ~Fail(j)
  <2>1. TypeOK'
    BY <1>2, ConstantsAssumption DEF IInv, TypeOK, Verify, Goto, jobVars,
        scanVars, Scans, Stamps, File, JobStates, fileVars
  <2>2. OneAtATime'
    BY <1>2 DEF IInv, TypeOK, OneAtATime, Verify, Goto, jobVars, scanVars,
        Locked
  <2>3. SelectionFits'
    BY <1>2 DEF IInv, TypeOK, SelectionFits, Verify, Goto, jobVars, scanVars,
        StillHas, Real, fileVars
  <2>4. InputSeen'
    BY <1>2 DEF IInv, TypeOK, InputSeen, Verify, Goto, jobVars, scanVars,
        StillIs, Real, fileVars
  <2>5. TempAtWork'
    BY <1>2 DEF IInv, TypeOK, TempAtWork, Verify, Goto, jobVars, scanVars
  <2>6. (Shut("submit") => PrintAsExpected)'
    BY <1>2 DEF IInv, TypeOK, PrintAsExpected, Verify, Goto, jobVars,
        scanVars, Shut
  <2>7. (Shut("start") => StillFingerprint)'
    BY <1>2 DEF IInv, TypeOK, StillFingerprint, Verify, Goto, jobVars,
        scanVars, StillHas, Shut, fileVars
  <2>8. (Shut("start") => SeenAsPrinted)'
    BY <1>2 DEF IInv, TypeOK, SeenAsPrinted, Verify, Goto, jobVars, scanVars,
        StillIs, Shut, fileVars
  <2>9. (Shut("submit") /\ Shut("start") => InputAsSelected)'
    BY <1>2 DEF IInv, TypeOK, InputAsSelected, Verify, Goto, jobVars, scanVars,
        StillIs, Shut, fileVars
  <2>10. (Shut("swap") => StillSame)'
    BY <1>2 DEF IInv, TypeOK, StillSame, Verify, Goto, jobVars, scanVars,
        StillIs, Shut, fileVars
  <2>11. /\ DiskKnown'
       /\ RowDescribesFile'
       /\ ScanKnown'
    BY <1>2 DEF IInv, DiskKnown, RowDescribesFile, ScanKnown, Verify, Goto,
        jobVars, scanVars, StillHas, Real, fileVars
  <2> QED
    BY <2>1, <2>2, <2>3, <2>4, <2>5, <2>6, <2>7, <2>8, <2>9, <2>10, <2>11
    DEF IInv
<1> QED
  BY <1>1, <1>2

(* A job gets to the rename only if the file is the one it saw.            *)
LEMMA ComparePreserves == ASSUME IInv, NEW j \in Jobs, Compare(j) PROVE IInv'
<1>1. CASE Fail(j)
  BY <1>1, FailPreserves DEF Compare, Locked, scanVars
<1>2. CASE ~Fail(j)
  <2>1. TypeOK'
    BY <1>2, ConstantsAssumption DEF IInv, TypeOK, Compare, Goto, Untouched,
        jobVars, scanVars, Scans, Stamps, File, JobStates, fileVars
  <2>2. OneAtATime'
    BY <1>2 DEF IInv, TypeOK, OneAtATime, Compare, Goto, Untouched, jobVars,
        scanVars, Locked
  <2>3. SelectionFits'
    BY <1>2 DEF IInv, TypeOK, SelectionFits, Compare, Goto, Untouched,
        jobVars, scanVars, StillHas, Real, fileVars
  <2>4. InputSeen'
    BY <1>2 DEF IInv, TypeOK, InputSeen, Compare, Goto, Untouched, jobVars,
        scanVars, StillIs, Real, fileVars
  <2>5. TempAtWork'
    BY <1>2 DEF IInv, TypeOK, TempAtWork, Compare, Goto, Untouched, jobVars,
        scanVars
  <2>6. (Shut("submit") => PrintAsExpected)'
    BY <1>2 DEF IInv, TypeOK, PrintAsExpected, Compare, Goto, Untouched,
        jobVars, scanVars, Shut
  <2>7. (Shut("start") => StillFingerprint)'
    BY <1>2 DEF IInv, TypeOK, StillFingerprint, Compare, Goto, Untouched,
        jobVars, scanVars, StillHas, Shut, fileVars
  <2>8. (Shut("start") => SeenAsPrinted)'
    BY <1>2 DEF IInv, TypeOK, SeenAsPrinted, Compare, Goto, Untouched, jobVars,
        scanVars, StillIs, Shut, fileVars
  <2>9. (Shut("submit") /\ Shut("start") => InputAsSelected)'
    BY <1>2 DEF IInv, TypeOK, InputAsSelected, SeenAsPrinted, InputSeen,
        PrintAsExpected, SelectionFits, StillHas, Compare, Goto, Untouched,
        jobVars, scanVars, StillIs, Shut, fileVars
  <2>10. (Shut("swap") => StillSame)'
    BY <1>2 DEF IInv, TypeOK, StillSame, Compare, Goto, Untouched, jobVars,
        scanVars, StillIs, Shut, fileVars
  <2>11. /\ DiskKnown'
       /\ RowDescribesFile'
       /\ ScanKnown'
    BY <1>2 DEF IInv, DiskKnown, RowDescribesFile, ScanKnown, Compare, Goto,
        Untouched, jobVars, scanVars, StillHas, Real, fileVars
  <2> QED
    BY <2>1, <2>2, <2>3, <2>4, <2>5, <2>6, <2>7, <2>8, <2>9, <2>10, <2>11
    DEF IInv
<1> QED
  BY <1>1, <1>2

(* The output takes the place of the file.                                 *)
LEMMA RenamePreserves == ASSUME IInv, NEW j \in Jobs, Rename(j) PROVE IInv'
<1>1. TypeOK'
  BY ConstantsAssumption DEF IInv, TypeOK, Rename, Goto, Fresh, Scans, Stamps,
      File, JobStates, DiskKnown, Real, Gone
<1>2. DiskKnown'
  BY DEF IInv, TypeOK, DiskKnown, Rename, Goto, Fresh, Real, Gone, Scans
<1>3. OneAtATime'
  BY DEF IInv, TypeOK, OneAtATime, Rename, Goto, Fresh, Locked, Scans
<1>4. RowDescribesFile'
  BY DEF IInv, TypeOK, RowDescribesFile, Rename, Goto, Fresh, DiskKnown, Real,
      Gone, NoRow, Scans
<1>5. ScanKnown'
  BY DEF IInv, TypeOK, ScanKnown, Rename, Goto, Fresh, StillHas, Real, Gone,
      DiskKnown, Scans
<1>6. SelectionFits'
  BY DEF IInv, TypeOK, SelectionFits, Rename, Goto, Fresh, StillHas, Real,
      Gone, DiskKnown, Scans
<1>7. InputSeen'
  BY DEF IInv, TypeOK, InputSeen, Rename, Goto, Fresh, StillIs, Real, Gone,
      DiskKnown, OneAtATime, Locked, Scans
<1>8. TempAtWork'
  BY DEF IInv, TypeOK, TempAtWork, Rename, Goto, Fresh, Scans
<1>9. (Shut("submit") => PrintAsExpected)'
  BY DEF IInv, TypeOK, PrintAsExpected, Rename, Goto, Fresh, Shut, Scans
<1>10. (Shut("start") => StillFingerprint)'
  BY DEF IInv, TypeOK, StillFingerprint, Rename, Goto, Fresh, StillHas,
      OneAtATime, Locked, Shut, Scans
<1>11. (Shut("start") => SeenAsPrinted)'
  BY DEF IInv, TypeOK, SeenAsPrinted, Rename, Goto, Fresh, StillIs, InputSeen,
      OneAtATime, Locked, Real, DiskKnown, Shut, Scans
<1>12. (Shut("submit") /\ Shut("start") => InputAsSelected)'
  BY DEF IInv, TypeOK, InputAsSelected, Rename, Goto, Fresh, StillIs,
      InputSeen, OneAtATime, Locked, Real, DiskKnown, Shut, Scans
<1>13. (Shut("swap") => StillSame)'
  BY DEF IInv, TypeOK, StillSame, Rename, Goto, Fresh, StillIs, OneAtATime,
      Locked, Shut, Scans
<1> QED
  BY <1>1, <1>2, <1>3, <1>4, <1>5, <1>6, <1>7, <1>8, <1>9, <1>10, <1>11,
      <1>12, <1>13
  DEF IInv

(* The rename fails.                                                       *)
LEMMA RenameFailsPreserves ==
  ASSUME IInv, NEW j \in Jobs, RenameFails(j)
  PROVE  IInv'
BY FailPreserves DEF RenameFails, Locked

(* See Probe.                                                              *)
LEMMA ProbeEditPreserves ==
  ASSUME IInv, NEW j \in Jobs, ProbeEdit(j)
  PROVE  IInv'
<1>1. CASE Fail(j)
  BY <1>1, FailPreserves DEF ProbeEdit, Locked, scanVars
<1>2. CASE ~Fail(j)
  <2>1. TypeOK'
    BY <1>2, ConstantsAssumption DEF IInv, TypeOK, ProbeEdit, Goto, jobVars,
        scanVars, Scans, Stamps, File, JobStates, fileVars
  <2>2. OneAtATime'
    BY <1>2 DEF IInv, TypeOK, OneAtATime, ProbeEdit, Goto, jobVars, scanVars,
        Locked
  <2>3. SelectionFits'
    BY <1>2 DEF IInv, TypeOK, SelectionFits, ProbeEdit, Goto, jobVars,
        scanVars, StillHas, Real, fileVars
  <2>4. InputSeen'
    BY <1>2 DEF IInv, TypeOK, InputSeen, ProbeEdit, Goto, jobVars, scanVars,
        StillIs, Real, fileVars
  <2>5. TempAtWork'
    BY <1>2 DEF IInv, TypeOK, TempAtWork, ProbeEdit, Goto, jobVars, scanVars
  <2>6. (Shut("submit") => PrintAsExpected)'
    BY <1>2 DEF IInv, TypeOK, PrintAsExpected, ProbeEdit, Goto, jobVars,
        scanVars, Shut
  <2>7. (Shut("start") => StillFingerprint)'
    BY <1>2 DEF IInv, TypeOK, StillFingerprint, ProbeEdit, Goto, jobVars,
        scanVars, StillHas, Shut, fileVars
  <2>8. (Shut("start") => SeenAsPrinted)'
    BY <1>2 DEF IInv, TypeOK, SeenAsPrinted, ProbeEdit, Goto, jobVars,
        scanVars, StillIs, Shut, fileVars
  <2>9. (Shut("submit") /\ Shut("start") => InputAsSelected)'
    BY <1>2 DEF IInv, TypeOK, InputAsSelected, ProbeEdit, Goto, jobVars,
        scanVars, StillIs, Shut, fileVars
  <2>10. (Shut("swap") => StillSame)'
    BY <1>2 DEF IInv, TypeOK, StillSame, ProbeEdit, Goto, jobVars, scanVars,
        StillIs, Shut, fileVars
  <2>11. /\ DiskKnown'
       /\ RowDescribesFile'
       /\ ScanKnown'
    BY <1>2 DEF IInv, DiskKnown, RowDescribesFile, ScanKnown, ProbeEdit, Goto,
        jobVars, scanVars, StillHas, Real, fileVars
  <2> QED
    BY <2>1, <2>2, <2>3, <2>4, <2>5, <2>6, <2>7, <2>8, <2>9, <2>10, <2>11
    DEF IInv
<1> QED
  BY <1>1, <1>2

(* See Probe.                                                              *)
LEMMA StatEditPreserves == ASSUME IInv, NEW j \in Jobs, StatEdit(j) PROVE IInv'
<1>1. CASE Fail(j)
  BY <1>1, FailPreserves DEF StatEdit, Locked, scanVars
<1>2. CASE ~Fail(j)
  <2>1. TypeOK'
    BY <1>2, ConstantsAssumption DEF IInv, TypeOK, StatEdit, Goto, jobVars,
        scanVars, Scans, Stamps, File, JobStates, fileVars
  <2>2. OneAtATime'
    BY <1>2 DEF IInv, TypeOK, OneAtATime, StatEdit, Goto, jobVars, scanVars,
        Locked
  <2>3. SelectionFits'
    BY <1>2 DEF IInv, TypeOK, SelectionFits, StatEdit, Goto, jobVars,
        scanVars, StillHas, Real, fileVars
  <2>4. InputSeen'
    BY <1>2 DEF IInv, TypeOK, InputSeen, StatEdit, Goto, jobVars, scanVars,
        StillIs, Real, fileVars
  <2>5. TempAtWork'
    BY <1>2 DEF IInv, TypeOK, TempAtWork, StatEdit, Goto, jobVars, scanVars
  <2>6. (Shut("submit") => PrintAsExpected)'
    BY <1>2 DEF IInv, TypeOK, PrintAsExpected, StatEdit, Goto, jobVars,
        scanVars, Shut
  <2>7. (Shut("start") => StillFingerprint)'
    BY <1>2 DEF IInv, TypeOK, StillFingerprint, StatEdit, Goto, jobVars,
        scanVars, StillHas, Shut, fileVars
  <2>8. (Shut("start") => SeenAsPrinted)'
    BY <1>2 DEF IInv, TypeOK, SeenAsPrinted, StatEdit, Goto, jobVars, scanVars,
        StillIs, Shut, fileVars
  <2>9. (Shut("submit") /\ Shut("start") => InputAsSelected)'
    BY <1>2 DEF IInv, TypeOK, InputAsSelected, StatEdit, Goto, jobVars,
        scanVars, StillIs, Shut, fileVars
  <2>10. (Shut("swap") => StillSame)'
    BY <1>2 DEF IInv, TypeOK, StillSame, StatEdit, Goto, jobVars, scanVars,
        StillIs, Shut, fileVars
  <2>11. /\ DiskKnown'
       /\ RowDescribesFile'
       /\ ScanKnown'
    BY <1>2 DEF IInv, DiskKnown, RowDescribesFile, ScanKnown, StatEdit, Goto,
        jobVars, scanVars, StillHas, Real, fileVars
  <2> QED
    BY <2>1, <2>2, <2>3, <2>4, <2>5, <2>6, <2>7, <2>8, <2>9, <2>10, <2>11
    DEF IInv
<1> QED
  BY <1>1, <1>2

(* An edit leaves the streams where they are.                              *)
LEMMA EditInPlacePreserves ==
  ASSUME IInv, NEW j \in Jobs, EditInPlace(j)
  PROVE  IInv'
<1>1. TypeOK'
  <2>1. writes + 1 \in Stamps /\ disk.layout \in Stamps /\ disk.sig \in Stamps
    BY ConstantsAssumption
    DEF IInv, TypeOK, DiskKnown, Real, EditInPlace, File, Stamps
  <2>2. PICK sig \in Stamps :
          disk' = [layout |-> disk.layout, sig |-> sig, stamp |-> writes + 1]
    BY <2>1 DEF IInv, TypeOK, File, EditInPlace
  <2>3. disk' \in File /\ writes' \in Stamps
    BY <2>1, <2>2 DEF File, EditInPlace
  <2> QED
    BY <2>3
    DEF IInv, TypeOK, EditInPlace, Goto, jobVars, scanVars, Scans, JobStates
<1>2. DiskKnown'
  BY DEF IInv, TypeOK, DiskKnown, EditInPlace, Goto, jobVars, Real, Gone,
      Scans
<1>3. OneAtATime'
  BY DEF IInv, TypeOK, OneAtATime, EditInPlace, Goto, jobVars, Locked, Scans
<1>4. RowDescribesFile'
  BY DEF IInv, TypeOK, RowDescribesFile, EditInPlace, Goto, jobVars,
      DiskKnown, Real, Gone, NoRow, Scans
<1>5. ScanKnown'
  BY DEF IInv, TypeOK, ScanKnown, EditInPlace, Goto, jobVars, StillHas, Real,
      Gone, DiskKnown, Scans
<1>6. SelectionFits'
  BY DEF IInv, TypeOK, SelectionFits, EditInPlace, Goto, jobVars, StillHas,
      Real, Gone, DiskKnown, Scans
<1>7. InputSeen'
  BY DEF IInv, TypeOK, InputSeen, EditInPlace, Goto, jobVars, StillIs, Real,
      Gone, DiskKnown, OneAtATime, Locked, Scans
<1>8. TempAtWork'
  BY DEF IInv, TypeOK, TempAtWork, EditInPlace, Goto, jobVars, Scans
<1>9. (Shut("submit") => PrintAsExpected)'
  BY DEF IInv, TypeOK, PrintAsExpected, EditInPlace, Goto, jobVars, Shut,
      Scans
<1>10. (Shut("start") => StillFingerprint)'
  BY DEF IInv, TypeOK, StillFingerprint, EditInPlace, Goto, jobVars, StillHas,
      OneAtATime, Locked, Shut, Scans
<1>11. (Shut("start") => SeenAsPrinted)'
  BY DEF IInv, TypeOK, SeenAsPrinted, EditInPlace, Goto, jobVars, StillIs,
      InputSeen, OneAtATime, Locked, Real, DiskKnown, Shut, Scans
<1>12. (Shut("submit") /\ Shut("start") => InputAsSelected)'
  BY DEF IInv, TypeOK, InputAsSelected, EditInPlace, Goto, jobVars, StillIs,
      InputSeen, OneAtATime, Locked, Real, DiskKnown, Shut, Scans
<1>13. (Shut("swap") => StillSame)'
  BY DEF IInv, TypeOK, StillSame, EditInPlace, Goto, jobVars, StillIs,
      OneAtATime, Locked, Shut, Scans
<1> QED
  BY <1>1, <1>2, <1>3, <1>4, <1>5, <1>6, <1>7, <1>8, <1>9, <1>10, <1>11,
      <1>12, <1>13
  DEF IInv

(* The edit fails.                                                         *)
LEMMA EditFailsPreserves ==
  ASSUME IInv, NEW j \in Jobs, EditFails(j)
  PROVE  IInv'
BY FailPreserves DEF EditFails, Locked

(* A job that is done lets the file go.                                    *)
LEMMA FinishPreserves == ASSUME IInv, NEW j \in Jobs, Finish(j) PROVE IInv'
<1>1. TypeOK'
  BY ConstantsAssumption DEF IInv, TypeOK, Gone, Finish, Leave, Goto, scanVars,
      Scans, Stamps, File, JobStates, fileVars
<1>2. OneAtATime'
  BY DEF IInv, TypeOK, OneAtATime, Finish, Leave, Goto, scanVars, Locked
<1>3. SelectionFits'
  BY DEF IInv, TypeOK, SelectionFits, Finish, Leave, Goto, scanVars, StillHas,
      Real, fileVars
<1>4. InputSeen'
  BY DEF IInv, TypeOK, InputSeen, Finish, Leave, Goto, scanVars, StillIs,
      Real, OneAtATime, Locked, fileVars
<1>5. TempAtWork'
  BY DEF IInv, TypeOK, TempAtWork, Finish, Leave, Goto, scanVars
<1>6. (Shut("submit") => PrintAsExpected)'
  BY DEF IInv, TypeOK, PrintAsExpected, Finish, Leave, Goto, scanVars, Shut
<1>7. (Shut("start") => StillFingerprint)'
  BY DEF IInv, TypeOK, StillFingerprint, Finish, Leave, Goto, scanVars,
      StillHas, Shut, fileVars
<1>8. (Shut("start") => SeenAsPrinted)'
  BY DEF IInv, TypeOK, SeenAsPrinted, Finish, Leave, Goto, scanVars, StillIs,
      Shut, fileVars
<1>9. (Shut("submit") /\ Shut("start") => InputAsSelected)'
  BY DEF IInv, TypeOK, InputAsSelected, Finish, Leave, Goto, scanVars,
      StillIs, Shut, fileVars
<1>10. (Shut("swap") => StillSame)'
  BY DEF IInv, TypeOK, StillSame, Finish, Leave, Goto, scanVars, StillIs,
      Shut, fileVars
<1>11. /\ DiskKnown'
     /\ RowDescribesFile'
     /\ ScanKnown'
  BY DEF IInv, DiskKnown, RowDescribesFile, ScanKnown, Finish, Leave, Goto,
      scanVars, StillHas, Real, fileVars
<1> QED
  BY <1>1, <1>2, <1>3, <1>4, <1>5, <1>6, <1>7, <1>8, <1>9, <1>10, <1>11
  DEF IInv

(* A scan begins with a size and mtime the file has.                       *)
LEMMA FindPreserves == ASSUME IInv, NEW s \in Scans, Find(s) PROVE IInv'
<1>1. TypeOK'
  BY ConstantsAssumption DEF IInv, TypeOK, Find, fileVars, jobVars, Scans,
      Stamps, File, JobStates
<1>2. ScanKnown'
  <2>1. CASE disk = Gone
    BY <2>1 DEF IInv, TypeOK, ScanKnown, Find, fileVars, StillHas, Real, Scans
  <2>2. CASE disk # Gone
    BY <2>2 DEF IInv, TypeOK, ScanKnown, DiskKnown, Find, fileVars, StillHas,
        Real, Scans
  <2> QED
    BY <2>1, <2>2
<1>3. /\ DiskKnown'
     /\ OneAtATime'
     /\ RowDescribesFile'
     /\ SelectionFits'
     /\ InputSeen'
     /\ TempAtWork'
     /\ (Shut("submit") => PrintAsExpected)'
     /\ (Shut("start") => StillFingerprint)'
     /\ (Shut("start") => SeenAsPrinted)'
     /\ (Shut("submit") /\ Shut("start") => InputAsSelected)'
     /\ (Shut("swap") => StillSame)'
  BY DEF IInv, DiskKnown, OneAtATime, RowDescribesFile, SelectionFits,
      InputSeen, TempAtWork, PrintAsExpected, StillFingerprint, SeenAsPrinted,
      InputAsSelected, StillSame, Find, fileVars, jobVars, Locked, StillHas,
      Real, StillIs, Shut
<1> QED
  BY <1>1, <1>2, <1>3 DEF IInv

(* A scan keeps what it found or finds a size and mtime the file has.      *)
LEMMA ScanStatPreserves ==
  ASSUME IInv, NEW s \in Scans, ScanStat(s)
  PROVE  IInv'
<1>1. TypeOK'
  BY ConstantsAssumption DEF IInv, TypeOK, ScanStat, fileVars, jobVars,
      CacheHit, LatestSig, Scans, Stamps, File, JobStates
<1>2. ScanKnown'
  BY DEF IInv, TypeOK, ScanKnown, ScanStat, fileVars, jobVars, CacheHit,
      LatestSig, StillHas, Real, DiskKnown, Scans
<1>3. /\ DiskKnown'
     /\ OneAtATime'
     /\ RowDescribesFile'
     /\ SelectionFits'
     /\ InputSeen'
     /\ TempAtWork'
     /\ (Shut("submit") => PrintAsExpected)'
     /\ (Shut("start") => StillFingerprint)'
     /\ (Shut("start") => SeenAsPrinted)'
     /\ (Shut("submit") /\ Shut("start") => InputAsSelected)'
     /\ (Shut("swap") => StillSame)'
  BY DEF IInv, DiskKnown, OneAtATime, RowDescribesFile, SelectionFits,
      InputSeen, TempAtWork, PrintAsExpected, StillFingerprint, SeenAsPrinted,
      InputAsSelected, StillSame, ScanStat, fileVars, jobVars, CacheHit,
      LatestSig, Locked, StillHas, Real, StillIs, Shut
<1> QED
  BY <1>1, <1>2, <1>3 DEF IInv

(* What the probe finds fits the stat if the file is still the same.       *)
LEMMA ScanProbePreserves ==
  ASSUME IInv, NEW s \in Scans, ScanProbe(s)
  PROVE  IInv'
<1>1. TypeOK'
  <2>1. disk.layout \in Stamps /\ 0 \in Stamps
    BY ConstantsAssumption DEF IInv, TypeOK, File, Stamps
  <2>2. CASE NotThere
    BY <2>1, <2>2 DEF IInv, TypeOK, ScanProbe, Idle, fileVars, jobVars
  <2>3. CASE ~NotThere
    BY <2>1, <2>3 DEF IInv, TypeOK, ScanProbe, fileVars, jobVars
  <2> QED
    BY <2>2, <2>3
<1>2. ScanKnown'
  BY DEF IInv, TypeOK, ScanKnown, ScanProbe, Idle, fileVars, jobVars, NotThere,
      StillHas, Real, DiskKnown, Scans
<1>3. /\ DiskKnown'
     /\ OneAtATime'
     /\ RowDescribesFile'
     /\ SelectionFits'
     /\ InputSeen'
     /\ TempAtWork'
     /\ (Shut("submit") => PrintAsExpected)'
     /\ (Shut("start") => StillFingerprint)'
     /\ (Shut("start") => SeenAsPrinted)'
     /\ (Shut("submit") /\ Shut("start") => InputAsSelected)'
     /\ (Shut("swap") => StillSame)'
  BY DEF IInv, DiskKnown, OneAtATime, RowDescribesFile, SelectionFits,
      InputSeen, TempAtWork, PrintAsExpected, StillFingerprint, SeenAsPrinted,
      InputAsSelected, StillSame, ScanProbe, Idle, fileVars, jobVars, NotThere,
      Locked, StillHas, Real, StillIs, Shut
<1> QED
  BY <1>1, <1>2, <1>3 DEF IInv

(* What is stored fits the file if the stat does, and no request is between*)
(* its check and its INSERT.                                               *)
LEMMA ScanStorePreserves ==
  ASSUME IInv, NEW s \in Scans, ScanStore(s)
  PROVE  IInv'
<1>1. TypeOK'
  BY ConstantsAssumption DEF IInv, TypeOK, ScanStore, Idle, StatBefore, fileVars,
      jobVars, Scans, Stamps, File, JobStates, ScanKnown, DiskKnown, Real
<1>2. DiskKnown'
  BY DEF IInv, TypeOK, DiskKnown, ScanStore, Idle, StatBefore, fileVars, jobVars,
      ScanKnown, Real, NoRow, Scans
<1>3. RowDescribesFile'
  BY DEF IInv, TypeOK, RowDescribesFile, ScanStore, Idle, StatBefore, fileVars,
      jobVars, ScanKnown, StillHas, Scans
<1>4. ScanKnown'
  BY DEF IInv, TypeOK, ScanKnown, ScanStore, Idle, StatBefore, fileVars, jobVars,
      StillHas, Real, Scans
<1>5. (Shut("submit") => PrintAsExpected)'
  BY DEF IInv, TypeOK, PrintAsExpected, ScanStore, Idle, StatBefore, fileVars,
      jobVars, Closed, At, Shut, Scans
<1>6. /\ OneAtATime'
     /\ SelectionFits'
     /\ InputSeen'
     /\ TempAtWork'
     /\ (Shut("start") => StillFingerprint)'
     /\ (Shut("start") => SeenAsPrinted)'
     /\ (Shut("submit") /\ Shut("start") => InputAsSelected)'
     /\ (Shut("swap") => StillSame)'
  BY DEF IInv, OneAtATime, SelectionFits, InputSeen, TempAtWork,
      StillFingerprint, SeenAsPrinted, InputAsSelected, StillSame, ScanStore, Idle,
      StatBefore, fileVars, jobVars, Locked, StillHas, Real, StillIs, Shut
<1> QED
  BY <1>1, <1>2, <1>3, <1>4, <1>5, <1>6 DEF IInv

(* A scan that gives up stores nothing.                                    *)
LEMMA ScanFailsPreserves ==
  ASSUME IInv, NEW s \in Scans, ScanFails(s)
  PROVE  IInv'
<1>1. TypeOK'
  BY ConstantsAssumption DEF IInv, TypeOK, ScanFails, Idle, fileVars, jobVars,
      Scans, Stamps, File, JobStates
<1>2. ScanKnown'
  BY DEF IInv, TypeOK, ScanKnown, ScanFails, Idle, fileVars, jobVars, StillHas,
      Real, Scans
<1>3. /\ DiskKnown'
     /\ OneAtATime'
     /\ RowDescribesFile'
     /\ SelectionFits'
     /\ InputSeen'
     /\ TempAtWork'
     /\ (Shut("submit") => PrintAsExpected)'
     /\ (Shut("start") => StillFingerprint)'
     /\ (Shut("start") => SeenAsPrinted)'
     /\ (Shut("submit") /\ Shut("start") => InputAsSelected)'
     /\ (Shut("swap") => StillSame)'
  BY DEF IInv, DiskKnown, OneAtATime, RowDescribesFile, SelectionFits,
      InputSeen, TempAtWork, PrintAsExpected, StillFingerprint, SeenAsPrinted,
      InputAsSelected, StillSame, ScanFails, Idle, fileVars, jobVars, Locked,
      StillHas, Real, StillIs, Shut
<1> QED
  BY <1>1, <1>2, <1>3 DEF IInv

(* A new file has a size or mtime and an identity no one has seen.         *)
LEMMA ReplacePreserves == ASSUME IInv, Replace PROVE IInv'
<1>1. TypeOK'
  BY ConstantsAssumption DEF IInv, TypeOK, Replace, Fresh, jobVars, scanVars,
      Scans, Stamps, File, JobStates, DiskKnown, Real, Gone
<1>2. DiskKnown'
  BY DEF IInv, TypeOK, DiskKnown, Replace, Fresh, jobVars, scanVars, Real,
      Gone, Scans
<1>3. RowDescribesFile'
  BY DEF IInv, TypeOK, RowDescribesFile, Replace, Fresh, jobVars, scanVars,
      DiskKnown, Real, Gone, NoRow, Scans
<1>4. ScanKnown'
  BY DEF IInv, TypeOK, ScanKnown, Replace, Fresh, jobVars, scanVars, StillHas,
      Real, Gone, DiskKnown, Scans
<1>5. SelectionFits'
  BY DEF IInv, TypeOK, SelectionFits, Replace, Fresh, jobVars, scanVars,
      StillHas, Real, Gone, DiskKnown, Scans
<1>6. InputSeen'
  BY DEF IInv, TypeOK, InputSeen, Replace, Fresh, jobVars, scanVars, StillIs,
      Real, Gone, DiskKnown, OneAtATime, Locked, Scans
<1>7. (Shut("start") => StillFingerprint)'
  BY DEF IInv, TypeOK, StillFingerprint, Replace, Fresh, jobVars, scanVars,
      StillHas, OneAtATime, Locked, Closed, At, Shut, Scans
<1>8. (Shut("start") => SeenAsPrinted)'
  BY DEF IInv, TypeOK, SeenAsPrinted, Replace, Fresh, jobVars, scanVars,
      StillIs, InputSeen, OneAtATime, Locked, Real, DiskKnown, Shut, Scans
<1>9. (Shut("submit") /\ Shut("start") => InputAsSelected)'
  BY DEF IInv, TypeOK, InputAsSelected, Replace, Fresh, jobVars, scanVars,
      StillIs, InputSeen, OneAtATime, Locked, Real, DiskKnown, Shut, Scans
<1>10. (Shut("swap") => StillSame)'
  BY DEF IInv, TypeOK, StillSame, Replace, Fresh, jobVars, scanVars, StillIs,
      OneAtATime, Locked, Closed, At, Shut, Scans
<1>11. /\ OneAtATime'
     /\ TempAtWork'
     /\ (Shut("submit") => PrintAsExpected)'
  BY DEF IInv, OneAtATime, TempAtWork, PrintAsExpected, Replace, Fresh,
      jobVars, scanVars, Locked, Shut
<1> QED
  BY <1>1, <1>2, <1>3, <1>4, <1>5, <1>6, <1>7, <1>8, <1>9, <1>10, <1>11
  DEF IInv

(* A file that is gone fits nothing, and nothing is known of it.           *)
LEMMA RemovePreserves == ASSUME IInv, Remove PROVE IInv'
<1>1. TypeOK'
  BY ConstantsAssumption DEF IInv, TypeOK, Remove, jobVars, scanVars, Scans,
      Stamps, File, JobStates, DiskKnown, Real, Gone
<1>2. DiskKnown'
  BY DEF IInv, TypeOK, DiskKnown, Remove, jobVars, scanVars, Real, Scans
<1>3. RowDescribesFile'
  BY DEF IInv, TypeOK, RowDescribesFile, Remove, jobVars, scanVars, Scans
<1>4. ScanKnown'
  BY DEF IInv, TypeOK, ScanKnown, Remove, jobVars, scanVars, StillHas, Real,
      Scans
<1>5. SelectionFits'
  BY DEF IInv, TypeOK, SelectionFits, Remove, jobVars, scanVars, StillHas,
      Real, Scans
<1>6. InputSeen'
  BY DEF IInv, TypeOK, InputSeen, Remove, jobVars, scanVars, StillIs, Real,
      Scans
<1>7. (Shut("start") => StillFingerprint)'
  BY DEF IInv, TypeOK, StillFingerprint, Remove, jobVars, scanVars, StillHas,
      Closed, At, Shut, Scans
<1>8. (Shut("start") => SeenAsPrinted)'
  BY DEF IInv, TypeOK, SeenAsPrinted, Remove, jobVars, scanVars, StillIs, Shut,
      Scans
<1>9. (Shut("submit") /\ Shut("start") => InputAsSelected)'
  BY DEF IInv, TypeOK, InputAsSelected, Remove, jobVars, scanVars, StillIs,
      Shut, Scans
<1>10. (Shut("swap") => StillSame)'
  BY DEF IInv, TypeOK, StillSame, Remove, jobVars, scanVars, StillIs, Closed,
      At, Shut, Scans
<1>11. /\ OneAtATime'
     /\ TempAtWork'
     /\ (Shut("submit") => PrintAsExpected)'
  BY DEF IInv, OneAtATime, TempAtWork, PrintAsExpected, Remove, jobVars,
      scanVars, Locked, Shut
<1> QED
  BY <1>1, <1>2, <1>3, <1>4, <1>5, <1>6, <1>7, <1>8, <1>9, <1>10, <1>11
  DEF IInv

(* Nobody is at work after a crash.                                        *)
LEMMA CrashPreserves == ASSUME IInv, Crash PROVE IInv'
<1>1. TypeOK'
  BY ConstantsAssumption DEF IInv, TypeOK, Gone, Crash, Locked, fileVars, jobVars,
      Scans, Stamps, File, JobStates
<1>2. OneAtATime'
  BY DEF IInv, TypeOK, OneAtATime, Crash, Locked, fileVars, jobVars, Scans
<1>3. ScanKnown'
  BY DEF IInv, TypeOK, ScanKnown, Crash, Locked, fileVars, jobVars, StillHas,
      Real, Scans
<1>4. SelectionFits'
  BY DEF IInv, TypeOK, SelectionFits, Crash, Locked, fileVars, jobVars,
      StillHas, Real, Scans
<1>5. InputSeen'
  BY DEF IInv, TypeOK, InputSeen, Crash, Locked, fileVars, jobVars, StillIs,
      Real, Scans
<1>6. TempAtWork'
  BY DEF IInv, TypeOK, TempAtWork, Crash, Locked, fileVars, jobVars, Scans
<1>7. (Shut("submit") => PrintAsExpected)'
  BY DEF IInv, TypeOK, PrintAsExpected, Crash, Locked, fileVars, jobVars,
      Shut, Scans
<1>8. (Shut("start") => StillFingerprint)'
  BY DEF IInv, TypeOK, StillFingerprint, Crash, Locked, fileVars, jobVars,
      StillHas, Shut, Scans
<1>9. (Shut("start") => SeenAsPrinted)'
  BY DEF IInv, TypeOK, SeenAsPrinted, Crash, Locked, fileVars, jobVars,
      StillIs, Shut, Scans
<1>10. (Shut("submit") /\ Shut("start") => InputAsSelected)'
  BY DEF IInv, TypeOK, InputAsSelected, Crash, Locked, fileVars, jobVars,
      StillIs, Shut, Scans
<1>11. (Shut("swap") => StillSame)'
  BY DEF IInv, TypeOK, StillSame, Crash, Locked, fileVars, jobVars, StillIs,
      Shut, Scans
<1>12. /\ DiskKnown'
     /\ RowDescribesFile'
  BY DEF IInv, DiskKnown, RowDescribesFile, Crash, Locked, fileVars, jobVars,
      Real
<1> QED
  BY <1>1, <1>2, <1>3, <1>4, <1>5, <1>6, <1>7, <1>8, <1>9, <1>10, <1>11, <1>12
  DEF IInv

-----------------------------------------------------------------------------

(* Nothing is known at the start but the file.                             *)
LEMMA InitHolds == ASSUME Init PROVE IInv
<1>1. TypeOK
  BY ConstantsAssumption
  DEF Init, TypeOK, Fresh, Gone, NoRow, File, Stamps, JobStates, Scans
<1>2. DiskKnown /\ RowDescribesFile /\ TempAtWork /\ OneAtATime
  BY DEF Init, DiskKnown, RowDescribesFile, TempAtWork, OneAtATime, Real,
      Fresh, NoRow, Locked
<1>3. ScanKnown /\ SelectionFits /\ InputSeen
  BY DEF Init, ScanKnown, SelectionFits, InputSeen, Scans
<1>4. /\ PrintAsExpected /\ StillFingerprint /\ SeenAsPrinted
      /\ InputAsSelected /\ StillSame
  BY DEF Init, PrintAsExpected, StillFingerprint, SeenAsPrinted,
      InputAsSelected, StillSame
<1> QED
  BY <1>1, <1>2, <1>3, <1>4 DEF IInv

(* Every step keeps the invariant.                                         *)
LEMMA NextPreserves == ASSUME IInv, [Next]_vars PROVE IInv'
<1>1. CASE UNCHANGED vars
  BY <1>1
  DEF vars, fileVars, jobVars, scanVars, IInv, TypeOK, DiskKnown, OneAtATime,
      RowDescribesFile, ScanKnown, SelectionFits, InputSeen, TempAtWork,
      PrintAsExpected, StillFingerprint, SeenAsPrinted, InputAsSelected,
      StillSame, Shut, Real,
      StillHas, StillIs
<1>2. ASSUME NEW j \in Jobs, Submit(j) \/ Begin(j) PROVE IInv'
  BY <1>2, LoadPreserves, CheckExpectedPreserves, CreateJobPreserves,
     RetryPreserves, BeginPreserves DEF Submit
<1>3. ASSUME NEW j \in Jobs, Run(j) PROVE IInv'
  BY <1>3, CheckFingerprintPreserves, StatPreserves, ProbePreserves,
     RunToolPreserves, ToolFailsPreserves, VerifyPreserves, ComparePreserves,
     RenamePreserves, RenameFailsPreserves, ProbeEditPreserves,
     StatEditPreserves, EditInPlacePreserves, EditFailsPreserves,
     FinishPreserves DEF Run
<1>4. ASSUME NEW s \in Scans, ScanStep(s) \/ ScanFails(s) \/ Find(s)
      PROVE  IInv'
  BY <1>4, ScanStatPreserves, ScanProbePreserves, ScanStorePreserves,
     ScanFailsPreserves, FindPreserves DEF ScanStep
<1> QED
  BY <1>1, <1>2, <1>3, <1>4, ReplacePreserves, RemovePreserves, CrashPreserves
  DEF Next

(* Only the rename and the edit move a job to the refresh.                 *)
LEMMA WriteSteps ==
  ASSUME IInv, Next, NEW j \in Jobs, Writes(j)
  PROVE  Rename(j) \/ EditInPlace(j)
<1> USE DEF IInv, TypeOK, Writes, Goto, Leave, Fail
<1>1. \A i \in Jobs : Submit(i) \/ Begin(i) => FALSE
  BY DEF Submit, Load, CheckExpected, CreateJob, Retry, Begin
<1>2. ~Replace /\ ~Remove /\ ~Crash
  BY DEF Replace, Remove, Crash, Locked
<1>3. \A s \in Scans : ~ScanStep(s) /\ ~ScanFails(s) /\ ~Find(s)
  BY DEF ScanStep, ScanStat, ScanProbe, ScanStore, ScanFails, Find
<1>4. PICK i \in Jobs : Run(i)
  BY <1>1, <1>2, <1>3 DEF Next
<1> QED
  BY <1>4
  DEF Run, CheckFingerprint, Stat, Probe, RunTool, ToolFails, Verify, Compare,
      Rename, RenameFails, ProbeEdit, StatEdit, EditInPlace, EditFails, Finish,
      FirstLook

(* Where a job writes, the file still has the fingerprint of the job.      *)
LEMMA WritesAsPrinted ==
  ASSUME IInv, Next, Shut("start"), Shut("swap"), NEW j \in Jobs, Writes(j)
  PROVE  disk # Gone /\ disk.sig = print[j]
<1>1. CASE Rename(j)
  BY <1>1 DEF IInv, Rename, SeenAsPrinted, StillSame, StillIs
<1>2. CASE EditInPlace(j)
  BY <1>2 DEF IInv, EditInPlace, StillFingerprint, StillHas
<1> QED
  BY <1>1, <1>2, WriteSteps

(* An edit needs nothing of the swap: it follows its check at once.        *)
LEMMA EditsAsPrinted ==
  ASSUME IInv, Next, Shut("start"), NEW j \in Jobs, Writes(j), kind[j] = "edit"
  PROVE  disk # Gone /\ disk.sig = print[j]
<1>1. ~Rename(j)
  BY DEF IInv, InputSeen, Rename
<1>2. EditInPlace(j)
  BY <1>1, WriteSteps
<1> QED
  BY <1>2 DEF IInv, EditInPlace, StillFingerprint, StillHas

(* The fingerprint of a job at work is that of the request, and a file     *)
(* with the fingerprint of the request has the tracks of the selection.    *)
LEMMA PrintTellsTracks ==
  ASSUME IInv, Next, Shut("submit"), NEW j \in Jobs, Writes(j),
         disk # Gone, disk.sig = print[j]
  PROVE  disk.layout = sel[j]
<1>1. pc[j] \in {"rename", "edit"}
  BY DEF Writes
<1> QED
  BY <1>1 DEF IInv, PrintAsExpected, SelectionFits, StillHas

(* So with all windows closed a job writes where its tracks are right.       *)
LEMMA WritesRightTracks ==
  ASSUME IInv, Next, Windows = {}, NEW j \in Jobs, Writes(j)
  PROVE  disk.layout = sel[j]
<1>1. Shut("submit") /\ Shut("start") /\ Shut("swap")
  BY DEF Shut
<1>2. disk # Gone /\ disk.sig = print[j]
  BY <1>1, WritesAsPrinted
<1> QED
  BY <1>1, <1>2, PrintTellsTracks

(* What a remux renames was made for its selection.                        *)
LEMMA OutputAsSelected ==
  ASSUME IInv, Next, Shut("submit"), Shut("start"), NEW j \in Jobs, Writes(j),
         kind[j] = "remux"
  PROVE  input[j].layout = sel[j]
<1>1. ~EditInPlace(j)
  BY DEF IInv, InputSeen, EditInPlace
<1>2. Rename(j)
  BY <1>1, WriteSteps
<1> QED
  BY <1>2 DEF IInv, Rename, InputSeen, InputAsSelected

(* The output of a remux was made from the file it replaces.               *)
LEMMA WritesOverInput ==
  ASSUME IInv, Next, Shut("swap"), NEW j \in Jobs, Writes(j), kind[j] = "remux"
  PROVE  input[j] = disk
<1>1. ~EditInPlace(j)
  BY DEF IInv, InputSeen, EditInPlace
<1>2. Rename(j)
  BY <1>1, WriteSteps
<1> QED
  BY <1>2 DEF IInv, Rename, InputSeen, StillSame

-----------------------------------------------------------------------------

(* IInv is inductive.                                                      *)
THEOREM Inductive == Spec => []IInv
<1>1. Init => IInv
  BY InitHolds
<1>2. IInv /\ [Next]_vars => IInv'
  BY NextPreserves
<1> QED
  BY <1>1, <1>2, PTL DEF Spec

(* The variables keep their types.                                         *)
THEOREM TypeCorrect == Spec => []TypeOK
<1>1. IInv => TypeOK
  BY DEF IInv
<1> QED
  BY <1>1, Inductive, PTL

(* A row with the size and mtime of the file lists its streams, whichever  *)
(* windows are open (scanOne).                                             *)
THEOREM CatalogSound == Spec => []RowDescribesFile
<1>1. IInv => RowDescribesFile
  BY DEF IInv
<1> QED
  BY <1>1, Inductive, PTL

(* Jobs on one file run one at a time (execute under Runner.locks).        *)
THEOREM JobsTakeTurns == Spec => []OneAtATime
<1>1. IInv => OneAtATime
  BY DEF IInv
<1> QED
  BY <1>1, Inductive, PTL

(* Without a crash no temp file outlives its job (RemoveTracks).           *)
THEOREM TempRemoved == Spec => []NoTempLeft
<1>1. IInv => NoTempLeft
  BY DEF IInv, TempAtWork, NoTempLeft, Locked
<1> QED
  BY <1>1, Inductive, PTL

(* A job changes the file only while it has the size and mtime that were   *)
(* recorded when the job was queued, whatever happened between the check   *)
(* of the request and the INSERT.                                          *)
PrintRespected == [][\A j \in Jobs : Writes(j) => disk.sig = print[j]]_vars

(* The fingerprint is respected if the file is left alone between its      *)
(* check and the first look of the engine, and before the rename.          *)
THEOREM PrintIsRespected ==
  Spec /\ "start" \notin Windows /\ "swap" \notin Windows => PrintRespected
<1> DEFINE Calm == "start" \notin Windows /\ "swap" \notin Windows
<1>1. IInv /\ Calm /\ [Next]_vars
        => [\A j \in Jobs : Writes(j) => disk.sig = print[j]]_vars
  BY WritesAsPrinted DEF Shut
<1>2. Calm => Calm'
  OBVIOUS
<1> QED
  BY <1>1, <1>2, Inductive, PTL DEF Spec, PrintRespected

(* With the windows closed no job ever changes a file whose streams are    *)
(* not those its tracks were selected among: the fingerprint and the       *)
(* comparison before the rename are enough for every interleaving of jobs, *)
(* retries, scans, replacements and crashes outside the windows.           *)
THEOREM TracksAreRight == Spec /\ Windows = {} => RightTracks
<1>1. IInv /\ Windows = {} /\ [Next]_vars
        => [\A j \in Jobs : Writes(j) => disk.layout = sel[j]]_vars
  BY WritesRightTracks
<1>2. Windows = {} => (Windows = {})'
  OBVIOUS
<1> QED
  BY <1>1, <1>2, Inductive, PTL DEF Spec, RightTracks

(* An edit changes the file only while it has the streams among which its  *)
(* tracks were selected (EditMetadata, which compares nothing again).      *)
EditsFit ==
  [][\A j \in Jobs :
       Writes(j) /\ kind[j] = "edit" => disk.layout = sel[j]]_vars

(* An edit is right whatever happens in the swaps of the other jobs.       *)
THEOREM EditsAreRight ==
  Spec /\ "submit" \notin Windows /\ "start" \notin Windows => EditsFit
<1> DEFINE Calm == "submit" \notin Windows /\ "start" \notin Windows
<1>1. IInv /\ Calm /\ [Next]_vars
        => [\A j \in Jobs :
              Writes(j) /\ kind[j] = "edit" => disk.layout = sel[j]]_vars
  BY EditsAsPrinted, PrintTellsTracks DEF Shut
<1>2. Calm => Calm'
  OBVIOUS
<1> QED
  BY <1>1, <1>2, Inductive, PTL DEF Spec, EditsFit

(* A remux puts in place only what was made from a file with the streams   *)
(* its tracks were selected among; that it is whole is verify's part.      *)
OutputFits ==
  [][\A j \in Jobs : Writes(j) /\ kind[j] = "remux" =>
       input[j].layout = sel[j]]_vars

(* The swap window costs a replacement that comes in it, and never the     *)
(* tracks: what was compared and verified before it is what is renamed.    *)
THEOREM OutputsAreRight ==
  Spec /\ "submit" \notin Windows /\ "start" \notin Windows => OutputFits
<1> DEFINE Calm == "submit" \notin Windows /\ "start" \notin Windows
<1>1. IInv /\ Calm /\ [Next]_vars
        => [\A j \in Jobs : Writes(j) /\ kind[j] = "remux" =>
              input[j].layout = sel[j]]_vars
  BY OutputAsSelected DEF Shut
<1>2. Calm => Calm'
  OBVIOUS
<1> QED
  BY <1>1, <1>2, Inductive, PTL DEF Spec, OutputFits

(* Closing the last window alone is enough for a remux never to replace a  *)
(* file that is not the one it read (replaceOriginal).                     *)
THEOREM ReplacementKept == Spec /\ "swap" \notin Windows => NoLostReplacement
<1>1. IInv /\ "swap" \notin Windows /\ [Next]_vars
        => [\A j \in Jobs : Writes(j) /\ kind[j] = "remux" =>
              input[j] = disk]_vars
  BY WritesOverInput DEF Shut
<1>2. "swap" \notin Windows => ("swap" \notin Windows)'
  OBVIOUS
<1> QED
  BY <1>1, <1>2, Inductive, PTL DEF Spec, NoLostReplacement

-----------------------------------------------------------------------------
(* The per-file lock.                                                      *)

Turn == INSTANCE PathLock WITH
          Threads <- Jobs,
          Keys    <- {"file"},
          waiting <- [k \in {"file"} |-> {j \in Jobs : pc[j] = "queued"}],
          holders <- [k \in {"file"} |-> {lock} \ {NoJob}]

(* The jobs of a file ask for its lock, get it and let go of it only as    *)
(* PathLock allows, which is what KeyedMutex implements: one that fails or *)
(* is retried does not keep it, ask twice or enter without it (execute).   *)
TakesTurns == Turn!Spec

\* The lock is held by a job that is at work.
LockHeld == lock # NoJob => pc[lock] \in Locked

\* What a step does to the lock: nothing, or one of the following.
Quiet ==
  /\ lock' = lock
  /\ \A i \in Jobs : /\ pc'[i] = "queued" <=> pc[i] = "queued"
                     /\ pc[i] \in Locked => pc'[i] \in Locked

Others(j) == \A i \in Jobs \ {j} : pc'[i] = pc[i]

Asks(j) ==
  /\ pc[j] \notin Locked /\ pc[j] # "queued" /\ pc'[j] = "queued" /\ Others(j)
  /\ lock' = lock
Gets(j) ==
  /\ pc[j] = "queued" /\ pc'[j] \in Locked \ {"queued"} /\ Others(j)
  /\ lock = NoJob /\ lock' = j
Quits(j) ==
  /\ pc[j] \in Locked \ {"queued"} /\ pc'[j] \notin Locked \cup {"queued"}
  /\ Others(j) /\ lock' = NoJob
Dies ==
  /\ \A i \in Jobs : pc'[i] = "queued" <=> pc[i] = "queued"
  /\ lock' = NoJob

LEMMA LockSteps ==
  ASSUME IInv, [Next]_vars
  PROVE  Quiet \/ Dies \/ \E j \in Jobs : Asks(j) \/ Gets(j) \/ Quits(j)
<1> USE DEF IInv, TypeOK, Goto, Locked, Others
<1>1. CASE UNCHANGED vars
  BY <1>1 DEF vars, Quiet
<1>2. ASSUME NEW j \in Jobs, Submit(j) PROVE Quiet \/ Asks(j)
  BY <1>2 DEF Submit, Load, CheckExpected, CreateJob, Retry, Quiet, Asks
<1>3. ASSUME NEW j \in Jobs, Begin(j) PROVE Gets(j)
  BY <1>3 DEF Begin, PathFree, Gets
<1>4. ASSUME NEW j \in Jobs, pc[j] \in Locked, Fail(j) PROVE Quits(j)
  BY <1>4 DEF Fail, Leave, Quits
<1>5. ASSUME NEW j \in Jobs, Run(j), ~Fail(j) PROVE Quiet \/ Quits(j)
  <2>1. CASE Finish(j)
    BY <2>1 DEF Finish, Leave, Quits
  <2>2. CASE ~Finish(j)
    BY <1>5, <2>2
    DEF Run, CheckFingerprint, FirstLook, Stat, Probe, RunTool, ToolFails,
        Verify, Compare, Rename, RenameFails, ProbeEdit, StatEdit, EditInPlace,
        EditFails, Quiet
  <2> QED
    BY <2>1, <2>2
<1>6. ASSUME NEW j \in Jobs, Run(j) PROVE pc[j] \in Locked
  BY <1>6
  DEF Run, CheckFingerprint, Stat, Probe, RunTool, ToolFails, Verify, Compare,
      Rename, RenameFails, ProbeEdit, StatEdit, EditInPlace, EditFails, Finish
<1>7. ASSUME NEW s \in Scans, ScanStep(s) \/ ScanFails(s) \/ Find(s)
      PROVE  Quiet
  BY <1>7
  DEF ScanStep, ScanStat, ScanProbe, ScanStore, ScanFails, Find, Quiet
<1>8. CASE Replace \/ Remove
  BY <1>8 DEF Replace, Remove, Quiet
<1>9. CASE Crash
  BY <1>9 DEF Crash, Dies
<1> QED
  BY <1>1, <1>2, <1>3, <1>4, <1>5, <1>6, <1>7, <1>8, <1>9 DEF Next

LEMMA LockHeldStays ==
  ASSUME IInv, LockHeld, [Next]_vars
  PROVE  LockHeld'
<1>1. lock \in Jobs \cup {NoJob} /\ NoJob \notin Jobs
  BY ConstantsAssumption DEF IInv, TypeOK
<1> QED
  BY <1>1, LockSteps DEF LockHeld, Quiet, Dies, Asks, Gets, Quits, Others

LEMMA TurnSteps ==
  ASSUME IInv, LockHeld, [Next]_vars
  PROVE  [Turn!Next]_(Turn!lock)
<1> DEFINE Waiting == {j \in Jobs : pc[j] = "queued"}
           Holding == {lock} \ {NoJob}
<1>1. lock \in Jobs \cup {NoJob} /\ NoJob \notin Jobs
  BY ConstantsAssumption DEF IInv, TypeOK
<1>2. CASE Quiet
  <2>1. Waiting' = Waiting /\ Holding' = Holding
    BY <1>2 DEF Quiet
  <2> QED
    BY <2>1 DEF Turn!lock
<1>3. ASSUME NEW j \in Jobs, Asks(j) PROVE Turn!Ask(j, "file")
  <2>1. j \notin Waiting /\ j \notin Holding
    BY <1>1, <1>3 DEF Asks, LockHeld
  <2>2. Waiting' = Waiting \cup {j} /\ Holding' = Holding
    BY <1>3 DEF Asks, Others
  <2> QED
    BY <2>1, <2>2 DEF Turn!Ask, Turn!Uninvolved
<1>4. ASSUME NEW j \in Jobs, Gets(j) PROVE Turn!Grant(j, "file")
  <2>1. j \in Waiting /\ Holding = {}
    BY <1>4 DEF Gets
  <2>2. Waiting' = Waiting \ {j} /\ Holding' = {j}
    BY <1>1, <1>4 DEF Gets, Others, Locked
  <2> QED
    BY <2>1, <2>2 DEF Turn!Grant
<1>5. ASSUME NEW j \in Jobs, j = lock, Waiting' = Waiting, lock' = NoJob
      PROVE  Turn!Release(j, "file")
  <2>1. j \in Holding /\ Holding' = Holding \ {j}
    BY <1>1, <1>5
  <2> QED
    BY <1>5, <2>1 DEF Turn!Release
<1>6. ASSUME NEW j \in Jobs, Quits(j) PROVE Turn!Release(j, "file")
  <2>1. lock = j
    BY <1>6 DEF Quits, IInv, OneAtATime
  <2>2. Waiting' = Waiting /\ lock' = NoJob
    BY <1>6 DEF Quits, Others
  <2> QED
    BY <1>5, <2>1, <2>2
<1>7. CASE Dies
  <2>1. Waiting' = Waiting /\ lock' = NoJob
    BY <1>7 DEF Dies
  <2>2. CASE lock = NoJob
    <3>1. Holding' = Holding
      BY <2>1, <2>2
    <3> QED
      BY <2>1, <3>1 DEF Turn!lock
  <2>3. CASE lock # NoJob
    BY <1>1, <1>5, <2>1, <2>3 DEF Turn!Next
  <2> QED
    BY <2>2, <2>3
<1> QED
  BY <1>2, <1>3, <1>4, <1>6, <1>7, LockSteps DEF Turn!Next

LEMMA TurnStart == ASSUME Init PROVE LockHeld /\ Turn!Init
<1>1. {j \in Jobs : pc[j] = "queued"} = {} /\ lock = NoJob
  BY DEF Init
<1> QED
  BY <1>1 DEF LockHeld, Turn!Init

(* Every behaviour of the jobs on a file is one of PathLock, over crashes  *)
(* and retries; with LockImplemented the lock they need is the one they    *)
(* have.                                                                   *)
THEOREM LockUsedAsMeant == Spec => TakesTurns
<1>1. Init => LockHeld /\ Turn!Init
  BY TurnStart
<1>2. IInv /\ LockHeld /\ [Next]_vars => LockHeld' /\ [Turn!Next]_(Turn!lock)
  BY LockHeldStays, TurnSteps
<1> QED
  BY <1>1, <1>2, Inductive, PTL DEF Spec, TakesTurns, Turn!Spec
=============================================================================
