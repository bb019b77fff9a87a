------------------------------ MODULE Sidecars ------------------------------
(***************************************************************************)
(* Sidecar subtitles: which video they go to (internal/scan), their rows   *)
(* (internal/store), the requests that select one and the delete_sidecar   *)
(* job (internal/api/server.go, internal/jobs/runner.go), which moves the  *)
(* file to the recycle directory (internal/engine/engine.go).              *)
(*                                                                         *)
(* Rows of sidecars get the largest id of the table plus one, so ids come  *)
(* back.  A video that is scanned again keeps the id of its row: reuse of  *)
(* ids of media_files is the matter of LibraryScan, and so are the scans   *)
(* as a whole; here a scan is its visit of one video (scanOne).            *)
(***************************************************************************)
EXTENDS Integers, FiniteSets

CONSTANTS
  Videos,     \* videos of one directory
  Paths,      \* the sidecar files that may lie beside them
  Order,      \* Order[p]: the place of p's name among theirs
  Fits,       \* Fits[p]: the videos whose name p starts with (MatchSidecar)
  Longer,     \* Longer[v]: the videos whose name goes on where that of v ends
  Label,      \* Label[p]: what of p goes into the summary (sidecarLabel)
  Stem,       \* Stem[p]: the name of p, cut to 200 bytes, in the recycle directory
  NoVideo,    \* no video, or a job whose video has lost its row
  NoPath, NoJob,
  Scans,      \* library scans at work
  Jobs,       \* requests for the deletion of a sidecar, and their jobs
  Keep,       \* recycle-days, 0 when nothing is purged
  Rewriting,  \* whether a sidecar may be rewritten while it is copied
  MaxId,      \* bound: ids of sidecars
  MaxBody,    \* bound: sidecar files made
  MaxTime,    \* bound: the clock
  MaxEvents   \* bound: changes of videos and of their rows, failed calls, crashes

Labels == {Label[p] : p \in Paths}
Stems  == {Stem[p] : p \in Paths}
Ids    == 1..MaxId
Bodies == 1..MaxBody
Times  == 0..MaxTime

ASSUME ConstantsAssumption ==
  /\ IsFiniteSet(Paths)
  /\ Order \in [Paths -> Nat] /\ \A p, q \in Paths : Order[p] = Order[q] => p = q
  /\ Fits \in [Paths -> SUBSET Videos] /\ Longer \in [Videos -> SUBSET Videos]
  /\ NoVideo \notin Videos /\ NoPath \notin Paths
  /\ NoJob \notin Jobs /\ Scans \cap Jobs = {}
  /\ Keep \in Nat
  /\ Rewriting \in BOOLEAN
  /\ MaxId \in Nat /\ MaxBody \in Nat /\ MaxTime \in Nat
  /\ MaxEvents \in Nat

VARIABLES
  videos,     \* the videos that are there
  body,       \* the content of each sidecar file, 0 when there is none
  made,       \* contents made so far
  summary,    \* sidecar_summary of each video's row, NoRow without a row
  rows,       \* the rows of sidecars: id and media_file_id for each path
  scan,       \* each visit of a video by a library scan or after a job
  job,        \* each request and the job it becomes
  mu,         \* the holder of recycleMu
  recycling,  \* whether RecycleDir is set
  bin,        \* the recycle directory
  now,        \* the clock
  took,       \* history: the stamp under which each content was recycled, or NotTaken
  events

media == <<videos, summary>>
disk  == <<body, made>>
trash == <<mu, bin, took>>
vars  == <<media, disk, rows, scan, job, trash, recycling, now, events>>

(* The labels of a set of sidecars, sorted and joined: a bag of labels.    *)
Summary(list) == [l \in Labels |-> Cardinality({p \in list : Label[p] = l})]
NoRow    == [l \in Labels |-> -1]
NoSide   == [id |-> 0, owner |-> NoVideo]
NotTaken == -1

Known(v)   == summary[v] # NoRow
RowsOf(v)  == {p \in Paths : rows[p].owner = v}

(* A visit: the video, the sidecars found for it and whether the row is    *)
(* written as a whole (UpsertMediaFile) or only touched.                   *)
Visit == [at : {"idle", "find", "look", "store", "replace"},
          video : Videos \cup {NoVideo}, list : SUBSET Paths, upsert : BOOLEAN]
NoVisit == [at |-> "idle", video |-> NoVideo, list |-> {}, upsert |-> FALSE]

(* A job: the row the client picked and its path then, media_file_id,      *)
(* payload.Path and dst; reuse is history: the id it names was given to    *)
(* another sidecar before the request ("seen") or after it ("queued").     *)
Stages == {"new", "picked", "queued", "wait", "move", "copy", "remove",
           "row", "refresh", "over"}
Entry  == [stamp : Times, stem : Stems, no : Nat]
Job == [at : Stages, id : Ids \cup {0}, picked : Paths \cup {NoPath},
        file : Videos \cup {NoVideo}, path : Paths \cup {NoPath}, stamp : Times, no : Nat,
        reuse : SUBSET {"seen", "queued"}]
NewJob == [at |-> "new", id |-> 0, picked |-> NoPath, file |-> NoVideo,
           path |-> NoPath, stamp |-> 0, no |-> 0, reuse |-> {}]

TypeOK ==
  /\ videos \subseteq Videos
  /\ body \in [Paths -> Bodies \cup {0}] /\ made \in Bodies \cup {0}
  /\ summary \in [Videos -> [Labels -> Nat \cup {-1}]]
  /\ rows \in [Paths -> [id : Ids, owner : Videos] \cup {NoSide}]
  /\ scan \in [Scans \cup Jobs -> Visit]
  /\ job \in [Jobs -> Job]
  /\ mu \in Jobs \cup {NoJob}
  /\ recycling \in BOOLEAN
  /\ bin \subseteq [file : Entry, part : BOOLEAN, body : Bodies]
  /\ now \in Times
  /\ took \in [Bodies -> Times \cup {NotTaken}]
  /\ events \in 0..MaxEvents

Init ==
  /\ videos = Videos
  /\ body = [p \in Paths |-> 0] /\ made = 0
  /\ summary = [v \in Videos |-> NoRow]
  /\ rows = [p \in Paths |-> NoSide]
  /\ scan = [s \in Scans \cup Jobs |-> NoVisit]
  /\ job = [j \in Jobs |-> NewJob]
  /\ mu = NoJob
  /\ recycling \in BOOLEAN
  /\ bin = {}
  /\ now = 0
  /\ took = [b \in Bodies |-> NotTaken]
  /\ events = 0

Event == events < MaxEvents /\ events' = events + 1

-----------------------------------------------------------------------------
(* Without Rewriting nobody steps in while a sidecar is copied and removed *)
(* (the programs that write sidecars are not this one).                    *)
Copying(p) == /\ ~Rewriting
              /\ \E j \in Jobs : job[j].at \in {"copy", "remove"} /\ job[j].path = p

(* The sidecars of v among the files that are there (MatchSidecar,         *)
(* ownedByLonger).                                                         *)
Owned(v) == {p \in Paths : /\ body[p] # 0
                           /\ v \in Fits[p]
                           /\ videos \cap Longer[v] \cap Fits[p] = {}}

\* Mutant: ids are counted from the largest, not from the next.
IsLargestId(n, table) == (\A p \in Paths : table[p].id <= n) /\ \E p \in Paths : table[p].id = n

(* An INTEGER PRIMARY KEY without AUTOINCREMENT.                           *)
IsNextId(n, table) == /\ \A p \in Paths : table[p].id < n
                      /\ n = 1 \/ \E p \in Paths : table[p].id = n - 1

Without(v) == [p \in Paths |-> IF rows[p].owner = v THEN NoSide ELSE rows[p]]

NamesBefore(p, set) == Cardinality({q \in set : Order[q] < Order[p]})

(* ReplaceSidecars, one transaction: the rows of v go; each sidecar that   *)
(* is left in the table goes over to v with its id (ON CONFLICT), the      *)
(* others get new ids from n on, in the order of their names.              *)
Replaced(v, list, n) ==
  LET kept  == Without(v)
      fresh == {p \in list : kept[p] = NoSide}
  IN  [p \in Paths |->
         IF p \in fresh THEN [id |-> n + NamesBefore(p, fresh), owner |-> v]
         ELSE IF p \in list THEN [id |-> kept[p].id, owner |-> v]
         ELSE kept[p]]

-----------------------------------------------------------------------------
(* A visit of one video: scanOne in a library scan, ScanFile after a job.  *)

Goto(s, at) == scan' = [scan EXCEPT ![s].at = at]
Leave(s)    == scan' = [scan EXCEPT ![s] = NoVisit]

(* The directory is read: at the walk, or when the rescan begins.          *)
Find(s) ==
  /\ \/ /\ s \in Scans /\ scan[s].at = "idle"
        /\ \E v \in videos :
             scan' = [scan EXCEPT ![s] = [NoVisit EXCEPT !.at = "look", !.video = v,
                                                         !.list = Owned(v)]]
     \/ /\ scan[s].at = "find"
        /\ IF scan[s].video \in videos
           THEN scan' = [scan EXCEPT ![s].at = "look", ![s].list = Owned(scan[s].video)]
           ELSE Leave(s)
  /\ UNCHANGED <<media, disk, rows, job, trash, recycling, now, events>>

SameSummary(s) == LET v == scan[s].video
                  IN  Known(v) /\ summary[v] = Summary(scan[s].list)

(* GetFileByPathMeta: a video that looks as it did, with the summary it    *)
(* had, is left alone; with another summary its row is touched.            *)
LookUp(s) ==
  /\ scan[s].at = "look"
  /\ IF SameSummary(s) THEN Leave(s)
     ELSE scan' = [scan EXCEPT ![s].at = "store", ![s].upsert = ~Known(scan[s].video)]
  /\ UNCHANGED <<media, disk, rows, job, trash, recycling, now, events>>

(* The video itself has changed, so that it is probed and stored anew.     *)
LookUpChanged(s) ==
  /\ scan[s].at = "look"
  /\ Event
  /\ Known(scan[s].video)
  /\ scan' = [scan EXCEPT ![s].at = "store", ![s].upsert = TRUE]
  /\ UNCHANGED <<media, disk, rows, job, trash, recycling, now>>

(* TouchFile changes no row that is not there, UpsertMediaFile makes it.   *)
StoreSummary(s) ==
  /\ scan[s].at = "store"
  /\ summary' = IF scan[s].upsert \/ Known(scan[s].video)
                THEN [summary EXCEPT ![scan[s].video] = Summary(scan[s].list)]
                ELSE summary
  /\ Goto(s, "replace")
  /\ UNCHANGED <<videos, disk, rows, job, trash, recycling, now, events>>

Named == {"queued", "wait", "move", "copy", "remove", "row"}

(* The id that a job names goes to another sidecar: of the same video      *)
(* while its client has not yet made the request, any other afterwards.    *)
Reuse(j, table) ==
  {r \in {"seen", "queued"} :
     \/ /\ r = "seen" /\ job[j].at = "picked"
        /\ \E q \in Paths \ {job[j].picked} :
             table[q] = [id |-> job[j].id, owner |-> job[j].file]
     \/ /\ r = "queued" /\ job[j].at \in Named
        /\ \E q \in Paths \ {job[j].path} : table[q].id = job[j].id}

(* Without the row of the video the foreign key forbids its sidecars.      *)
ReplaceSidecars(s) ==
  /\ scan[s].at = "replace"
  /\ IF Known(scan[s].video)
     THEN /\ \E n \in 0..MaxId + 1 : /\ IsNextId(n, Without(scan[s].video))
                                     /\ rows' = Replaced(scan[s].video, scan[s].list, n)
          /\ \A p \in Paths : rows'[p].id <= MaxId
          /\ job' = [j \in Jobs |-> [job[j] EXCEPT !.reuse = @ \cup Reuse(j, rows')]]
     ELSE UNCHANGED <<rows, job>>
  /\ Leave(s)
  /\ UNCHANGED <<media, disk, trash, recycling, now, events>>

(* A probe or a statement fails: the visit ends where it is.               *)
VisitFails(s) ==
  /\ scan[s].at # "idle"
  /\ Event
  /\ Leave(s)
  /\ UNCHANGED <<media, disk, rows, job, trash, recycling, now>>

-----------------------------------------------------------------------------
(* A request for the deletion of a sidecar, and its job.                   *)

To(j, at) == job' = [job EXCEPT ![j].at = at]
End(j)    == job' = [job EXCEPT ![j] = [NewJob EXCEPT !.at = "over"]]
ToRow(j)  == job' = [job EXCEPT ![j].at = "row", ![j].stamp = 0, ![j].no = 0]

(* The client sees the sidecars of a file, with the ids of their rows, and *)
(* picks one.                                                              *)
Pick(j) ==
  /\ job[j].at = "new"
  /\ \E p \in Paths :
       /\ rows[p] # NoSide
       /\ job' = [job EXCEPT ![j] = [NewJob EXCEPT !.at = "picked", !.picked = p,
                                       !.id = rows[p].id, !.file = rows[p].owner]]
  /\ UNCHANGED <<media, disk, rows, scan, trash, recycling, now, events>>

WithId(id) == {p \in Paths : rows[p].id = id}

(* GetSidecar and sc.FileID != d.ID.                                       *)
Requested(j) == {p \in WithId(job[j].id) : rows[p].owner = job[j].file}

(* enqueueForFile and CreateJob; a request for what is not there gets 400. *)
Submit(j) ==
  /\ job[j].at = "picked"
  /\ \/ \E p \in Requested(j) :
          /\ Known(job[j].file)
          /\ job' = [job EXCEPT ![j].at = "queued", ![j].path = p]
     \/ /\ Requested(j) = {} \/ ~Known(job[j].file)
        /\ job' = [job EXCEPT ![j] = NewJob]
  /\ UNCHANGED <<media, disk, rows, scan, trash, recycling, now, events>>

\* Mutant: the path is that of the row, read when the job begins.
RowPath(j) == IF WithId(job[j].id) = {} THEN job[j].path
              ELSE CHOOSE p \in WithId(job[j].id) : TRUE

PayloadPath(j) == job[j].path

(* A worker has the job; DeleteSidecar looks at the file.                  *)
StatSidecar(j) ==
  /\ job[j].at = "queued"
  /\ IF body[PayloadPath(j)] = 0 THEN End(j)
     ELSE job' = [job EXCEPT ![j].at = IF recycling THEN "wait" ELSE "remove",
                             ![j].path = PayloadPath(j)]
  /\ UNCHANGED <<media, disk, rows, scan, trash, recycling, now, events>>

\* Mutant: recycleMu is not taken.
Unguarded == TRUE

MutexFree == mu = NoJob

Whole(file) == \E e \in bin : e.file = file /\ ~e.part
FileOf(j)   == [stamp |-> job[j].stamp, stem |-> Stem[job[j].path], no |-> job[j].no]

(* recycleMu.Lock and uniqueDst: the first name with this stamp that no    *)
(* file in the directory has.                                              *)
ChooseDst(j) ==
  /\ job[j].at = "wait"
  /\ MutexFree
  /\ mu' = j
  /\ \E n \in 0..Cardinality(bin) :
       LET file(i) == [stamp |-> now, stem |-> Stem[job[j].path], no |-> i]
       IN  /\ ~Whole(file(n))
           /\ \A i \in 0..(n - 1) : Whole(file(i))
           /\ job' = [job EXCEPT ![j].at = "move", ![j].stamp = now, ![j].no = n]
  /\ UNCHANGED <<media, disk, rows, scan, bin, took, recycling, now, events>>

(* os.Rename and os.Create take the place of what has the name.            *)
Put(j, part, b) ==
  {e \in bin : ~(e.file = FileOf(j) /\ e.part = part)}
    \cup {[file |-> FileOf(j), part |-> part, body |-> b]}
WithoutPart(j) == {e \in bin : ~(e.file = FileOf(j) /\ e.part)}

Gone(j) == /\ body' = [body EXCEPT ![job[j].path] = 0]
           /\ took' = IF recycling /\ body[job[j].path] # 0
                      THEN [took EXCEPT ![body[job[j].path]] = job[j].stamp]
                      ELSE took
           /\ UNCHANGED made

(* os.Rename within a file system.                                         *)
MoveWithin(j) ==
  /\ job[j].at = "move"
  /\ body[job[j].path] # 0
  /\ bin' = Put(j, FALSE, body[job[j].path])
  /\ Gone(j)
  /\ mu' = NoJob
  /\ ToRow(j)
  /\ UNCHANGED <<media, rows, scan, recycling, now, events>>

(* Across file systems: the file is copied under a name of its own.        *)
OpenCopy(j) ==
  /\ job[j].at = "move"
  /\ body[job[j].path] # 0
  /\ bin' = Put(j, TRUE, body[job[j].path])
  /\ To(j, "copy")
  /\ UNCHANGED <<media, disk, rows, scan, mu, took, recycling, now, events>>

(* The file is gone, or the directory takes no more: what was copied goes. *)
MoveFails(j) ==
  /\ job[j].at \in {"move", "copy"}
  /\ \/ body[job[j].path] = 0 /\ UNCHANGED events
     \/ Event
  /\ bin' = WithoutPart(j)
  /\ mu' = NoJob
  /\ End(j)
  /\ UNCHANGED <<media, disk, rows, scan, took, recycling, now>>

(* The copy is complete and gets its name, unless a purge took it.         *)
CopyDone(j) ==
  /\ job[j].at = "copy"
  /\ LET parts == {e \in bin : e.file = FileOf(j) /\ e.part}
     IN  IF parts = {}
         THEN /\ mu' = NoJob /\ End(j) /\ UNCHANGED bin
         ELSE /\ \E e \in parts : bin' = Put(j, FALSE, e.body) \ parts
              /\ To(j, "remove") /\ UNCHANGED mu
  /\ UNCHANGED <<media, disk, rows, scan, took, recycling, now, events>>

Unlocked(j) == IF mu = j THEN NoJob ELSE mu

(* os.Remove of the source, or of the sidecar when nothing is recycled.    *)
RemoveSrc(j) ==
  /\ job[j].at = "remove"
  /\ body[job[j].path] # 0
  /\ Gone(j)
  /\ mu' = Unlocked(j)
  /\ ToRow(j)
  /\ UNCHANGED <<media, rows, scan, bin, recycling, now, events>>

RemoveFails(j) ==
  /\ job[j].at = "remove"
  /\ \/ body[job[j].path] = 0 /\ UNCHANGED events
     \/ Event
  /\ mu' = Unlocked(j)
  /\ End(j)
  /\ UNCHANGED <<media, disk, rows, scan, bin, took, recycling, now>>

(* DeleteSidecar of the store, by id; an error is only noted.  Then        *)
(* refreshFile, for a file that still has its row.                         *)
DeleteRow(j) ==
  /\ job[j].at = "row"
  /\ \/ /\ rows' = [p \in Paths |-> IF rows[p].id = job[j].id THEN NoSide ELSE rows[p]]
        /\ UNCHANGED events
     \/ Event /\ UNCHANGED rows
  /\ IF job[j].file = NoVideo
     THEN End(j) /\ UNCHANGED scan
     ELSE /\ job' = [job EXCEPT ![j] = [NewJob EXCEPT !.at = "refresh"]]
          /\ scan' = [scan EXCEPT ![j] = [NoVisit EXCEPT !.at = "find", !.video = job[j].file]]
  /\ UNCHANGED <<media, disk, trash, recycling, now>>

Finish(j) ==
  /\ job[j].at = "refresh"
  /\ scan[j].at = "idle"
  /\ End(j)
  /\ UNCHANGED <<media, disk, rows, scan, trash, recycling, now, events>>

-----------------------------------------------------------------------------
(* The recycle directory, the world around and crashes.                    *)

(* PurgeRecycle, which runs when recycle-days is not 0: partial copies have *)
(* a stamp like any other.                                                 *)
Purge ==
  /\ recycling /\ Keep > 0
  /\ \E e \in bin : e.file.stamp < now - Keep /\ bin' = bin \ {e}
  /\ UNCHANGED <<media, disk, rows, scan, job, mu, took, recycling, now, events>>

(* The time matters from the first name in the recycle directory on.       *)
Tick ==
  /\ now < MaxTime
  /\ bin # {} \/ mu # NoJob
  /\ now' = now + 1
  /\ UNCHANGED <<media, disk, rows, scan, job, trash, recycling, events>>

(* Bazarr, or anyone, writes a sidecar or puts another in its place.       *)
Write ==
  /\ made < MaxBody
  /\ made' = made + 1
  /\ \E p \in Paths : ~Copying(p) /\ body' = [body EXCEPT ![p] = made + 1]
  /\ UNCHANGED <<media, rows, scan, job, trash, recycling, now, events>>

VideoComesOrGoes ==
  /\ Event
  /\ \E v \in Videos : videos' = IF v \in videos THEN videos \ {v} ELSE videos \cup {v}
  /\ UNCHANGED <<summary, disk, rows, scan, job, trash, recycling, now>>

(* The row of a video is pruned, or goes with its library: its sidecars go *)
(* with it (ON DELETE CASCADE) and its jobs lose it (ON DELETE SET NULL).  *)
Forget ==
  /\ Event
  /\ \E v \in {w \in Videos : Known(w)} :
       /\ summary' = [summary EXCEPT ![v] = NoRow]
       /\ rows' = Without(v)
       /\ job' = [j \in Jobs |-> IF job[j].file = v /\ job[j].at # "picked"
                                 THEN [job[j] EXCEPT !.file = NoVideo] ELSE job[j]]
  /\ UNCHANGED <<videos, disk, scan, trash, recycling, now>>

(* The process dies; jobs at work are failed at the next start.            *)
Crash ==
  /\ Event
  /\ scan' = [s \in DOMAIN scan |-> NoVisit]
  /\ job' = [j \in Jobs |->
               IF job[j].at = "picked" THEN NewJob
               ELSE IF job[j].at \in {"wait", "move", "copy", "remove", "row", "refresh"}
               THEN [NewJob EXCEPT !.at = "over"]
               ELSE job[j]]
  /\ mu' = NoJob
  /\ UNCHANGED <<media, disk, rows, bin, took, recycling, now>>

-----------------------------------------------------------------------------

VisitStep(s) == \/ Find(s) \/ LookUp(s) \/ LookUpChanged(s) \/ StoreSummary(s)
                \/ ReplaceSidecars(s) \/ VisitFails(s)

JobStep(j) == \/ Pick(j) \/ Submit(j) \/ StatSidecar(j) \/ ChooseDst(j)
              \/ MoveWithin(j) \/ OpenCopy(j) \/ MoveFails(j) \/ CopyDone(j)
              \/ RemoveSrc(j) \/ RemoveFails(j) \/ DeleteRow(j) \/ Finish(j)

Next == \/ \E s \in Scans \cup Jobs : VisitStep(s)
        \/ \E j \in Jobs : JobStep(j)
        \/ Purge \/ Tick \/ Write \/ VideoComesOrGoes \/ Forget \/ Crash

Spec == Init /\ [][Next]_vars

-----------------------------------------------------------------------------
(* Properties.                                                             *)

(* What a job took from its place lies whole in the recycle directory for  *)
(* the full retention period, whatever other jobs, purges, failed copies   *)
(* and crashes come in between, as long as nobody rewrites a sidecar while *)
(* it is copied (moveFile, uniqueDst under recycleMu, PurgeRecycle).       *)
Recycled ==
  \A b \in Bodies : took[b] # NotTaken /\ now <= took[b] + Keep =>
                      \E e \in bin : e.body = b /\ ~e.part

(* A request names a sidecar by a row id, and ids are used again.  The job *)
(* takes the file that the client picked unless a rescan gave the id to    *)
(* another sidecar of the same video before the request (enqueueForFile    *)
(* compares the video alone), and the row it then deletes is that of the   *)
(* file it took unless the id was given away while it was queued or at     *)
(* work (runner.go deletes by id): no other order of rescans, deletions    *)
(* and requests, and no sidecar of another video, leads a job astray.      *)
RightSidecar ==
  \A j \in Jobs :
    /\ job[j].path \in {NoPath, job[j].picked} \/ "seen" \in job[j].reuse
    /\ job[j].at = "row" =>
         WithId(job[j].id) \subseteq {job[j].path} \/ "queued" \in job[j].reuse

(* The file that a job has taken away is the one that the client picked    *)
(* (README.md: "surgically remove unwanted audio tracks and subtitle       *)
(* streams (both embedded and sidecar files)").  It does not hold: between *)
(* the client's look and its request a rescan gives the id to another      *)
(* sidecar of the video.                                                   *)
PickedIsDeleted ==
  \A j \in Jobs : job[j].at = "row" => job[j].path = job[j].picked

Busy(v) == \/ \E s \in Scans \cup Jobs : scan[s].video = v
           \/ \E j \in Jobs : job[j].at \in {"row", "refresh"}

LeftAlone(s, v) == /\ scan'[s].at = "idle" /\ UNCHANGED events
                   /\ scan[s].list = Owned(v)
                   /\ ~Busy(v)'

(* A visit that leaves a video alone as unchanged, when nobody else is at  *)
(* work on it and its directory is as the visit saw it, finds the rows of  *)
(* its sidecars as they are in the directory (scanOne: "unchanged=true     *)
(* means the file's probe cache AND metadata (nlink, sidecars) all         *)
(* matched").  It does not hold: the summary is stored by one statement    *)
(* and the rows by another, and nothing makes up for a failure in between. *)
UnchangedMatches ==
  [][\A s \in Scans, v \in Videos :
       scan[s].at = "look" /\ scan[s].video = v /\ SameSummary(s) /\ LeftAlone(s, v)
         => RowsOf(v) = scan[s].list]_vars
=============================================================================
