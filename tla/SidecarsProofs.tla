--------------------------- MODULE SidecarsProofs ---------------------------
(***************************************************************************)
(* Proofs about Sidecars for any videos and sidecars, any number of scans  *)
(* and jobs and any bounds; what needs ~Rewriting says so.                 *)
(***************************************************************************)
EXTENDS Sidecars, FiniteSetTheorems, TLAPS

VisitsVideo == \A s \in Scans \cup Jobs : scan[s].at # "idle" => scan[s].video \in Videos

\* No two rows have an id in common.
IdsDiffer ==
  \A p, q \in Paths : rows[p].id = rows[q].id /\ rows[p].id # 0 => p = q

\* Until a rescan gives its id away, what the client picked is the only row
\* of its file with this id, and what the job names the only row with it.
FitsAt(j) ==
  /\ job[j].path \in {NoPath, job[j].picked} \/ "seen" \in job[j].reuse
  /\ job[j].at = "picked" =>
       /\ job[j].file \in Videos /\ job[j].id \in Ids
       /\ \/ "seen" \in job[j].reuse
          \/ \A p \in Paths :
               rows[p].id = job[j].id /\ rows[p].owner = job[j].file => p = job[j].picked
  /\ job[j].at \in Named =>
       /\ job[j].id \in Ids
       /\ \/ "queued" \in job[j].reuse
          \/ \A p \in Paths : rows[p].id = job[j].id => p = job[j].path
RequestFits == \A j \in Jobs : FitsAt(j)

\* A job that moves a sidecar has the mutex and a name that no file has.
HasMutex(j) == \/ job[j].at \in {"move", "copy"}
               \/ job[j].at = "remove" /\ recycling
MovingAt(j) ==
  /\ HasMutex(j) => mu = j
  /\ job[j].at \in {"wait", "move", "copy"} => recycling
  /\ job[j].at \in {"queued", "wait", "move", "copy", "remove", "row"} => job[j].path \in Paths
  /\ job[j].at \in {"move", "copy"} => ~Whole(FileOf(j))
Moving == \A j \in Jobs : MovingAt(j)

\* What is copied is still in its place; its copy is in the directory.
CopyFitsAt(j) ==
  /\ job[j].at = "copy" =>
       /\ body[job[j].path] # 0
       /\ \A e \in bin : e.file = FileOf(j) /\ e.part => e.body = body[job[j].path]
  /\ job[j].at = "remove" /\ recycling /\ body[job[j].path] # 0 /\ now <= job[j].stamp + Keep =>
       \E e \in bin : e.file = FileOf(j) /\ ~e.part /\ e.body = body[job[j].path]
CopyFits == \A j \in Jobs : CopyFitsAt(j)

\* What was taken is kept under the stamp with which it was taken.
Kept ==
  \A b \in Bodies : took[b] # NotTaken /\ now <= took[b] + Keep =>
    \E e \in bin : e.body = b /\ ~e.part /\ e.file.stamp = took[b]

IInv ==
  /\ TypeOK
  /\ VisitsVideo
  /\ IsFiniteSet(bin)
  /\ IdsDiffer
  /\ RequestFits
  /\ Moving
  /\ ~Rewriting => CopyFits /\ Kept

-----------------------------------------------------------------------------
(* The rows.                                                               *)

(* Sidecars of a set have different numbers of names before them.          *)
LEMMA NamesDiffer ==
  ASSUME NEW set \in SUBSET Paths, NEW p \in set, NEW q \in set,
         NamesBefore(p, set) = NamesBefore(q, set)
  PROVE  p = q
<1> DEFINE before(r) == {s \in set : Order[s] < Order[r]}
<1>1. Order \in [Paths -> Nat] /\ \A r, s \in Paths : Order[r] = Order[s] => r = s
  BY ConstantsAssumption
<1>2. IsFiniteSet(before(p)) /\ IsFiniteSet(before(q))
  BY ConstantsAssumption, FS_Subset
<1>3. ASSUME NEW r \in set, NEW s \in set, Order[r] < Order[s],
             Cardinality(before(r)) = Cardinality(before(s)), IsFiniteSet(before(s))
      PROVE  FALSE
  <2>1. before(r) \subseteq before(s)
    BY <1>1, <1>3
  <2>2. before(r) = before(s)
    BY <2>1, <1>3, FS_Subset
  <2>3. r \in before(s) /\ r \notin before(r)
    BY <1>1, <1>3
  <2> QED
    BY <2>2, <2>3
<1>4. ~(Order[p] < Order[q]) /\ ~(Order[q] < Order[p])
  BY <1>2, <1>3 DEF NamesBefore
<1> QED
  BY <1>1, <1>4

LEMMA NamesCounted ==
  ASSUME NEW set \in SUBSET Paths, NEW p \in Paths
  PROVE  NamesBefore(p, set) \in Nat
BY ConstantsAssumption, FS_Subset, FS_CardinalityType DEF NamesBefore

(* ReplaceSidecars gives the sidecars rows of v with ids of their own and  *)
(* gives no other video a row.                                             *)
LEMMA ReplacedRows ==
  ASSUME TypeOK, NEW v \in Videos, NEW list \in SUBSET Paths, NEW n \in Int,
         IsNextId(n, Without(v)),
         \A p \in Paths : Replaced(v, list, n)[p].id <= MaxId
  PROVE  /\ Replaced(v, list, n) \in [Paths -> [id : Ids, owner : Videos] \cup {NoSide}]
         /\ \A p \in Paths : LET r == Replaced(v, list, n)[p]
                            IN  r.owner # v => r = rows[p] \/ r = NoSide
         /\ IdsDiffer => \A p, q \in Paths :
              LET r == Replaced(v, list, n)
              IN  r[p].id = r[q].id /\ r[p].id # 0 => p = q
<1>a. PICK kept : kept = Without(v)
  OBVIOUS
<1>b. PICK fresh : fresh = {p \in list : kept[p] = NoSide}
  OBVIOUS
<1>c. PICK table : table = Replaced(v, list, n)
  OBVIOUS
<1>1. /\ rows \in [Paths -> [id : Ids, owner : Videos] \cup {NoSide}]
      /\ NoVideo \notin Videos /\ MaxId \in Nat /\ fresh \in SUBSET Paths
  BY <1>b, ConstantsAssumption DEF TypeOK
<1>2. \A p \in Paths : kept[p] = NoSide \/ (kept[p] = rows[p] /\ rows[p].owner # v)
  BY <1>a, <1>1 DEF Without
<1>3. \A p \in Paths : kept[p].id \in Nat
  BY <1>1, <1>2 DEF NoSide, Ids
<1>4. n >= 1 /\ \A p \in Paths : kept[p].id < n
  BY <1>a, <1>3 DEF IsNextId
<1>5. \A p \in Paths : NamesBefore(p, fresh) \in Nat
  BY <1>1, NamesCounted
<1>6. ASSUME NEW p \in Paths
      PROVE  /\ p \in fresh => table[p] = [id |-> n + NamesBefore(p, fresh), owner |-> v]
             /\ p \notin fresh /\ p \in list => table[p] = [id |-> kept[p].id, owner |-> v]
             /\ p \notin fresh /\ p \notin list => table[p] = kept[p]
  BY <1>a, <1>b, <1>c DEF Replaced
<1>7. \A p \in Paths : table[p].id <= MaxId
  BY <1>c
<1>8. ASSUME NEW p \in Paths
      PROVE  /\ table[p] \in [id : Ids, owner : Videos] \cup {NoSide}
             /\ table[p].owner # v => table[p] = rows[p] \/ table[p] = NoSide
             /\ p \in fresh => table[p].id = n + NamesBefore(p, fresh)
             /\ p \notin fresh => table[p].id = kept[p].id
  <2>1. CASE p \in fresh
    <3>1. table[p] = [id |-> n + NamesBefore(p, fresh), owner |-> v]
      BY <1>6, <2>1
    <3>2. NamesBefore(p, fresh) \in Nat /\ table[p].id <= MaxId
      BY <1>5, <1>7
    <3>3. n + NamesBefore(p, fresh) \in Ids
      BY <1>1, <1>4, <3>1, <3>2 DEF Ids
    <3> QED
      BY <2>1, <3>1, <3>3
  <2>2. CASE p \in list /\ p \notin fresh
    <3>1. kept[p] = rows[p] /\ rows[p] # NoSide
      BY <1>b, <1>2, <2>2
    <3>2. rows[p] \in [id : Ids, owner : Videos]
      BY <1>1, <3>1
    <3>3. table[p] = [id |-> kept[p].id, owner |-> v]
      BY <1>6, <2>2
    <3> QED
      BY <2>2, <3>1, <3>2, <3>3
  <2>3. CASE p \notin list /\ p \notin fresh
    <3>1. table[p] = kept[p]
      BY <1>6, <2>3
    <3> QED
      BY <1>1, <1>2, <2>3, <3>1
  <2> QED
    BY <2>1, <2>2, <2>3
<1>9. ASSUME IdsDiffer, NEW p \in Paths, NEW q \in Paths, table[p].id = table[q].id, table[p].id # 0
      PROVE  p = q
  <2>1. CASE p \in fresh /\ q \in fresh
    <3>1. NamesBefore(p, fresh) = NamesBefore(q, fresh)
      BY <1>4, <1>5, <1>8, <1>9, <2>1
    <3> QED
      BY <1>1, <2>1, <3>1, NamesDiffer
  <2>2. CASE (p \in fresh) # (q \in fresh)
    BY <1>3, <1>4, <1>5, <1>8, <1>9, <2>2
  <2>3. CASE p \notin fresh /\ q \notin fresh
    <3>1. kept[p].id = kept[q].id /\ kept[p].id # 0
      BY <1>8, <1>9, <2>3
    <3>2. kept[p] = rows[p] /\ kept[q] = rows[q]
      BY <1>2, <3>1 DEF NoSide
    <3> QED
      BY <1>9, <3>1, <3>2 DEF IdsDiffer
  <2> QED
    BY <2>1, <2>2, <2>3
<1>10. table \in [Paths -> [id : Ids, owner : Videos] \cup {NoSide}]
  <2>1. table = [p \in Paths |-> table[p]]
    BY <1>c DEF Replaced
  <2> QED
    BY <2>1, <1>8
<1> QED
  BY <1>c, <1>8, <1>9, <1>10

-----------------------------------------------------------------------------
(* Types.                                                                  *)

LEMMA InitHolds == ASSUME Init PROVE IInv
<1> USE ConstantsAssumption
<1>1. TypeOK
  BY DEF Init, TypeOK, NoRow, NoSide, NotTaken, Visit, NoVisit, Job, NewJob, Stages, Ids, Times
<1>2. IsFiniteSet(bin)
  BY FS_EmptySet DEF Init
<1>3. IdsDiffer /\ RequestFits /\ Moving /\ CopyFits
  BY DEF Init, IdsDiffer, RequestFits, FitsAt, Named, Moving, MovingAt, HasMutex, CopyFits,
         CopyFitsAt, NoSide, NewJob
<1>4. Kept /\ VisitsVideo
  BY DEF Init, Kept, VisitsVideo, NoVisit
<1> QED
  BY <1>1, <1>2, <1>3, <1>4 DEF IInv

LEMMA SummaryType ==
  ASSUME NEW list \in SUBSET Paths
  PROVE  Summary(list) \in [Labels -> Nat \cup {-1}]
<1>1. \A l \in Labels : Cardinality({p \in list : Label[p] = l}) \in Nat
  BY ConstantsAssumption, FS_Subset, FS_CardinalityType
<1> QED
  BY <1>1 DEF Summary

(* A rescan notes of a job only whether its id was given away.             *)
LEMMA ReplaceJobs ==
  ASSUME TypeOK, NEW s \in Scans \cup Jobs, ReplaceSidecars(s)
  PROVE  /\ job' \in [Jobs -> Job]
         /\ \A j \in Jobs : \E r \in SUBSET {"seen", "queued"} :
              /\ job'[j] = [job[j] EXCEPT !.reuse = r]
              /\ r = job[j].reuse \cup Reuse(j, rows') \/ UNCHANGED <<job, rows>>
<1>a. ASSUME NEW j \in Jobs
      PROVE  \E r \in SUBSET {"seen", "queued"} :
               /\ job'[j] = [job[j] EXCEPT !.reuse = r]
               /\ r = job[j].reuse \cup Reuse(j, rows') \/ UNCHANGED <<job, rows>>
  <2>1. job[j] \in Job
    BY DEF TypeOK
  <2>2. CASE job' = [i \in Jobs |-> [job[i] EXCEPT !.reuse = @ \cup Reuse(i, rows')]]
    <3>1. Reuse(j, rows') \subseteq {"seen", "queued"}
      BY DEF Reuse
    <3>2. job[j].reuse \cup Reuse(j, rows') \in SUBSET {"seen", "queued"}
      BY <2>1, <3>1 DEF Job
    <3> QED
      BY <2>2, <3>2
  <2>3. CASE UNCHANGED <<job, rows>>
    <3>1. job'[j] = [job[j] EXCEPT !.reuse = job[j].reuse] /\ job[j].reuse \in SUBSET {"seen", "queued"}
      BY <2>1, <2>3 DEF Job
    <3> QED
      BY <2>3, <3>1
  <2> QED
    BY <2>2, <2>3 DEF ReplaceSidecars
<1>1. ASSUME NEW j \in Jobs PROVE job'[j] \in Job
  <2>1. PICK r \in SUBSET {"seen", "queued"} : job'[j] = [job[j] EXCEPT !.reuse = r]
    BY <1>a
  <2>2. job[j] \in Job
    BY DEF TypeOK
  <2> QED
    BY <2>1, <2>2 DEF Job
<1>2. job' = [j \in Jobs |-> job'[j]]
  BY DEF ReplaceSidecars, TypeOK
<1> QED
  BY <1>a, <1>1, <1>2

(* A visit changes only what it has found out, the summary and the rows.   *)
LEMMA ReplaceTypes ==
  ASSUME TypeOK, VisitsVideo, NEW s \in Scans \cup Jobs, ReplaceSidecars(s)
  PROVE  rows' \in [Paths -> [id : Ids, owner : Videos] \cup {NoSide}]
<1> DEFINE v    == scan[s].video
           list == scan[s].list
<1>1. v \in Videos /\ list \in SUBSET Paths
  BY DEF ReplaceSidecars, TypeOK, Visit, VisitsVideo
<1>2. CASE Known(v)
  <2>1. PICK n \in 0..MaxId + 1 : IsNextId(n, Without(v)) /\ rows' = Replaced(v, list, n)
    BY <1>2 DEF ReplaceSidecars
  <2>2. \A p \in Paths : Replaced(v, list, n)[p].id <= MaxId
    BY <1>2, <2>1 DEF ReplaceSidecars
  <2>3. n \in Int
    BY ConstantsAssumption, <2>1
  <2> HIDE DEF v, list
  <2> QED
    BY <1>1, <2>1, <2>2, <2>3, ReplacedRows
<1>3. CASE ~Known(v)
  BY <1>3 DEF ReplaceSidecars, TypeOK
<1> QED
  BY <1>2, <1>3

LEMMA VisitTypes ==
  ASSUME TypeOK, VisitsVideo, NEW s \in Scans \cup Jobs, VisitStep(s)
  PROVE  TypeOK'
<1> USE ConstantsAssumption DEF TypeOK, Event, media, disk, trash
<1>a. scan[s] \in Visit /\ NoVisit \in Visit
  BY DEF Visit, NoVisit
<1>1. CASE Find(s)
  <2>1. \A v \in Videos : Owned(v) \in SUBSET Paths
    BY DEF Owned
  <2>2. CASE \E v \in videos :
               scan' = [scan EXCEPT ![s] = [NoVisit EXCEPT !.at = "look", !.video = v,
                                                           !.list = Owned(v)]]
    <3>1. PICK v \in Videos :
            scan' = [scan EXCEPT ![s] = [NoVisit EXCEPT !.at = "look", !.video = v,
                                                        !.list = Owned(v)]]
      BY <2>2
    <3>2. [NoVisit EXCEPT !.at = "look", !.video = v, !.list = Owned(v)] \in Visit
      BY <2>1 DEF Visit, NoVisit
    <3> QED
      BY <1>1, <3>1, <3>2 DEF Find
  <2>3. CASE /\ scan[s].video \in videos
             /\ scan' = [scan EXCEPT ![s].at = "look", ![s].list = Owned(scan[s].video)]
    <3>1. Owned(scan[s].video) \in SUBSET Paths
      BY <2>1, <2>3
    <3> QED
      BY <1>1, <1>a, <2>3, <3>1 DEF Find, Visit
  <2>4. CASE Leave(s)
    BY <1>1, <1>a, <2>4 DEF Find, Leave
  <2> QED
    BY <1>1, <2>2, <2>3, <2>4 DEF Find
<1>2. CASE LookUp(s)
  <2>1. Known(scan[s].video) \in BOOLEAN
    BY DEF Known
  <2>2. scan'[s] \in Visit
    BY <1>2, <1>a, <2>1 DEF LookUp, Leave, Visit
  <2>3. scan' = [scan EXCEPT ![s] = scan'[s]]
    BY <1>2 DEF LookUp, Leave
  <2> QED
    BY <1>2, <2>2, <2>3 DEF LookUp
<1>3. CASE LookUpChanged(s)
  <2>1. scan'[s] \in Visit
    BY <1>3, <1>a DEF LookUpChanged, Visit
  <2>2. scan' = [scan EXCEPT ![s] = scan'[s]]
    BY <1>3 DEF LookUpChanged
  <2>3. scan' \in [Scans \cup Jobs -> Visit]
    BY <2>1, <2>2
  <2>4. events' \in 0..MaxEvents
    BY <1>3 DEF LookUpChanged
  <2> QED
    BY <1>3, <2>3, <2>4 DEF LookUpChanged
<1>4. CASE StoreSummary(s)
  <2>1. scan[s].list \in SUBSET Paths
    BY <1>a DEF Visit
  <2>2. Summary(scan[s].list) \in [Labels -> Nat \cup {-1}]
    BY <2>1, SummaryType
  <2>3. summary' \in [Videos -> [Labels -> Nat \cup {-1}]]
    BY <1>4, <2>2 DEF StoreSummary
  <2>4. scan' \in [Scans \cup Jobs -> Visit]
    BY <1>4, <1>a DEF StoreSummary, Goto, Visit
  <2> QED
    BY <1>4, <2>3, <2>4 DEF StoreSummary
<1>5. CASE ReplaceSidecars(s)
  <2>1. rows' \in [Paths -> [id : Ids, owner : Videos] \cup {NoSide}]
    BY <1>5, ReplaceTypes
  <2>2. job' \in [Jobs -> Job]
    BY <1>5, ReplaceJobs
  <2> QED
    BY <1>5, <1>a, <2>1, <2>2 DEF ReplaceSidecars, Leave
<1>6. CASE VisitFails(s)
  BY <1>6 DEF VisitFails, Leave, Visit, NoVisit
<1> QED
  BY <1>1, <1>2, <1>3, <1>4, <1>5, <1>6 DEF VisitStep

LEMMA PutType ==
  ASSUME TypeOK, IsFiniteSet(bin), NEW j \in Jobs, job[j].path \in Paths,
         NEW part \in BOOLEAN, NEW b \in Bodies
  PROVE  /\ Put(j, part, b) \subseteq [file : Entry, part : BOOLEAN, body : Bodies]
         /\ IsFiniteSet(Put(j, part, b))
<1>1. FileOf(j) \in Entry
  BY DEF TypeOK, Job, FileOf, Entry, Stems
<1>2. [file |-> FileOf(j), part |-> part, body |-> b] \in [file : Entry, part : BOOLEAN, body : Bodies]
  BY <1>1
<1>3. IsFiniteSet({e \in bin : ~(e.file = FileOf(j) /\ e.part = part)})
  BY FS_Subset
<1>4. IsFiniteSet(Put(j, part, b))
  BY <1>3, FS_AddElement DEF Put
<1> QED
  BY <1>2, <1>4 DEF Put, TypeOK

LEMMA GoneType ==
  ASSUME TypeOK, NEW j \in Jobs, job[j].path \in Paths, Gone(j)
  PROVE  /\ body' \in [Paths -> Bodies \cup {0}]
         /\ took' \in [Bodies -> Times \cup {NotTaken}]
         /\ made' = made
BY DEF TypeOK, Job, Gone

(* The steps of a job leave the types as they are.                         *)
LEMMA JobTypes ==
  ASSUME TypeOK, IsFiniteSet(bin), Moving, NEW j \in Jobs, JobStep(j)
  PROVE  TypeOK' /\ IsFiniteSet(bin)'
<1> USE ConstantsAssumption DEF Event, media, disk, trash
<1>a. job[j] \in Job /\ job \in [Jobs -> Job]
  BY DEF TypeOK
<1>b. [NewJob EXCEPT !.at = "over"] \in Job /\ NewJob \in Job
  BY DEF Job, NewJob, Stages, Times
<1>1. CASE Pick(j)
  <2>1. PICK p \in Paths :
          /\ rows[p] # NoSide
          /\ job' = [job EXCEPT ![j] = [NewJob EXCEPT !.at = "picked", !.picked = p,
                                          !.id = rows[p].id, !.file = rows[p].owner]]
    BY <1>1 DEF Pick
  <2>2. rows[p] \in [id : Ids, owner : Videos]
    BY <2>1 DEF TypeOK
  <2>3. job'[j] \in Job
    <3>1. rows[p].id \in Ids /\ rows[p].owner \in Videos
      BY <2>2
    <3>2. 0 \in Times
      BY DEF Times
    <3> QED
      BY <1>a, <2>1, <3>1, <3>2 DEF Job, NewJob, Stages
  <2> QED
    BY <1>1, <1>a, <2>1, <2>3 DEF Pick, TypeOK
<1>2. CASE Submit(j)
  <2>1. job'[j] \in Job /\ job' = [job EXCEPT ![j] = job'[j]]
    BY <1>2, <1>a, <1>b DEF Submit, Requested, WithId, Job, Stages
  <2> QED
    BY <1>2, <1>a, <2>1 DEF Submit, TypeOK
<1>3. CASE StatSidecar(j)
  <2>1. job'[j] \in Job /\ job' = [job EXCEPT ![j] = job'[j]]
    BY <1>3, <1>a, <1>b DEF StatSidecar, PayloadPath, End, Job, Stages
  <2> QED
    BY <1>3, <1>a, <2>1 DEF StatSidecar, TypeOK
<1>4. CASE ChooseDst(j)
  <2>1. Cardinality(bin) \in Nat /\ now \in Times
    BY FS_CardinalityType DEF TypeOK
  <2>2. job'[j] \in Job /\ job' = [job EXCEPT ![j] = job'[j]]
    <3>1. PICK n \in 0..Cardinality(bin) :
            job' = [job EXCEPT ![j].at = "move", ![j].stamp = now, ![j].no = n]
      BY <1>4 DEF ChooseDst
    <3> QED
      BY <1>a, <2>1, <3>1, n \in Nat DEF Job, Stages
  <2> QED
    BY <1>4, <1>a, <2>2 DEF ChooseDst, TypeOK
<1>5. CASE MoveWithin(j)
  <2>1. job[j].path \in Paths /\ body[job[j].path] \in Bodies
    BY <1>5 DEF MoveWithin, Moving, MovingAt, TypeOK
  <2>2. job'[j] \in Job /\ job' = [job EXCEPT ![j] = job'[j]]
    BY <1>5, <1>a, 0 \in Times DEF MoveWithin, ToRow, Job, Stages, Times
  <2>3. bin' \subseteq [file : Entry, part : BOOLEAN, body : Bodies] /\ IsFiniteSet(bin')
    BY <1>5, <2>1, PutType DEF MoveWithin
  <2>4. /\ body' \in [Paths -> Bodies \cup {0}] /\ made' = made
        /\ took' \in [Bodies -> Times \cup {NotTaken}]
    BY <1>5, <2>1, GoneType DEF MoveWithin
  <2> QED
    BY <1>5, <1>a, <2>2, <2>3, <2>4 DEF MoveWithin, TypeOK
<1>6. CASE OpenCopy(j)
  <2>1. job[j].path \in Paths /\ body[job[j].path] \in Bodies
    BY <1>6 DEF OpenCopy, Moving, MovingAt, TypeOK
  <2>2. job'[j] \in Job /\ job' = [job EXCEPT ![j] = job'[j]]
    BY <1>6, <1>a DEF OpenCopy, To, Job, Stages
  <2>3. bin' \subseteq [file : Entry, part : BOOLEAN, body : Bodies] /\ IsFiniteSet(bin')
    BY <1>6, <2>1, PutType DEF OpenCopy
  <2> QED
    BY <1>6, <1>a, <2>2, <2>3 DEF OpenCopy, TypeOK
<1>7. CASE MoveFails(j)
  <2>1. IsFiniteSet(WithoutPart(j)) /\ WithoutPart(j) \subseteq bin
    BY FS_Subset DEF WithoutPart
  <2> QED
    BY <1>7, <1>a, <1>b, <2>1 DEF MoveFails, End, TypeOK
<1>8. CASE CopyDone(j)
  <2> DEFINE parts == {e \in bin : e.file = FileOf(j) /\ e.part}
  <2>1. job'[j] \in Job /\ job' = [job EXCEPT ![j] = job'[j]]
    <3>1. CASE End(j)
      BY <1>a, <1>b, <3>1 DEF End
    <3>2. CASE To(j, "remove")
      BY <1>a, <3>2 DEF To, Job, Stages
    <3> QED
      BY <1>8, <3>1, <3>2 DEF CopyDone
  <2>2. bin' \subseteq [file : Entry, part : BOOLEAN, body : Bodies] /\ IsFiniteSet(bin')
    <3>1. CASE parts = {}
      BY <1>8, <3>1 DEF CopyDone, TypeOK
    <3>2. CASE parts # {}
      <4>1. PICK e \in parts : bin' = Put(j, FALSE, e.body) \ parts
        BY <1>8, <3>2 DEF CopyDone
      <4>2. e.body \in Bodies /\ job[j].path \in Paths
        BY <1>8 DEF CopyDone, Moving, MovingAt, TypeOK
      <4>3. /\ Put(j, FALSE, e.body) \subseteq [file : Entry, part : BOOLEAN, body : Bodies]
            /\ IsFiniteSet(Put(j, FALSE, e.body))
        BY <4>2, PutType
      <4> QED
        BY <4>1, <4>3, FS_Subset
    <3> QED
      BY <3>1, <3>2
  <2>3. mu' \in Jobs \cup {NoJob}
    BY <1>8 DEF CopyDone, TypeOK
  <2> QED
    BY <1>8, <1>a, <2>1, <2>2, <2>3 DEF CopyDone, TypeOK
<1>9. CASE RemoveSrc(j)
  <2>1. job[j].path \in Paths
    BY <1>9 DEF RemoveSrc, Moving, MovingAt
  <2>2. job'[j] \in Job /\ job' = [job EXCEPT ![j] = job'[j]]
    BY <1>9, <1>a, 0 \in Times DEF RemoveSrc, ToRow, Job, Stages, Times
  <2>3. /\ body' \in [Paths -> Bodies \cup {0}] /\ made' = made
        /\ took' \in [Bodies -> Times \cup {NotTaken}]
    BY <1>9, <2>1, GoneType DEF RemoveSrc
  <2> QED
    BY <1>9, <1>a, <2>2, <2>3 DEF RemoveSrc, Unlocked, TypeOK
<1>10. CASE RemoveFails(j)
  BY <1>10, <1>a, <1>b DEF RemoveFails, End, Unlocked, TypeOK
<1>11. CASE DeleteRow(j)
  <2>1. job'[j] \in Job /\ job' = [job EXCEPT ![j] = job'[j]]
    <3>1. CASE End(j)
      BY <1>a, <1>b, <3>1 DEF End
    <3>2. CASE job' = [job EXCEPT ![j] = [NewJob EXCEPT !.at = "refresh"]]
      BY <1>a, <1>b, <3>2 DEF NewJob, Job, Stages
    <3> QED
      BY <1>11, <3>1, <3>2 DEF DeleteRow
  <2>2. rows' \in [Paths -> [id : Ids, owner : Videos] \cup {NoSide}]
    BY <1>11 DEF DeleteRow, TypeOK
  <2>3. scan' \in [Scans \cup Jobs -> Visit]
    <3>1. [NoVisit EXCEPT !.at = "find", !.video = job[j].file] \in Visit
      BY <1>a DEF Visit, NoVisit, Job
    <3> QED
      BY <1>11, <3>1 DEF DeleteRow, TypeOK
  <2>4. events' \in 0..MaxEvents
    BY <1>11 DEF DeleteRow, TypeOK
  <2>5. job' \in [Jobs -> Job]
    BY <1>a, <2>1
  <2> QED
    BY <1>11, <2>2, <2>3, <2>4, <2>5 DEF DeleteRow, TypeOK
<1>12. CASE Finish(j)
  BY <1>12, <1>a, <1>b DEF Finish, End, TypeOK
<1> QED
  BY <1>1, <1>2, <1>3, <1>4, <1>5, <1>6, <1>7, <1>8, <1>9, <1>10, <1>11, <1>12 DEF JobStep

LEMMA WorldTypes ==
  ASSUME TypeOK, IsFiniteSet(bin),
         Purge \/ Tick \/ Write \/ VideoComesOrGoes \/ Forget \/ Crash
  PROVE  TypeOK' /\ IsFiniteSet(bin)'
<1> USE ConstantsAssumption DEF TypeOK, Event, media, disk, trash
<1>1. CASE Purge
  BY <1>1, FS_Subset DEF Purge
<1>2. CASE Tick
  BY <1>2 DEF Tick, Times
<1>3. CASE Write
  BY <1>3 DEF Write, Bodies
<1>4. CASE VideoComesOrGoes
  BY <1>4 DEF VideoComesOrGoes
<1>5. CASE Forget
  <2>1. PICK v \in Videos :
          /\ summary' = [summary EXCEPT ![v] = NoRow]
          /\ rows' = Without(v)
          /\ job' = [j \in Jobs |-> IF job[j].file = v /\ job[j].at # "picked"
                                    THEN [job[j] EXCEPT !.file = NoVideo] ELSE job[j]]
    BY <1>5 DEF Forget
  <2>2. NoRow \in [Labels -> Nat \cup {-1}]
    BY DEF NoRow
  <2>3. rows' \in [Paths -> [id : Ids, owner : Videos] \cup {NoSide}]
    BY <2>1 DEF Without
  <2>4. job' \in [Jobs -> Job]
    <3>1. ASSUME NEW j \in Jobs PROVE job'[j] \in Job
      <4>1. job[j] \in Job
        OBVIOUS
      <4>2. [job[j] EXCEPT !.file = NoVideo] \in Job
        BY <4>1 DEF Job
      <4> QED
        BY <2>1, <4>1, <4>2
    <3> QED
      BY <2>1, <3>1
  <2> QED
    BY <1>5, <2>1, <2>2, <2>3, <2>4 DEF Forget
<1>6. CASE Crash
  <2>1. NoVisit \in Visit /\ NewJob \in Job /\ [NewJob EXCEPT !.at = "over"] \in Job
    BY DEF Visit, NoVisit, Job, NewJob, Stages, Times
  <2>2. scan' \in [Scans \cup Jobs -> Visit]
    BY <1>6, <2>1 DEF Crash
  <2>3. job' \in [Jobs -> Job]
    BY <1>6, <2>1 DEF Crash
  <2>4. events' \in 0..MaxEvents /\ mu' \in Jobs \cup {NoJob}
    BY <1>6 DEF Crash
  <2>5. UNCHANGED <<media, disk, rows, bin, took, recycling, now>>
    BY <1>6 DEF Crash
  <2> HIDE DEF Event
  <2> QED
    BY <2>2, <2>3, <2>4, <2>5
<1> QED
  BY <1>1, <1>2, <1>3, <1>4, <1>5, <1>6

LEMMA TypeStep ==
  ASSUME TypeOK, IsFiniteSet(bin), VisitsVideo, Moving, [Next]_vars
  PROVE  TypeOK' /\ IsFiniteSet(bin)'
<1>1. ASSUME NEW s \in Scans \cup Jobs, VisitStep(s) PROVE TypeOK' /\ IsFiniteSet(bin)'
  <2>1. UNCHANGED bin
    BY <1>1 DEF VisitStep, Find, LookUp, LookUpChanged, StoreSummary, ReplaceSidecars,
                VisitFails, trash
  <2> QED
    BY <1>1, <2>1, VisitTypes
<1>2. CASE UNCHANGED vars
  BY <1>2 DEF vars, media, disk, trash, TypeOK
<1> QED
  BY <1>1, <1>2, JobTypes, WorldTypes DEF Next

(* Whoever is at work on a video has one.                                  *)
LEMMA VisitStepVideo ==
  ASSUME TypeOK, VisitsVideo, [Next]_vars
  PROVE  VisitsVideo'
<1> USE DEF VisitsVideo, TypeOK, trash, media, disk
<1>1. ASSUME NEW s \in Scans \cup Jobs, VisitStep(s) PROVE VisitsVideo'
  <2>a. scan[s] \in Visit
    OBVIOUS
  <2>1. CASE Find(s)
    <3>1. scan' = [scan EXCEPT ![s] = scan'[s]]
      BY <2>1 DEF Find, Leave
    <3>2. CASE \E v \in videos :
                 scan' = [scan EXCEPT ![s] = [NoVisit EXCEPT !.at = "look", !.video = v,
                                                             !.list = Owned(v)]]
      <4>1. PICK v \in Videos :
              scan' = [scan EXCEPT ![s] = [NoVisit EXCEPT !.at = "look", !.video = v,
                                                          !.list = Owned(v)]]
        BY <3>2
      <4>2. scan'[s].video = v
        BY <2>a, <4>1 DEF NoVisit
      <4> QED
        BY <3>1, <4>2
    <3>3. CASE /\ scan[s].video \in videos
               /\ scan' = [scan EXCEPT ![s].at = "look", ![s].list = Owned(scan[s].video)]
      <4>1. scan'[s].video = scan[s].video
        BY <2>a, <3>3 DEF Visit
      <4> QED
        BY <3>1, <3>3, <4>1
    <3>4. CASE Leave(s)
      BY <3>4 DEF Leave, NoVisit
    <3> QED
      BY <2>1, <3>2, <3>3, <3>4 DEF Find
  <2>2. CASE LookUp(s)
    <3>1. scan'[s].at # "idle" => scan'[s].video = scan[s].video
      BY <2>a, <2>2 DEF LookUp, Leave, Visit, NoVisit
    <3>2. scan' = [scan EXCEPT ![s] = scan'[s]]
      BY <2>2 DEF LookUp, Leave
    <3> QED
      BY <2>2, <3>1, <3>2 DEF LookUp
  <2>3. CASE LookUpChanged(s)
    <3>1. scan'[s].video = scan[s].video
      BY <2>a, <2>3 DEF LookUpChanged, Visit
    <3>2. scan' = [scan EXCEPT ![s] = scan'[s]]
      BY <2>3 DEF LookUpChanged
    <3> QED
      BY <2>3, <3>1, <3>2 DEF LookUpChanged
  <2>4. CASE StoreSummary(s)
    BY <2>4 DEF StoreSummary, Goto, Visit
  <2>5. CASE ReplaceSidecars(s) \/ VisitFails(s)
    BY <2>5 DEF ReplaceSidecars, VisitFails, Leave, NoVisit
  <2> QED
    BY <1>1, <2>1, <2>2, <2>3, <2>4, <2>5 DEF VisitStep
<1>2. ASSUME NEW j \in Jobs, JobStep(j) PROVE VisitsVideo'
  <2>1. CASE DeleteRow(j)
    <3>1. CASE job[j].file = NoVideo
      BY <2>1, <3>1 DEF DeleteRow
    <3>2. CASE job[j].file # NoVideo
      <4>1. job[j].file \in Videos
        <5>1. job[j] \in Job
          OBVIOUS
        <5> QED
          BY <3>2, <5>1 DEF Job
      <4>2. scan' = [scan EXCEPT ![j] = [NoVisit EXCEPT !.at = "find", !.video = job[j].file]]
        BY <2>1, <3>2 DEF DeleteRow
      <4> QED
        BY <4>1, <4>2 DEF NoVisit
    <3> QED
      BY <3>1, <3>2
  <2>2. CASE UNCHANGED scan
    BY <2>2
  <2> QED
    BY <1>2, <2>1, <2>2 DEF JobStep, Pick, Submit, StatSidecar, ChooseDst, MoveWithin, OpenCopy,
         MoveFails, CopyDone, RemoveSrc, RemoveFails, Finish
<1>3. CASE Crash
  BY <1>3 DEF Crash, NoVisit
<1>4. CASE Purge \/ Tick \/ Write \/ VideoComesOrGoes \/ Forget \/ UNCHANGED vars
  BY <1>4 DEF Purge, Tick, Write, VideoComesOrGoes, Forget, vars
<1> QED
  BY <1>1, <1>2, <1>3, <1>4 DEF Next

-----------------------------------------------------------------------------
(* What the client picked.                                                 *)

(* Rows that stay as they are or go give no id away.                       *)
LEMMA RowsGo ==
  ASSUME TypeOK, IdsDiffer, \A p \in Paths : rows'[p] = rows[p] \/ rows'[p] = NoSide
  PROVE  IdsDiffer'
BY DEF IdsDiffer, NoSide

LEMMA FitsStays ==
  ASSUME TypeOK, NEW j \in Jobs, FitsAt(j),
         \A p \in Paths : rows'[p] = rows[p] \/ rows'[p] = NoSide,
         \/ job'[j].path = NoPath
         \/ /\ job'[j].path = job[j].path /\ job'[j].picked = job[j].picked
            /\ job'[j].reuse = job[j].reuse,
         job'[j].at = "picked" => job'[j] = job[j],
         job'[j].at \in Named => /\ job[j].at \in Named /\ job'[j].id = job[j].id
                                 /\ job'[j].path = job[j].path /\ job'[j].reuse = job[j].reuse
  PROVE  FitsAt(j)'
<1>1. job'[j].path \in {NoPath, job'[j].picked} \/ "seen" \in job'[j].reuse
  BY DEF FitsAt
<1>2. NoSide.id \notin Ids
  BY DEF NoSide, Ids
<1>3. CASE job'[j].at = "picked"
  BY <1>1, <1>2, <1>3 DEF FitsAt, Named
<1>4. CASE job'[j].at \in Named
  BY <1>1, <1>2, <1>4 DEF FitsAt, Named
<1> QED
  BY <1>1, <1>3, <1>4 DEF FitsAt

LEMMA RowsStep ==
  ASSUME TypeOK, VisitsVideo, IdsDiffer, Next
  PROVE  IdsDiffer'
<1> USE DEF media, disk, trash
<1>1. ASSUME NEW s \in Scans \cup Jobs, ReplaceSidecars(s) PROVE IdsDiffer'
  <2> DEFINE v    == scan[s].video
             list == scan[s].list
  <2>1. v \in Videos /\ list \in SUBSET Paths
    BY <1>1 DEF ReplaceSidecars, TypeOK, Visit, VisitsVideo
  <2>2. CASE Known(v)
    <3>1. PICK n \in 0..MaxId + 1 : IsNextId(n, Without(v)) /\ rows' = Replaced(v, list, n)
      BY <1>1, <2>2 DEF ReplaceSidecars
    <3>2. \A p \in Paths : Replaced(v, list, n)[p].id <= MaxId
      BY <1>1, <2>2, <3>1 DEF ReplaceSidecars
    <3>3. n \in Int
      BY ConstantsAssumption, <3>1
    <3> HIDE DEF v, list
    <3>4. \A p, q \in Paths : rows'[p].id = rows'[q].id /\ rows'[p].id # 0 => p = q
      BY <2>1, <3>1, <3>2, <3>3, ReplacedRows
    <3> QED
      BY <3>4 DEF IdsDiffer
  <2>3. CASE ~Known(v)
    BY <1>1, <2>3 DEF ReplaceSidecars, IdsDiffer
  <2> QED
    BY <2>2, <2>3
<1>2. ASSUME NEW j \in Jobs, DeleteRow(j) PROVE IdsDiffer'
  BY <1>2, RowsGo DEF DeleteRow, TypeOK
<1>3. CASE Forget
  BY <1>3, RowsGo DEF Forget, Without, TypeOK
<1>4. CASE UNCHANGED rows
  BY <1>4 DEF IdsDiffer
<1>5. ASSUME NEW s \in Scans \cup Jobs, VisitStep(s) PROVE ReplaceSidecars(s) \/ UNCHANGED rows
  BY <1>5 DEF VisitStep, Find, LookUp, LookUpChanged, StoreSummary, VisitFails
<1>6. ASSUME NEW j \in Jobs, JobStep(j) PROVE DeleteRow(j) \/ UNCHANGED rows
  BY <1>6 DEF JobStep, Pick, Submit, StatSidecar, ChooseDst, MoveWithin, OpenCopy,
         MoveFails, CopyDone, RemoveSrc, RemoveFails, Finish
<1> QED
  BY <1>1, <1>2, <1>3, <1>4, <1>5, <1>6
     DEF Next, Purge, Tick, Write, VideoComesOrGoes, Crash

(* A job that goes on keeps what was picked, its path, its id and what is  *)
(* noted of it.                                                            *)
LEMMA GoesOn ==
  ASSUME TypeOK, NEW j \in Jobs, JobStep(j), ~Pick(j), ~Submit(j)
  PROVE  /\ job' = [job EXCEPT ![j] = job'[j]]
         /\ job'[j].at # "picked"
         /\ \/ job'[j].path = NoPath /\ job'[j].at \notin Named
            \/ /\ job[j].at \in Named
               /\ job'[j].path = job[j].path /\ job'[j].picked = job[j].picked
               /\ job'[j].id = job[j].id /\ job'[j].reuse = job[j].reuse
<1> DEFINE Same  == /\ job'[j].path = job[j].path /\ job'[j].picked = job[j].picked
                    /\ job'[j].id = job[j].id /\ job'[j].reuse = job[j].reuse
           Claim == /\ job' = [job EXCEPT ![j] = job'[j]]
                    /\ job'[j].at # "picked"
                    /\ \/ job'[j].path = NoPath /\ job'[j].at \notin Named
                       \/ job[j].at \in Named /\ Same
<1>a. job[j] \in Job /\ job \in [Jobs -> Job]
  BY DEF TypeOK
<1>b. ASSUME NEW at \in {"refresh", "over"}, job' = [job EXCEPT ![j] = [NewJob EXCEPT !.at = at]]
      PROVE  Claim
  BY <1>a, <1>b DEF NewJob, Named
<1>c. ASSUME NEW at \in Stages, at # "picked", To(j, at), job[j].at \in Named PROVE Claim
  BY <1>a, <1>c DEF To, Job
<1>1. CASE StatSidecar(j)
  <2>1. CASE job' = [job EXCEPT ![j].at = IF recycling THEN "wait" ELSE "remove",
                                ![j].path = PayloadPath(j)]
    BY <1>a, <1>1, <2>1 DEF StatSidecar, PayloadPath, Job, Named
  <2> QED
    BY <1>1, <1>b, <2>1 DEF StatSidecar, End
<1>2. CASE ChooseDst(j)
  <2>1. PICK n \in 0..Cardinality(bin) :
          job' = [job EXCEPT ![j].at = "move", ![j].stamp = now, ![j].no = n]
    BY <1>2 DEF ChooseDst
  <2> QED
    BY <1>a, <1>2, <2>1 DEF ChooseDst, Job, Named
<1>3. CASE MoveWithin(j) \/ RemoveSrc(j)
  <2>1. ToRow(j) /\ job[j].at \in Named
    BY <1>3 DEF MoveWithin, RemoveSrc, Named
  <2> QED
    BY <1>a, <2>1 DEF ToRow, Job
<1>4. CASE \/ OpenCopy(j) \/ MoveFails(j) \/ CopyDone(j)
           \/ RemoveFails(j) \/ DeleteRow(j) \/ Finish(j)
  <2>1. \/ \E at \in {"refresh", "over"} : job' = [job EXCEPT ![j] = [NewJob EXCEPT !.at = at]]
        \/ job[j].at \in Named /\ \E at \in {"copy", "remove"} : To(j, at)
    BY <1>4 DEF OpenCopy, MoveFails, CopyDone, RemoveFails, DeleteRow, Finish, End, Named
  <2> QED
    BY <1>b, <1>c, <2>1 DEF Stages
<1> QED
  BY <1>1, <1>2, <1>3, <1>4 DEF JobStep

(* The step of one job disturbs another only where it changes rows, and    *)
(* jobs only delete them.                                                  *)
LEMMA OthersFit ==
  ASSUME TypeOK, RequestFits, NEW j \in Jobs, JobStep(j),
         job' = [job EXCEPT ![j] = job'[j]], FitsAt(j)'
  PROVE  RequestFits'
<1>1. \A p \in Paths : rows'[p] = rows[p] \/ rows'[p] = NoSide
  BY DEF JobStep, Pick, Submit, StatSidecar, ChooseDst, MoveWithin, OpenCopy, MoveFails,
         CopyDone, RemoveSrc, RemoveFails, DeleteRow, Finish, TypeOK
<1>2. ASSUME NEW i \in Jobs, i # j PROVE FitsAt(i)'
  <2>1. job'[i] = job[i] /\ FitsAt(i)
    BY <1>2 DEF TypeOK, RequestFits
  <2> QED
    BY <1>1, <2>1, FitsStays
<1> QED
  BY <1>2 DEF RequestFits

LEMMA PickStep ==
  ASSUME TypeOK, VisitsVideo, IdsDiffer, RequestFits, Next
  PROVE  RequestFits'
<1> USE DEF media, disk, trash
<1>1. ASSUME NEW s \in Scans \cup Jobs, VisitStep(s), NEW j \in Jobs PROVE FitsAt(j)'
  <2>a. job[j] \in Job /\ FitsAt(j)
    BY DEF TypeOK, RequestFits
  <2>1. CASE ReplaceSidecars(s)
    <3>1. PICK r \in SUBSET {"seen", "queued"} :
            /\ job'[j] = [job[j] EXCEPT !.reuse = r]
            /\ r = job[j].reuse \cup Reuse(j, rows') \/ UNCHANGED <<job, rows>>
      BY <2>1, ReplaceJobs
    <3>2. CASE r = job[j].reuse \cup Reuse(j, rows')
      <4>1. /\ job'[j].at = job[j].at /\ job'[j].path = job[j].path /\ job'[j].id = job[j].id
            /\ job'[j].picked = job[j].picked /\ job'[j].file = job[j].file /\ job'[j].reuse = r
        BY <2>a, <3>1 DEF Job
      <4>2. rows' \in [Paths -> [id : Ids, owner : Videos] \cup {NoSide}] /\ NoSide.id \notin Ids
        BY <2>1, ReplaceTypes DEF NoSide, Ids
      <4>3. ASSUME job[j].at = "picked", "seen" \notin r, NEW p \in Paths,
                   rows'[p].id = job[j].id, rows'[p].owner = job[j].file
            PROVE  p = job[j].picked
        <5>1. rows'[p] \in [id : Ids, owner : Videos]
          BY <2>a, <4>2, <4>3 DEF FitsAt
        <5>2. rows'[p] = [id |-> job[j].id, owner |-> job[j].file]
          BY <4>3, <5>1
        <5> QED
          BY <3>2, <4>3, <5>2 DEF Reuse
      <4>4. ASSUME job[j].at \in Named, "queued" \notin r, NEW p \in Paths,
                   rows'[p].id = job[j].id
            PROVE  p = job[j].path
        BY <3>2, <4>4 DEF Reuse
      <4>5. job[j].path \in {NoPath, job[j].picked} \/ "seen" \in r
        BY <2>a, <3>2 DEF FitsAt
      <4> QED
        BY <2>a, <4>1, <4>3, <4>4, <4>5 DEF FitsAt
    <3>3. CASE UNCHANGED <<job, rows>>
      BY <2>a, <3>3 DEF FitsAt
    <3> QED
      BY <3>1, <3>2, <3>3
  <2>2. CASE UNCHANGED <<job, rows>>
    BY <2>a, <2>2 DEF FitsAt
  <2> QED
    BY <1>1, <2>1, <2>2 DEF VisitStep, Find, LookUp, LookUpChanged, StoreSummary, VisitFails
<1>2. ASSUME NEW j \in Jobs, JobStep(j) PROVE FitsAt(j)' /\ job' = [job EXCEPT ![j] = job'[j]]
  <2>a. job[j] \in Job /\ job \in [Jobs -> Job] /\ FitsAt(j)
    BY DEF TypeOK, RequestFits
  <2>1. CASE Pick(j)
    <3>1. PICK p \in Paths :
            /\ rows[p] # NoSide
            /\ job' = [job EXCEPT ![j] = [NewJob EXCEPT !.at = "picked", !.picked = p,
                                            !.id = rows[p].id, !.file = rows[p].owner]]
      BY <2>1 DEF Pick
    <3>2. rows[p] \in [id : Ids, owner : Videos]
      BY <3>1 DEF TypeOK
    <3>3. rows[p].owner \in Videos /\ rows[p].id \in Ids /\ rows[p].id # 0
      BY <3>2 DEF Ids
    <3>4. /\ job'[j].picked = p /\ job'[j].id = rows[p].id /\ job'[j].path = NoPath
          /\ job'[j].file = rows[p].owner /\ job'[j].at = "picked"
          /\ job' = [job EXCEPT ![j] = job'[j]] /\ rows' = rows
      BY <2>1, <2>a, <3>1 DEF Pick, NewJob
    <3> QED
      BY <3>3, <3>4 DEF FitsAt, IdsDiffer, Named
  <2>2. CASE Submit(j)
    <3>1. rows' = rows
      BY <2>2 DEF Submit
    <3>2. CASE \E p \in Requested(j) : job' = [job EXCEPT ![j].at = "queued", ![j].path = p]
      <4>1. PICK p \in Requested(j) : job' = [job EXCEPT ![j].at = "queued", ![j].path = p]
        BY <3>2
      <4>2. /\ job' = [job EXCEPT ![j] = job'[j]] /\ job'[j].at = "queued"
            /\ job'[j].path = p /\ job'[j].picked = job[j].picked
            /\ job'[j].id = job[j].id /\ job'[j].reuse = job[j].reuse
        BY <2>a, <4>1 DEF Job
      <4>3. p \in Paths /\ rows[p].id = job[j].id /\ rows[p].owner = job[j].file
        BY <4>1 DEF Requested, WithId
      <4>4. job[j].id \in Ids /\ (p = job[j].picked \/ "seen" \in job[j].reuse)
        BY <2>2, <2>a, <4>3 DEF Submit, FitsAt
      <4>5. \A q \in Paths : rows[q].id = job[j].id => q = p
        BY <4>3, <4>4 DEF IdsDiffer, Ids
      <4> QED
        BY <3>1, <4>2, <4>4, <4>5 DEF FitsAt, Named
    <3>3. CASE job' = [job EXCEPT ![j] = NewJob]
      <4>1. /\ job' = [job EXCEPT ![j] = job'[j]] /\ job'[j].at = "new" /\ job'[j].path = NoPath
        BY <2>a, <3>3 DEF NewJob
      <4> QED
        BY <4>1 DEF FitsAt, Named
    <3> QED
      BY <2>2, <3>2, <3>3 DEF Submit
  <2>3. CASE ~Pick(j) /\ ~Submit(j)
    <3>1. /\ job' = [job EXCEPT ![j] = job'[j]]
          /\ job'[j].at # "picked"
          /\ \/ job'[j].path = NoPath /\ job'[j].at \notin Named
             \/ /\ job[j].at \in Named
                /\ job'[j].path = job[j].path /\ job'[j].picked = job[j].picked
                /\ job'[j].id = job[j].id /\ job'[j].reuse = job[j].reuse
      BY <1>2, <2>3, GoesOn
    <3>2. \A p \in Paths : rows'[p] = rows[p] \/ rows'[p] = NoSide
      BY <1>2, <2>3 DEF JobStep, StatSidecar, ChooseDst, MoveWithin, OpenCopy,
           MoveFails, CopyDone, RemoveSrc, RemoveFails, DeleteRow, Finish, TypeOK
    <3> QED
      BY <2>a, <3>1, <3>2, FitsStays
  <2> QED
    BY <2>1, <2>2, <2>3
<1>3. ASSUME NEW j \in Jobs, JobStep(j) PROVE RequestFits'
  BY <1>2, <1>3, OthersFit
<1>4. CASE Forget
  <2>1. PICK v \in Videos :
          /\ rows' = Without(v)
          /\ job' = [j \in Jobs |-> IF job[j].file = v /\ job[j].at # "picked"
                                    THEN [job[j] EXCEPT !.file = NoVideo] ELSE job[j]]
    BY <1>4 DEF Forget
  <2>2. \A p \in Paths : rows'[p] = rows[p] \/ rows'[p] = NoSide
    BY <2>1 DEF Without
  <2>3. ASSUME NEW j \in Jobs
        PROVE  /\ job'[j].at = "picked" => job'[j] = job[j]
               /\ job'[j].at = job[j].at /\ job'[j].id = job[j].id
               /\ job'[j].path = job[j].path /\ job'[j].picked = job[j].picked
               /\ job'[j].reuse = job[j].reuse
    <3>1. job[j] \in Job
      BY DEF TypeOK
    <3> QED
      BY <2>1, <3>1 DEF Job
  <2> QED
    BY <2>2, <2>3, FitsStays DEF RequestFits
<1>5. CASE Crash
  <2>1. ASSUME NEW j \in Jobs
        PROVE  \/ job'[j] = job[j] /\ job[j].at # "picked"
               \/ job'[j].path = NoPath /\ job'[j].at \in {"new", "over"}
    BY <1>5 DEF Crash, NewJob
  <2>2. rows' = rows
    BY <1>5 DEF Crash
  <2> QED
    BY <2>1, <2>2, FitsStays DEF RequestFits, Named
<1>6. CASE Purge \/ Tick \/ Write \/ VideoComesOrGoes
  BY <1>6 DEF Purge, Tick, Write, VideoComesOrGoes, RequestFits, FitsAt
<1> QED
  BY <1>1, <1>3, <1>4, <1>5, <1>6 DEF Next, RequestFits

-----------------------------------------------------------------------------
(* The recycle directory.                                                  *)

(* A job that has the mutex, takes it or gives it back disturbs no other.  *)
LEMMA OthersMoving ==
  ASSUME TypeOK, Moving, NEW j \in Jobs,
         job' = [job EXCEPT ![j] = job'[j]], recycling' = recycling,
         mu' = mu \/ mu = j \/ mu = NoJob,
         bin' \subseteq bin \/ mu = j,
         MovingAt(j)'
  PROVE  Moving'
<1> SUFFICES ASSUME NEW i \in Jobs, i # j PROVE MovingAt(i)'
  BY DEF Moving
<1>1. job'[i] = job[i] /\ MovingAt(i)
  BY DEF TypeOK, Moving
<1>2. HasMutex(i)' => mu = i /\ HasMutex(i)
  BY <1>1 DEF MovingAt, HasMutex
<1>3. HasMutex(i)' => mu' = i
  BY <1>2, ConstantsAssumption
<1>4. job'[i].at \in {"move", "copy"} => ~Whole(FileOf(i))'
  <2> SUFFICES ASSUME job[i].at \in {"move", "copy"} PROVE ~Whole(FileOf(i))'
    BY <1>1
  <2>1. bin' \subseteq bin /\ ~Whole(FileOf(i))
    BY <1>1, <1>2 DEF HasMutex, MovingAt
  <2>2. FileOf(i)' = FileOf(i)
    BY <1>1 DEF FileOf
  <2> QED
    BY <2>1, <2>2 DEF Whole
<1> QED
  BY <1>1, <1>3, <1>4 DEF MovingAt

LEMMA OthersCopyFit ==
  ASSUME TypeOK, Moving, CopyFits, NEW j \in Jobs,
         job' = [job EXCEPT ![j] = job'[j]], UNCHANGED <<recycling, now>>,
         UNCHANGED <<bin, body>> \/ mu = j \/ ~recycling,
         CopyFitsAt(j)'
  PROVE  CopyFits'
<1> SUFFICES ASSUME NEW i \in Jobs, i # j PROVE CopyFitsAt(i)'
  BY DEF CopyFits
<1>1. job'[i] = job[i] /\ MovingAt(i) /\ CopyFitsAt(i) /\ FileOf(i)' = FileOf(i)
  BY DEF TypeOK, Moving, CopyFits, FileOf
<1>2. CASE job[i].at = "copy" \/ (job[i].at = "remove" /\ recycling)
  <2>1. mu = i /\ recycling
    BY <1>1, <1>2 DEF MovingAt, HasMutex
  <2>2. UNCHANGED <<bin, body>>
    BY <2>1
  <2> QED
    BY <1>1, <2>2 DEF CopyFitsAt
<1>3. CASE ~(job[i].at = "copy" \/ (job[i].at = "remove" /\ recycling))
  BY <1>1, <1>3 DEF CopyFitsAt
<1> QED
  BY <1>2, <1>3

Recycling == CopyFits /\ Kept

(* A step of a job with no file at hand.                                   *)
LEMMA Elsewhere ==
  ASSUME TypeOK, Moving, NEW j \in Jobs,
         job' = [job EXCEPT ![j] = job'[j]],
         job'[j].at \in {"new", "picked", "queued", "wait", "row", "refresh", "over"},
         job'[j].at = "wait" => recycling,
         job'[j].at \in {"queued", "wait", "row"} => job'[j].path \in Paths,
         UNCHANGED <<recycling, now, body, took>>,
         mu' = mu \/ mu = j,
         bin' \subseteq bin, bin' = bin \/ mu = j,
         \A e \in bin : e.part \/ e \in bin'
  PROVE  Moving' /\ (Recycling => Recycling')
<1>1. MovingAt(j)'
  BY DEF MovingAt, HasMutex
<1>2. CopyFitsAt(j)'
  BY DEF CopyFitsAt
<1>3. Kept => Kept'
  BY DEF Kept
<1>4. Moving'
  BY <1>1, OthersMoving
<1>5. CopyFits => CopyFits'
  BY <1>2, OthersCopyFit
<1> QED
  BY <1>3, <1>4, <1>5 DEF Recycling

LEMMA EarlySteps ==
  ASSUME TypeOK, Moving, NEW j \in Jobs,
         Pick(j) \/ Submit(j) \/ StatSidecar(j) \/ DeleteRow(j) \/ Finish(j)
  PROVE  Moving' /\ (Recycling => Recycling')
<1> USE DEF media, disk, trash
<1>a. job[j] \in Job /\ job \in [Jobs -> Job] /\ MovingAt(j)
  BY DEF TypeOK, Moving
<1>1. UNCHANGED <<recycling, now, body, took, mu, bin>>
  BY DEF Pick, Submit, StatSidecar, DeleteRow, Finish
<1>b. ASSUME job' = [job EXCEPT ![j] = job'[j]], job'[j].at \in {"new", "picked", "refresh", "over"}
      PROVE  Moving' /\ (Recycling => Recycling')
  BY <1>1, <1>b, Elsewhere
<1>2. CASE Pick(j)
  <2>1. job' = [job EXCEPT ![j] = job'[j]] /\ job'[j].at = "picked"
    BY <1>a, <1>2 DEF Pick, NewJob
  <2> QED
    BY <1>b, <2>1
<1>3. CASE Submit(j)
  <2>1. CASE job' = [job EXCEPT ![j] = NewJob]
    BY <1>a, <1>b, <2>1 DEF NewJob
  <2>2. CASE \E p \in Requested(j) : job' = [job EXCEPT ![j].at = "queued", ![j].path = p]
    <3>1. PICK p \in Paths : job' = [job EXCEPT ![j].at = "queued", ![j].path = p]
      BY <2>2 DEF Requested, WithId
    <3>2. job' = [job EXCEPT ![j] = job'[j]] /\ job'[j].at = "queued" /\ job'[j].path = p
      BY <1>a, <3>1 DEF Job
    <3> QED
      BY <1>1, <3>2, Elsewhere
  <2> QED
    BY <1>3, <2>1, <2>2 DEF Submit
<1>4. CASE StatSidecar(j)
  <2>1. CASE End(j)
    BY <1>a, <1>b, <2>1 DEF End, NewJob
  <2>2. CASE job' = [job EXCEPT ![j].at = IF recycling THEN "wait" ELSE "remove",
                                ![j].path = PayloadPath(j)]
    <3>1. /\ job' = [job EXCEPT ![j] = job'[j]]
          /\ job'[j].at = IF recycling THEN "wait" ELSE "remove"
          /\ job'[j].path = job[j].path /\ job[j].path \in Paths
      BY <1>4, <1>a, <2>2 DEF StatSidecar, PayloadPath, Job, MovingAt
    <3>2. CASE recycling
      BY <1>1, <3>1, <3>2, Elsewhere
    <3>3. CASE ~recycling
      <4>1. MovingAt(j)' /\ CopyFitsAt(j)'
        BY <1>1, <3>1, <3>3 DEF MovingAt, HasMutex, CopyFitsAt
      <4>2. Moving'
        BY <1>1, <3>1, <4>1, OthersMoving
      <4>3. CopyFits => CopyFits'
        BY <1>1, <3>1, <4>1, OthersCopyFit
      <4>4. Kept => Kept'
        BY <1>1 DEF Kept
      <4> QED
        BY <4>2, <4>3, <4>4 DEF Recycling
    <3> QED
      BY <3>2, <3>3
  <2> QED
    BY <1>4, <2>1, <2>2 DEF StatSidecar
<1>5. CASE DeleteRow(j) \/ Finish(j)
  <2>1. \E at \in {"refresh", "over"} : job' = [job EXCEPT ![j] = [NewJob EXCEPT !.at = at]]
    BY <1>5 DEF DeleteRow, Finish, End
  <2> QED
    BY <1>a, <1>b, <2>1 DEF NewJob
<1> QED
  BY <1>2, <1>3, <1>4, <1>5

(* uniqueDst, under recycleMu, finds a name that no file has.              *)
LEMMA ChooseStep ==
  ASSUME TypeOK, Moving, NEW j \in Jobs, ChooseDst(j)
  PROVE  Moving' /\ (Recycling => Recycling')
<1> USE DEF media, disk
<1>a. job[j] \in Job /\ job \in [Jobs -> Job] /\ MovingAt(j)
  BY DEF TypeOK, Moving
<1>1. UNCHANGED <<recycling, now, body, took, bin>> /\ mu = NoJob /\ mu' = j /\ job[j].at = "wait"
  BY DEF ChooseDst, MutexFree
<1>2. PICK n \in 0..Cardinality(bin) :
        /\ ~Whole([stamp |-> now, stem |-> Stem[job[j].path], no |-> n])
        /\ job' = [job EXCEPT ![j].at = "move", ![j].stamp = now, ![j].no = n]
  BY DEF ChooseDst
<1>3. /\ job' = [job EXCEPT ![j] = job'[j]] /\ job'[j].at = "move" /\ job'[j].path = job[j].path
      /\ job'[j].stamp = now /\ job'[j].no = n
  BY <1>a, <1>2 DEF Job
<1>4. ~Whole(FileOf(j))'
  BY <1>1, <1>2, <1>3 DEF FileOf, Whole
<1>5. MovingAt(j)' /\ CopyFitsAt(j)'
  BY <1>a, <1>1, <1>3, <1>4 DEF MovingAt, HasMutex, CopyFitsAt
<1>6. Moving'
  BY <1>1, <1>3, <1>5, OthersMoving
<1>7. CopyFits => CopyFits'
  BY <1>1, <1>3, <1>5, OthersCopyFit
<1>8. Kept => Kept'
  BY <1>1 DEF Kept
<1> QED
  BY <1>6, <1>7, <1>8 DEF Recycling

(* A rename within the file system puts the file under the free name.      *)
LEMMA RenameStep ==
  ASSUME TypeOK, Moving, NEW j \in Jobs, MoveWithin(j)
  PROVE  Moving' /\ (Recycling => Recycling')
<1> USE DEF media
<1>a. job[j] \in Job /\ job \in [Jobs -> Job] /\ MovingAt(j)
  BY DEF TypeOK, Moving
<1> DEFINE b == body[job[j].path]
           new == [file |-> FileOf(j), part |-> FALSE, body |-> b]
<1>1. /\ mu = j /\ recycling /\ job[j].path \in Paths /\ ~Whole(FileOf(j))
      /\ UNCHANGED <<recycling, now>> /\ mu' = NoJob /\ b \in Bodies
      /\ job' = [job EXCEPT ![j].at = "row", ![j].stamp = 0, ![j].no = 0]
  BY <1>a DEF MoveWithin, MovingAt, HasMutex, TypeOK, ToRow
<1>2. /\ job' = [job EXCEPT ![j] = job'[j]] /\ job'[j].at = "row" /\ job'[j].path = job[j].path
  BY <1>a, <1>1 DEF Job
<1>3. MovingAt(j)' /\ CopyFitsAt(j)'
  BY <1>1, <1>2 DEF MovingAt, HasMutex, CopyFitsAt
<1>4. Moving'
  BY <1>1, <1>2, <1>3, OthersMoving
<1>5. CopyFits => CopyFits'
  BY <1>1, <1>2, <1>3, OthersCopyFit
<1>6. ASSUME Kept PROVE Kept'
  <2>1. new \in bin' /\ (\A e \in bin : ~e.part => e \in bin')
    BY <1>1 DEF MoveWithin, Put, Whole
  <2>2. took' = [took EXCEPT ![b] = job[j].stamp]
    BY <1>1 DEF MoveWithin, Gone, TypeOK
  <2>3. new.body = b /\ ~new.part /\ new.file.stamp = job[j].stamp
    BY DEF FileOf
  <2> HIDE DEF b, new
  <2>4. ASSUME NEW c \in Bodies, took'[c] # NotTaken, now <= took'[c] + Keep
        PROVE  \E e \in bin' : e.body = c /\ ~e.part /\ e.file.stamp = took'[c]
    <3>1. CASE c = b
      BY <1>1, <2>1, <2>2, <2>3, <3>1 DEF TypeOK
    <3>2. CASE c # b
      BY <1>6, <2>1, <2>2, <2>4, <3>2 DEF TypeOK, Kept
    <3> QED
      BY <3>1, <3>2
  <2> QED
    BY <1>1, <2>4 DEF Kept
<1> QED
  BY <1>4, <1>5, <1>6 DEF Recycling

(* Across file systems: what is copied is what lies there.                 *)
LEMMA CopySteps ==
  ASSUME TypeOK, Moving, NEW j \in Jobs, OpenCopy(j) \/ MoveFails(j) \/ CopyDone(j)
  PROVE  Moving' /\ (Recycling => Recycling')
<1> USE DEF media, disk
<1>a. job[j] \in Job /\ job \in [Jobs -> Job] /\ MovingAt(j)
  BY DEF TypeOK, Moving
<1>b. /\ mu = j /\ recycling /\ job[j].path \in Paths /\ ~Whole(FileOf(j))
      /\ UNCHANGED <<recycling, now, body, took>>
  BY <1>a DEF OpenCopy, MoveFails, CopyDone, MovingAt, HasMutex
<1>1. CASE OpenCopy(j)
  <2>1. /\ job' = [job EXCEPT ![j] = job'[j]] /\ job'[j].at = "copy" /\ job'[j].path = job[j].path
        /\ FileOf(j)' = FileOf(j)
    BY <1>a, <1>1 DEF OpenCopy, To, Job, FileOf
  <2>2. bin' = Put(j, TRUE, body[job[j].path]) /\ body[job[j].path] # 0 /\ mu' = mu
    BY <1>1 DEF OpenCopy
  <2>3. \A e \in bin' : e.file = FileOf(j) => e.part /\ e.body = body[job[j].path]
    BY <1>b, <2>2 DEF Put, Whole
  <2>4. MovingAt(j)' /\ CopyFitsAt(j)'
    BY <1>b, <2>1, <2>2, <2>3 DEF MovingAt, HasMutex, CopyFitsAt, Whole
  <2>5. Moving'
    BY <1>b, <2>1, <2>2, <2>4, OthersMoving
  <2>6. CopyFits => CopyFits'
    BY <1>b, <2>1, <2>4, OthersCopyFit
  <2>7. Kept => Kept'
    BY <1>b, <2>2 DEF Kept, Put
  <2> QED
    BY <2>5, <2>6, <2>7 DEF Recycling
<1>2. CASE MoveFails(j)
  <2>1. job' = [job EXCEPT ![j] = job'[j]] /\ job'[j].at = "over"
    BY <1>a, <1>2 DEF MoveFails, End, NewJob
  <2>2. bin' \subseteq bin /\ \A e \in bin : e.part \/ e \in bin'
    BY <1>2 DEF MoveFails, WithoutPart
  <2> QED
    BY <1>b, <2>1, <2>2, Elsewhere
<1>3. CASE CopyDone(j)
  <2> DEFINE parts == {e \in bin : e.file = FileOf(j) /\ e.part}
  <2>1. CASE parts = {}
    <3>1. job' = [job EXCEPT ![j] = job'[j]] /\ job'[j].at = "over" /\ bin' = bin
      BY <1>a, <1>3, <2>1 DEF CopyDone, End, NewJob
    <3> QED
      BY <1>b, <3>1, Elsewhere
  <2>2. CASE parts # {}
    <3>1. PICK e \in parts : bin' = Put(j, FALSE, e.body) \ parts
      BY <1>3, <2>2 DEF CopyDone
    <3>a. job[j].at = "copy" /\ e \in bin /\ e.file = FileOf(j) /\ e.part
      BY <1>3, <3>1 DEF CopyDone
    <3>2. /\ job' = [job EXCEPT ![j] = job'[j]] /\ job'[j].at = "remove" /\ job'[j].path = job[j].path
          /\ job'[j].stamp = job[j].stamp /\ FileOf(j)' = FileOf(j) /\ mu' = mu
      <4>1. To(j, "remove") /\ mu' = mu
        BY <1>3, <2>2 DEF CopyDone
      <4> QED
        BY <1>a, <4>1 DEF To, Job, FileOf
    <3> DEFINE copy == [file |-> FileOf(j), part |-> FALSE, body |-> e.body]
    <3>3. copy \in bin' /\ copy.file = FileOf(j) /\ ~copy.part /\ copy.body = e.body
      BY <3>1 DEF Put
    <3>4. \A f \in bin : ~f.part => f \in bin'
      BY <1>b, <3>1 DEF Put, Whole
    <3>5. MovingAt(j)'
      BY <1>b, <3>2 DEF MovingAt, HasMutex
    <3>6. CopyFits => CopyFitsAt(j)'
      <4>1. CopyFits => e.body = body[job[j].path]
        BY <3>a DEF CopyFits, CopyFitsAt
      <4> HIDE DEF copy
      <4> QED
        BY <1>b, <3>2, <3>3, <4>1 DEF CopyFitsAt
    <3>7. Moving'
      BY <1>b, <3>2, <3>5, OthersMoving
    <3>8. CopyFits => CopyFits'
      BY <1>b, <3>2, <3>6, OthersCopyFit
    <3>9. Kept => Kept'
      BY <1>b, <3>4 DEF Kept
    <3> QED
      BY <3>7, <3>8, <3>9 DEF Recycling
  <2> QED
    BY <2>1, <2>2
<1> QED
  BY <1>1, <1>2, <1>3

(* The source goes last, or at once when nothing is recycled.              *)
LEMMA RemoveSteps ==
  ASSUME TypeOK, Moving, NEW j \in Jobs, RemoveSrc(j) \/ RemoveFails(j)
  PROVE  Moving' /\ (Recycling => Recycling')
<1> USE DEF media, disk
<1>a. job[j] \in Job /\ job \in [Jobs -> Job] /\ MovingAt(j)
  BY DEF TypeOK, Moving
<1>b. /\ job[j].path \in Paths
      /\ (recycling => mu = j)
      /\ UNCHANGED <<recycling, now, bin>> /\ mu' = (IF mu = j THEN NoJob ELSE mu)
  BY <1>a DEF RemoveSrc, RemoveFails, MovingAt, HasMutex, Unlocked
<1>1. CASE RemoveSrc(j)
  <2> DEFINE b == body[job[j].path]
  <2>1. job' = [job EXCEPT ![j] = job'[j]] /\ job'[j].at = "row" /\ job'[j].path = job[j].path
    BY <1>a, <1>1 DEF RemoveSrc, ToRow, Job
  <2>2. MovingAt(j)' /\ CopyFitsAt(j)'
    BY <1>b, <2>1 DEF MovingAt, HasMutex, CopyFitsAt
  <2>3. Moving'
    BY <1>b, <2>1, <2>2, OthersMoving
  <2>4. CopyFits => CopyFits'
    BY <1>b, <2>1, <2>2, OthersCopyFit
  <2>5. ASSUME CopyFits, Kept PROVE Kept'
    <3>1. CASE recycling
      <4>1. b \in Bodies /\ took' = [took EXCEPT ![b] = job[j].stamp]
        BY <1>1, <1>b, <3>1 DEF RemoveSrc, Gone, TypeOK
      <4>2. now <= job[j].stamp + Keep =>
              \E e \in bin : e.body = b /\ ~e.part /\ e.file.stamp = job[j].stamp
        <5> SUFFICES ASSUME now <= job[j].stamp + Keep
                     PROVE  \E e \in bin : e.body = b /\ ~e.part /\ e.file.stamp = job[j].stamp
          OBVIOUS
        <5>1. PICK e \in bin : e.file = FileOf(j) /\ ~e.part /\ e.body = b
          BY <1>1, <2>5, <3>1 DEF RemoveSrc, CopyFits, CopyFitsAt
        <5>2. e.file.stamp = job[j].stamp
          BY <5>1 DEF FileOf
        <5> QED
          BY <5>1, <5>2
      <4> HIDE DEF b
      <4>3. ASSUME NEW c \in Bodies, took'[c] # NotTaken, now <= took'[c] + Keep
            PROVE  \E e \in bin : e.body = c /\ ~e.part /\ e.file.stamp = took'[c]
        <5>1. CASE c = b
          BY <4>1, <4>2, <4>3, <5>1 DEF TypeOK
        <5>2. CASE c # b
          BY <2>5, <4>1, <4>3, <5>2 DEF TypeOK, Kept
        <5> QED
          BY <5>1, <5>2
      <4> QED
        BY <1>b, <4>3 DEF Kept
    <3>2. CASE ~recycling
      BY <1>1, <1>b, <2>5, <3>2 DEF RemoveSrc, Gone, Kept
    <3> QED
      BY <3>1, <3>2
  <2> QED
    BY <2>3, <2>4, <2>5 DEF Recycling
<1>2. CASE RemoveFails(j)
  <2>1. job' = [job EXCEPT ![j] = job'[j]] /\ job'[j].at = "over"
    BY <1>a, <1>2 DEF RemoveFails, End, NewJob
  <2>2. UNCHANGED <<body, took>> /\ (mu' = mu \/ mu = j)
    BY <1>2, <1>b DEF RemoveFails
  <2> QED
    BY <1>b, <2>1, <2>2, Elsewhere
<1> QED
  BY <1>1, <1>2

(* Purges spare what is not over its time; nobody else may write what is   *)
(* being copied.                                                           *)
LEMMA WorldStep ==
  ASSUME TypeOK, Moving, Purge \/ Tick \/ Write \/ VideoComesOrGoes \/ Forget \/ Crash
  PROVE  Moving' /\ (~Rewriting /\ Recycling => Recycling')
<1> USE DEF media, disk, trash
<1>1. CASE Purge
  <2>1. PICK e \in bin : e.file.stamp < now - Keep /\ bin' = bin \ {e}
    BY <1>1 DEF Purge
  <2>2. UNCHANGED <<job, mu, recycling, now, body, took>>
    BY <1>1 DEF Purge
  <2>3. now \in Int /\ Keep \in Int /\ e.file.stamp \in Int
    BY <2>1, ConstantsAssumption DEF TypeOK, Times, Entry
  <2>4. \A f \in bin : f.file.stamp >= now - Keep => f \in bin'
    BY <2>1, <2>3
  <2>5. Moving'
    BY <2>1, <2>2 DEF Moving, MovingAt, HasMutex, FileOf, Whole
  <2>6. ASSUME CopyFits, NEW j \in Jobs PROVE CopyFitsAt(j)'
    <3>1. job[j].at = "remove" /\ recycling /\ body[job[j].path] # 0 /\ now <= job[j].stamp + Keep =>
            \E f \in bin' : f.file = FileOf(j) /\ ~f.part /\ f.body = body[job[j].path]
      <4> SUFFICES ASSUME job[j].at = "remove", recycling, body[job[j].path] # 0,
                          now <= job[j].stamp + Keep
                   PROVE  \E f \in bin' : f.file = FileOf(j) /\ ~f.part /\ f.body = body[job[j].path]
        OBVIOUS
      <4>1. PICK f \in bin : f.file = FileOf(j) /\ ~f.part /\ f.body = body[job[j].path]
        BY <2>6 DEF CopyFits, CopyFitsAt
      <4>2. f.file.stamp = job[j].stamp
        BY <4>1 DEF FileOf
      <4>3. job[j].stamp \in Int
        BY DEF TypeOK, Job, Times
      <4> QED
        BY <2>3, <2>4, <4>1, <4>2, <4>3
    <3>2. FileOf(j)' = FileOf(j)
      BY <2>2 DEF FileOf
    <3> QED
      BY <2>1, <2>2, <2>6, <3>1, <3>2 DEF CopyFits, CopyFitsAt
  <2>7. Kept => Kept'
    BY <2>2, <2>3, <2>4 DEF Kept, TypeOK, Times
  <2> QED
    BY <2>5, <2>6, <2>7 DEF Recycling, CopyFits
<1>2. CASE Tick
  <2>1. UNCHANGED <<job, mu, recycling, bin, body, took>> /\ now' = now + 1 /\ now \in Int
    BY <1>2, ConstantsAssumption DEF Tick, TypeOK, Times
  <2>2. \A j \in Jobs : job[j].stamp \in Int
    BY DEF TypeOK, Job, Times
  <2>3. Moving'
    BY <2>1 DEF Moving, MovingAt, HasMutex, FileOf, Whole
  <2>4. CopyFits => CopyFits'
    BY <2>1, <2>2, ConstantsAssumption DEF CopyFits, CopyFitsAt, FileOf
  <2>5. Kept => Kept'
    BY <2>1, ConstantsAssumption DEF Kept, TypeOK, Times, NotTaken
  <2> QED
    BY <2>3, <2>4, <2>5 DEF Recycling
<1>3. CASE Write
  <2>1. UNCHANGED <<job, mu, recycling, bin, now, took>>
    BY <1>3 DEF Write
  <2>2. Moving'
    BY <2>1 DEF Moving, MovingAt, HasMutex, FileOf, Whole
  <2>3. Kept => Kept'
    BY <2>1 DEF Kept
  <2>4. ASSUME ~Rewriting, CopyFits, NEW j \in Jobs PROVE CopyFitsAt(j)'
    <3>1. CASE job[j].at \in {"copy", "remove"}
      <4>1. body'[job[j].path] = body[job[j].path]
        BY <1>3, <2>4, <3>1 DEF Write, Copying, TypeOK
      <4> QED
        BY <2>1, <2>4, <4>1 DEF CopyFits, CopyFitsAt, FileOf
    <3>2. CASE job[j].at \notin {"copy", "remove"}
      BY <2>1, <3>2 DEF CopyFitsAt
    <3> QED
      BY <3>1, <3>2
  <2> QED
    BY <2>2, <2>3, <2>4 DEF Recycling, CopyFits
<1>4. CASE VideoComesOrGoes
  BY <1>4 DEF VideoComesOrGoes, Moving, MovingAt, HasMutex, FileOf, Whole, Recycling, CopyFits,
              CopyFitsAt, Kept
<1>5. CASE Forget
  <2>1. PICK v \in Videos :
          job' = [j \in Jobs |-> IF job[j].file = v /\ job[j].at # "picked"
                                THEN [job[j] EXCEPT !.file = NoVideo] ELSE job[j]]
    BY <1>5 DEF Forget
  <2>2. UNCHANGED <<mu, recycling, bin, now, body, took>>
    BY <1>5 DEF Forget
  <2>3. ASSUME NEW j \in Jobs
        PROVE  /\ job'[j].at = job[j].at /\ job'[j].path = job[j].path
               /\ job'[j].stamp = job[j].stamp /\ job'[j].no = job[j].no
    <3>1. job[j] \in Job
      BY DEF TypeOK
    <3> QED
      BY <2>1, <3>1 DEF Job
  <2>4. \A j \in Jobs : FileOf(j)' = FileOf(j)
    BY <2>3 DEF FileOf
  <2>5. Moving'
    BY <2>2, <2>3, <2>4 DEF Moving, MovingAt, HasMutex, Whole
  <2>6. CopyFits => CopyFits'
    BY <2>2, <2>3, <2>4 DEF CopyFits, CopyFitsAt
  <2> QED
    BY <2>2, <2>5, <2>6 DEF Recycling, Kept
<1>6. CASE Crash
  <2>1. UNCHANGED <<recycling, bin, now, body, took>>
    BY <1>6 DEF Crash
  <2>2. ASSUME NEW j \in Jobs
        PROVE  /\ job'[j].at \in {"new", "queued", "over"}
               /\ job'[j].at = "queued" => job'[j] = job[j]
    <3>1. job[j].at \in Stages
      BY DEF TypeOK, Job
    <3> QED
      BY <1>6, <3>1 DEF Crash, NewJob, Stages
  <2>3. Moving'
    BY <2>2 DEF Moving, MovingAt, HasMutex
  <2>4. CopyFits'
    BY <2>2 DEF CopyFits, CopyFitsAt
  <2> QED
    BY <2>1, <2>3, <2>4 DEF Recycling, Kept
<1> QED
  BY <1>1, <1>2, <1>3, <1>4, <1>5, <1>6

(* A visit touches no file, and of a job only what is noted of its id.     *)
LEMMA VisitsKeepMoving ==
  ASSUME TypeOK, Moving, NEW s \in Scans \cup Jobs, VisitStep(s)
  PROVE  Moving' /\ (Recycling => Recycling')
<1>1. UNCHANGED <<mu, bin, took, recycling, now, body>>
  BY DEF VisitStep, Find, LookUp, LookUpChanged, StoreSummary, ReplaceSidecars, VisitFails,
         disk, trash
<1>2. ASSUME NEW j \in Jobs
      PROVE  /\ job'[j].at = job[j].at /\ job'[j].path = job[j].path
             /\ job'[j].stamp = job[j].stamp /\ job'[j].no = job[j].no
  <2>1. CASE ReplaceSidecars(s)
    <3>1. PICK r : job'[j] = [job[j] EXCEPT !.reuse = r]
      BY <2>1, ReplaceJobs
    <3>2. job[j] \in Job
      BY DEF TypeOK
    <3> QED
      BY <3>1, <3>2 DEF Job
  <2>2. CASE job' = job
    BY <2>2
  <2> QED
    BY <2>1, <2>2 DEF VisitStep, Find, LookUp, LookUpChanged, StoreSummary, VisitFails
<1>3. \A j \in Jobs : FileOf(j)' = FileOf(j)
  BY <1>2 DEF FileOf
<1>4. Moving'
  BY <1>1, <1>2, <1>3 DEF Moving, MovingAt, HasMutex, Whole
<1>5. CopyFits => CopyFits'
  BY <1>1, <1>2, <1>3 DEF CopyFits, CopyFitsAt
<1>6. Kept => Kept'
  BY <1>1 DEF Kept
<1> QED
  BY <1>4, <1>5, <1>6 DEF Recycling

LEMMA MovingStep ==
  ASSUME TypeOK, Moving, [Next]_vars
  PROVE  Moving' /\ (~Rewriting /\ Recycling => Recycling')
<1>1. ASSUME NEW s \in Scans \cup Jobs, VisitStep(s)
      PROVE  Moving' /\ (Recycling => Recycling')
  BY <1>1, VisitsKeepMoving
<1>2. ASSUME NEW j \in Jobs, JobStep(j)
      PROVE  Moving' /\ (Recycling => Recycling')
  BY <1>2, EarlySteps, ChooseStep, RenameStep, CopySteps, RemoveSteps DEF JobStep
<1>3. CASE Purge \/ Tick \/ Write \/ VideoComesOrGoes \/ Forget \/ Crash
  BY <1>3, WorldStep
<1>4. CASE UNCHANGED vars
  BY <1>4 DEF vars, disk, trash, Moving, MovingAt, HasMutex, FileOf, Whole, Recycling, CopyFits,
              CopyFitsAt, Kept
<1> QED
  BY <1>1, <1>2, <1>3, <1>4 DEF Next

LEMMA RowsStutter ==
  ASSUME IdsDiffer, UNCHANGED vars
  PROVE  /\ IdsDiffer'
         /\ RequestFits => RequestFits'
BY DEF vars, IdsDiffer, RequestFits, FitsAt

LEMMA StepHolds == ASSUME IInv, [Next]_vars PROVE IInv'
<1> USE DEF IInv
<1>1. TypeOK' /\ IsFiniteSet(bin)'
  BY TypeStep
<1>2. VisitsVideo'
  BY VisitStepVideo
<1>3. IdsDiffer'
  BY RowsStep, RowsStutter
<1>4. RequestFits'
  BY PickStep, RowsStutter
<1>5. Moving' /\ (~Rewriting => CopyFits' /\ Kept')
  BY MovingStep DEF Recycling
<1> QED
  BY <1>1, <1>2, <1>3, <1>4, <1>5

LEMMA Inductive == Spec => []IInv
<1>1. Init => IInv
  BY InitHolds
<1>2. IInv /\ [Next]_vars => IInv'
  BY StepHolds
<1> QED
  BY <1>1, <1>2, PTL DEF Spec

-----------------------------------------------------------------------------
(* The theorems.                                                           *)

(* Whatever scans, jobs, the purge, failures and crashes do, the state     *)
(* stays within its types.                                                 *)
THEOREM SidecarsType == Spec => []TypeOK
<1>1. IInv => TypeOK
  BY DEF IInv
<1> QED
  BY <1>1, Inductive, PTL

(* With no writer into a sidecar while it is copied, what any number of    *)
(* jobs took lies whole in the recycle directory until its time is over:   *)
(* recycleMu and the search for a free name suffice against jobs that meet *)
(* at one name, failed copies, purges and crashes (uniqueDst, moveFile).   *)
THEOREM KeptForTheRetention ==
  ASSUME ~Rewriting
  PROVE  Spec => []Recycled
<1>1. IInv => Recycled
  BY DEF IInv, Kept, Recycled
<1> QED
  BY <1>1, Inductive, PTL

(* Whatever rescans, requests, deletions, failures and crashes come in any *)
(* order, a job that takes another file than the picked one does so after  *)
(* a rescan gave its id to another sidecar of the same video before the    *)
(* request was made, and one that deletes another row than that of its     *)
(* file does so after its id was given away while it was queued or at work *)
(* (enqueueForFile, RunJob; no assumption on the windows between them).    *)
THEOREM RightOneDeleted == Spec => []RightSidecar
<1>1. ASSUME RequestFits, NEW j \in Jobs
      PROVE  /\ job[j].path \in {NoPath, job[j].picked} \/ "seen" \in job[j].reuse
             /\ job[j].at = "row" =>
                  WithId(job[j].id) \subseteq {job[j].path} \/ "queued" \in job[j].reuse
  BY <1>1 DEF RequestFits, FitsAt, Named, WithId
<1>2. IInv => RightSidecar
  BY <1>1 DEF IInv, RightSidecar
<1> QED
  BY <1>2, Inductive, PTL
=============================================================================
