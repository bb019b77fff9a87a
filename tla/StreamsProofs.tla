---------------------------- MODULE StreamsProofs ----------------------------
(***************************************************************************)
(* Proofs about Streams for any files, kinds of streams, requests, tools   *)
(* and any number of streams on which ffprobe and mkvmerge disagree.       *)
(***************************************************************************)
EXTENDS Streams, FiniteSetTheorems, SequenceTheorems, TLAPS

-----------------------------------------------------------------------------
(* Streams, their counts and ranks.                                        *)

LEMMA TheFile ==
  ASSUME ConstantsAssumption, TypeOK
  PROVE  /\ DOMAIN file \subseteq Idx /\ Idx \subseteq Nat
         /\ IsFiniteSet(DOMAIN file)
         /\ \A i \in DOMAIN file : file[i] \in Kinds /\ Type(i) \in Types
<1>1. file \in Seq(Kinds) /\ Len(file) <= MaxIndex /\ MaxIndex \in Nat
  BY DEF ConstantsAssumption, TypeOK
<1>2. DOMAIN file = 1..Len(file) /\ Len(file) \in Nat
  BY <1>1
<1>3. IsFiniteSet(DOMAIN file)
  BY <1>2, FS_Interval
<1>4. \A i \in DOMAIN file : file[i] \in Kinds
  BY <1>1, <1>2
<1> QED  BY <1>1, <1>2, <1>3, <1>4 DEF Idx, ConstantsAssumption, Type

\* Sets of streams are finite and can be counted.
LEMMA Counted ==
  ASSUME ConstantsAssumption, TypeOK, NEW S \in SUBSET DOMAIN file
  PROVE  IsFiniteSet(S) /\ Cardinality(S) \in Nat
<1>1. IsFiniteSet(S)
  BY TheFile, FS_Subset
<1> QED  BY <1>1, FS_CardinalityType

\* A smaller set has fewer elements.
LEMMA FewerIfSmaller ==
  ASSUME NEW S, IsFiniteSet(S), NEW T \in SUBSET S, T # S
  PROVE  IsFiniteSet(T) /\ Cardinality(T) < Cardinality(S)
<1>1. IsFiniteSet(T) /\ Cardinality(T) <= Cardinality(S) /\ Cardinality(S) # Cardinality(T)
  BY FS_Subset
<1>2. Cardinality(S) \in Nat /\ Cardinality(T) \in Nat
  BY <1>1, FS_CardinalityType
<1> QED  BY <1>1, <1>2

LEMMA OneMoreElement ==
  ASSUME NEW S, IsFiniteSet(S), NEW x, x \notin S
  PROVE  Cardinality(S \cup {x}) # Cardinality(S)
<1>1. Cardinality(S \cup {x}) = Cardinality(S) + 1 /\ Cardinality(S) \in Nat
  BY FS_AddElement, FS_CardinalityType
<1> QED  BY <1>1

\* Of two streams the later one has the greater rank.
LEMMA LaterRank ==
  ASSUME NEW S \in SUBSET Nat, IsFiniteSet(S), NEW a \in S, NEW b \in S, a < b
  PROVE  Rank(a, S) < Rank(b, S)
<1> DEFINE before(k) == {j \in S : j < k}
<1>1. IsFiniteSet(before(b))
  <2>1. before(b) \in SUBSET S  OBVIOUS
  <2> QED  BY <2>1, FS_Subset
<1>2. before(a) \in SUBSET before(b)
  <2> SUFFICES ASSUME NEW j \in S, j < a PROVE j < b
    OBVIOUS
  <2>1. j \in Nat /\ a \in Nat /\ b \in Nat
    OBVIOUS
  <2> QED  BY <2>1
<1>3. before(a) # before(b)
  <2>1. a \in before(b) /\ a \notin before(a)  OBVIOUS
  <2> QED  BY <2>1
<1>4. Rank(a, S) = Cardinality(before(a)) /\ Rank(b, S) = Cardinality(before(b))
  BY Zenon DEF Rank
<1> HIDE DEF before
<1>5. Cardinality(before(a)) < Cardinality(before(b))
  BY <1>1, <1>2, <1>3, FewerIfSmaller
<1> QED  BY <1>4, <1>5

LEMMA RankTells ==
  ASSUME NEW S \in SUBSET Nat, IsFiniteSet(S), NEW i \in S, NEW j \in S,
         Rank(i, S) = Rank(j, S)
  PROVE  i = j
<1>1. \A k \in S : Rank(k, S) \in Nat
  <2> TAKE k \in S
  <2>1. {l \in S : l < k} \in SUBSET S  OBVIOUS
  <2>2. IsFiniteSet({l \in S : l < k})  BY <2>1, FS_Subset
  <2> QED  BY <2>2, FS_CardinalityType DEF Rank
<1>2. ~(i < j)  BY <1>1, LaterRank
<1>3. ~(j < i)  BY <1>1, LaterRank
<1> QED  BY <1>2, <1>3

-----------------------------------------------------------------------------
(* The alignment.                                                          *)

\* One of two sets of streams holds the other and they are as many: the same.
LEMMA SameIfAsMany ==
  ASSUME ConstantsAssumption, TypeOK,
         NEW S \in SUBSET DOMAIN file, NEW T \in SUBSET DOMAIN file,
         S \subseteq T \/ T \subseteq S, Cardinality(S) = Cardinality(T)
  PROVE  S = T
<1>1. IsFiniteSet(S) /\ IsFiniteSet(T)
  BY Counted
<1> QED  BY <1>1, FS_Subset

TracksOf(set) == {i \in set : Type(i) \in Tracks}

\* Equal counts: for audio mkvmerge lists what ffprobe does, for the other types
\* unless a stream of each of two types is odd.
LEMMA ListsAgree ==
  ASSUME ConstantsAssumption, TypeOK, CountsMatch
  PROVE  /\ MkvTracks("audio") = OfType("audio")
         /\ Swapped("subtitle", "data") \/ MkvTracks("subtitle") = OfType("subtitle")
         /\ Swapped("video", "attachment") \/ MkvTracks("video") = OfType("video")
<1>1. \A t \in Tracks : /\ OfType(t) \in SUBSET DOMAIN file /\ MkvTracks(t) \in SUBSET DOMAIN file
                        /\ Cardinality(MkvTracks(t)) = Cardinality(OfType(t))
  BY DEF OfType, MkvTracks, Listed, CountsMatch
<1>2. MkvTracks("audio") \subseteq OfType("audio")
  BY TheFile DEF OfType, MkvTracks, Listed, MkvType, Types, Tracks
<1>3. /\ OfType("subtitle") \cap odd = {} => OfType("subtitle") \subseteq MkvTracks("subtitle")
      /\ OfType("data") \cap odd = {} => MkvTracks("subtitle") \subseteq OfType("subtitle")
  BY TheFile DEF OfType, MkvTracks, Listed, MkvType, Types, Tracks
<1>4. /\ OfType("video") \cap odd = {} => OfType("video") \subseteq MkvTracks("video")
      /\ OfType("attachment") \cap odd = {} => MkvTracks("video") \subseteq OfType("video")
  BY TheFile DEF OfType, MkvTracks, Listed, MkvType, Types, Tracks
<1>5. "audio" \in Tracks /\ "subtitle" \in Tracks /\ "video" \in Tracks
  BY DEF Tracks
<1>6. MkvTracks("audio") = OfType("audio")
  BY <1>1, <1>2, <1>5, SameIfAsMany
<1>7. Swapped("subtitle", "data") \/ MkvTracks("subtitle") = OfType("subtitle")
  BY <1>1, <1>3, <1>5, SameIfAsMany DEF Swapped
<1>8. Swapped("video", "attachment") \/ MkvTracks("video") = OfType("video")
  BY <1>1, <1>4, <1>5, SameIfAsMany DEF Swapped
<1> QED  BY <1>6, <1>7, <1>8

\* A stream whose id is known is a track, and the id is that of one of its type.
LEMMA IdsAreTracks ==
  ASSUME ConstantsAssumption, TypeOK, NEW i \in DOMAIN file, Known(i)
  PROVE  /\ CountsMatch /\ Type(i) \in Tracks
         /\ MkvID(i) \in AtPosition(i) /\ MkvID(i) \in MkvTracks(Type(i))
<1>1. MkvIDs(i) = AtPosition(i) /\ AtPosition(i) # {} /\ CountsMatch
  BY DEF Known, MkvIDs, AlignFails
<1>2. MkvID(i) \in AtPosition(i)
  BY <1>1 DEF MkvID
<1>3. MkvID(i) \in MkvTracks(Type(i))
  BY <1>2 DEF AtPosition
<1>4. MkvID(i) \in DOMAIN file /\ MkvType(MkvID(i)) = Type(i)
  BY <1>3 DEF MkvTracks, Listed
<1>5. Type(i) \in Tracks
  BY <1>4, TheFile DEF MkvType, Types, Tracks
<1> QED  BY <1>1, <1>2, <1>3, <1>5

\* Where both list the same tracks of a type, ids are right.
LEMMA OwnId ==
  ASSUME ConstantsAssumption, TypeOK, NEW i \in DOMAIN file, Known(i),
         MkvTracks(Type(i)) = OfType(Type(i))
  PROVE  MkvID(i) = i
<1>1. MkvID(i) \in AtPosition(i)
  BY IdsAreTracks
<1>2. /\ MkvID(i) \in OfType(Type(i)) /\ i \in OfType(Type(i))
      /\ Rank(MkvID(i), OfType(Type(i))) = Rank(i, OfType(Type(i)))
  BY <1>1 DEF AtPosition, OfType
<1>3. OfType(Type(i)) \in SUBSET DOMAIN file
  BY DEF OfType
<1>4. IsFiniteSet(OfType(Type(i))) /\ OfType(Type(i)) \in SUBSET Nat
  BY <1>3, Counted, TheFile
<1> QED  BY <1>2, <1>4, RankTells

\* Nothing swapped, one id known: no stream is odd and every id its own.
LEMMA IdsAreRight ==
  ASSUME ConstantsAssumption, TypeOK, Aligned, NEW i \in DOMAIN file, Known(i)
  PROVE  odd = {} /\ Type(i) \in Tracks /\ MkvID(i) = i
<1>1. CountsMatch /\ Type(i) \in Tracks
  BY IdsAreTracks
<1>2. \A t \in Tracks : MkvTracks(t) = OfType(t)
  BY <1>1, ListsAgree DEF Aligned, Tracks
<1>3. MkvID(i) = i
  BY <1>1, <1>2, OwnId
<1>4. ASSUME NEW j \in odd PROVE FALSE
  <2>1. j \in DOMAIN file /\ Type(j) \in Types
    BY TheFile DEF TypeOK
  <2>2. MkvType(j) \in Tracks /\ (Type(j) \in Tracks => MkvType(j) = Type(j))
    BY <2>1 DEF MkvType, Types, Tracks
  <2>3. j \in Listed <=> Type(j) \notin Tracks
    BY <2>1 DEF Listed
  <2>4. j \in MkvTracks(MkvType(j)) <=> Type(j) = MkvType(j)
    BY <1>2, <2>1, <2>2 DEF OfType
  <2> QED  BY <2>2, <2>3, <2>4 DEF MkvTracks
<1> QED  BY <1>1, <1>3, <1>4

-----------------------------------------------------------------------------
(* Types.                                                                  *)

LEMMA IdsAreStreams ==
  ASSUME ConstantsAssumption, TypeOK, NEW i \in DOMAIN file, Known(i)
  PROVE  MkvID(i) \in DOMAIN file /\ MkvID(i) \in Idx
<1>1. MkvIDs(i) # {} /\ MkvIDs(i) \subseteq AtPosition(i)
  BY DEF Known, MkvIDs
<1>2. MkvID(i) \in MkvIDs(i)
  BY <1>1 DEF MkvID
<1>3. AtPosition(i) \subseteq DOMAIN file
  BY DEF AtPosition, MkvTracks, Listed
<1> QED  BY <1>1, <1>2, <1>3, TheFile

LEMMA RanksAreNumbers ==
  ASSUME ConstantsAssumption, TypeOK, NEW i, NEW t
  PROVE  Rank(i, OfType(t)) \in Nat
<1>1. {j \in OfType(t) : j < i} \in SUBSET DOMAIN file
  BY DEF OfType
<1>2. Cardinality({j \in OfType(t) : j < i}) \in Nat
  BY <1>1, Counted
<1> QED  BY <1>2 DEF Rank

\* No request and no arguments, and changes of their fields.
LEMMA NoneTyped ==
  Empty \in Jobs /\ NoArgs \in Args
<1>1. <<>> \in Seq(Idx)
  OBVIOUS
<1> QED  BY <1>1 DEF Empty, Jobs, NoArgs, Args

LEMMA ArgsChange ==
  ASSUME NEW a \in Args, NEW tool \in {"mkvmerge", "ffmpeg", "mkvpropedit"}
  PROVE  /\ [a EXCEPT !.tool = tool] \in Args
         /\ \A keep \in SUBSET Idx : [a EXCEPT !.tool = tool, !.keep = keep] \in Args
         /\ \A lists \in SUBSET Tracks, keep \in SUBSET Idx :
              [a EXCEPT !.tool = tool, !.lists = lists, !.keep = keep] \in Args
         /\ \A maps \in SUBSET (Tracks \X Nat) : [a EXCEPT !.tool = tool, !.maps = maps] \in Args
         /\ \A order \in Seq(Idx) : [a EXCEPT !.tool = tool, !.order = order] \in Args
BY DEF Args

LEMMA JobsChange ==
  ASSUME NEW j \in Jobs
  PROVE  /\ \A audio, subs \in SUBSET Idx, last \in BOOLEAN :
              [j EXCEPT !.kind = "remove", !.audio = audio, !.subs = subs, !.last = last] \in Jobs
         /\ \A audio, subs \in SUBSET Idx :
              [j EXCEPT !.kind = "batch", !.audio = audio, !.subs = subs] \in Jobs
         /\ \A order \in Seq(Idx) : [j EXCEPT !.kind = "reorder", !.order = order] \in Jobs
         /\ \A edits \in SUBSET Idx : [j EXCEPT !.kind = "edit", !.edits = edits] \in Jobs
         /\ \A adds \in SUBSET {"audio", "subtitle"} :
              [j EXCEPT !.kind = "merge", !.adds = adds] \in Jobs
BY DEF Jobs

LEMMA ArgsTyped ==
  ASSUME ConstantsAssumption, TypeOK, Removes, Valid
  PROVE  /\ IDsKnown => KeepArgs \in Args
         /\ MapArgs \in Args
<1>1. Removed = [video |-> {}, audio |-> job.audio, subtitle |-> job.subs]
  BY DEF Removed
<1>2. ASSUME IDsKnown
      PROVE  KeepArgs \in Args
  <2> DEFINE lists == {t \in Tracks : Removed[t] # {}}
             kept  == {k \in DOMAIN file : Type(k) \in lists /\ k \notin Removed[Type(k)]}
             keep  == {MkvID(i) : i \in kept}
  <2>1. lists \subseteq {"audio", "subtitle"}
    BY <1>1 DEF Tracks
  <2>2. \A k \in kept : k \in DOMAIN file /\ Known(k)
    BY <1>2, <2>1 DEF IDsKnown
  <2>3. \A k \in kept : MkvID(k) \in Idx
    BY <2>2, IdsAreStreams
  <2>4. keep \subseteq Idx
    BY <2>3
  <2>5. lists \in SUBSET Tracks
    OBVIOUS
  <2>6. KeepArgs = [NoArgs EXCEPT !.tool = "mkvmerge", !.lists = lists, !.keep = keep]
    BY DEF KeepArgs
  <2> HIDE DEF lists, keep
  <2> QED  BY <2>4, <2>5, <2>6, NoneTyped, ArgsChange
<1>3. MapArgs \in Args
  <2> DEFINE maps == {<<Type(i), Rank(i, OfType(Type(i)))>> : i \in job.audio \cup job.subs}
  <2>1. \A i \in job.audio \cup job.subs : Type(i) \in Tracks
    BY DEF Valid, OfType, Tracks
  <2>2. maps \subseteq Tracks \X Nat
    BY <2>1, RanksAreNumbers
  <2>3. MapArgs = [NoArgs EXCEPT !.tool = "ffmpeg", !.maps = maps]
    BY DEF MapArgs
  <2> HIDE DEF maps
  <2> QED  BY <2>2, <2>3, NoneTyped, ArgsChange
<1> QED  BY <1>2, <1>3

LEMMA Copied ==
  ASSUME ConstantsAssumption, TypeOK
  PROVE  Copies \subseteq DOMAIN file
BY DEF Copies, MkvmergeCopies, FfmpegCopies, Listed, OfType

LEMMA TypeStart ==
  ASSUME ConstantsAssumption, Init
  PROVE  TypeOK
BY DEF Init, TypeOK, Empty, Jobs, NoArgs, Args, NoFault

\* The request reaches the queue as a job.
LEMMA QueueTyped ==
  ASSUME TypeOK, NEW j \in Jobs, Queue(j)
  PROVE  TypeOK'
BY DEF Queue, given, TypeOK

LEMMA SubmitTyped ==
  ASSUME ConstantsAssumption, TypeOK,
         SubmitRemove \/ SubmitBatch \/ SubmitReorder \/ SubmitEdit \/ SubmitMerge
  PROVE  TypeOK'
<1>1. ASSUME SubmitRemove PROVE TypeOK'
  BY <1>1, NoneTyped, JobsChange, QueueTyped DEF SubmitRemove
<1>2. ASSUME SubmitBatch PROVE TypeOK'
  <2>1. PICK keep \in SUBSET Langs, drop \in SUBSET Langs, subs \in SUBSET Langs, all \in BOOLEAN :
          Queue([Empty EXCEPT !.kind = "batch", !.audio = BatchAudio(keep, drop),
                              !.subs = BatchSubs(all, subs)])
    BY <1>2 DEF SubmitBatch
  <2>2. BatchAudio(keep, drop) \subseteq Idx /\ BatchSubs(all, subs) \subseteq Idx
    BY TheFile DEF BatchAudio, BatchSubs, OfType
  <2> QED  BY <2>1, <2>2, NoneTyped, JobsChange, QueueTyped
<1>3. ASSUME SubmitReorder PROVE TypeOK'
  <2>1. PICK n \in Idx : \E order \in [1..n -> Idx] :
          OrderFits(order) /\ Queue([Empty EXCEPT !.kind = "reorder", !.order = order])
    BY <1>3 DEF SubmitReorder
  <2>2. PICK order \in [1..n -> Idx] : Queue([Empty EXCEPT !.kind = "reorder", !.order = order])
    BY <2>1
  <2>3. order \in Seq(Idx)
    <3>1. n \in Nat
      BY TheFile
    <3>2. \A k \in 1..n : order[k] \in Idx
      OBVIOUS
    <3>3. [k \in 1..n |-> order[k]] \in Seq(Idx)
      BY <3>1, <3>2, IsASeq
    <3> QED  BY <3>3
  <2> QED  BY <2>2, <2>3, NoneTyped, JobsChange, QueueTyped
<1>4. ASSUME SubmitEdit PROVE TypeOK'
  BY <1>4, NoneTyped, JobsChange, QueueTyped DEF SubmitEdit
<1>5. ASSUME SubmitMerge PROVE TypeOK'
  BY <1>5, NoneTyped, JobsChange, QueueTyped DEF SubmitMerge
<1> QED  BY <1>1, <1>2, <1>3, <1>4, <1>5

LEMMA TypeStep ==
  ASSUME ConstantsAssumption, TypeOK, [Next]_vars, EditFile => args.keep \subseteq DOMAIN file
  PROVE  TypeOK'
<1> USE DEF given
<1>6. ASSUME NEW a \in Args, Tell(a) PROVE TypeOK'
  BY <1>6 DEF Tell, TypeOK
<1>7. ASSUME Refuse PROVE TypeOK'
  BY <1>7 DEF Refuse, TypeOK
<1>8. ASSUME PrepareRemove PROVE TypeOK'
  <2>1. \/ Refuse
        \/ Valid /\ IDsKnown /\ Tell(KeepArgs)
        \/ Valid /\ Tell(MapArgs)
    BY <1>8 DEF PrepareRemove
  <2>2. Removes
    BY <1>8 DEF PrepareRemove
  <2> QED  BY <1>6, <1>7, <2>1, <2>2, ArgsTyped
<1>9. ASSUME PrepareReorder PROVE TypeOK'
  <2> DEFINE order == [k \in DOMAIN job.order |-> MkvID(job.order[k])]
  <2>1. Refuse \/ (OrderFits(job.order) /\ Tell([NoArgs EXCEPT !.tool = "mkvmerge", !.order = order]))
    BY <1>9 DEF PrepareReorder
  <2>2. ASSUME OrderFits(job.order) PROVE order \in Seq(Idx)
    <3>1. job.order \in Seq(Idx)
      BY DEF TypeOK, Jobs
    <3>2. DOMAIN job.order = 1..Len(job.order) /\ Len(job.order) \in Nat
      BY <3>1
    <3>3. \A k \in 1..Len(job.order) : MkvID(job.order[k]) \in Idx
      BY <2>2, <3>2, IdsAreStreams DEF OrderFits
    <3>4. [k \in 1..Len(job.order) |-> MkvID(job.order[k])] \in Seq(Idx)
      BY <3>2, <3>3, IsASeq
    <3> QED  BY <3>2, <3>4
  <2>3. ASSUME OrderFits(job.order)
        PROVE  [NoArgs EXCEPT !.tool = "mkvmerge", !.order = order] \in Args
    <3> HIDE DEF order
    <3> QED  BY <2>2, <2>3, NoneTyped, ArgsChange
  <2> HIDE DEF order
  <2> QED  BY <1>6, <1>7, <2>1, <2>3
<1>10. ASSUME PrepareEdit PROVE TypeOK'
  <2> DEFINE ids == {MkvID(i) : i \in job.edits}
  <2>1. \/ Refuse
        \/ /\ \A i \in job.edits : i \in DOMAIN file /\ Known(i)
           /\ Tell([NoArgs EXCEPT !.tool = "mkvpropedit", !.keep = ids])
    BY <1>10 DEF PrepareEdit
  <2>2. ASSUME \A i \in job.edits : i \in DOMAIN file /\ Known(i)
        PROVE  ids \subseteq Idx
    BY <2>2, IdsAreStreams
  <2> HIDE DEF ids
  <2>3. ASSUME ids \subseteq Idx
        PROVE  [NoArgs EXCEPT !.tool = "mkvpropedit", !.keep = ids] \in Args
    BY <2>3, NoneTyped, ArgsChange
  <2> QED  BY <1>6, <1>7, <2>1, <2>2, <2>3
<1>11. ASSUME PrepareMerge PROVE TypeOK'
  <2>1. [NoArgs EXCEPT !.tool = "mkvmerge"] \in Args
    BY NoneTyped, ArgsChange
  <2> QED  BY <1>6, <1>7, <1>11, <2>1 DEF PrepareMerge
<1>12. ASSUME RunTool PROVE TypeOK'
  <2>1. PICK lost \in SUBSET Copies, cut \in BOOLEAN, known \in BOOLEAN :
          fault' = [lost |-> lost, cut |-> cut, timed |-> known] /\ out' = Copies \ lost
    BY <1>12 DEF RunTool
  <2>2. lost \subseteq DOMAIN file /\ out' \subseteq DOMAIN file
    BY <2>1, Copied
  <2> QED  BY <1>12, <2>1, <2>2 DEF RunTool, TypeOK
<1>13. ASSUME ToolFails PROVE TypeOK'
  BY <1>13 DEF ToolFails, TypeOK
<1>14. ASSUME EditFile PROVE TypeOK'
  BY <1>14 DEF EditFile, TypeOK
<1>15. ASSUME Verify PROVE TypeOK'
  BY <1>15 DEF Verify, TypeOK
<1>16. ASSUME VerifyMerge PROVE TypeOK'
  BY <1>16 DEF VerifyMerge, TypeOK
<1>17. ASSUME UNCHANGED vars PROVE TypeOK'
  BY <1>17 DEF vars, TypeOK
<1> QED  BY SubmitTyped, <1>8, <1>9, <1>10, <1>11, <1>12, <1>13, <1>14, <1>15, <1>16, <1>17 DEF Next

-----------------------------------------------------------------------------
(* Types, and the batches.                      *)

\* mkvpropedit is told streams of the file, and only for an edit.
EditsNamed ==
  at = "tool" /\ args.tool = "mkvpropedit" =>
    job.kind = "edit" /\ args.keep \subseteq DOMAIN file

\* A batch never asks for all audio tracks.
BatchChosen ==
  job.kind = "batch" =>
    /\ job.audio \subseteq OfType("audio") /\ job.subs \subseteq OfType("subtitle")
    /\ job.audio # OfType("audio") \/ job.audio = {}

Checked == at = "replaced" /\ (Removes \/ job.kind = "reorder") => CountsRight

\* A reorder selects nothing.
OnlyOrder == job.kind = "reorder" => job.audio = {} /\ job.subs = {}

IInv == TypeOK /\ EditsNamed /\ BatchChosen /\ OnlyOrder /\ Checked

LEMMA SameStreams ==
  ASSUME file' = file
  PROVE  /\ \A i : Type(i)' = Type(i)
         /\ \A t : OfType(t)' = OfType(t)
<1>1. \A i : Type(i)' = Type(i)
  BY DEF Type
<1> QED  BY <1>1 DEF OfType

LEMMA SameCounts ==
  ASSUME file' = file, out' = out, job' = job
  PROVE  CountsRight' = CountsRight
<1>1. \A t : OfType(t)' = OfType(t)
  BY SameStreams
<1>2. \A t : Of(t)' = Of(t)
  BY <1>1 DEF Of
<1>3. Removed' = Removed
  BY DEF Removed
<1> QED  BY <1>1, <1>2, <1>3 DEF CountsRight

LEMMA Start ==
  ASSUME ConstantsAssumption, Init
  PROVE  IInv
BY TypeStart DEF Init, IInv, EditsNamed, BatchChosen, OnlyOrder, Checked, Empty

LEMMA Step ==
  ASSUME ConstantsAssumption, IInv, [Next]_vars
  PROVE  IInv'
<1> USE DEF given
<1>1. TypeOK'
  <2>1. EditFile => args.keep \subseteq DOMAIN file
    BY DEF IInv, EditsNamed, EditFile
  <2> QED  BY <2>1, TypeStep DEF IInv
<1>2. file' = file
  BY DEF Next, vars, SubmitRemove, SubmitBatch, SubmitReorder, SubmitEdit, SubmitMerge, Queue,
         PrepareRemove, PrepareReorder, PrepareEdit, PrepareMerge, Tell, Refuse, RunTool,
         ToolFails, EditFile, Verify, VerifyMerge
<1>3. \A t : OfType(t)' = OfType(t)
  BY <1>2, SameStreams
<1>4. ASSUME SubmitRemove \/ SubmitReorder \/ SubmitEdit \/ SubmitMerge
      PROVE  (EditsNamed /\ BatchChosen /\ OnlyOrder /\ Checked)'
  <2>1. at' = "queued" /\ job'.kind # "batch" /\ OnlyOrder'
    <3>1. SubmitRemove => at' = "queued" /\ job'.kind # "batch" /\ OnlyOrder'
      BY DEF SubmitRemove, Queue, Empty, OnlyOrder
    <3>2. SubmitReorder => at' = "queued" /\ job'.kind # "batch" /\ OnlyOrder'
      BY DEF SubmitReorder, Queue, Empty, OnlyOrder
    <3>3. SubmitEdit => at' = "queued" /\ job'.kind # "batch" /\ OnlyOrder'
      BY DEF SubmitEdit, Queue, Empty, OnlyOrder
    <3>4. SubmitMerge => at' = "queued" /\ job'.kind # "batch" /\ OnlyOrder'
      BY DEF SubmitMerge, Queue, Empty, OnlyOrder
    <3> QED  BY <1>4, <3>1, <3>2, <3>3, <3>4
  <2> QED  BY <2>1 DEF EditsNamed, BatchChosen, Checked
<1>5. ASSUME SubmitBatch
      PROVE  (EditsNamed /\ BatchChosen /\ OnlyOrder /\ Checked)'
  <2>1. PICK keep \in SUBSET Langs, drop \in SUBSET Langs, subs \in SUBSET Langs, all \in BOOLEAN :
          Queue([Empty EXCEPT !.kind = "batch", !.audio = BatchAudio(keep, drop),
                              !.subs = BatchSubs(all, subs)])
    BY <1>5 DEF SubmitBatch
  <2>2. /\ at' = "queued" /\ job'.kind = "batch"
        /\ job'.audio = BatchAudio(keep, drop) /\ job'.subs = BatchSubs(all, subs)
    BY <2>1 DEF Queue, Empty
  <2>3. /\ BatchAudio(keep, drop) \subseteq OfType("audio")
        /\ BatchAudio(keep, drop) # OfType("audio") \/ BatchAudio(keep, drop) = {}
        /\ BatchSubs(all, subs) \subseteq OfType("subtitle")
    BY DEF BatchAudio, BatchSubs
  <2> QED  BY <1>3, <2>2, <2>3 DEF EditsNamed, BatchChosen, OnlyOrder, Checked, Removes
<1>6. ASSUME job' = job
      PROVE  BatchChosen' /\ OnlyOrder'
  BY <1>3, <1>6 DEF IInv, BatchChosen, OnlyOrder
<1>7. ASSUME PrepareRemove \/ PrepareReorder \/ PrepareMerge \/ RunTool \/ ToolFails
      PROVE  job' = job /\ (EditsNamed /\ Checked)'
  <2>1. job' = job /\ at' # "replaced"
    BY <1>7 DEF PrepareRemove, PrepareReorder, PrepareMerge, Tell, Refuse, RunTool, ToolFails
  <2>2. at' = "tool" => args'.tool # "mkvpropedit"
    BY <1>7 DEF PrepareRemove, PrepareReorder, PrepareMerge, Tell, Refuse, RunTool, ToolFails,
                KeepArgs, MapArgs, NoArgs
  <2> QED  BY <2>1, <2>2 DEF EditsNamed, Checked
<1>8. ASSUME PrepareEdit
      PROVE  job' = job /\ (EditsNamed /\ Checked)'
  <2>1. job' = job /\ job.kind = "edit" /\ at' # "replaced"
    BY <1>8 DEF PrepareEdit, Tell, Refuse
  <2>2. ASSUME at' = "tool"
        PROVE  args'.keep \subseteq DOMAIN file
    <3>1. /\ \A i \in job.edits : i \in DOMAIN file /\ Known(i)
          /\ args'.keep = {MkvID(i) : i \in job.edits}
      BY <1>8, <2>2 DEF PrepareEdit, Tell, Refuse, NoArgs
    <3> QED  BY <3>1, IdsAreStreams DEF IInv
  <2> QED  BY <1>2, <2>1, <2>2 DEF EditsNamed, Checked
<1>9. ASSUME EditFile
      PROVE  job' = job /\ (EditsNamed /\ Checked)'
  BY <1>9 DEF EditFile, IInv, EditsNamed, Checked, Removes
<1>10. ASSUME Verify
       PROVE  job' = job /\ (EditsNamed /\ Checked)'
  <2>1. job' = job /\ at' # "tool" /\ (at' = "replaced" => CountsRight)
    BY <1>10 DEF Verify
  <2>2. CountsRight' = CountsRight
    BY <1>2, <1>10, SameCounts DEF Verify
  <2> QED  BY <2>1, <2>2 DEF EditsNamed, Checked
<1>11. ASSUME VerifyMerge
       PROVE  job' = job /\ (EditsNamed /\ Checked)'
  BY <1>11 DEF VerifyMerge, EditsNamed, Checked, Removes
<1>12. ASSUME UNCHANGED vars
       PROVE  job' = job /\ (EditsNamed /\ Checked)'
  <2>1. CountsRight' = CountsRight
    BY <1>2, <1>12, SameCounts DEF vars
  <2> QED  BY <1>12, <2>1 DEF vars, IInv, EditsNamed, Checked, Removes
<1> QED  BY <1>1, <1>4, <1>5, <1>6, <1>7, <1>8, <1>9, <1>10, <1>11, <1>12 DEF Next, IInv

(* Requests, jobs, arguments and outputs keep their types for any files    *)
(* and any number of odd streams.                                          *)
THEOREM StreamsType == Spec => []TypeOK
<1>1. Init => IInv
  BY Start, ConstantsAssumption
<1>2. IInv /\ [Next]_vars => IInv'
  BY Step, ConstantsAssumption
<1>3. IInv => TypeOK
  BY DEF IInv
<1> QED  BY <1>1, <1>2, <1>3, PTL DEF Spec

\* What is chosen or left of the audio tracks.
LEMMA AudioLeft ==
  ASSUME ConstantsAssumption, IInv
  PROVE  BatchValid
<1> SUFFICES ASSUME job.kind = "batch"
             PROVE  /\ at = "queued" /\ OfType("video") # {} => Valid
                    /\ at = "replaced" /\ OfType("audio") # {} => Of("audio") # {}
  BY DEF BatchValid
<1>1. /\ OfType("audio") \in SUBSET DOMAIN file
      /\ job.audio \in SUBSET OfType("audio") /\ job.subs \in SUBSET OfType("subtitle")
      /\ job.audio # OfType("audio") \/ job.audio = {}
  BY DEF IInv, BatchChosen, OfType
<1>2. IsFiniteSet(OfType("audio")) /\ IsFiniteSet(job.audio)
  BY <1>1, Counted DEF IInv
<1>3. OfType("audio") # {} => Cardinality(job.audio) < Cardinality(OfType("audio"))
  BY <1>1, <1>2, FewerIfSmaller
<1>4. OfType("video") # {} => Valid
  BY <1>1, <1>3 DEF Valid
<1>5. ASSUME at = "replaced", OfType("audio") # {} PROVE Of("audio") # {}
  <2>1. Cardinality(Of("audio")) = Cardinality(OfType("audio")) - Cardinality(job.audio)
    BY <1>5 DEF IInv, Checked, Removes, CountsRight, Removed, Tracks
  <2>2. Cardinality(OfType("audio")) \in Nat /\ Cardinality(job.audio) \in Nat
    BY <1>2, FS_CardinalityType
  <2>3. Cardinality(Of("audio")) # 0
    BY <1>3, <1>5, <2>1, <2>2
  <2> QED  BY <2>3, FS_EmptySet
<1> QED  BY <1>4, <1>5

(* For any languages of any file: what the batch handler queues is valid   *)
(* for the job, and never leaves a file without its audio.                 *)
THEOREM BatchKeepsAudio == Spec => []BatchValid
<1>1. Init => IInv
  BY Start, ConstantsAssumption
<1>2. IInv /\ [Next]_vars => IInv'
  BY Step, ConstantsAssumption
<1>3. IInv => BatchValid
  BY AudioLeft, ConstantsAssumption
<1> QED  BY <1>1, <1>2, <1>3, PTL DEF Spec

-----------------------------------------------------------------------------
(* What replaces the file.                                                 *)

\* Subtitles are removed by ids that may be those of others.
Off == Swapped("subtitle", "data") /\ args.tool = "mkvmerge" /\ job.subs # {}

\* What a tool is told keeps the selected streams out of its output.
RemovalTold ==
  at = "tool" /\ Removes /\ ~Off =>
    \A i \in Selected :
      /\ args.tool = "mkvmerge" => Type(i) \in args.lists /\ i \notin args.keep
      /\ args.tool # "mkvmerge" => <<Type(i), Rank(i, OfType(Type(i)))>> \in args.maps

RemovalValid ==
  at \in {"tool", "made", "replaced", "rejected"} /\ Removes =>
    job.audio \subseteq OfType("audio") /\ job.subs \subseteq OfType("subtitle")

RemovalMade ==
  at \in {"made", "replaced"} /\ Removes /\ ~Off => Selected \cap out = {}

\* An order names each track, by its id as by its index.
OrderTold ==
  at \in {"tool", "made", "replaced"} /\ job.kind = "reorder" /\ Aligned =>
    /\ args.order = job.order
    /\ {job.order[k] : k \in DOMAIN job.order} = TracksOf(DOMAIN file)

EditTold ==
  /\ at = "tool" /\ job.kind = "edit" =>
       args.tool = "mkvpropedit" /\ (Aligned => args.keep = job.edits)
  /\ at = "made" => job.kind # "edit"
  /\ at = "replaced" /\ job.kind = "edit" /\ Aligned => out = job.edits

\* mkvmerge lists every track of a file that is merged.
MergeTold ==
  /\ at = "tool" /\ job.kind = "merge" =>
       /\ args.tool = "mkvmerge" /\ args.lists = {}
       /\ Aligned => TracksOf(DOMAIN file) \cap odd = {}
  /\ at \in {"made", "replaced"} /\ job.kind = "merge" /\ fault.lost = {} /\ Aligned =>
       TracksOf(DOMAIN file) \subseteq out

Told == RemovalTold /\ RemovalValid /\ RemovalMade /\ OrderTold /\ EditTold /\ MergeTold

NInv == IInv /\ Told

\* The ids of the types that mkvmerge gets a list for are right.
LEMMA ListedIds ==
  ASSUME ConstantsAssumption, TypeOK, Valid, IDsKnown, Selected # {},
         ~Swapped("subtitle", "data") \/ job.subs = {},
         NEW k \in DOMAIN file, Type(k) \in Tracks, Removed[Type(k)] # {}
  PROVE  Type(k) \in {"audio", "subtitle"} /\ Known(k) /\ MkvID(k) = k
<1>1. Type(k) \in {"audio", "subtitle"} /\ (Type(k) = "subtitle" => job.subs # {})
  BY DEF Removed, Tracks
<1>2. Known(k)
  BY <1>1 DEF IDsKnown
<1>3. MkvTracks(Type(k)) = OfType(Type(k))
  BY <1>1, <1>2, IdsAreTracks, ListsAgree
<1> QED  BY <1>1, <1>2, <1>3, OwnId

\* The keep-lists of mkvmerge and the maps of ffmpeg name what they should.
LEMMA KeepTells ==
  ASSUME ConstantsAssumption, TypeOK, Valid, IDsKnown, NEW i \in Selected,
         ~Swapped("subtitle", "data") \/ job.subs = {}
  PROVE  Type(i) \in KeepArgs.lists /\ i \notin KeepArgs.keep
<1> DEFINE lists == {t \in Tracks : Removed[t] # {}}
           kept  == {k \in DOMAIN file : Type(k) \in lists /\ k \notin Removed[Type(k)]}
<1>1. i \in DOMAIN file /\ Type(i) \in Tracks /\ i \in Removed[Type(i)]
  BY DEF Selected, Valid, OfType, Removed, Tracks
<1>2. KeepArgs.lists = lists /\ KeepArgs.keep = {MkvID(k) : k \in kept}
  BY DEF KeepArgs, NoArgs
<1>3. \A k \in kept : k # i
  BY <1>1
<1>4. \A k \in kept : MkvID(k) = k
  BY ListedIds
<1>5. Type(i) \in lists
  BY <1>1
<1> QED  BY <1>2, <1>3, <1>4, <1>5

LEMMA MapTells ==
  ASSUME NEW i \in Selected
  PROVE  <<Type(i), Rank(i, OfType(Type(i)))>> \in MapArgs.maps
BY DEF Selected, MapArgs, NoArgs

\* A track whose id is known brings the ids of all.
LEMMA AllKnown ==
  ASSUME ConstantsAssumption, TypeOK, Aligned,
         NEW i \in DOMAIN file, Known(i)
  PROVE  {j \in DOMAIN file : Known(j)} = TracksOf(DOMAIN file)
<1>1. odd = {}
  BY IdsAreRight
<1>2. \A j : MkvIDs(j) = AtPosition(j)
  BY DEF Known, MkvIDs
<1>3. ASSUME NEW j \in DOMAIN file, Type(j) \in Tracks
      PROVE  Known(j)
  <2>1. j \in MkvTracks(Type(j)) /\ MkvTracks(Type(j)) = OfType(Type(j))
    BY <1>1, <1>3 DEF MkvTracks, OfType, Listed, MkvType, Tracks
  <2>2. j \in AtPosition(j)
    BY <2>1 DEF AtPosition
  <2> QED  BY <1>2, <2>2 DEF Known
<1>4. ASSUME NEW j \in DOMAIN file, Known(j)
      PROVE  Type(j) \in Tracks
  BY <1>4, IdsAreRight
<1> QED  BY <1>3, <1>4 DEF TracksOf

\* An order that fits has every track, each with its own index as its id.
LEMMA OrderTells ==
  ASSUME ConstantsAssumption, TypeOK, Aligned, OrderFits(job.order)
  PROVE  /\ [k \in DOMAIN job.order |-> MkvID(job.order[k])] = job.order
         /\ {job.order[k] : k \in DOMAIN job.order} = TracksOf(DOMAIN file)
<1> DEFINE n  == Len(job.order)
           ks == {j \in DOMAIN file : Known(j)}
<1>1. job.order \in Seq(Idx)
  BY DEF TypeOK, Jobs
<1>2. DOMAIN job.order = 1..n /\ n \in Nat \ {0} /\ job.order = [k \in 1..n |-> job.order[k]]
  <2>1. job.order # <<>>
    BY DEF OrderFits
  <2>2. n \in Nat \ {0}
    BY <1>1, <2>1, EmptySeq
  <2>3. DOMAIN job.order = 1..n /\ job.order = [k \in 1..n |-> job.order[k]]
    BY <1>1
  <2> QED  BY <2>2, <2>3
<1>3. \A k \in 1..n : job.order[k] \in ks
  BY <1>2 DEF OrderFits
<1>4. \A k \in 1..n : MkvID(job.order[k]) = job.order[k]
  BY <1>3, IdsAreRight
<1>5. [k \in DOMAIN job.order |-> MkvID(job.order[k])] = job.order
  BY <1>2, <1>4
<1>6. ks = TracksOf(DOMAIN file)
  <2>1. job.order[1] \in ks
    BY <1>2, <1>3
  <2> QED  BY <2>1, AllKnown
<1>7. IsFiniteSet(ks) /\ Cardinality(ks) = n
  <2>1. ks \in SUBSET DOMAIN file
    OBVIOUS
  <2>2. IsFiniteSet(ks)
    BY <2>1, Counted
  <2> QED  BY <2>2 DEF OrderFits
<1>8. job.order \in Injection(1..n, ks)
  <2>1. job.order \in [1..n -> ks]
    BY <1>2, <1>3
  <2>2. \A k, l \in 1..n : job.order[k] = job.order[l] => k = l
    BY <1>2 DEF OrderFits
  <2> QED  BY <2>1, <2>2 DEF Injection, IsInjective
<1>9. Cardinality(1..n) = n
  BY <1>2, FS_Interval
<1> HIDE DEF n, ks
<1>10. job.order \in Surjection(1..n, ks)
  BY <1>7, <1>8, <1>9, FS_Injection
<1>11. {job.order[k] : k \in 1..n} = ks
  <2>1. \A j \in ks : \E k \in 1..n : job.order[k] = j
    BY <1>10 DEF Surjection
  <2>2. \A k \in 1..n : job.order[k] \in ks
    BY <1>3 DEF ks
  <2>3. ks \subseteq {job.order[k] : k \in 1..n}
    BY <2>1
  <2>4. {job.order[k] : k \in 1..n} \subseteq ks
    BY <2>2
  <2> QED  BY <2>3, <2>4
<1> QED  BY <1>2, <1>5, <1>6, <1>11

\* A tool copies no selected stream; all tracks if nothing was selected.
LEMMA CopiesTold ==
  ASSUME ConstantsAssumption, NInv, at = "tool"
  PROVE  /\ Removes /\ ~Off => Selected \cap Copies = {}
         /\ job.kind = "merge" /\ Aligned => TracksOf(DOMAIN file) \subseteq Copies
<1>1. ASSUME Removes, ~Off, NEW i \in Selected PROVE i \notin Copies
  <2>1. /\ args.tool = "mkvmerge" => Type(i) \in args.lists /\ i \notin args.keep
        /\ args.tool # "mkvmerge" => <<Type(i), Rank(i, OfType(Type(i)))>> \in args.maps
    BY <1>1 DEF NInv, Told, RemovalTold
  <2>2. Type(i) \in {"audio", "subtitle"}
    BY <1>1 DEF NInv, Told, RemovalValid, Selected, OfType
  <2>3. MkvType(i) = Type(i) /\ i \notin OfType("attachment")
    BY <2>2 DEF MkvType, OfType
  <2> QED  BY <2>1, <2>3 DEF Copies, MkvmergeCopies, FfmpegCopies
<1>2. ASSUME job.kind = "merge", Aligned, NEW i \in TracksOf(DOMAIN file) PROVE i \in Copies
  <2>1. args.tool = "mkvmerge" /\ args.lists = {} /\ i \notin odd
    BY <1>2 DEF NInv, Told, MergeTold
  <2>2. i \in Listed
    BY <2>1 DEF Listed, TracksOf
  <2> QED  BY <2>1, <2>2 DEF Copies, MkvmergeCopies
<1> QED  BY <1>1, <1>2

LEMMA ToldStart ==
  ASSUME ConstantsAssumption, Init
  PROVE  NInv
<1>1. IInv
  BY Start
<1>2. at = "request"
  BY DEF Init
<1> QED  BY <1>1, <1>2 DEF NInv, Told, RemovalTold, RemovalValid, RemovalMade,
            OrderTold, EditTold, MergeTold

LEMMA ToldStep ==
  ASSUME ConstantsAssumption, NInv, [Next]_vars
  PROVE  NInv'
<1> USE DEF given
<1>0. TypeOK /\ IInv /\ Told
  BY DEF NInv, IInv
<1>1. IInv'
  BY <1>0, Step
<1>2. file' = file /\ odd' = odd
  BY DEF Next, vars, SubmitRemove, SubmitBatch, SubmitReorder, SubmitEdit, SubmitMerge, Queue,
         PrepareRemove, PrepareReorder, PrepareEdit, PrepareMerge, Tell, Refuse, RunTool,
         ToolFails, EditFile, Verify, VerifyMerge
<1>3. /\ \A i : Type(i)' = Type(i)
      /\ \A t : OfType(t)' = OfType(t)
  BY <1>2, SameStreams
<1>4. /\ TracksOf(DOMAIN file)' = TracksOf(DOMAIN file)
      /\ Swapped("subtitle", "data")' = Swapped("subtitle", "data")
      /\ Aligned' = Aligned
  <2>1. TracksOf(DOMAIN file)' = TracksOf(DOMAIN file)
    BY <1>2, <1>3 DEF TracksOf
  <2>2. \A t, u : Swapped(t, u)' <=> Swapped(t, u)
    BY <1>2, <1>3 DEF Swapped
  <2> QED  BY <2>1, <2>2 DEF Aligned
<1>5. ASSUME at' \notin {"tool", "made", "replaced", "rejected"}
      PROVE  Told'
  BY <1>5 DEF Told, RemovalTold, RemovalValid, RemovalMade, OrderTold, EditTold, MergeTold
<1>6. ASSUME SubmitRemove \/ SubmitBatch \/ SubmitReorder \/ SubmitEdit \/ SubmitMerge
      PROVE  Told'
  <2>1. at' = "queued"
    BY <1>6 DEF SubmitRemove, SubmitBatch, SubmitReorder, SubmitEdit, SubmitMerge, Queue
  <2> QED  BY <1>5, <2>1
<1>7. ASSUME job' = job
      PROVE  Selected' = Selected /\ Removes' = Removes
  BY <1>7 DEF Selected, Removes
<1>18. ASSUME job' = job, args' = args
       PROVE  Off' <=> Off
  BY <1>4, <1>18 DEF Off
<1>8. ASSUME PrepareRemove PROVE Told'
  <2>1. CASE Refuse
    BY <1>5, <2>1 DEF Refuse
  <2>2. ASSUME Valid, NEW a, Tell(a),
               \/ (a.tool = "mkvmerge" /\ a = KeepArgs /\ IDsKnown)
               \/ (a.tool = "ffmpeg" /\ a = MapArgs)
        PROVE  Told'
    <3>1. at' = "tool" /\ args' = a /\ job' = job /\ Removes
      BY <1>8, <2>2 DEF Tell, PrepareRemove
    <3>2. RemovalTold'
      <4>1. ASSUME NEW i \in Selected, ~Off'
            PROVE  /\ a.tool = "mkvmerge" => Type(i) \in a.lists /\ i \notin a.keep
                   /\ a.tool # "mkvmerge" => <<Type(i), Rank(i, OfType(Type(i)))>> \in a.maps
        <5>1. a.tool = "mkvmerge" => ~Swapped("subtitle", "data") \/ job.subs = {}
          BY <1>4, <3>1, <4>1 DEF Off
        <5> QED  BY <1>0, <2>2, <5>1, KeepTells, MapTells
      <4>2. \A i : Rank(i, OfType(Type(i)))' = Rank(i, OfType(Type(i)))
        BY <1>3 DEF Rank
      <4> QED  BY <1>3, <1>7, <3>1, <4>1, <4>2 DEF RemovalTold
    <3>3. RemovalValid'
      BY <1>3, <2>2, <3>1 DEF RemovalValid, Valid
    <3> QED  BY <3>1, <3>2, <3>3 DEF Removes, Told, RemovalMade, OrderTold, EditTold, MergeTold
  <2>3. KeepArgs.tool = "mkvmerge" /\ MapArgs.tool = "ffmpeg"
    BY DEF KeepArgs, MapArgs, NoArgs
  <2>4. \/ Refuse
        \/ Valid /\ IDsKnown /\ Tell(KeepArgs)
        \/ Valid /\ Tell(MapArgs)
    BY <1>8 DEF PrepareRemove
  <2>5. Valid /\ IDsKnown /\ Tell(KeepArgs) => Told'
    BY <2>2, <2>3
  <2>6. Valid /\ Tell(MapArgs) => Told'
    BY <2>2, <2>3
  <2> QED  BY <2>1, <2>4, <2>5, <2>6
<1>9. ASSUME PrepareReorder PROVE Told'
  <2>1. CASE Refuse
    BY <1>5, <2>1 DEF Refuse
  <2>2. CASE ~Refuse
    <3> DEFINE order == [k \in DOMAIN job.order |-> MkvID(job.order[k])]
    <3>1. OrderFits(job.order) /\ Tell([NoArgs EXCEPT !.tool = "mkvmerge", !.order = order])
      BY <1>9, <2>2 DEF PrepareReorder
    <3> HIDE DEF order
    <3>2. at' = "tool" /\ job' = job /\ args'.order = order /\ job.kind = "reorder"
      BY <1>9, <3>1 DEF Tell, PrepareReorder, NoArgs
    <3>3. ASSUME Aligned
          PROVE  /\ order = job.order
                 /\ {job.order[k] : k \in DOMAIN job.order} = TracksOf(DOMAIN file)
      BY <1>0, <3>1, <3>3, OrderTells DEF order
    <3>4. OrderTold'
      BY <1>4, <3>2, <3>3 DEF OrderTold
    <3> QED  BY <3>2, <3>4 DEF Removes, Told, RemovalTold, RemovalValid, RemovalMade, EditTold, MergeTold
  <2> QED  BY <2>1, <2>2
<1>10. ASSUME PrepareEdit PROVE Told'
  <2>1. CASE Refuse
    BY <1>5, <2>1 DEF Refuse
  <2>2. CASE ~Refuse
    <3> DEFINE ids == {MkvID(i) : i \in job.edits}
    <3>1. /\ \A i \in job.edits : i \in DOMAIN file /\ Known(i)
          /\ Tell([NoArgs EXCEPT !.tool = "mkvpropedit", !.keep = ids])
      BY <1>10, <2>2 DEF PrepareEdit
    <3>2. Aligned => ids = job.edits
      BY <1>0, <3>1, IdsAreRight
    <3> HIDE DEF ids
    <3>3. /\ at' = "tool" /\ job' = job /\ args'.keep = ids /\ args'.tool = "mkvpropedit"
          /\ job.kind = "edit"
      BY <1>10, <3>1 DEF Tell, PrepareEdit, NoArgs
    <3> QED  BY <1>4, <3>2, <3>3 DEF Removes, Told, RemovalTold, RemovalValid, RemovalMade, OrderTold, EditTold, MergeTold
  <2> QED  BY <2>1, <2>2
<1>11. ASSUME PrepareMerge PROVE Told'
  <2>1. CASE Refuse
    BY <1>5, <2>1 DEF Refuse
  <2>2. CASE ~Refuse
    <3>1. TracksKnown /\ Tell([NoArgs EXCEPT !.tool = "mkvmerge"])
      BY <1>11, <2>2 DEF PrepareMerge
    <3>2. /\ at' = "tool" /\ job' = job /\ args'.lists = {} /\ args'.tool = "mkvmerge"
          /\ job.kind = "merge"
      BY <1>11, <3>1 DEF Tell, PrepareMerge, NoArgs
    <3>3. Aligned => TracksOf(DOMAIN file) \cap odd = {}
      BY <1>0, <3>1, IdsAreRight DEF TracksOf, TracksKnown
    <3>4. MergeTold'
      BY <1>2, <1>4, <3>2, <3>3 DEF MergeTold
    <3> QED  BY <3>2, <3>4 DEF Removes, Told, RemovalTold, RemovalValid, RemovalMade, OrderTold, EditTold
  <2> QED  BY <2>1, <2>2
<1>12. ASSUME RunTool PROVE Told'
  <2>1. PICK lost \in SUBSET Copies : fault'.lost = lost /\ out' = Copies \ lost
    BY <1>12 DEF RunTool
  <2>2. /\ at = "tool" /\ at' = "made" /\ job' = job /\ args' = args
        /\ args.tool \in {"mkvmerge", "ffmpeg"}
    BY <1>12 DEF RunTool
  <2>3. RemovalValid' /\ RemovalMade'
    BY <1>0, <1>3, <1>7, <1>18, <2>1, <2>2, CopiesTold DEF NInv, Told, RemovalValid, RemovalMade
  <2>4. OrderTold'
    BY <1>0, <1>4, <2>2 DEF Told, OrderTold
  <2>5. EditTold'
    BY <1>0, <1>4, <2>2 DEF Told, EditTold
  <2>6. MergeTold'
    BY <1>0, <1>4, <2>1, <2>2, CopiesTold DEF NInv, MergeTold
  <2> QED  BY <2>2, <2>3, <2>4, <2>5, <2>6 DEF Told, RemovalTold
<1>13. ASSUME ToolFails PROVE Told'
  BY <1>5, <1>13 DEF ToolFails
<1>14. ASSUME EditFile PROVE Told'
  <2>1. /\ at = "tool" /\ at' = "replaced" /\ job' = job /\ out' = args.keep /\ job.kind = "edit"
    BY <1>0, <1>14 DEF EditFile, IInv, EditsNamed
  <2>2. EditTold'
    BY <1>0, <1>4, <2>1 DEF Told, EditTold
  <2> QED  BY <2>1, <2>2 DEF Removes, Told, RemovalTold, RemovalValid, RemovalMade, OrderTold, MergeTold
<1>15. ASSUME Verify \/ VerifyMerge PROVE Told'
  <2>1. /\ at = "made" /\ at' \in {"replaced", "rejected"}
        /\ job' = job /\ args' = args /\ out' = out /\ fault' = fault
    BY <1>15 DEF Verify, VerifyMerge
  <2>2. RemovalValid' /\ RemovalMade'
    BY <1>0, <1>3, <1>7, <1>18, <2>1 DEF Told, RemovalValid, RemovalMade
  <2>3. OrderTold' /\ MergeTold'
    BY <1>0, <1>4, <2>1 DEF Told, OrderTold, MergeTold
  <2>4. EditTold'
    BY <1>0, <1>4, <2>1 DEF Told, EditTold
  <2> QED  BY <2>1, <2>2, <2>3, <2>4 DEF Told, RemovalTold
<1>16. ASSUME UNCHANGED vars PROVE Told'
  <2>1. at' = at /\ job' = job /\ args' = args /\ out' = out /\ fault' = fault
    BY <1>16 DEF vars
  <2>2. \A i : Rank(i, OfType(Type(i)))' = Rank(i, OfType(Type(i)))
    BY <1>3 DEF Rank
  <2>3. RemovalTold'
    BY <1>0, <1>3, <1>7, <1>18, <2>1, <2>2 DEF Told, RemovalTold
  <2>4. RemovalValid' /\ RemovalMade'
    BY <1>0, <1>3, <1>7, <1>18, <2>1 DEF Told, RemovalValid, RemovalMade
  <2>5. OrderTold' /\ MergeTold'
    BY <1>0, <1>2, <1>4, <2>1 DEF Told, OrderTold, MergeTold
  <2>6. EditTold'
    BY <1>0, <1>4, <2>1 DEF Told, EditTold
  <2> QED  BY <2>3, <2>4, <2>5, <2>6 DEF Told
<1>17. Told'
  BY <1>6, <1>8, <1>9, <1>10, <1>11, <1>12, <1>13, <1>14, <1>15, <1>16 DEF Next
<1> QED  BY <1>0, <1>1, <1>2, <1>17 DEF NInv

\* As many tracks as expected, none of them selected: they are the expected.
LEMMA OutputExact ==
  ASSUME ConstantsAssumption, NInv, at = "replaced", Removes \/ job.kind = "reorder",
         NEW t \in Tracks, NEW gone \in SUBSET OfType(t), gone = Removed[t],
         gone \cap out = {}
  PROVE  Of(t) = OfType(t) \ gone
<1>1. OfType(t) \in SUBSET DOMAIN file /\ out \subseteq DOMAIN file
  BY DEF OfType, NInv, IInv, TypeOK
<1>2. IsFiniteSet(OfType(t))
  BY <1>1, Counted DEF NInv, IInv
<1>3. OfType(t) \cap gone = gone
  OBVIOUS
<1>4. /\ IsFiniteSet(OfType(t) \ gone)
      /\ Cardinality(OfType(t) \ gone) = Cardinality(OfType(t)) - Cardinality(gone)
  BY <1>2, <1>3, FS_Difference
<1>5. Of(t) \in SUBSET (OfType(t) \ gone)
  BY DEF Of
<1>6. Cardinality(Of(t)) = Cardinality(OfType(t)) - Cardinality(gone)
  BY DEF NInv, IInv, Checked, CountsRight
<1> QED  BY <1>4, <1>5, <1>6, FS_Subset

LEMMA RemovalIsExact ==
  ASSUME ConstantsAssumption, NInv
  PROVE  RemovalExact
<1> SUFFICES ASSUME at = "replaced", Removes, ~Off
             PROVE  TracksOf(out) = TracksOf(DOMAIN file) \ Selected
  BY DEF RemovalExact, TracksOf, Off
<1>1. /\ job.audio \subseteq OfType("audio") /\ job.subs \subseteq OfType("subtitle")
      /\ Selected \cap out = {} /\ Selected = job.audio \cup job.subs
  BY DEF NInv, Told, RemovalValid, RemovalMade, Selected
<1>2. \A t \in Tracks : Removed[t] \subseteq OfType(t) /\ Removed[t] \cap out = {}
  BY <1>1 DEF Removed, Tracks
<1>3. \A t \in Tracks : Of(t) = OfType(t) \ Removed[t]
  BY <1>2, OutputExact
<1>4. out \subseteq DOMAIN file
  BY DEF NInv, IInv, TypeOK
<1>5. ASSUME NEW i \in DOMAIN file, Type(i) \in Tracks
      PROVE  i \in Selected <=> i \in Removed[Type(i)]
  BY <1>1, <1>5 DEF Removed, Tracks, OfType
<1>6. ASSUME NEW i \in DOMAIN file, Type(i) \in Tracks
      PROVE  i \in out <=> i \notin Selected
  <2>1. i \in OfType(Type(i)) /\ (i \in out <=> i \in Of(Type(i)))
    BY DEF OfType, Of
  <2> QED  BY <1>3, <1>5, <1>6, <2>1
<1> QED  BY <1>4, <1>6 DEF TracksOf

LEMMA TracksAreMeant ==
  ASSUME ConstantsAssumption, NInv
  PROVE  TracksMeant
<1> SUFFICES ASSUME at = "replaced", Aligned
             PROVE  TracksMeant
  BY DEF TracksMeant
<1>1. out \subseteq DOMAIN file
  BY DEF NInv, IInv, TypeOK
<1>2. ASSUME job.kind = "reorder"
      PROVE  /\ args.order = job.order
             /\ {job.order[k] : k \in DOMAIN job.order} = TracksOf(DOMAIN file)
             /\ TracksOf(DOMAIN file) \subseteq out
  <2>1. /\ args.order = job.order
        /\ {job.order[k] : k \in DOMAIN job.order} = TracksOf(DOMAIN file)
    BY <1>2 DEF NInv, Told, OrderTold
  <2>2. job.audio = {} /\ job.subs = {}
    BY <1>2 DEF NInv, IInv, OnlyOrder
  <2>3. \A t \in Tracks : Removed[t] = {}
    BY <2>2 DEF Removed, Tracks
  <2>4. \A t \in Tracks : Of(t) = OfType(t)
    <3> TAKE t \in Tracks
    <3>1. {} \in SUBSET OfType(t) /\ {} \cap out = {} /\ {} = Removed[t]
      BY <2>3
    <3>2. Of(t) = OfType(t) \ {}
      BY <1>2, <3>1, OutputExact, Zenon
    <3> QED  BY <3>2
  <2> QED  BY <2>1, <2>4 DEF TracksOf, Of, OfType
<1>3. job.kind = "reorder" =>
        /\ args.order = job.order
        /\ {args.order[k] : k \in DOMAIN args.order} = {i \in out : Type(i) \in Tracks}
        /\ \A i \in DOMAIN file : Type(i) \in Tracks => i \in out
  BY <1>1, <1>2 DEF TracksOf
<1>4. job.kind = "edit" => out = job.edits
  BY DEF NInv, Told, EditTold
<1>5. job.kind = "merge" /\ fault.lost = {} => \A i \in DOMAIN file : Type(i) \in Tracks => i \in out
  BY DEF NInv, Told, MergeTold, TracksOf
<1> QED  BY <1>3, <1>4, <1>5 DEF TracksMeant

(* However ffprobe and mkvmerge number the tracks, a file is replaced      *)
(* after a removal by one without the selected tracks and with all others, *)
(* unless mkvmerge removed subtitles by swapped ids.                       *)
THEOREM RemovalsExact == Spec => []RemovalExact
<1>1. Init => NInv
  BY ToldStart, ConstantsAssumption
<1>2. NInv /\ [Next]_vars => NInv'
  BY ToldStep, ConstantsAssumption
<1>3. NInv => RemovalExact
  BY RemovalIsExact, ConstantsAssumption
<1> QED  BY <1>1, <1>2, <1>3, PTL DEF Spec

(* Reorders, edits and merges act on the tracks that were meant, unless    *)
(* streams are swapped.                                                    *)
THEOREM TracksRight == Spec => []TracksMeant
<1>1. Init => NInv
  BY ToldStart, ConstantsAssumption
<1>2. NInv /\ [Next]_vars => NInv'
  BY ToldStep, ConstantsAssumption
<1>3. NInv => TracksMeant
  BY TracksAreMeant, ConstantsAssumption
<1> QED  BY <1>1, <1>2, <1>3, PTL DEF Spec
-----------------------------------------------------------------------------
(* The check of the size.                                                  *)

\* Streams take a number of bytes.
LEMMA BytesCounted ==
  ASSUME ConstantsAssumption, TypeOK, NEW many \in [Kinds -> Nat], NEW S \in SUBSET DOMAIN file
  PROVE  IsFiniteSet(Bytes(S, many)) /\ Cardinality(Bytes(S, many)) \in Nat
<1> DEFINE f == [i \in S |-> {i} \X (1..many[file[i]])]
           T == {f[i] : i \in S}
<1>1. f \in Surjection(S, T)
  BY DEF Surjection
<1>2. IsFiniteSet(S)
  BY Counted
<1>3. IsFiniteSet(T)
  <2> HIDE DEF f, T
  <2> QED  BY <1>1, <1>2, FS_Surjection
<1>4. \A i \in S : IsFiniteSet(f[i])
  <2> TAKE i \in S
  <2>1. many[file[i]] \in Nat
    BY TheFile
  <2>2. IsFiniteSet({i})
    BY FS_Singleton
  <2>4. IsFiniteSet(1..many[file[i]])
    BY <2>1, FS_Interval
  <2>3. IsFiniteSet({i} \X (1..many[file[i]]))
    BY <2>2, <2>4, FS_Product
  <2> QED  BY <2>3
<1>5. UNION T = Bytes(S, many)
  <2>1. T = {{i} \X (1..many[file[i]]) : i \in S}
    OBVIOUS
  <2> QED  BY <2>1 DEF Bytes
<1>6. IsFiniteSet(UNION T)
  <2>1. \A t \in T : IsFiniteSet(t)
    BY <1>4
  <2> HIDE DEF T
  <2> QED  BY <1>3, <2>1, FS_UNION
<1> QED  BY <1>5, <1>6, FS_CardinalityType

\* A part takes no more than the whole; parts without a common stream add up.
LEMMA PartSmaller ==
  ASSUME ConstantsAssumption, TypeOK, NEW many \in [Kinds -> Nat],
         NEW T \in SUBSET DOMAIN file, NEW S \in SUBSET T
  PROVE  Cardinality(Bytes(S, many)) <= Cardinality(Bytes(T, many))
<1>1. Bytes(S, many) \in SUBSET Bytes(T, many)
  BY DEF Bytes
<1>2. IsFiniteSet(Bytes(T, many))
  BY BytesCounted
<1> QED  BY <1>1, <1>2, FS_Subset

LEMMA PartsAddUp ==
  ASSUME ConstantsAssumption, TypeOK, NEW many \in [Kinds -> Nat],
         NEW S \in SUBSET DOMAIN file, NEW T \in SUBSET DOMAIN file, S \cap T = {}
  PROVE  Cardinality(Bytes(S \cup T, many)) =
           Cardinality(Bytes(S, many)) + Cardinality(Bytes(T, many))
<1>1. /\ IsFiniteSet(Bytes(S, many)) /\ Cardinality(Bytes(S, many)) \in Nat
      /\ IsFiniteSet(Bytes(T, many)) /\ Cardinality(Bytes(T, many)) \in Nat
  BY BytesCounted
<1>2. Bytes(S \cup T, many) = Bytes(S, many) \cup Bytes(T, many)
  BY DEF Bytes
<1>3. Bytes(S, many) \cap Bytes(T, many) = {}
  BY DEF Bytes
<1>4. Cardinality(Bytes(S, many) \cup Bytes(T, many)) =
        Cardinality(Bytes(S, many)) + Cardinality(Bytes(T, many))
          - Cardinality(Bytes(S, many) \cap Bytes(T, many))
  BY <1>1, FS_Union
<1>5. Cardinality(Bytes(S, many) \cap Bytes(T, many)) = 0
  BY <1>3, FS_EmptySet
<1>6. \A a, b \in Nat : a + b - 0 = a + b
  OBVIOUS
<1> QED  BY <1>1, <1>2, <1>4, <1>5, <1>6, Zenon

\* What is left and what was selected take no more than the file.
LEMMA SizesFit ==
  ASSUME ConstantsAssumption, TypeOK, Selected \subseteq DOMAIN file
  PROVE  /\ Size(out) \in Nat /\ Size(Selected) \in Nat /\ Whole \in Nat
         /\ BitRate(Selected) \in Nat /\ Size(out) <= Whole
         /\ Selected \cap out = {} => Size(out) + Size(Selected) <= Whole
<1>1. /\ SizeOf \in [Kinds -> Nat] /\ BitRateOf \in [Kinds -> Nat]
      /\ out \in SUBSET DOMAIN file /\ Selected \in SUBSET DOMAIN file
      /\ DOMAIN file \in SUBSET DOMAIN file /\ out \cup Selected \in SUBSET DOMAIN file
  BY DEF ConstantsAssumption, TypeOK
<1>2. /\ Size(out) \in Nat /\ Size(Selected) \in Nat /\ Whole \in Nat
      /\ BitRate(Selected) \in Nat
  BY <1>1, BytesCounted DEF Size, BitRate, Whole
<1>3. Size(out) <= Whole /\ Size(out \cup Selected) <= Whole
  BY <1>1, PartSmaller DEF Size, Whole
<1>4. Selected \cap out = {} => Size(out \cup Selected) = Size(out) + Size(Selected)
  BY <1>1, PartsAddUp DEF Size
<1> QED  BY <1>2, <1>3, <1>4

\* What a removal tells the tool drops nothing but what was selected.
RestTold ==
  at = "tool" /\ Removes /\ Aligned =>
    \A i \in TracksOf(DOMAIN file) \ Selected :
      /\ args.tool = "mkvmerge" => i \notin odd /\ (Type(i) \in args.lists => i \in args.keep)
      /\ args.tool # "mkvmerge" => <<Type(i), Rank(i, OfType(Type(i)))>> \notin args.maps

RestMade ==
  at \in {"made", "rejected"} /\ Removes /\ Aligned /\ fault.lost = {} =>
    TracksOf(out) = TracksOf(DOMAIN file) \ Selected

\* A removal selects something.
Asked == Removes => Selected # {}

Passes == CountsRight /\ ~Drifted /\ OutSize >= SizeFloor

Verdict == /\ at = "replaced" /\ Removes => Passes
           /\ at = "rejected" /\ Removes => ~Passes

SInv == NInv /\ RestTold /\ RestMade /\ Asked /\ Verdict

LEMMA KeepSpares ==
  ASSUME ConstantsAssumption, TypeOK, Valid, IDsKnown, Aligned, Selected # {},
         NEW i \in TracksOf(DOMAIN file) \ Selected
  PROVE  i \notin odd /\ (Type(i) \in KeepArgs.lists => i \in KeepArgs.keep)
<1> DEFINE lists == {t \in Tracks : Removed[t] # {}}
           kept  == {k \in DOMAIN file : Type(k) \in lists /\ k \notin Removed[Type(k)]}
<1>1. KeepArgs.lists = lists /\ KeepArgs.keep = {MkvID(k) : k \in kept}
  BY DEF KeepArgs, NoArgs
<1>2. i \in DOMAIN file /\ Type(i) \in Tracks /\ i \notin Removed[Type(i)]
  BY DEF TracksOf, Selected, Removed, Tracks
<1>3. PICK s \in Selected : s \in DOMAIN file /\ Known(s)
  BY DEF Selected, Valid, OfType, IDsKnown
<1>4. odd = {}
  BY <1>3, IdsAreRight
<1>5. ASSUME Type(i) \in lists
      PROVE  i \in KeepArgs.keep
  <2>1. MkvID(i) = i
    BY <1>2, <1>5, ListedIds DEF Aligned
  <2>2. i \in kept
    BY <1>2, <1>5
  <2> QED  BY <1>1, <2>1, <2>2
<1> QED  BY <1>1, <1>4, <1>5

LEMMA MapSpares ==
  ASSUME ConstantsAssumption, TypeOK, Valid, NEW i \in TracksOf(DOMAIN file) \ Selected
  PROVE  <<Type(i), Rank(i, OfType(Type(i)))>> \notin MapArgs.maps
<1> SUFFICES ASSUME NEW j \in Selected, Type(j) = Type(i),
                    Rank(j, OfType(Type(j))) = Rank(i, OfType(Type(i)))
             PROVE  FALSE
  BY DEF MapArgs, NoArgs, Selected
<1>1. j \in OfType(Type(i)) /\ i \in OfType(Type(i)) /\ i # j
  BY DEF Selected, Valid, OfType, TracksOf
<1>2. OfType(Type(i)) \in SUBSET DOMAIN file
  BY DEF OfType
<1>3. IsFiniteSet(OfType(Type(i))) /\ OfType(Type(i)) \in SUBSET Nat
  BY <1>2, Counted, TheFile
<1> QED  BY <1>1, <1>3, RankTells

LEMMA CopiesSpare ==
  ASSUME ConstantsAssumption, SInv, at = "tool", Removes, Aligned
  PROVE  TracksOf(Copies) = TracksOf(DOMAIN file) \ Selected
<1>1. Copies \subseteq DOMAIN file
  BY Copied DEF SInv, NInv, IInv
<1>2. Selected \cap Copies = {}
  BY CopiesTold DEF SInv, Off, Aligned
<1>3. ASSUME NEW i \in TracksOf(DOMAIN file) \ Selected
      PROVE  i \in Copies
  <2>1. /\ args.tool = "mkvmerge" => i \notin odd /\ (Type(i) \in args.lists => i \in args.keep)
        /\ args.tool # "mkvmerge" => <<Type(i), Rank(i, OfType(Type(i)))>> \notin args.maps
    BY <1>3 DEF SInv, RestTold
  <2>2. i \in DOMAIN file /\ Type(i) \in Tracks /\ MkvType(i) = Type(i)
    BY <1>3 DEF TracksOf, MkvType, Tracks
  <2> QED  BY <2>1, <2>2 DEF Copies, MkvmergeCopies, FfmpegCopies, Listed
<1> QED  BY <1>1, <1>2, <1>3 DEF TracksOf

\* What the check looks at stays the same.
LEMMA SameVerdict ==
  ASSUME file' = file, timed' = timed, out' = out, job' = job, fault' = fault
  PROVE  Passes' <=> Passes
<1>1. CountsRight' = CountsRight
  BY SameCounts
<1>2. \A set, many : Bytes(set, many)' = Bytes(set, many)
  BY DEF Bytes
<1>3. Selected' = Selected
  BY DEF Selected
<1>4. /\ Size(out)' = Size(out) /\ Whole' = Whole
      /\ BitRate(Selected)' = BitRate(Selected)
  BY <1>2, <1>3 DEF Size, Whole, BitRate
<1>5. BitRatesKnown' <=> BitRatesKnown
  BY <1>3 DEF BitRatesKnown
<1>6. Estimate' = Estimate
  BY <1>4, <1>5 DEF Estimate
<1>7. SizeFloor' = SizeFloor /\ OutSize' = OutSize
  BY <1>4, <1>6 DEF SizeFloor, OutSize
<1>8. Drifted' <=> Drifted
  BY DEF Drifted
<1> QED  BY <1>1, <1>7, <1>8 DEF Passes

LEMMA SizeStart ==
  ASSUME ConstantsAssumption, Init
  PROVE  SInv
BY ToldStart DEF Init, Empty, SInv, RestTold, RestMade, Asked, Verdict, Removes

LEMMA SizeStep ==
  ASSUME ConstantsAssumption, SInv, [Next]_vars
  PROVE  SInv'
<1> USE DEF given
<1>0. TypeOK /\ NInv /\ RestTold /\ RestMade /\ Asked /\ Verdict
  BY DEF SInv, NInv, IInv
<1>1. NInv'
  BY <1>0, ToldStep
<1>2. file' = file /\ odd' = odd /\ timed' = timed
  BY DEF Next, vars, SubmitRemove, SubmitBatch, SubmitReorder, SubmitEdit, SubmitMerge, Queue,
         PrepareRemove, PrepareReorder, PrepareEdit, PrepareMerge, Tell, Refuse, RunTool,
         ToolFails, EditFile, Verify, VerifyMerge
<1>3. /\ \A i : Type(i)' = Type(i)
      /\ \A t : OfType(t)' = OfType(t)
  BY <1>2, SameStreams
<1>4. /\ TracksOf(DOMAIN file)' = TracksOf(DOMAIN file)
      /\ \A i : Rank(i, OfType(Type(i)))' = Rank(i, OfType(Type(i)))
      /\ Aligned' <=> Aligned
  <2>1. TracksOf(DOMAIN file)' = TracksOf(DOMAIN file)
    BY <1>2, <1>3 DEF TracksOf
  <2>2. \A t, u : Swapped(t, u)' <=> Swapped(t, u)
    BY <1>2, <1>3 DEF Swapped
  <2>3. \A i : Rank(i, OfType(Type(i)))' = Rank(i, OfType(Type(i)))
    BY <1>3 DEF Rank
  <2> QED  BY <2>1, <2>2, <2>3 DEF Aligned
<1>5. ASSUME job' = job
      PROVE  Selected' = Selected /\ (Removes' <=> Removes) /\ Asked'
  BY <1>0, <1>5 DEF Selected, Removes, Asked
<1>6. ASSUME at' \in {"request", "queued", "refused"}
      PROVE  (RestTold /\ RestMade /\ Verdict)'
  BY <1>6 DEF RestTold, RestMade, Verdict
<1>7. ASSUME SubmitRemove \/ SubmitBatch \/ SubmitReorder \/ SubmitEdit \/ SubmitMerge
      PROVE  (RestTold /\ RestMade /\ Verdict /\ Asked)'
  <2>1. at' = "queued"
    BY <1>7 DEF SubmitRemove, SubmitBatch, SubmitReorder, SubmitEdit, SubmitMerge, Queue
  <2>2. SubmitRemove => Asked'
    BY DEF SubmitRemove, Queue, Empty, Asked, Selected
  <2>3. SubmitBatch => Asked'
    BY DEF SubmitBatch, Queue, Empty, Asked, Selected
  <2>4. SubmitReorder => Asked'
    BY DEF SubmitReorder, Queue, Empty, Asked, Removes
  <2>5. SubmitEdit => Asked'
    BY DEF SubmitEdit, Queue, Empty, Asked, Removes
  <2>6. SubmitMerge => Asked'
    BY DEF SubmitMerge, Queue, Empty, Asked, Removes
  <2> QED  BY <1>6, <1>7, <2>1, <2>2, <2>3, <2>4, <2>5, <2>6
<1>8. ASSUME PrepareRemove
      PROVE  (RestTold /\ RestMade /\ Verdict /\ Asked)'
  <2>1. job' = job /\ Removes
    BY <1>8 DEF PrepareRemove, Tell, Refuse
  <2>2. CASE Refuse
    BY <1>5, <1>6, <2>1, <2>2 DEF Refuse
  <2>3. ASSUME Valid, NEW a, Tell(a),
               \/ (a.tool = "mkvmerge" /\ a = KeepArgs /\ IDsKnown)
               \/ (a.tool = "ffmpeg" /\ a = MapArgs)
        PROVE  (RestTold /\ RestMade /\ Verdict)'
    <3>1. at' = "tool" /\ args' = a
      BY <2>3 DEF Tell
    <3>2. Selected # {}
      BY <1>0, <2>1 DEF Asked
    <3>3. ASSUME Aligned, NEW i \in TracksOf(DOMAIN file) \ Selected
          PROVE  /\ a.tool = "mkvmerge" => i \notin odd /\ (Type(i) \in a.lists => i \in a.keep)
                 /\ a.tool # "mkvmerge" => <<Type(i), Rank(i, OfType(Type(i)))>> \notin a.maps
      BY <1>0, <2>3, <3>2, <3>3, KeepSpares, MapSpares
    <3>4. RestTold'
      BY <1>2, <1>3, <1>4, <1>5, <2>1, <3>1, <3>3 DEF RestTold
    <3> QED  BY <3>1, <3>4 DEF RestMade, Verdict
  <2>4. KeepArgs.tool = "mkvmerge" /\ MapArgs.tool = "ffmpeg"
    BY DEF KeepArgs, MapArgs, NoArgs
  <2>5. Refuse \/ (Valid /\ IDsKnown /\ Tell(KeepArgs)) \/ (Valid /\ Tell(MapArgs))
    BY <1>8 DEF PrepareRemove
  <2>6. Valid /\ IDsKnown /\ Tell(KeepArgs) => (RestTold /\ RestMade /\ Verdict)'
    BY <2>3, <2>4
  <2>7. Valid /\ Tell(MapArgs) => (RestTold /\ RestMade /\ Verdict)'
    BY <2>3, <2>4
  <2> QED  BY <1>5, <2>1, <2>2, <2>5, <2>6, <2>7
<1>9. ASSUME PrepareReorder \/ PrepareEdit \/ PrepareMerge
      PROVE  (RestTold /\ RestMade /\ Verdict /\ Asked)'
  <2>1. job' = job /\ ~Removes /\ at' \in {"tool", "refused"}
    BY <1>9 DEF PrepareReorder, PrepareEdit, PrepareMerge, Tell, Refuse, Removes
  <2> QED  BY <1>5, <2>1 DEF RestTold, RestMade, Verdict
<1>10. ASSUME RunTool
       PROVE  (RestTold /\ RestMade /\ Verdict /\ Asked)'
  <2>1. PICK lost \in SUBSET Copies : fault'.lost = lost /\ out' = Copies \ lost
    BY <1>10 DEF RunTool
  <2>2. at = "tool" /\ at' = "made" /\ job' = job
    BY <1>10 DEF RunTool
  <2>3. TracksOf(out)' = TracksOf(out')
    BY <1>3 DEF TracksOf
  <2>4. ASSUME Removes, Aligned, lost = {}
        PROVE  TracksOf(out') = TracksOf(DOMAIN file) \ Selected
    <3>1. out' = Copies
      BY <2>1, <2>4
    <3> QED  BY <2>2, <2>4, <3>1, CopiesSpare
  <2>5. RestMade'
    BY <1>4, <1>5, <2>1, <2>2, <2>3, <2>4 DEF RestMade
  <2> QED  BY <1>5, <2>2, <2>5 DEF RestTold, Verdict
<1>11. ASSUME ToolFails
       PROVE  (RestTold /\ RestMade /\ Verdict /\ Asked)'
  BY <1>5, <1>6, <1>11 DEF ToolFails
<1>12. ASSUME EditFile
       PROVE  (RestTold /\ RestMade /\ Verdict /\ Asked)'
  <2>1. job' = job /\ job.kind = "edit" /\ at' = "replaced"
    BY <1>0, <1>12 DEF EditFile, NInv, IInv, EditsNamed
  <2> QED  BY <1>5, <2>1 DEF Removes, RestTold, RestMade, Verdict
<1>13. ASSUME out' = out, job' = job, fault' = fault
       PROVE  (Passes' <=> Passes) /\ TracksOf(out)' = TracksOf(out)
  <2>1. Passes' <=> Passes
    BY <1>2, <1>13, SameVerdict
  <2>2. TracksOf(out)' = TracksOf(out)
    BY <1>3, <1>13 DEF TracksOf
  <2> QED  BY <2>1, <2>2
<1>14. ASSUME Verify
       PROVE  (RestTold /\ RestMade /\ Verdict /\ Asked)'
  <2>1. /\ at = "made" /\ out' = out /\ job' = job /\ fault' = fault
        /\ at' \in {"replaced", "rejected"} /\ (at' = "replaced" <=> Passes)
    BY <1>14 DEF Verify, Passes
  <2>2. Verdict'
    BY <1>13, <2>1 DEF Verdict
  <2>3. RestMade'
    BY <1>0, <1>4, <1>5, <1>13, <2>1 DEF RestMade
  <2> QED  BY <1>5, <2>1, <2>2, <2>3 DEF RestTold
<1>15. ASSUME VerifyMerge
       PROVE  (RestTold /\ RestMade /\ Verdict /\ Asked)'
  <2>1. job' = job /\ ~Removes /\ at' \in {"replaced", "rejected"}
    BY <1>15 DEF VerifyMerge, Removes
  <2> QED  BY <1>5, <2>1 DEF RestTold, RestMade, Verdict
<1>16. ASSUME UNCHANGED vars
       PROVE  (RestTold /\ RestMade /\ Verdict /\ Asked)'
  <2>1. at' = at /\ job' = job /\ args' = args /\ out' = out /\ fault' = fault
    BY <1>16 DEF vars
  <2>2. RestTold'
    BY <1>0, <1>2, <1>3, <1>4, <1>5, <2>1 DEF RestTold
  <2>3. RestMade' /\ Verdict'
    BY <1>0, <1>4, <1>5, <1>13, <2>1 DEF RestMade, Verdict
  <2> QED  BY <1>5, <2>1, <2>2, <2>3
<1>17. (RestTold /\ RestMade /\ Verdict /\ Asked)'
  BY <1>7, <1>8, <1>9, <1>10, <1>11, <1>12, <1>14, <1>15, <1>16 DEF Next
<1> QED  BY <1>1, <1>17 DEF SInv

\* A tool that leaves out nothing makes an output with the counts expected.
LEMMA CountsOfRest ==
  ASSUME ConstantsAssumption, TypeOK,
         job.audio \subseteq OfType("audio"), job.subs \subseteq OfType("subtitle"),
         TracksOf(out) = TracksOf(DOMAIN file) \ Selected
  PROVE  CountsRight
<1> SUFFICES ASSUME NEW t \in Tracks
             PROVE  Cardinality(Of(t)) = Cardinality(OfType(t)) - Cardinality(Removed[t])
  BY DEF CountsRight
<1>1. OfType(t) \in SUBSET DOMAIN file /\ Removed[t] \subseteq OfType(t)
  BY DEF OfType, Removed, Tracks
<1>2. IsFiniteSet(OfType(t)) /\ OfType(t) \cap Removed[t] = Removed[t]
  BY <1>1, Counted
<1>3. Cardinality(OfType(t) \ Removed[t]) = Cardinality(OfType(t)) - Cardinality(Removed[t])
  BY <1>2, FS_Difference
<1>4. ASSUME NEW i \in OfType(t)
      PROVE  i \in Selected <=> i \in Removed[t]
  BY <1>4 DEF Selected, Removed, OfType, Tracks
<1>5. Of(t) = OfType(t) \ Removed[t]
  <2>1. \A i \in OfType(t) : i \in out <=> i \notin Selected
    BY DEF TracksOf, OfType
  <2> QED  BY <1>4, <2>1 DEF Of
<1> QED  BY <1>3, <1>5

\* The arithmetic of the floor, for a whole of w bytes, an estimate of e and an
\* output of o.
LEMMA FloorLow ==
  ASSUME NEW w \in Nat, NEW e \in Nat, NEW o \in Nat,
         LET floor == ((w - e) * 7) \div 10
         IN  ~(o >= (IF floor < w \div 10 THEN w \div 10 ELSE floor))
  PROVE  e < w - o \/ o < w \div 10
OBVIOUS

LEMMA FloorHigh ==
  ASSUME NEW w \in Nat, NEW e \in Nat, NEW o \in Nat, NEW g \in Nat,
         e <= g, o + g <= w,
         LET floor == ((w - e) * 7) \div 10
         IN  o \div 2 >= (IF floor < w \div 10 THEN w \div 10 ELSE floor)
  PROVE  o < 5
OBVIOUS

LEMMA SizeCheckIsSound ==
  ASSUME ConstantsAssumption, SInv
  PROVE  SizeCheckSound
<1> SUFFICES ASSUME Aligned, Removes
             PROVE  /\ at = "rejected" /\ fault.lost = {} /\ ~fault.cut =>
                         \/ BitRatesKnown /\ BitRate(Selected) < Whole - Size(out)
                         \/ Size(out) < Whole \div 10
                    /\ at = "replaced" /\ fault.cut =>
                         \/ ~BitRatesKnown
                         \/ BitRate(Selected) > Size(Selected)
                         \/ Size(out) < 5
  BY DEF SizeCheckSound
<1>1. TypeOK /\ NInv /\ RestMade /\ Verdict
  BY DEF SInv, NInv, IInv
<1>2. ASSUME at \in {"rejected", "replaced"}
      PROVE  /\ job.audio \subseteq OfType("audio") /\ job.subs \subseteq OfType("subtitle")
             /\ Selected \subseteq DOMAIN file
  BY <1>1, <1>2 DEF NInv, Told, RemovalValid, Selected, OfType
<1>3. ASSUME at = "rejected", fault.lost = {}, ~fault.cut
      PROVE  \/ BitRatesKnown /\ BitRate(Selected) < Whole - Size(out)
             \/ Size(out) < Whole \div 10
  <2>1. CountsRight
    BY <1>1, <1>2, <1>3, CountsOfRest DEF RestMade
  <2>2. ~(Size(out) >= SizeFloor)
    BY <1>1, <1>3, <2>1 DEF Verdict, Passes, Drifted, OutSize
  <2>3. Size(out) \in Nat /\ Whole \in Nat /\ BitRate(Selected) \in Nat
    BY <1>1, <1>2, <1>3, SizesFit
  <2>4. Estimate \in Nat
    BY <2>3 DEF Estimate
  <2>5. Estimate < Whole - Size(out) \/ Size(out) < Whole \div 10
    BY <2>2, <2>3, <2>4, FloorLow DEF SizeFloor
  <2>6. Estimate < Whole - Size(out) => BitRatesKnown /\ Estimate = BitRate(Selected)
    BY <2>3 DEF Estimate
  <2> QED  BY <2>5, <2>6
<1>4. ASSUME at = "replaced", fault.cut, BitRatesKnown, ~(BitRate(Selected) > Size(Selected))
      PROVE  Size(out) < 5
  <2>1. Size(out) \div 2 >= SizeFloor
    BY <1>1, <1>4 DEF Verdict, Passes, OutSize
  <2>2. Selected \cap out = {}
    BY <1>1, <1>4 DEF NInv, Told, RemovalMade, Off, Aligned
  <2>3. /\ Size(out) \in Nat /\ Size(Selected) \in Nat /\ Whole \in Nat
        /\ BitRate(Selected) \in Nat /\ Size(out) + Size(Selected) <= Whole
    BY <1>1, <1>2, <1>4, <2>2, SizesFit
  <2>4. Estimate = BitRate(Selected) /\ BitRate(Selected) <= Size(Selected)
    BY <1>4, <2>3 DEF Estimate
  <2> QED  BY <2>1, <2>3, <2>4, FloorHigh DEF SizeFloor
<1> QED  BY <1>3, <1>4

(* For any sizes and bit rates: the floor refuses no output of a tool that *)
(* did what it was told, and lets pass none that is half as large as it    *)
(* should be, with the exceptions that SizeCheckSound names.               *)
THEOREM SizesChecked == Spec => []SizeCheckSound
<1>1. Init => SInv
  BY SizeStart, ConstantsAssumption
<1>2. SInv /\ [Next]_vars => SInv'
  BY SizeStep, ConstantsAssumption
<1>3. SInv => SizeCheckSound
  BY SizeCheckIsSound, ConstantsAssumption
<1> QED  BY <1>1, <1>2, <1>3, PTL DEF Spec
=============================================================================
