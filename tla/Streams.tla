------------------------------- MODULE Streams -------------------------------
(***************************************************************************)
(* From the request of a client to the output that takes the place of a    *)
(* file: which streams the tools are told to keep, drop, edit or put in    *)
(* order (internal/api/server.go, internal/engine/engine.go), given that   *)
(* ffprobe and mkvmerge number them differently (internal/probe/probe.go), *)
(* and what the check of the output lets through.                          *)
(*                                                                         *)
(* The file stays the same meanwhile (FileJobs is about files that do not) *)
(* and a stream is known by its ffprobe index, counted from 1.  The id     *)
(* mkvmerge gives to a track is written as the index of that track.        *)
(***************************************************************************)
EXTENDS Integers, FiniteSets, Sequences

CONSTANTS
  Kinds,      \* kinds of streams
  TypeOf,     \* TypeOf[k]: codec_type, "attachment" for attached pictures
  LangOf,     \* LangOf[k]: the language tag, up to case, or NoLang
  SizeOf,     \* SizeOf[k]: the size of such a stream
  BitRateOf,  \* BitRateOf[k]: its size as its bit rate tells, 0 when unknown
  Langs, Und, NoLang,
  Files,      \* the sequences of kinds that files consist of
  ToolSets,   \* the sets of tools that may be installed
  MaxIndex,   \* bound: indexes in requests
  MaxPicks,   \* bound: streams in one request for a removal
  MaxOdd,     \* bound: streams on which ffprobe and mkvmerge disagree
  MaxLost     \* bound: streams a tool leaves out of its output

Tracks == {"video", "audio", "subtitle"}
Types  == Tracks \cup {"attachment", "data"}
Idx    == 1..MaxIndex

ASSUME ConstantsAssumption ==
  /\ TypeOf \in [Kinds -> Types]
  /\ LangOf \in [Kinds -> Langs \cup {NoLang}]
  /\ Und \in Langs /\ NoLang \notin Langs
  /\ SizeOf \in [Kinds -> Nat] /\ BitRateOf \in [Kinds -> Nat]
  /\ Files \subseteq Seq(Kinds)
  /\ ToolSets \subseteq SUBSET {"mkvmerge", "ffmpeg", "mkvpropedit"}
  /\ MaxIndex \in Nat /\ \A f \in Files : Len(f) <= MaxIndex
  /\ MaxPicks \in Nat /\ MaxOdd \in Nat /\ MaxLost \in Nat

VARIABLES
  file,      \* the streams of the file, in the order of the container
  odd,       \* the streams on which the tools disagree
  matroska,  \* whether it is a Matroska file
  timed,     \* whether its duration is known
  tools,     \* the tools that are installed
  at,        \* how far the request is
  job,       \* the job of the request
  args,      \* what the tool is told
  out,       \* the streams of the file in the output, or those edited
  fault      \* what the tool did wrong, and whether the output has a duration

given == <<file, odd, matroska, timed, tools>>
vars  == <<given, at, job, args, out, fault>>

-----------------------------------------------------------------------------
(* Streams as ffprobe and as mkvmerge see them.                            *)

Type(i)   == TypeOf[file[i]]
OfType(t) == {i \in DOMAIN file : Type(i) = t}

Rank(i, set) == Cardinality({j \in set : j < i})

(* mkvmerge lists video, audio and subtitle tracks; where it disagrees it  *)
(* does not know a track, or takes a picture or data for one.              *)
Listed   == {i \in DOMAIN file : (Type(i) \in Tracks) # (i \in odd)}
MkvType(i) == IF Type(i) = "attachment" THEN "video"
              ELSE IF Type(i) = "data" THEN "subtitle" ELSE Type(i)
MkvTracks(t) == {i \in Listed : MkvType(i) = t}

(* alignMkvIDs: the track at the position of i among those of its type.    *)
AtPosition(i) == {m \in MkvTracks(Type(i)) :
                    Rank(m, MkvTracks(Type(i))) = Rank(i, OfType(Type(i)))}

(* langsCompatible, which codecsCompatible resembles.                      *)
Compatible(i, m) == LET a == LangOf[file[i]]
                        b == LangOf[file[m]]
                    IN  a = NoLang \/ b = NoLang \/ a = b

CountsMatch == \A t \in Tracks : Cardinality(MkvTracks(t)) = Cardinality(OfType(t))

AlignFails == \/ \E i \in DOMAIN file : \E m \in AtPosition(i) : ~Compatible(i, m)
              \/ ~CountsMatch

(* The ids that a probe finds: those of Matroska files, and of all streams *)
(* or of none.                                                             *)
MkvIDs(i) == IF matroska /\ "mkvmerge" \in tools /\ ~AlignFails THEN AtPosition(i) ELSE {}
Known(i)  == MkvIDs(i) # {}
MkvID(i)  == CHOOSE m \in MkvIDs(i) : TRUE

-----------------------------------------------------------------------------

Empty == [kind |-> "none", audio |-> {}, subs |-> {}, last |-> FALSE,
          order |-> <<>>, edits |-> {}, adds |-> {}]
Jobs  == [kind : {"none", "remove", "batch", "reorder", "edit", "merge"},
          audio : SUBSET Idx, subs : SUBSET Idx, last : BOOLEAN,
          order : Seq(Idx), edits : SUBSET Idx, adds : SUBSET {"audio", "subtitle"}]

(* Types with a keep-list, the ids in these lists, negative maps, the      *)
(* order of tracks.                                                        *)
NoArgs == [tool |-> "none", lists |-> {}, keep |-> {}, maps |-> {}, order |-> <<>>]
Args   == [tool : {"none", "mkvmerge", "ffmpeg", "mkvpropedit"}, lists : SUBSET Tracks,
           keep : SUBSET Idx, maps : SUBSET (Tracks \X Nat), order : Seq(Idx)]

NoFault == [lost |-> {}, cut |-> FALSE, timed |-> TRUE]

TypeOK ==
  /\ file \in Files
  /\ odd \subseteq DOMAIN file
  /\ matroska \in BOOLEAN /\ timed \in BOOLEAN
  /\ tools \in ToolSets
  /\ at \in {"request", "queued", "tool", "made", "replaced", "rejected", "refused"}
  /\ job \in Jobs
  /\ args \in Args
  /\ out \subseteq DOMAIN file
  /\ fault \in [lost : SUBSET DOMAIN file, cut : BOOLEAN, timed : BOOLEAN]

Init ==
  /\ file \in Files
  /\ odd \in {o \in SUBSET DOMAIN file : Cardinality(o) <= MaxOdd}
  /\ matroska \in BOOLEAN /\ timed \in BOOLEAN
  /\ tools \in ToolSets
  /\ odd # {} => matroska /\ "mkvmerge" \in tools
  /\ at = "request"
  /\ job = Empty
  /\ args = NoArgs
  /\ out = {}
  /\ fault = NoFault

-----------------------------------------------------------------------------
(* The requests.                                                           *)

Queue(j) == /\ at' = "queued"
            /\ job' = j
            /\ UNCHANGED <<given, args, out, fault>>

(* handleFileJobs: the streams are looked at by the job.                   *)
SubmitRemove ==
  /\ at = "request"
  /\ \E audio, subs \in SUBSET Idx, last \in BOOLEAN :
       /\ audio \cup subs # {}
       /\ Cardinality(audio) + Cardinality(subs) <= MaxPicks
       /\ Queue([Empty EXCEPT !.kind = "remove", !.audio = audio, !.subs = subs, !.last = last])

Lang(i) == IF LangOf[file[i]] = NoLang THEN Und ELSE LangOf[file[i]]

\* Mutant: a batch may ask for every audio track.
AllAudio(keep, drop) ==
  {i \in OfType("audio") : IF keep # {} THEN Lang(i) \notin keep ELSE Lang(i) \in drop}

(* resolveBatch: unless no audio would be left.                            *)
BatchAudio(keep, drop) ==
  LET chosen == {i \in OfType("audio") :
                   IF keep # {} THEN Lang(i) \notin keep ELSE Lang(i) \in drop}
  IN  IF chosen = OfType("audio") THEN {} ELSE chosen
BatchSubs(all, drop) == {i \in OfType("subtitle") : all \/ Lang(i) \in drop}

(* handleBatch, for one of its files.                                      *)
SubmitBatch ==
  /\ at = "request"
  /\ \E keep, drop, subs \in SUBSET Langs, all \in BOOLEAN :
       LET a == BatchAudio(keep, drop)
           s == BatchSubs(all, subs)
       IN  /\ a \cup s # {}
           /\ Queue([Empty EXCEPT !.kind = "batch", !.audio = a, !.subs = s])

OrderFits(order) ==
  /\ order # <<>>
  /\ Len(order) = Cardinality({i \in DOMAIN file : Known(i)})
  /\ \A k, l \in DOMAIN order : order[k] = order[l] => k = l
  /\ \A k \in DOMAIN order : order[k] \in DOMAIN file /\ Known(order[k])

SubmitReorder ==
  /\ at = "request" /\ matroska
  /\ \E n \in Idx : \E order \in [1..n -> Idx] :
       /\ OrderFits(order)
       /\ Queue([Empty EXCEPT !.kind = "reorder", !.order = order])

SubmitEdit ==
  /\ at = "request" /\ matroska
  /\ \E edits \in SUBSET Idx \ {{}} : Queue([Empty EXCEPT !.kind = "edit", !.edits = edits])

(* External files with an audio track, a subtitle track or both.           *)
SubmitMerge ==
  /\ at = "request" /\ matroska
  /\ \E adds \in SUBSET {"audio", "subtitle"} \ {{}} :
       Queue([Empty EXCEPT !.kind = "merge", !.adds = adds])

-----------------------------------------------------------------------------
(* The job up to the call of the tool.                                     *)

Tell(a) == /\ at' = "tool"
           /\ args' = a
           /\ UNCHANGED <<given, job, out, fault>>
Refuse  == /\ at' = "refused"
           /\ UNCHANGED <<given, job, args, out, fault>>

Removes == job.kind \in {"remove", "batch"}

(* validate.                                                               *)
Valid == /\ job.audio \subseteq OfType("audio")
         /\ job.subs \subseteq OfType("subtitle")
         /\ \/ Cardinality(job.audio) < Cardinality(OfType("audio"))
            \/ OfType("audio") = {} \/ job.last
         /\ OfType("video") # {}

IDsKnown == \A i \in DOMAIN file : Type(i) \in {"audio", "subtitle"} => Known(i)

Removed == [video |-> {}, audio |-> job.audio, subtitle |-> job.subs]

\* Mutant: ids counted from one, as mkvpropedit counts tracks.
OneBased == [NoArgs EXCEPT !.tool = "mkvmerge", !.lists = {t \in Tracks : Removed[t] # {}},
               !.keep = {MkvID(i) + 1 : i \in {k \in DOMAIN file :
                            Type(k) \in {"audio", "subtitle"} /\ k \notin Removed[Type(k)]}}]

(* mkvmergeArgs: lists of what to keep.                                    *)
KeepArgs ==
  LET lists == {t \in Tracks : Removed[t] # {}}
  IN  [NoArgs EXCEPT !.tool = "mkvmerge", !.lists = lists,
                     !.keep = {MkvID(i) : i \in {k \in DOMAIN file :
                                  Type(k) \in lists /\ k \notin Removed[Type(k)]}}]

\* Mutant: the maps name the streams by their index in the file.
IndexMaps == [NoArgs EXCEPT !.tool = "ffmpeg",
                !.maps = {<<Type(i), i - 1>> : i \in job.audio \cup job.subs}]

(* ffmpegArgs: negative maps, by position among the streams of a type.     *)
MapArgs == [NoArgs EXCEPT !.tool = "ffmpeg",
              !.maps = {<<Type(i), Rank(i, OfType(Type(i)))>> : i \in job.audio \cup job.subs}]

(* RemoveTracks up to the call, with buildArgs.                            *)
PrepareRemove ==
  /\ at = "queued" /\ Removes
  /\ IF ~Valid THEN Refuse
     ELSE IF matroska /\ "mkvmerge" \in tools /\ IDsKnown THEN Tell(KeepArgs)
     ELSE IF "ffmpeg" \in tools THEN Tell(MapArgs)
     ELSE Refuse

PrepareReorder ==
  /\ at = "queued" /\ job.kind = "reorder"
  /\ IF "mkvmerge" \in tools /\ matroska /\ OrderFits(job.order)
     THEN Tell([NoArgs EXCEPT !.tool = "mkvmerge",
                              !.order = [k \in DOMAIN job.order |-> MkvID(job.order[k])]])
     ELSE Refuse

PrepareEdit ==
  /\ at = "queued" /\ job.kind = "edit"
  /\ IF /\ "mkvpropedit" \in tools /\ matroska
        /\ \A i \in job.edits : i \in DOMAIN file /\ Known(i)
     THEN Tell([NoArgs EXCEPT !.tool = "mkvpropedit", !.keep = {MkvID(i) : i \in job.edits}])
     ELSE Refuse

\* Mutant: nobody looks whether mkvmerge knows the tracks.
NotLooked == TRUE

TracksKnown == \A i \in DOMAIN file : Type(i) \in Tracks => Known(i)

PrepareMerge ==
  /\ at = "queued" /\ job.kind = "merge"
  /\ IF "mkvmerge" \in tools /\ matroska /\ TracksKnown
     THEN Tell([NoArgs EXCEPT !.tool = "mkvmerge"])
     ELSE Refuse

-----------------------------------------------------------------------------
(* The tools and the check of what they made.                              *)

(* mkvmerge copies the tracks it lists and the attachments, ffmpeg with    *)
(* -map 0 everything.                                                      *)
MkvmergeCopies == {i \in Listed : MkvType(i) \in args.lists => i \in args.keep}
                    \cup (OfType("attachment") \ odd)
FfmpegCopies   == {i \in DOMAIN file : <<Type(i), Rank(i, OfType(Type(i)))>> \notin args.maps}
Copies == IF args.tool = "mkvmerge" THEN MkvmergeCopies ELSE FfmpegCopies

(* The tool ends well or with warnings, and may have left out streams or   *)
(* the second half.                                                        *)
RunTool ==
  /\ at = "tool" /\ args.tool \in {"mkvmerge", "ffmpeg"}
  /\ \E lost \in SUBSET Copies, cut, known \in BOOLEAN :
       /\ Cardinality(lost) <= MaxLost
       /\ fault' = [lost |-> lost, cut |-> cut, timed |-> known]
       /\ out' = Copies \ lost
  /\ at' = "made"
  /\ UNCHANGED <<given, job, args>>

ToolFails ==
  /\ at = "tool"
  /\ at' = "refused"
  /\ UNCHANGED <<given, job, args, out, fault>>

(* mkvpropedit works in place.                                             *)
EditFile ==
  /\ at = "tool" /\ args.tool = "mkvpropedit"
  /\ out' = args.keep
  /\ at' = "replaced"
  /\ UNCHANGED <<given, job, args, fault>>

(* The bytes of streams, so many of each of a kind; counted, for their sum. *)
Bytes(set, many) == UNION {{i} \X (1..many[file[i]]) : i \in set}

Size(set)    == Cardinality(Bytes(set, SizeOf))
BitRate(set) == Cardinality(Bytes(set, BitRateOf))
Whole        == Size(DOMAIN file)
OutSize      == IF fault.cut THEN Size(out) \div 2 ELSE Size(out)

Selected == job.audio \cup job.subs

(* removedBitratesKnown and estimateRemoved.                               *)
BitRatesKnown == \A i \in Selected : timed /\ BitRateOf[file[i]] > 0

\* Mutant: unknown bit rates count as nothing.
KnownPart == IF timed THEN BitRate(Selected) ELSE 0

Estimate == IF BitRatesKnown THEN BitRate(Selected) ELSE Whole

(* sizeFloor.                                                              *)
SizeFloor == LET floor == ((Whole - Estimate) * 7) \div 10
             IN  IF floor < Whole \div 10 THEN Whole \div 10 ELSE floor

Drifted == timed /\ fault.timed /\ fault.cut

Of(t) == out \cap OfType(t)

CountsRight == \A t \in Tracks :
                 Cardinality(Of(t)) = Cardinality(OfType(t)) - Cardinality(Removed[t])

(* verify, then replaceOriginal.                                           *)
Verify ==
  /\ at = "made" /\ job.kind # "merge"
  /\ at' = IF CountsRight /\ ~Drifted /\ OutSize >= SizeFloor THEN "replaced" ELSE "rejected"
  /\ UNCHANGED <<given, job, args, out, fault>>

(* verifyMerge.                                                            *)
VerifyMerge ==
  /\ at = "made" /\ job.kind = "merge"
  /\ LET added(t) == IF t \in job.adds THEN 1 ELSE 0
     IN  at' = IF /\ Cardinality(Of("video")) = Cardinality(OfType("video"))
                  /\ \A t \in {"audio", "subtitle"} :
                       Cardinality(Of(t)) + added(t) >= Cardinality(OfType(t))
                  /\ ~Drifted
               THEN "replaced" ELSE "rejected"
  /\ UNCHANGED <<given, job, args, out, fault>>

Next == \/ SubmitRemove \/ SubmitBatch \/ SubmitReorder \/ SubmitEdit \/ SubmitMerge
        \/ PrepareRemove \/ PrepareReorder \/ PrepareEdit \/ PrepareMerge
        \/ RunTool \/ ToolFails \/ EditFile \/ Verify \/ VerifyMerge

Spec == Init /\ [][Next]_vars

-----------------------------------------------------------------------------
(* Properties.                                                             *)

(* A track of one type that only ffprobe knows, and a stream that mkvmerge *)
(* alone takes for one: the counts match, and the ids may be off.          *)
Swapped(t, other) == OfType(t) \cap odd # {} /\ OfType(other) \cap odd # {}

Aligned == ~Swapped("subtitle", "data") /\ ~Swapped("video", "attachment")

(* A file is replaced after a removal only by one with exactly the tracks  *)
(* that were not selected, whichever tool made it, however the two number  *)
(* their tracks and whatever the tool left out, unless mkvmerge was told   *)
(* ids of swapped subtitles (alignMkvIDs, mkvmergeArgs, ffmpegArgs,        *)
(* verify).                                                                *)
RemovalExact ==
  at = "replaced" /\ Removes =>
    \/ {i \in out : Type(i) \in Tracks} = {i \in DOMAIN file : Type(i) \in Tracks} \ Selected
    \/ Swapped("subtitle", "data") /\ args.tool = "mkvmerge" /\ job.subs # {}

(* Tracks are put in the order that the client gave, all of them and once; *)
(* those and only those it named are edited; a merge with a tool that does *)
(* what it is told keeps every track, whatever it adds (ReorderTracks,     *)
(* EditMetadata, MergeTracks); unless streams are swapped.                 *)
TracksMeant ==
  at = "replaced" /\ Aligned =>
    /\ job.kind = "reorder" =>
         /\ args.order = job.order
         /\ {args.order[k] : k \in DOMAIN args.order} = {i \in out : Type(i) \in Tracks}
         /\ \A i \in DOMAIN file : Type(i) \in Tracks => i \in out
    /\ job.kind = "edit" => out = job.edits
    /\ job.kind = "merge" /\ fault.lost = {} =>
         \A i \in DOMAIN file : Type(i) \in Tracks => i \in out

(* The check of the size refuses no output of a tool that did what it was  *)
(* told, unless bit rates tell less than the removed streams took or       *)
(* hardly anything is left; and without the durations it still notices an  *)
(* output cut in half, unless bit rates are unknown or tell too much, or   *)
(* the whole output is so small that the floor rounds down to its half     *)
(* (sizeFloor, estimateRemoved, removedBitratesKnown); unless streams are  *)
(* swapped.  The exceptions for a cut output are those by which            *)
(* NeverTruncated fails.                                                   *)
SizeCheckSound ==
  Aligned /\ Removes =>
    /\ at = "rejected" /\ fault.lost = {} /\ ~fault.cut =>
         \/ BitRatesKnown /\ BitRate(Selected) < Whole - Size(out)
         \/ Size(out) < Whole \div 10
    /\ at = "replaced" /\ fault.cut =>
         \/ ~BitRatesKnown
         \/ BitRate(Selected) > Size(Selected)
         \/ Size(out) < 5

(* CHANGELOG.md:146 of the size floor: it is clamped "so a truncated        *)
(* output can never atomically replace good media".  It fails where a      *)
(* duration is missing and the floor is low, because bit rates are unknown *)
(* or tell too much (verify, removedBitratesKnown, sizeFloor).             *)
NeverTruncated == at = "replaced" /\ Removes => ~fault.cut

(* What the batch handler queues for a file with a video stream is never   *)
(* refused by the job, and leaves a file with audio some audio             *)
(* (resolveBatch against validate).                                        *)
BatchValid ==
  job.kind = "batch" =>
    /\ at = "queued" /\ OfType("video") # {} => Valid
    /\ at = "replaced" /\ OfType("audio") # {} => Of("audio") # {}
=============================================================================
