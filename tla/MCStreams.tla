------------------------------ MODULE MCStreams ------------------------------
(* Files of up to four streams; audio with a bit rate that is right,       *)
(* unknown or too small, with and without a language; subtitles whose bit  *)
(* rate is too large; a video hardly larger than nothing.                  *)
EXTENDS Streams, TLC

CONSTANTS v, w, a1, a2, a3, s1, d, p

MCKinds   == {v, w, a1, a2, a3, s1, d, p}
MCTypeOf  == [k \in MCKinds |-> IF k \in {v, w} THEN "video" ELSE IF k = s1 THEN "subtitle"
                ELSE IF k = d THEN "data" ELSE IF k = p THEN "attachment" ELSE "audio"]
MCLangOf  == [k \in MCKinds |-> IF k \in {a1, a3, s1} THEN "en" ELSE NoLang]
MCSizeOf  == (v :> 20) @@ (w :> 1) @@ (a1 :> 6) @@ (a2 :> 10) @@ (a3 :> 6) @@ (s1 :> 2)
               @@ (d :> 0) @@ (p :> 0)
MCBitRate == (v :> 20) @@ (w :> 1) @@ (a1 :> 6) @@ (a2 :> 0) @@ (a3 :> 2) @@ (s1 :> 12)
               @@ (d :> 0) @@ (p :> 0)
MCLangs   == {"en", "und"}
MCFiles   == {f \in [1..3 -> {v, a1, a2, s1, d, p}] :
                Cardinality({i \in 1..3 : f[i] = v}) = 1
                  /\ Cardinality({i \in 1..3 : f[i] \in {d, p}}) <= 1}
               \cup {<<a1, s1>>, <<v, a1, a2, s1>>, <<v, s1, a1, a1>>, <<p, v, a1, a2>>}
               \cup {<<v, s1, s1, d>>, <<w, a1>>, <<w, a3>>, <<w, a2, a2>>}
MCOneFile == {<<v, a1, a2, s1>>}
MCTools   == {{"mkvmerge", "ffmpeg", "mkvpropedit"}, {"ffmpeg"}}
=============================================================================
