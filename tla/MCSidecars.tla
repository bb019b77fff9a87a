----------------------------- MODULE MCSidecars -----------------------------
(* Sidecars x and y, whose names are the same when cut short.  The name of *)
(* video b goes on where that of a ends, so that y is b's while b is there *)
(* and otherwise a's; x is always a's.  Two requests, one library scan.    *)
EXTENDS Sidecars, TLC

CONSTANTS a, b, x, y, cut, j1, j2, s1

MCVideos == {a, b}
MCPaths  == {x, y}
MCOrder  == (x :> 1) @@ (y :> 2)
MCFits   == (x :> {a}) @@ (y :> {a, b})
MCLonger == (a :> {b}) @@ (b :> {})
MCLabel  == (x :> "en.srt") @@ (y :> "und.srt")
MCStem   == [p \in {x, y} |-> cut]
MCJobs   == {j1, j2}
MCScans  == {s1}
MCSymmetry == Permutations(MCJobs)
=============================================================================
