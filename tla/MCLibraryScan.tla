--------------------------- MODULE MCLibraryScan ---------------------------
(* Two workers on a library that may have the root with two files or one   *)
(* without any.                                                            *)
EXTENDS LibraryScan, TLC

CONSTANTS p1, p2, r1, r2, s1, s2

MCPaths == {p1, p2}
MCRoots == {r1, r2}
MCRoot  == [p \in MCPaths |-> r1]
MCScans == {s1, s2}
MCSymmetry == Permutations(MCScans) \cup Permutations(MCPaths)
=============================================================================
