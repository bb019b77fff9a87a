------------------------ MODULE MCLibraryScanCollide ------------------------
(* Two workers on a library with two files: the scan that started first    *)
(* finds a file the second one walked past before it came.                 *)
EXTENDS LibraryScan, TLC

CONSTANTS p1, p2, r1, s1, s2

MCPaths == {p1, p2}
MCRoots == {r1}
MCRoot  == [p \in MCPaths |-> r1]
MCScans == {s1, s2}
=============================================================================
