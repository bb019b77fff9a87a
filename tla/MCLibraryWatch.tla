-------------------------- MODULE MCLibraryWatch --------------------------
(* One library that may stand at either of two roots, or at none, two      *)
(* watchers for it and no periodic scan that must come: only the watchers  *)
(* and what the monitor owes bring a change into the catalogue.            *)
EXTENDS LibraryWatch

CONSTANTS r1, r2, w1, w2

MCRoots == {r1, r2}
MCLocal == {r1}
MCWatchers == {w1, w2}
=============================================================================
