---------------------- MODULE MCLibraryWatchOverflow ----------------------
(* One library, one watcher and an event queue with room for two events.   *)
EXTENDS LibraryWatch

CONSTANTS r1, w1

MCRoots == {r1}
MCWatchers == {w1}
=============================================================================
