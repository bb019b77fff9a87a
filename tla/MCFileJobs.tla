----------------------------- MODULE MCFileJobs -----------------------------
(* Two jobs on one file, one library scan at a time beside them.           *)
EXTENDS FileJobs

CONSTANTS j1, j2, scan

MCJobs   == {j1, j2}
MCPasses == {scan}
=============================================================================
