----------------------------- MODULE MCJobQueue -----------------------------
(* Two processes share the database, a server that is sent the cancel      *)
(* requests and a second process (mcp), with one worker each.              *)
EXTENDS JobQueue, TLC

CONSTANTS server, mcp, s1, m1

MCProcs   == {server, mcp}
MCWorkers == {s1, m1}
MCHome    == (s1 :> server) @@ (m1 :> mcp)
=============================================================================
