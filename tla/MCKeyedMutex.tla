---------------------------- MODULE MCKeyedMutex ----------------------------
(* Four goroutines, two paths, one refMutex for each key and a spare.      *)
EXTENDS KeyedMutex

CONSTANTS t1, t2, t3, t4, k1, k2, o1, o2, o3

MCThreads == {t1, t2, t3, t4}
MCKeys    == {k1, k2}
MCObjects == {o1, o2, o3}
=============================================================================
