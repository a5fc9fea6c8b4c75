---------------------------- MODULE MCThreadPool ----------------------------
(* Two workers and two callers around a queue of one place, three tasks.   *)
EXTENDS ThreadPool

CONSTANTS w1, w2, c1, c2, t1, t2, t3
=============================================================================
