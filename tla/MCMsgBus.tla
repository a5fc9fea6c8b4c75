------------------------------ MODULE MCMsgBus ------------------------------
(***************************************************************************)
(* Callers whose first requests have the same id, and stubs that both      *)
(* answer every request.                                                   *)
(***************************************************************************)
EXTENDS MsgBus, TLC

CONSTANTS c1, c2, s1, s2

\* The two callers are alike, and so are the two stubs, where nobody publishes.
Alike == Permutations({c1, c2}) \cup Permutations({s1, s2})
=============================================================================
