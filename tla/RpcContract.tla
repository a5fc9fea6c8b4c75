---------------------------- MODULE RpcContract ----------------------------
(***************************************************************************)
(* What the client library promises a caller of postMessage: the Response  *)
(* callback of a request runs at most once, only after the request was     *)
(* registered, and the outcome it reported never changes afterwards.       *)
(*                                                                         *)
(* RequestMessage (one table of requests) and AsioClient (the whole        *)
(* client) are both shown to implement this specification.                 *)
(***************************************************************************)
CONSTANTS Reqs,      \* the requests a caller may make
          Results    \* what a callback can report (a reply, or a timeout)

VARIABLES registered,  \* the requests postMessage has put into the table
          reported     \* per request, the results its callback has reported

Init ==
    /\ registered = {}
    /\ reported = [q \in Reqs |-> <<>>]

(* postMessage puts the request into the table. *)
Register(q) ==
    /\ q \notin registered
    /\ registered' = registered \cup {q}
    /\ UNCHANGED reported

(* The Response callback runs with result r. *)
Complete(q, r) ==
    /\ q \in registered
    /\ reported[q] = <<>>
    /\ reported' = [reported EXCEPT ![q] = <<r>>]
    /\ UNCHANGED registered

Next == \E q \in Reqs : Register(q) \/ \E r \in Results : Complete(q, r)

Spec == Init /\ [][Next]_<<registered, reported>>
=============================================================================
