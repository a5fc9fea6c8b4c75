------------------------------ MODULE MCServer ------------------------------
(* The server with two sessions; topics are pairs of type and name.        *)
EXTENDS Server

CONSTANTS pubsub, deliver
=============================================================================
