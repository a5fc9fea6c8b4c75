------------------------------ MODULE MCClient ------------------------------
(* One client for every MCClient*.cfg: the constants make it a MsgClient    *)
(* (it posts requests), a BusStub (it publishes and answers delivered      *)
(* requests), with or without reconnecting, heartbeats and wrapping ids.   *)
EXTENDS AsioClient
=============================================================================
