-------------------------- MODULE MCRequestMessage --------------------------
(* Instance: three requests over two message ids (so an id is reused), one *)
(* reply value, and up to two waits or handlers per id.                    *)
EXTENDS RequestMessage, TLC

CONSTANTS d1, d2, d3, i1, i2, rsp
=============================================================================
