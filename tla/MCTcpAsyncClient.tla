-------------------------- MODULE MCTcpAsyncClient --------------------------
(* Two messages in halves, so that a read may bring a message and a half;  *)
(* a second Connect after one that failed; a second Start.                *)
EXTENDS TcpAsyncClient
=============================================================================
