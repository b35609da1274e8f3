---------------------------- MODULE MCTcpClient -----------------------------
(* Two connections, the lost one and its replacement; two calls of Connect.  *)
EXTENDS TcpClient
=============================================================================
