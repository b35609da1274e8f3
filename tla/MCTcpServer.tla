---------------------------- MODULE MCTcpServer -----------------------------
(* Two connections on a server with no or one I/O loop; one connection on a  *)
(* server with up to two, where the wrong loop may be chosen.                *)
EXTENDS TcpServer
=============================================================================
