----------------------------- MODULE MCTcpServer -----------------------------
(* Instances of TcpServer for TLC.  The bounds are the constants themselves. *)
EXTENDS TcpServer
==============================================================================
