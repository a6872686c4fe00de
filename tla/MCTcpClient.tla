---------------------------- MODULE MCTcpClient -----------------------------
(* TcpClient for TLC: its constants are numbers and Booleans. *)
EXTENDS TcpClient
=============================================================================
