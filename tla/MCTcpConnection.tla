-------------------------- MODULE MCTcpConnection ---------------------------
(* TcpConnection for TLC: the messages are interchangeable. *)
EXTENDS TcpConnection, TLC

CONSTANTS m1, m2, m3, t1

Symmetry == Permutations(Messages)
=============================================================================
