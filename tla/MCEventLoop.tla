---------------------------- MODULE MCEventLoop -----------------------------
(* EventLoop in its EventLoopThread for TLC: the owner, two other     *)
(* threads and three functors.                                             *)
EXTENDS EventLoopThread

CONSTANTS t1, t2, t3, f1, f2, f3
=============================================================================
