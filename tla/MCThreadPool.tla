---------------------------- MODULE MCThreadPool ----------------------------
(* ThreadPool for TLC: two workers, and three producers for a queue of two, *)
(* so that several producers wait for room at once.                         *)
EXTENDS ThreadPool

CONSTANTS w1, w2, p1, p2, p3
=============================================================================
