------------------------------ MODULE MCBuffer ------------------------------
(* Buffer for TLC: a small header space and a small extrabuf, two bytes.   *)
EXTENDS BufferText
=============================================================================
