----------------------------- MODULE OutStream ------------------------------
(***************************************************************************)
(* What a TcpConnection promises about the bytes it is given: they go out  *)
(* in order, none before its turn and none twice, and the stream is        *)
(* finished (FIN) only when all of them are out, unless it broke.          *)
(***************************************************************************)
EXTENDS SequencesExt

VARIABLES
  sent,                 \* bytes given to the connection
  wire,                 \* bytes given to the peer
  fin,                  \* is the stream finished?
  down                  \* has it broken?

vars == <<sent, wire, fin, down>>

Init == sent = <<>> /\ wire = <<>> /\ fin = FALSE /\ down = FALSE

(* Bytes are given, and some of those waiting go out. *)
Flow ==
  /\ IsPrefix(sent, sent')
  /\ IsPrefix(wire, wire') /\ IsPrefix(wire', sent')
  /\ fin => wire' = wire

(* The last bytes may go out with the FIN. *)
Finish == ~fin /\ fin' /\ (down' \/ wire' = sent')

Break == down => down'

Next == Flow /\ Break /\ (fin' = fin \/ Finish)

Spec == Init /\ [][Next]_vars
=============================================================================
