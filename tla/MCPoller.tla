------------------------------ MODULE MCPoller ------------------------------
(* Poller for TLC: four channels, two of which take turns with one         *)
(* descriptor (fd 3, as Connector's and TcpConnection's do), fd 0 included *)
(* because its hidden form is -1.                                          *)
EXTENDS Poller, TLC

CONSTANTS wakeup, connector, conn, other

MCFdOf == wakeup :> 0 @@ connector :> 3 @@ conn :> 3 @@ other :> 4
=============================================================================
