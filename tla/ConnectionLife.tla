--------------------------- MODULE ConnectionLife ---------------------------
(***************************************************************************)
(* What a TcpServer promises the users of its connections, with loops,     *)
(* queues, timers and references left out: each connection is entered in   *)
(* the server's map, taken up once, closed once and destroyed once, in     *)
(* this order and in none other, and it is destroyed "when TcpServer has   *)
(* removed me from its map" (net/TcpConnection.h).                         *)
(***************************************************************************)
CONSTANT Conns

VARIABLES stage,        \* how far each connection has got
          known         \* those in the server's map

lifeVars == <<stage, known>>

Init ==
  /\ stage = [c \in Conns |-> "none"]
  /\ known = {}

Goes(c, from, to) ==
  /\ stage[c] = from
  /\ stage' = [stage EXCEPT ![c] = to]

(* A connection comes, and may be taken up by the thread that accepts it. *)
Accept(c) ==
  /\ Goes(c, "none", "accepted") \/ Goes(c, "none", "up")
  /\ known' = known \cup {c}

(* The connection callback says that the connection is up. *)
Establish(c) == Goes(c, "accepted", "up") /\ UNCHANGED known

(* From here on nothing is read, and no events come. *)
Close(c) ==
  /\ Goes(c, "up", "closing")
  /\ known' \in {known, known \ {c}}

Erase(c) ==
  /\ stage[c] = "closing"
  /\ known' = known \ {c} /\ UNCHANGED stage

(* The connection callback says that the connection is down. *)
Destroy(c) ==
  /\ c \notin known
  /\ Goes(c, "closing", "gone") /\ UNCHANGED known

Next ==
  \E c \in Conns :
    Accept(c) \/ Establish(c) \/ Close(c) \/ Erase(c) \/ Destroy(c)

Spec == Init /\ [][Next]_lifeVars
=============================================================================
