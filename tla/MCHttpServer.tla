---------------------------- MODULE MCHttpServer ----------------------------
(* HttpServer for TLC: two connections, ids of two bytes with two values    *)
(* each, and replies of an error and a page, of a page in two records, and  *)
(* of a page with a colon in its body.                                      *)
EXTENDS HttpServer

CONSTANTS c1, c2,
          MaxUnread     \* units php may be ahead of the reads (bound)

Out(text, padding) == [type |-> "FCGI_STDOUT", text |-> text, padding |-> padding]
Page == <<"text", "colon", "text", "crlf", "crlf", "text">>

Err == [type |-> "FCGI_STDERR", text |-> <<"text">>, padding |-> 0]

MCReplies ==
  {<<Out(Page, 0), Out(<<"text">>, 1)>>, <<Err, Out(Page \o <<"colon">>, 0)>>}

(* The two halves of the server share only the states of the connections.   *)
(* A behaviour lets the clock run with both connections and no requests to  *)
(* cgi-bin ("list"); or has requests while the clock stands still, where    *)
(* nothing else is heard and nothing is shut down ("cgi"; c1 comes up       *)
(* first, and it is c1 that may go); or has all of it with one connection   *)
(* and one request, so that the timer may kick who waits for an answer      *)
(* ("kick").  A cut record ends it.                                         *)
VARIABLE half

MCInit == Init /\ half \in {"list", "cgi", "kick"}

ListHalf == CGIConn_' = "null" /\ requests' = <<>>

CgiHalf ==
  /\ age' = age /\ Len(unread') <= MaxUnread
  /\ \A c \in Conns : state_'[c] # "kDisconnecting"
  /\ state_'[c2] = "new" \/ (state_'[c2] = "kConnected" /\ state_[c1] # "new")
  /\ Len(connectionList_') = Len(connectionList_) /\ requests' = requests
       => connectionList_' = connectionList_

KickHalf == state_'[c2] = "new" /\ jumped' = 0 /\ Len(requests') <= 1

MCNext ==
  /\ Next /\ ~cut /\ UNCHANGED half
  /\ \/ half = "list" /\ ListHalf
     \/ half = "cgi" /\ CgiHalf
     \/ half = "kick" /\ KickHalf

MCSpec ==
  /\ MCInit /\ [][MCNext]_<<vars, half>>
  /\ LoopFairness
  /\ WF_vars(half # "cgi" /\ alive /\ Tick) /\ WF_vars(half # "list" /\ alive /\ PhpReply)
=============================================================================
