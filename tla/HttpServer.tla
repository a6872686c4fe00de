----------------------------- MODULE HttpServer -----------------------------
(***************************************************************************)
(* muduo::net::HttpServer (http/HttpServer.cc) beside its parser           *)
(* (HttpContext): the list of connections its timer kicks when they are    *)
(* idle, and the requests to cgi-bin that the base loop passes to php over *)
(* one FastCGI connection (http/FastCgi.cc).                               *)
(*                                                                         *)
(* Changes of connectionList_ do not overlap here, as when all connections *)
(* are on the base loop: the list has no lock.  Answers from the I/O loop  *)
(* (static files, 400) leave no trace but the shutdown they may end in.    *)
(*                                                                         *)
(* The FastCGI connection carries units of half a header: a header is two  *)
(* units, a content any number.  The text php writes is a sequence of      *)
(* pieces, of which parseFromcgi tells colons and line ends from the rest. *)
(***************************************************************************)
EXTENDS Integers, Sequences, FiniteSets

CONSTANTS Conns,
          TimeOut,      \* time_out, in units of the clock
          Lag,          \* how long a loop may take from poll's return to onMessage
          AgeCap,       \* ages are counted up to here (bound)
          MaxJumps,     \* steps the clock goes back (bound)
          MaxRequests,  \* requests to cgi-bin (bound)
          ByteValues,   \* values of a byte: 256
          Replies       \* php's replies: the records before FCGI_END_REQUEST

Pieces == {"text", "colon", "crlf"}

ASSUME HttpServerAssumption ==
  /\ TimeOut \in Nat /\ Lag \in Nat /\ AgeCap \in Nat /\ MaxJumps \in Nat
  /\ MaxRequests \in Nat /\ ByteValues \in Nat \ {0}
  /\ Replies \subseteq Seq([type : {"FCGI_STDOUT", "FCGI_STDERR"},
                            text : Seq(Pieces), padding : Nat])

VARIABLES
  (* connections and the idle list *)
  state_,               \* per connection; "new" before and "freed" after its life
  connectionList_,
  age,                  \* per connection: now - lastReceiveTime_
  closing,              \* connections with a pending forceCloseWithDelay
  again,                \* connections that are to run connectDestroyed once more
  jumped,               \* how far the clock went back in all
  (* the CGI path *)
  requests,             \* the connection of each request to cgi-bin
  functors,             \* requests in server_cgi's calls queued to the base loop
  ReqCGIId_, ReqCGIConnMap_,
  CGIConn_,             \* "null", "kConnected", "kDisconnected"
  php,                  \* requests php works on, with the header's two id bytes
  unread,               \* units php sent and the connection has not read
  buf,                  \* the connection's inputBuffer_
  cut,                  \* did a read end within a record's content?
  answers,              \* per connection: the requests whose answers were sent
  alive                 \* FALSE when the process ended: by a null CGIConn_, by
                        \* parseFromcgi's exception, or by what has no meaning

listVars == <<connectionList_, age, closing, again, jumped>>
cgiVars == <<requests, functors, ReqCGIId_, ReqCGIConnMap_, CGIConn_, php,
             unread, buf, cut, answers, alive>>
vars == <<state_, listVars, cgiVars>>

Open == {"kConnected", "kDisconnecting"}

Init ==
  /\ state_ = [c \in Conns |-> "new"]
  /\ connectionList_ = <<>> /\ age = [c \in Conns |-> 0]
  /\ closing = {} /\ again = {} /\ jumped = 0
  /\ requests = <<>> /\ functors = <<>>
  /\ ReqCGIId_ = 0 /\ ReqCGIConnMap_ = <<>>
  /\ CGIConn_ = "null"
  /\ php = {} /\ unread = <<>> /\ buf = <<>> /\ cut = FALSE
  /\ answers = [c \in Conns |-> <<>>] /\ alive = TRUE

-----------------------------------------------------------------------------
(* The list.                                                               *)

Position(c) == CHOOSE i \in DOMAIN connectionList_ : connectionList_[i] = c

(* list::erase at the iterator the context keeps. *)
Erase(c) ==
  [i \in 1 .. Len(connectionList_) - 1 |->
     connectionList_[IF i < Position(c) THEN i ELSE i + 1]]

(* Mutant of splice: a connection heard from stays where it is. *)
StayInPlace(c) == connectionList_

(* splice to the end. *)
MoveToEnd(c) == Append(Erase(c), c)

Up(c) ==
  /\ state_[c] = "new"
  /\ state_' = [state_ EXCEPT ![c] = "kConnected"]
  /\ age' = [age EXCEPT ![c] = 0]
  /\ connectionList_' = Append(connectionList_, c)
  /\ UNCHANGED <<closing, again, jumped, cgiVars>>

(* connectDestroyed runs onConnection, which erases c from the list. *)
Down(c) ==
  /\ state_[c] \in Open
  /\ state_' = [state_ EXCEPT ![c] = "kDisconnected"]
  /\ connectionList_' = Erase(c)
  /\ closing' = closing \ {c}
  /\ UNCHANGED <<age, jumped, cgiVars>>

(* forceCloseWithDelay's end. *)
ForceClose(c) == c \in closing /\ Down(c) /\ UNCHANGED again

(* handleClose by the peer; with a forceCloseInLoop already queued there   *)
(* is a second handleClose, and a second connectDestroyed.                 *)
PeerClose(c) ==
  /\ Down(c)
  /\ UNCHANGED again \/ (c \in closing /\ again' = again \cup {c})

(* The second connectDestroyed: list::erase at an iterator that is erased  *)
(* already.  What comes of it is undefined, and not followed further.      *)
DownAgain(c) ==
  /\ c \in again
  /\ again' = again \ {c}
  /\ alive' = FALSE
  /\ UNCHANGED <<state_, connectionList_, age, closing, jumped, requests, functors,
                 ReqCGIId_, ReqCGIConnMap_, CGIConn_, php, unread, buf, cut, answers>>

(* The last reference goes; a queued call holds one. *)
Free(c) ==
  /\ state_[c] = "kDisconnected" /\ c \notin again
  /\ \A i \in DOMAIN functors : requests[functors[i]] # c
  /\ state_' = [state_ EXCEPT ![c] = "freed"]
  /\ UNCHANGED <<listVars, cgiVars>>

(* Mutant of the check's break: the walk ends at a connection closing. *)
StopsAtClosing(c) == age[c] >= 0 /\ (age[c] <= TimeOut \/ state_[c] # "kConnected")

(* The walk ends at the first connection that is neither idle nor ahead of *)
(* the clock.                                                              *)
StopsAt(c) == 0 <= age[c] /\ age[c] <= TimeOut

Walked ==
  {connectionList_[i] : i \in {i \in DOMAIN connectionList_ :
                                 \A j \in 1 .. i : ~StopsAt(connectionList_[j])}}

Idle(c) == c \in Walked /\ age[c] > TimeOut /\ state_[c] = "kConnected"

(* onCheckTimer.  An expired pointer is not in the list: a connection      *)
(* leaves it when it goes down, before its last reference goes.            *)
CheckTimer ==
  /\ state_' = [c \in Conns |-> IF Idle(c) THEN "kDisconnecting" ELSE state_[c]]
  /\ closing' = closing \cup {c \in Conns : Idle(c)}
  /\ age' = [c \in Conns |-> IF c \in Walked /\ age[c] < 0 THEN 0 ELSE age[c]]
  /\ UNCHANGED <<connectionList_, again, jumped, cgiVars>>

Listed == {connectionList_[i] : i \in DOMAIN connectionList_}

Tick ==
  /\ age' = [c \in Conns |-> IF c \in Listed /\ age[c] < AgeCap THEN age[c] + 1 ELSE age[c]]
  /\ UNCHANGED <<state_, connectionList_, closing, again, jumped, cgiVars>>

JumpBack ==
  /\ jumped < MaxJumps
  /\ jumped' = jumped + 1
  /\ age' = [c \in Conns |-> IF c \in Listed THEN age[c] - 1 ELSE age[c]]
  /\ UNCHANGED <<state_, connectionList_, closing, again, cgiVars>>

-----------------------------------------------------------------------------
(* FastCgi: records of php.                                                *)

(* Mutant of makeHeader: the bytes of the id swapped. *)
MakeHeaderSwapped(type, id, length, padding) ==
  [type |-> type, length |-> length, padding |-> padding,
   requestIdB1 |-> id % ByteValues,
   requestIdB0 |-> (id \div ByteValues) % ByteValues]

(* makeHeader: of a length in units, the id in two bytes. *)
MakeHeader(type, id, length, padding) ==
  [type |-> type, length |-> length, padding |-> padding,
   requestIdB1 |-> (id \div ByteValues) % ByteValues,
   requestIdB0 |-> id % ByteValues]

(* Mutant of getRequestId: the low byte only. *)
GetRequestIdLow(header) == header.requestIdB0

GetRequestId(header) == header.requestIdB1 * ByteValues + header.requestIdB0

(* A record of php as units: the halves of its header, then its content    *)
(* with the padding; k is the request it belongs to, text what the content *)
(* says.                                                                   *)
Units(header, text, k) ==
  <<[part |-> "first", header |-> header, text |-> text, k |-> k],
    [part |-> "second", header |-> header, text |-> text, k |-> k]>>
  \o [i \in 1 .. header.length + header.padding |->
        [part |-> "content", header |-> header, text |-> text, k |-> k]]

(* A record for a job: a content that is there is one unit long.           *)
Record(output, length, job) ==
  Units([MakeHeader(output.type, 0, length, output.padding)
           EXCEPT !.requestIdB1 = job.requestIdB1, !.requestIdB0 = job.requestIdB0],
        output.text, job.k)

Content(output, job) == Record(output, IF output.text = <<>> THEN 0 ELSE 1, job)

EndOfRequest == [type |-> "FCGI_END_REQUEST", text |-> <<>>, padding |-> 0]

(* What Replies hold, at most two records, and FCGI_END_REQUEST.           *)
ReplyUnits(outputs, job) ==
  LET at(i) == IF i <= Len(outputs) THEN Content(outputs[i], job) ELSE <<>>
  IN at(1) \o at(2) \o Record(EndOfRequest, 2, job)

(* Mutant of ParseFromPhp: the padding stays in the buffer. *)
SizeWithoutPadding(header) ==
  CASE header.type \in {"FCGI_STDOUT", "FCGI_STDERR"} -> 2 + header.length
    [] header.type = "FCGI_END_REQUEST" -> 4
    [] OTHER -> 2

(* What ParseFromPhp takes off the buffer, if it is there. *)
Size(header) ==
  CASE header.type \in {"FCGI_STDOUT", "FCGI_STDERR"} ->
         2 + header.length + header.padding
    [] header.type = "FCGI_END_REQUEST" -> 4
    [] OTHER -> 2

(* retrieve takes all that is there if it is asked for more. *)
Retrieve(units, n) == SubSeq(units, n + 1, Len(units))

-----------------------------------------------------------------------------
(* parseFromcgi, as built without assertions.                              *)

(* string::find from place l of m: the end when there is no such piece.    *)
Find(m, piece, l) ==
  CHOOSE i \in l .. Len(m) + 1 :
    /\ i \in DOMAIN m => m[i] = piece
    /\ \A j \in l .. i - 1 : m[j] # piece

LineStarts(m) == {1} \cup {i + 1 : i \in {i \in DOMAIN m : m[i] = "crlf"}}

(* A line the loop takes and goes on from.  It looks for the colon from    *)
(* the line's start to the end of m, and skips one character behind it.    *)
HeaderLine(m, l) ==
  Find(m, "crlf", l) <= Len(m) /\ Find(m, "colon", l) + 1 < Find(m, "crlf", l)

(* At the first other line, often the empty one before the body, a colon   *)
(* found further on, or right at the line's end, makes the value a range   *)
(* of negative length, and string's constructor throws: nothing catches.   *)
Throws(m) ==
  \E l \in LineStarts(m) :
    /\ \A h \in LineStarts(m) : h < l => HeaderLine(m, h)
    /\ ~HeaderLine(m, l)
    /\ Find(m, "crlf", l) <= Len(m) /\ Find(m, "colon", l) <= Len(m)

-----------------------------------------------------------------------------
(* Requests.                                                               *)

(* onMessage: connection c's context and place in the list. *)
Heard(c) ==
  /\ state_[c] \in Open
  /\ \E late \in 0 .. Lag : age' = [age EXCEPT ![c] = late]
  /\ connectionList_' = MoveToEnd(c)
  /\ UNCHANGED <<closing, again, jumped>>

(* shutdown, when the response closes the connection or the request is bad.*)
MayShutdown(c) ==
  \/ UNCHANGED state_
  \/ state_' = [state_ EXCEPT ![c] = "kDisconnecting"]

(* Part of a request, a bad one, or one for a static file. *)
Message(c) == Heard(c) /\ MayShutdown(c) /\ UNCHANGED cgiVars

(* onRequest for cgi-bin: the base loop is to run server_cgi; a request    *)
(* that closes is shut down at once.  On the base loop itself runInLoop    *)
(* makes the call, which is one of the orders.                             *)
CgiRequest(c) ==
  /\ Heard(c) /\ MayShutdown(c)
  /\ Len(requests) < MaxRequests
  /\ requests' = Append(requests, c)
  /\ functors' = Append(functors, Len(requests) + 1)
  /\ UNCHANGED <<ReqCGIId_, ReqCGIConnMap_, CGIConn_, php, unread, buf, cut,
                 answers, alive>>

(* A job of php: a request and the id it came with.                        *)
Job(id, k) ==
  LET header == MakeHeader("FCGI_BEGIN_REQUEST", id, 0, 0)
  IN [k |-> k, requestIdB1 |-> header.requestIdB1, requestIdB0 |-> header.requestIdB0]

(* Between two callbacks of the base loop. *)
BaseLoopFree == Len(buf) < 2 /\ alive

(* server_cgi: the context's id is always 0, so each request gets a new    *)
(* one.  Without a first FastCGI connection CGIConn_ is null.              *)
ServerCgi ==
  /\ BaseLoopFree /\ functors # <<>>
  /\ functors' = Tail(functors)
  /\ ReqCGIId_' = ReqCGIId_ + 1
  /\ ReqCGIConnMap_' =
       [i \in DOMAIN ReqCGIConnMap_ \cup {ReqCGIId_'} |->
          IF i = ReqCGIId_' THEN requests[Head(functors)] ELSE ReqCGIConnMap_[i]]
  /\ alive' = (CGIConn_ # "null")
  /\ php' = IF CGIConn_ = "kConnected"
            THEN php \cup {Job(ReqCGIId_', Head(functors))} ELSE php
  /\ UNCHANGED <<state_, listVars, requests, CGIConn_, unread, buf, cut, answers>>

(* onCGIConnection: the first request, with id 0 and no connection. *)
CgiUp ==
  /\ BaseLoopFree /\ CGIConn_ = "null"
  /\ CGIConn_' = "kConnected"
  /\ php' = php \cup {Job(0, 0)}
  /\ UNCHANGED <<state_, listVars, requests, functors, ReqCGIId_, ReqCGIConnMap_,
                 unread, buf, cut, answers, alive>>

(* client_ does not retry: a connection that went down stays down. *)
CgiDown ==
  /\ BaseLoopFree /\ CGIConn_ = "kConnected"
  /\ CGIConn_' = "kDisconnected"
  /\ php' = {} /\ unread' = <<>>
  /\ UNCHANGED <<state_, listVars, requests, functors, ReqCGIId_, ReqCGIConnMap_,
                 buf, cut, answers, alive>>

(* php answers its requests in any order. *)
PhpReply ==
  /\ CGIConn_ = "kConnected"
  /\ \E job \in php, outputs \in Replies :
       /\ php' = php \ {job}
       /\ unread' = unread \o ReplyUnits(outputs, job)
  /\ UNCHANGED <<state_, listVars, requests, functors, ReqCGIId_, ReqCGIConnMap_,
                 CGIConn_, buf, cut, answers, alive>>

(* A read of the FastCGI connection, of any length. *)
CgiRead ==
  /\ BaseLoopFree
  /\ \E n \in 1 .. Len(unread) :
       /\ buf' = buf \o SubSeq(unread, 1, n)
       /\ unread' = SubSeq(unread, n + 1, Len(unread))
  /\ UNCHANGED <<state_, listVars, requests, functors, ReqCGIId_, ReqCGIConnMap_,
                 CGIConn_, php, cut, answers, alive>>

(* One turn of onCGIMessage's loop: a record is taken whole or as far as   *)
(* it is there, its content is parsed and sent to the connection of its id *)
(* as a response of its own, and an id whose connection is gone is         *)
(* forgotten.  A record taken in part is filled up with what lies behind   *)
(* the buffer and leaves the stream out of step; what is read from it then *)
(* is not modelled.                                                        *)
OnCgiMessage ==
  /\ Len(buf) >= 2 /\ ~cut /\ alive
  /\ LET header == buf[1].header
         whole == Len(buf) >= Size(header)
         requestid == GetRequestId(header)
         hasText == header.type = "FCGI_STDOUT" /\ header.length > 0
         known == requestid # 0 /\ requestid \in DOMAIN ReqCGIConnMap_
         conn == ReqCGIConnMap_[requestid]
         parsed == hasText /\ known /\ state_[conn] # "freed"
     IN /\ buf' = Retrieve(buf, Size(header))
        /\ cut' = ~whole
        /\ alive' \in IF hasText /\ ~whole THEN BOOLEAN
                      ELSE {~(parsed /\ Throws(buf[1].text))}
        /\ answers' =
             [c \in Conns |->
                IF alive' /\ parsed /\ c = conn /\ state_[c] = "kConnected"
                THEN Append(answers[c], buf[1].k) ELSE answers[c]]
        /\ ReqCGIConnMap_' =
             IF hasText /\ known /\ state_[conn] = "freed"
             THEN [i \in DOMAIN ReqCGIConnMap_ \ {requestid} |-> ReqCGIConnMap_[i]]
             ELSE ReqCGIConnMap_
  /\ UNCHANGED <<state_, listVars, requests, functors, ReqCGIId_, CGIConn_, php,
                 unread>>

-----------------------------------------------------------------------------
ConnNext(c) ==
  \/ Up(c) \/ PeerClose(c) \/ ForceClose(c) \/ DownAgain(c) \/ Free(c)
  \/ Message(c) \/ CgiRequest(c)

Next ==
  /\ alive
  /\ \/ \E c \in Conns : ConnNext(c)
     \/ (BaseLoopFree /\ CheckTimer) \/ Tick \/ JumpBack
     \/ ServerCgi \/ CgiUp \/ CgiDown \/ PhpReply \/ CgiRead \/ OnCgiMessage

Spec == Init /\ [][Next]_vars

(* The loops run what is queued, due or readable, time passes, and php     *)
(* answers each request it has; clients and the FastCGI connection owe     *)
(* nothing.                                                                *)
LoopFairness ==
  /\ \A c \in Conns : WF_vars(alive /\ ForceClose(c))
  /\ WF_vars(alive /\ BaseLoopFree /\ CheckTimer)
  /\ WF_vars(ServerCgi) /\ WF_vars(CgiRead) /\ WF_vars(OnCgiMessage)

OtherFairness == WF_vars(alive /\ Tick) /\ WF_vars(alive /\ PhpReply)

FairSpec == Spec /\ LoopFairness /\ OtherFairness

-----------------------------------------------------------------------------
(* Properties.                                                             *)

(* Type correctness; the list holds the open connections once each. *)
TypeOK ==
  /\ state_ \in [Conns -> {"new", "kDisconnected", "freed"} \cup Open]
  /\ connectionList_ \in Seq(Conns)
  /\ Listed = {c \in Conns : state_[c] \in Open}
  /\ \A i, j \in DOMAIN connectionList_ : connectionList_[i] = connectionList_[j] => i = j
  /\ age \in [Conns -> Int] /\ closing \in SUBSET Listed
  /\ again \subseteq {c \in Conns : state_[c] = "kDisconnected"}
  /\ jumped \in 0 .. MaxJumps

(* The list is ordered by the last receive time, up to the time from poll  *)
(* to onMessage and what the clock went back: what onCheckTimer's break    *)
(* relies on (push_back, splice, the reset of times ahead of the clock).   *)
NearlySorted ==
  /\ \A c \in Listed : age[c] >= -jumped
  /\ \A i, j \in DOMAIN connectionList_ :
       i < j => age[connectionList_[j]] <= age[connectionList_[i]] + Lag + jumped

(* So one check kicks every connection idle for longer than time_out and   *)
(* that slack, wherever the walk breaks.                                   *)
KicksAll ==
  \A c \in Conns :
    state_[c] = "kConnected" /\ age[c] > TimeOut + Lag + jumped => Idle(c)

(* An idle connection is closed, unless it is heard from (onCheckTimer,    *)
(* forceCloseWithDelay).                                                   *)
IdleIsClosed ==
  \A c \in Conns :
    (state_[c] = "kConnected" /\ age[c] > TimeOut + Lag + jumped)
      ~> (state_[c] \notin Open \/ age[c] <= Lag \/ ~alive)

(* While the ids fit in two bytes, an answer of php goes to the connection *)
(* that made the request, whatever the order of the answers, the moment    *)
(* the connection goes and the way the stream is cut; and unless a read    *)
(* ended within a record, the buffer begins with a header each time round  *)
(* the loop, also when reads end within headers (server_cgi, makeHeader,   *)
(* getRequestId, ParseFromPhp, onCGIMessage).                              *)
AnswersRight ==
  /\ ReqCGIId_ < ByteValues * ByteValues =>
       \A c \in Conns : \A i \in DOMAIN answers[c] : requests[answers[c][i]] = c
  /\ (buf # <<>> /\ ~cut) => buf[1].part = "first"

(* A request that keeps its connection open is answered, unless the        *)
(* FastCGI connection is not there, a record is cut, the ids are used up,  *)
(* or the process ended, as a page with a colon in its body makes it       *)
(* (onRequest, server_cgi, onCGIMessage, parseFromcgi).                    *)
Answered(k) == \E i \in DOMAIN answers[requests[k]] : answers[requests[k]][i] = k

NotAnswerable(k) ==
  \/ state_[requests[k]] # "kConnected" \/ CGIConn_ # "kConnected" \/ cut
  \/ ReqCGIId_ >= ByteValues * ByteValues \/ ~alive

CgiAnswered ==
  \A k \in 1 .. MaxRequests :
    k \in DOMAIN requests ~> k \in DOMAIN requests /\ (Answered(k) \/ NotAnswerable(k))
=============================================================================
