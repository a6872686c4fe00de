---------------------------- MODULE HttpContext -----------------------------
(***************************************************************************)
(* muduo::net::HttpContext and the callbacks of HttpServer that use it     *)
(* (http/HttpContext.cc, HttpServer::onMessage, HttpServer::onRequest):    *)
(* requests arrive in arbitrary pieces on one connection, are parsed       *)
(* incrementally and answered.                                             *)
(*                                                                         *)
(* Requests for static files only: those for cgi-bin are answered by the   *)
(* CGI connection (HttpServer.tla).  The stream is a sequence of tokens: a *)
(* line as the tuple of its words, CRLF, or one byte of a body.  A piece   *)
(* of the stream is any number of tokens; a line cut before its CRLF is    *)
(* one findCRLF does not find.                                             *)
(*                                                                         *)
(* Each turn of parseRequest's loop is a step.  Nothing arrives between    *)
(* them: what does is not seen before the next read.                       *)
(***************************************************************************)
EXTENDS Integers, Sequences

CONSTANTS MaxSent,      \* requests a client sends (bound)
          BodyLen,      \* bytes of a body, the value of Content-Length
          Garbage       \* values an uninitialised body_lenth may have

ASSUME HttpContextAssumption ==
  /\ MaxSent \in Nat /\ BodyLen \in Nat \ {0}
  /\ Garbage \subseteq Nat

CRLF == <<"CRLF">>
Byte == <<"byte">>

(* The files under WEB_PATH: what stat and open say of each. *)
Files ==
  [page    |-> [stat |-> "readable", open |-> TRUE],
   folder  |-> [stat |-> "other",    open |-> TRUE],
   secret  |-> [stat |-> "other",    open |-> FALSE],
   missing |-> [stat |-> "fails",    open |-> FALSE]]

(* What clients send: the request line and the headers, and a body after   *)
(* Content-Length.  processRequestLine refuses the version of "bad".       *)
Kinds == {"plain", "close", "old", "kept", "body", "bad"}
           \cup (DOMAIN Files \ {"page"})

RequestLine(kind) ==
  CASE kind \in {"plain", "close"} -> <<"GET", "page", "HTTP/1.1">>
    [] kind \in {"old", "kept"}    -> <<"GET", "page", "HTTP/1.0">>
    [] kind = "body"               -> <<"POST", "page", "HTTP/1.1">>
    [] kind = "bad"                -> <<"GET", "page", "HTTP/2.0">>
    [] OTHER                       -> <<"GET", kind, "HTTP/1.1">>

Header ==
  [plain |-> <<"Host:", "name">>,
   close |-> <<"Connection:", "close">>,
   kept  |-> <<"Connection:", "Keep-Alive">>,
   body  |-> <<"Content-Length:", "BodyLen">>]

Text(kind) ==
  <<RequestLine(kind), CRLF>>
    \o (IF kind \in DOMAIN Header THEN <<Header[kind], CRLF, CRLF>> ELSE <<CRLF>>)
    \o [i \in 1 .. IF kind = "body" THEN BodyLen ELSE 0 |-> Byte]

VARIABLES
  (* the client and the network *)
  sent,                 \* the requests whose sending has begun, in order
  at,                   \* how much of the last one has arrived
  arrived,              \* what is not read from the socket yet
  pieces,               \* were all reads whole requests ("whole"), parts of
                        \* one request ("single"), or did one cross the end
                        \* of a request ("crossing")?
  (* the connection *)
  inputBuffer_,
  parseState_,          \* state_ of the context
  request_,
  replies,              \* what was sent back
  shutdown,             \* has shutdown been called?
  (* a call of onMessage *)
  pc,                   \* "idle", parseRequest's loop ("parse"), or behind it
                        \* with the value of ok: "parsed" or "failed"
  body_lenth

wireVars == <<sent, at, arrived, pieces>>
parserVars == <<wireVars, inputBuffer_, parseState_, request_, replies, shutdown,
                pc, body_lenth>>

NoRequest == [method |-> "kInvalid", path |-> "", version |-> "kUnknown",
              headers |-> <<>>, body |-> <<>>]

ParserInit ==
  /\ sent = <<>> /\ at = 0 /\ arrived = <<>> /\ pieces = "whole"
  /\ inputBuffer_ = <<>>
  /\ parseState_ = "kExpectRequestLine" /\ request_ = NoRequest
  /\ replies = <<>> /\ shutdown = FALSE
  /\ pc = "idle" /\ body_lenth = 0

-----------------------------------------------------------------------------
(* The client: one request behind the other.  A token carries, beside its  *)
(* word, the request it belongs to and its place there; the server looks   *)
(* only at the word.                                                       *)

Token(request, place) ==
  [of |-> request, at |-> place, word |-> Text(sent[request])[place]]

AllSent == at = IF sent = <<>> THEN 0 ELSE Len(Text(sent[Len(sent)]))

BeginRequest ==
  /\ AllSent /\ Len(sent) < MaxSent
  /\ \E kind \in Kinds : sent' = Append(sent, kind)
  /\ at' = 1

GoOn ==
  /\ ~AllSent
  /\ at' = at + 1
  /\ UNCHANGED sent

(* The next token reaches the connection's socket. *)
Arrive ==
  /\ pc = "idle"
  /\ BeginRequest \/ GoOn
  /\ arrived' = Append(arrived, Token(Len(sent), at)')
  /\ UNCHANGED <<pieces, inputBuffer_, parseState_, request_, replies, shutdown,
                 pc, body_lenth>>

(* What a piece of the stream is. *)
Piece(s) ==
  LET first == s[1]
      last == s[Len(s)]
  IN IF first.of # last.of THEN "crossing"
     ELSE IF first.at = 1 /\ last.at = Len(Text(sent[last.of])) THEN "whole"
     ELSE "single"

(* The connection reads what has arrived and calls onMessage; body_lenth   *)
(* has no initial value.                                                   *)
HandleRead ==
  /\ pc = "idle" /\ arrived # <<>>
  /\ inputBuffer_' = inputBuffer_ \o arrived
  /\ arrived' = <<>>
  /\ pieces' = IF "crossing" \in {pieces, Piece(arrived)} THEN "crossing"
               ELSE IF "single" \in {pieces, Piece(arrived)} THEN "single"
               ELSE "whole"
  /\ pc' = "parse" /\ body_lenth' \in Garbage
  /\ UNCHANGED <<sent, at, parseState_, request_, replies, shutdown>>

-----------------------------------------------------------------------------
(* HttpContext::parseRequest, turn by turn.                                *)

HasCRLF(text) == \E i \in DOMAIN text : text[i].word = CRLF

(* findCRLF's answer, the first CRLF. *)
FindCRLF(text, crlf) ==
  text[crlf].word = CRLF /\ \A i \in 1 .. crlf - 1 : text[i].word # CRLF

Words(text, n) == [i \in 1 .. n |-> text[i].word]

(* The text before the first CRLF, empty for an empty line. *)
FirstLine(text, crlf) == Words(text, crlf - 1)

(* Mutant of retrieveUntil(crlf + 2): the line goes, its CRLF stays. *)
RetrieveLineOnly(text, crlf) == SubSeq(text, crlf, Len(text))

RetrieveLine(text, crlf) == SubSeq(text, crlf + 1, Len(text))

(* A turn of the loop in the given state. *)
Turn(state) ==
  /\ pc = "parse" /\ parseState_ = state
  /\ UNCHANGED <<wireVars, replies, shutdown>>

(* hasMore = false, and everything else stays. *)
NeedMore ==
  /\ pc' = "parsed"
  /\ UNCHANGED <<inputBuffer_, parseState_, request_, body_lenth>>

Methods == {"GET", "POST", "HEAD", "PUT", "DELETE"}

(* processRequestLine: a method, a path and a version, and nothing else.   *)
ProcessRequestLine(line) ==
  /\ Len(line) = 1 /\ Len(line[1]) = 3
  /\ line[1][1] \in Methods
  /\ line[1][3] \in {"HTTP/1.0", "HTTP/1.1"}

(* What it sets, also of a line it refuses; setMethod asserts that no      *)
(* method is set yet.                                                      *)
SetRequestLine(request, line) ==
  IF Len(line) = 1 /\ Len(line[1]) = 3 /\ line[1][1] \in Methods
  THEN [request EXCEPT !.method = line[1][1], !.path = line[1][2],
                       !.version = CASE line[1][3] = "HTTP/1.0" -> "kHttp10"
                                     [] line[1][3] = "HTTP/1.1" -> "kHttp11"
                                     [] OTHER -> @]
  ELSE [request EXCEPT !.method = "kInvalid"]

TakeRequestLine(crlf) ==
  LET line == FirstLine(inputBuffer_, crlf) IN
  /\ request_' = SetRequestLine(request_, line)
  /\ IF ProcessRequestLine(line)
     THEN /\ inputBuffer_' = RetrieveLine(inputBuffer_, crlf)
          /\ parseState_' = "kExpectHeaders" /\ UNCHANGED pc
     ELSE pc' = "failed" /\ UNCHANGED <<inputBuffer_, parseState_>>
  /\ UNCHANGED body_lenth

ParseRequestLine ==
  /\ Turn("kExpectRequestLine")
  /\ \/ ~HasCRLF(inputBuffer_) /\ NeedMore
     \/ \E crlf \in DOMAIN inputBuffer_ :
          FindCRLF(inputBuffer_, crlf) /\ TakeRequestLine(crlf)

(* A line with a colon. *)
IsHeader(line) ==
  line # <<>> /\ line[1][1] \in {"Host:", "Connection:", "Content-Length:"}

AddHeader(request, line) ==
  [request EXCEPT !.headers =
     [field \in DOMAIN request.headers \cup {line[1][1]} |->
        IF field = line[1][1] THEN line[1][2] ELSE request.headers[field]]]

GetHeader(request, field) ==
  IF field \in DOMAIN request.headers THEN request.headers[field] ELSE ""

(* Mutant: the body is left to the next piece. *)
EndOfHeadersStopping ==
  /\ UNCHANGED request_
  /\ parseState_' = IF GetHeader(request_, "Content-Length:") = ""
                    THEN "kGotAll" ELSE "kExpectBody"
  /\ pc' = "parsed" /\ UNCHANGED body_lenth

(* A line without a colon ends the headers. *)
EndOfHeaders ==
  /\ UNCHANGED request_
  /\ IF GetHeader(request_, "Content-Length:") = ""
     THEN /\ parseState_' = "kGotAll" /\ pc' = "parsed"
          /\ UNCHANGED body_lenth
     ELSE /\ parseState_' = "kExpectBody" /\ body_lenth' = BodyLen
          /\ UNCHANGED pc

TakeHeader(crlf) ==
  LET line == FirstLine(inputBuffer_, crlf) IN
  /\ inputBuffer_' = RetrieveLine(inputBuffer_, crlf)
  /\ IF IsHeader(line)
     THEN /\ request_' = AddHeader(request_, line)
          /\ UNCHANGED <<parseState_, pc, body_lenth>>
     ELSE EndOfHeaders

ParseHeader ==
  /\ Turn("kExpectHeaders")
  /\ \/ ~HasCRLF(inputBuffer_) /\ NeedMore
     \/ \E crlf \in DOMAIN inputBuffer_ :
          FindCRLF(inputBuffer_, crlf) /\ TakeHeader(crlf)

(* The body is copied and stays in the buffer. *)
ParseBody ==
  /\ Turn("kExpectBody")
  /\ \/ Len(inputBuffer_) < body_lenth /\ NeedMore
     \/ /\ Len(inputBuffer_) >= body_lenth
        /\ request_' = [request_ EXCEPT !.body = Words(inputBuffer_, body_lenth)]
        /\ parseState_' = "kGotAll" /\ pc' = "parsed"
        /\ UNCHANGED <<inputBuffer_, body_lenth>>

-----------------------------------------------------------------------------
(* The callback of muduo_server.cc: onRequest and server_static.           *)

(* StaticFile: the constructor stats the file and reads sbuf_ even if stat *)
(* left it uninitialised (forbidden); openFile has the last word.          *)
FileStatus(file, forbidden) ==
  IF ~file.open THEN "ReadError"
  ELSE CASE file.stat = "fails"    -> IF forbidden THEN "Forbidden" ELSE "NotFound"
         [] file.stat = "other"    -> "Forbidden"
         [] file.stat = "readable" -> "OK"

(* The status code, and whether the response closes the connection: an     *)
(* error does whatever the request asked for.                              *)
ServerStatic(response, file, forbidden) ==
  LET status == FileStatus(file, forbidden) IN
  CASE status \in {"NotFound", "ReadError"} ->
         [status |-> 404, close |-> TRUE]
    [] status = "Forbidden" -> [status |-> 403, close |-> TRUE]
    [] status = "OK"        -> [response EXCEPT !.status = 200]

NewResponse(close) == [status |-> 0, close |-> close]

(* httpCallback_. *)
Callback(request, response, forbidden) ==
  ServerStatic(response, Files[request.path], forbidden)

-----------------------------------------------------------------------------
(* HttpServer.                                                             *)

(* TcpConnection::send does nothing once shutdown was called. *)
Send(reply) == replies' = IF shutdown THEN replies ELSE Append(replies, reply)

(* Mutant of reset: the headers of the request stay for the next one. *)
ResetStateOnly == parseState_' = "kExpectRequestLine" /\ UNCHANGED request_

Reset == parseState_' = "kExpectRequestLine" /\ request_' = NoRequest

(* close, as the request asks for it. *)
AsksToClose(request) ==
  LET connection == GetHeader(request, "Connection:") IN
  \/ connection = "close"
  \/ request.version = "kHttp10" /\ connection # "Keep-Alive"

(* appendToBuffer: either Connection: close, or a Content-Length that says *)
(* where the reply ends (framed).  got is the body the callback was given. *)
AppendToBuffer(response, request) ==
  [status |-> response.status, framed |-> ~response.close, got |-> request.body]

Response(request, forbidden) ==
  Callback(request, NewResponse(AsksToClose(request)), forbidden)

(* Mutant of onRequest: the connection is closed if the request asks to.   *)
OnRequestAsAsked(request) ==
  \E forbidden \in BOOLEAN :
    /\ Send(AppendToBuffer(Response(request, forbidden), request))
    /\ shutdown' = (shutdown \/ AsksToClose(request))

(* onRequest answers, and closes if the response says so. *)
OnRequest(request) ==
  \E forbidden \in BOOLEAN :
    /\ Send(AppendToBuffer(Response(request, forbidden), request))
    /\ shutdown' = (shutdown \/ Response(request, forbidden).close)

BadRequest == [status |-> 400, framed |-> FALSE, got |-> <<>>]

(* onMessage behind parseRequest: it handles one request at most; a 400    *)
(* leaves the parser as it is.                                             *)
OnMessage ==
  /\ \/ /\ pc = "failed"
        /\ Send(BadRequest)
        /\ shutdown' = TRUE /\ UNCHANGED <<parseState_, request_>>
     \/ /\ pc = "parsed" /\ parseState_ = "kGotAll"
        /\ OnRequest(request_) /\ Reset
     \/ /\ pc = "parsed" /\ parseState_ # "kGotAll"
        /\ UNCHANGED <<parseState_, request_, replies, shutdown>>
  /\ pc' = "idle" /\ body_lenth' = 0
  /\ UNCHANGED <<wireVars, inputBuffer_>>

ParserNext ==
  Arrive \/ HandleRead \/ ParseRequestLine \/ ParseHeader \/ ParseBody \/ OnMessage

ParserSpec == ParserInit /\ [][ParserNext]_parserVars

-----------------------------------------------------------------------------
(* Properties.                                                             *)

(* The replies of a server that reads requests one by one: one to each, up *)
(* to the first that closes the connection.                                *)
Status(kind) ==
  CASE kind = "bad" -> 400
    [] kind = "folder" -> 403
    [] kind \in {"missing", "secret"} -> 404
    [] OTHER -> 200

Closes(kind) == Status(kind) # 200 \/ kind \in {"close", "old"}

Reply(kind) ==
  [status |-> Status(kind), framed |-> ~Closes(kind),
   got |-> [i \in 1 .. IF kind = "body" THEN BodyLen ELSE 0 |-> Byte]]

(* Is the i-th request one of those it answers, with no body before it to  *)
(* misread?                                                                *)
Answerable(i) == \A j \in 1 .. i - 1 : ~Closes(sent[j]) /\ sent[j] # "body"

GotReply(i) == i \in DOMAIN replies /\ replies[i] = Reply(sent[i])

(* However requests without a body are cut or run together, the replies    *)
(* are those of reading them one by one, none changed, skipped or repeated *)
(* (parseRequest, onMessage, reset), nor do they depend on what the        *)
(* uninitialised sbuf_ of a missing file holds (StaticFile).               *)
CutsDoNotMatter ==
  \A i \in DOMAIN replies :
    \/ \E j \in DOMAIN sent : j <= i /\ sent[j] = "body"
    \/ i \in DOMAIN sent /\ Answerable(i) /\ GotReply(i)

(* A client can tell where every reply ends: one without a Content-Length  *)
(* is the last, and the connection is shut down behind it, whoever decided *)
(* to close it: the client, the file's status or a bad request             *)
(* (server_static, appendToBuffer, onRequest, onMessage, shutdown).        *)
RepliesFramed ==
  \A i \in DOMAIN replies :
    ~replies[i].framed <=> (i = Len(replies) /\ shutdown)

(* The requests read to their end. *)
Read == IF arrived # <<>> THEN arrived[1].of - 1
        ELSE IF AllSent THEN Len(sent) ELSE Len(sent) - 1

(* Without pipelining nothing is left waiting: every request read has its  *)
(* reply (onMessage answers one request per read).                         *)
AllAnswered ==
  pieces # "crossing" =>
    \A i \in 1 .. Read : Answerable(i) /\ sent[i] # "body" => GotReply(i)

(* A body read in one piece with its request is given to the callback      *)
(* whole, in the first request that has one: it is not taken off the       *)
(* buffer, and what comes after it is misread.                             *)
BodyInOnePiece ==
  pieces = "whole" => \A i \in 1 .. Read : Answerable(i) => GotReply(i)

(* No request is left without its reply, with a body or without. *)
RequestsAnswered == pc = "idle" => AllAnswered /\ BodyInOnePiece
=============================================================================
