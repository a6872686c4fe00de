--------------------------- MODULE TcpConnection ----------------------------
(***************************************************************************)
(* The output path of muduo::net::TcpConnection (net/TcpConnection.cc):    *)
(* send, shutdown, sendInLoop, shutdownInLoop, handleWrite, handleClose    *)
(* and connectDestroyed, called on the connection's own loop and from      *)
(* other threads, over a socket whose buffer fills up and whose peer may   *)
(* close or reset it.                                                      *)
(*                                                                         *)
(* The loop runs one callback or functor at a time, functors in the order  *)
(* they were queued (theorem LoopIsFifo of EventLoopProofs).  send and     *)
(* shutdown from another thread are split where state_ is read, where it   *)
(* is written and where the functor is queued, since nothing guards it.    *)
(* Who keeps the object alive is the subject of module TcpServer.          *)
(***************************************************************************)
EXTENDS Integers, Sequences

CONSTANTS Threads,      \* threads that use the connection, besides its loop's
          Messages,     \* messages, each sent at most once (bound)
          MsgLen,       \* bytes in a message
          Room,         \* size of the socket's send buffer
          NULL          \* not a message

ASSUME TcpConnectionAssumption ==
  /\ MsgLen \in Nat \ {0}
  /\ Room \in Nat \ {0}
  /\ NULL \notin Messages

VARIABLES
  state_, outputBuffer_,
  writing,              \* channel_->isWriting()
  channel,              \* in the poller: "polled", "hidden" (negated), "removed"
  pending,              \* the loop's functors, in order
  call,                 \* the unfinished call of every other thread
  used,                 \* messages already sent
  closing,              \* is removeConnectionInLoop still to come?
  wire, drained,        \* bytes the socket took; how many left its buffer
  fin,                  \* shutdown(SHUT_WR) done
  peer,                 \* "open", "closed" or "reset"
  sent,                 \* bytes sendInLoop was given, in order
  lost,                 \* has a message been dropped on EPIPE or ECONNRESET?
  completed,            \* Len(wire) when writeCompleteCallback_ was last queued
  ub                    \* a removed channel was updated

vars == <<state_, outputBuffer_, writing, channel, pending, call, used,
          closing, wire, drained, fin, peer, sent, lost, completed, ub>>

netVars == <<drained, peer>>

Idle == [step |-> "idle", msg |-> NULL]

Functor(op, m) == [op |-> op, msg |-> m]

Message(m) == [i \in 1 .. MsgLen |-> <<m, i>>]

Init ==
  /\ state_ = "kConnected"
  /\ outputBuffer_ = <<>>
  /\ writing = FALSE
  /\ channel = "polled"
  /\ pending = <<>>
  /\ call = [t \in Threads |-> Idle]
  /\ used = {}
  /\ closing = FALSE
  /\ wire = <<>> /\ drained = 0
  /\ fin = FALSE
  /\ peer = "open"
  /\ sent = <<>>
  /\ lost = FALSE
  /\ completed = 0
  /\ ub = FALSE

-----------------------------------------------------------------------------
(* The socket, non-blocking, SIGPIPE ignored.                              *)

(* write(2) fails with EPIPE or ECONNRESET. *)
Broken == fin \/ peer = "reset"

Free == Room - (Len(wire) - drained)

(* How many of len bytes write(2) may take, if it takes any. *)
Taken(len) == IF Broken THEN {} ELSE {n \in 1 .. len : n <= Free}

(* EWOULDBLOCK. *)
Blocked == ~Broken /\ Free = 0

-----------------------------------------------------------------------------
(* What runs in the loop's thread.  queue is what is left of the functors  *)
(* while one of them runs.                                                 *)

(* data + nwrote, remaining *)
Rest(s, n) == SubSeq(s, n + 1, Len(s))

QueueWriteComplete(queue) ==
  /\ pending' = Append(queue, Functor("writeComplete", NULL))
  /\ completed' = Len(wire')

(* enableWriting: Poller::updateChannel of a removed channel has no slot to *)
(* change.  A call of another thread proves that the object is still there. *)
EnableWriting ==
  /\ writing' = TRUE
  /\ ub' = (ub \/ (channel = "removed" /\ \E t \in Threads : call[t] # Idle))

AppendOutput(s) ==
  /\ outputBuffer_' = outputBuffer_ \o s
  /\ IF writing THEN UNCHANGED <<writing, ub>> ELSE EnableWriting

(* sendInLoop's direct write: it fails for good, it would block, it takes  *)
(* part of the message, or all of it.                                      *)
DirectWrite(s, queue) ==
  \/ /\ Broken
     /\ lost' = TRUE
     /\ pending' = queue
     /\ UNCHANGED <<outputBuffer_, writing, wire, completed, ub>>
  \/ /\ Blocked
     /\ AppendOutput(s)
     /\ pending' = queue
     /\ UNCHANGED <<wire, lost, completed>>
  \/ \E n \in Taken(Len(s)) :
       /\ wire' = wire \o SubSeq(s, 1, n)
       /\ IF n = Len(s)
          THEN /\ QueueWriteComplete(queue)
               /\ UNCHANGED <<outputBuffer_, writing, ub>>
          ELSE /\ AppendOutput(Rest(s, n))
               /\ pending' = queue
               /\ UNCHANGED completed
       /\ UNCHANGED lost

(* "if no thing in output queue, try writing directly" *)
MayWrite == ~writing /\ outputBuffer_ = <<>>

SendInLoop(m, queue) ==
  \/ /\ state_ = "kDisconnected"
     /\ pending' = queue
     /\ UNCHANGED <<outputBuffer_, writing, wire, sent, lost, completed, ub>>
  \/ /\ state_ # "kDisconnected"
     /\ sent' = sent \o Message(m)
     /\ IF MayWrite
        THEN DirectWrite(Message(m), queue)
        ELSE /\ AppendOutput(Message(m))
             /\ pending' = queue
             /\ UNCHANGED <<wire, lost, completed>>

(* Mutant: FIN although output is waiting. *)
ShutdownAtOnce == fin' = TRUE

ShutdownInLoop == fin' = (fin \/ ~writing)

(* connectDestroyed: disableAll and removeChannel. *)
ConnectDestroyed ==
  /\ state_' = "kDisconnected"
  /\ writing' = FALSE
  /\ channel' = "removed"

RunFunctor ==
  /\ pending # <<>>
  /\ LET f == Head(pending)
         queue == Tail(pending)
     IN  \/ /\ f.op = "sendInLoop"
            /\ SendInLoop(f.msg, queue)
            /\ UNCHANGED <<state_, channel, fin>>
         \/ /\ f.op = "shutdownInLoop"
            /\ ShutdownInLoop
            /\ pending' = queue
            /\ UNCHANGED <<state_, outputBuffer_, writing, channel, wire, sent,
                           lost, completed, ub>>
         \/ /\ f.op = "connectDestroyed"
            /\ ConnectDestroyed
            /\ pending' = queue
            /\ UNCHANGED <<outputBuffer_, wire, fin, sent, lost, completed, ub>>
         \/ /\ f.op = "writeComplete"
            /\ pending' = queue
            /\ UNCHANGED <<state_, outputBuffer_, writing, channel, wire, fin,
                           sent, lost, completed, ub>>
  /\ UNCHANGED <<call, used, closing, netVars>>

(* send and shutdown called by a callback on the loop's own thread. *)
SendSelf(m) ==
  /\ state_ = "kConnected"
  /\ m \notin used
  /\ used' = used \cup {m}
  /\ SendInLoop(m, pending)
  /\ UNCHANGED <<state_, channel, call, closing, fin, netVars>>

ShutdownSelf ==
  /\ state_ = "kConnected"
  /\ state_' = "kDisconnecting"
  /\ ShutdownInLoop
  /\ UNCHANGED <<outputBuffer_, writing, channel, pending, call, used, closing,
                 wire, sent, lost, completed, ub, netVars>>

(* Mutants of what handleWrite does when the buffer is empty. *)
DrainedStillWriting ==
  /\ UNCHANGED writing
  /\ QueueWriteComplete(pending)
  /\ fin' = (fin \/ state_ = "kDisconnecting")

DrainedWithoutShutdown ==
  /\ writing' = FALSE
  /\ QueueWriteComplete(pending)
  /\ UNCHANGED fin

(* The output buffer is empty: disableWriting, the callback, and the       *)
(* shutdownInLoop put off while there was output.                          *)
Drained ==
  /\ writing' = FALSE
  /\ QueueWriteComplete(pending)
  /\ fin' = (fin \/ state_ = "kDisconnecting")

(* handleWrite; when write(2) fails it only logs. *)
HandleWrite ==
  /\ channel = "polled" /\ writing
  /\ \E n \in Taken(Len(outputBuffer_)) :
       /\ wire' = wire \o SubSeq(outputBuffer_, 1, n)
       /\ outputBuffer_' = Rest(outputBuffer_, n)
       /\ IF n = Len(outputBuffer_)
          THEN Drained
          ELSE UNCHANGED <<writing, pending, completed, fin>>
  /\ UNCHANGED <<state_, channel, call, used, closing, sent, lost, ub, netVars>>

(* handleClose, on POLLHUP or when handleRead reads zero bytes: disableAll *)
(* and the close callback, but state_ stays as it is.                      *)
HandleClose ==
  /\ channel = "polled" /\ peer # "open"
  /\ writing' = FALSE
  /\ channel' = "hidden"
  /\ closing' = TRUE
  /\ UNCHANGED <<state_, outputBuffer_, pending, call, used, wire, fin, sent,
                 lost, completed, ub, netVars>>

-----------------------------------------------------------------------------
(* Other threads.                                                          *)

(* TcpServer::removeConnectionInLoop, on the server's loop. *)
RemoveConnectionInLoop ==
  /\ closing
  /\ closing' = FALSE
  /\ pending' = Append(pending, Functor("connectDestroyed", NULL))
  /\ UNCHANGED <<state_, outputBuffer_, writing, channel, call, used, wire,
                 fin, sent, lost, completed, ub, netVars>>

Goto(t, step, m) == call' = [call EXCEPT ![t] = [step |-> step, msg |-> m]]

(* send: state_ is tested ... *)
SendTest(t, m) ==
  /\ call[t] = Idle
  /\ state_ = "kConnected"
  /\ m \notin used
  /\ used' = used \cup {m}
  /\ Goto(t, "sendQueue", m)
  /\ UNCHANGED <<state_, outputBuffer_, writing, channel, pending, closing,
                 wire, fin, sent, lost, completed, ub, netVars>>

(* ... and sendInLoop is queued with a copy of the data. *)
SendQueue(t) ==
  /\ call[t].step = "sendQueue"
  /\ pending' = Append(pending, Functor("sendInLoop", call[t].msg))
  /\ call' = [call EXCEPT ![t] = Idle]
  /\ UNCHANGED <<state_, outputBuffer_, writing, channel, used, closing, wire,
                 fin, sent, lost, completed, ub, netVars>>

(* shutdown: state_ is tested, set, and shutdownInLoop queued. *)
ShutdownTest(t) ==
  /\ call[t] = Idle
  /\ state_ = "kConnected"
  /\ Goto(t, "shutdownSet", NULL)
  /\ UNCHANGED <<state_, outputBuffer_, writing, channel, pending, used,
                 closing, wire, fin, sent, lost, completed, ub, netVars>>

ShutdownSet(t) ==
  /\ call[t].step = "shutdownSet"
  /\ state_' = "kDisconnecting"
  /\ Goto(t, "shutdownQueue", NULL)
  /\ UNCHANGED <<outputBuffer_, writing, channel, pending, used, closing, wire,
                 fin, sent, lost, completed, ub, netVars>>

ShutdownQueue(t) ==
  /\ call[t].step = "shutdownQueue"
  /\ pending' = Append(pending, Functor("shutdownInLoop", NULL))
  /\ call' = [call EXCEPT ![t] = Idle]
  /\ UNCHANGED <<state_, outputBuffer_, writing, channel, used, closing, wire,
                 fin, sent, lost, completed, ub, netVars>>

-----------------------------------------------------------------------------
(* The peer, and the network between.                                      *)

PeerRead ==
  /\ peer # "reset" /\ drained < Len(wire)
  /\ drained' = Len(wire)
  /\ UNCHANGED <<state_, outputBuffer_, writing, channel, pending, call, used,
                 closing, wire, fin, peer, sent, lost, completed, ub>>

PeerClose ==
  /\ \/ peer = "open" /\ peer' \in {"closed", "reset"}
     \/ peer = "closed" /\ peer' = "reset"
  /\ UNCHANGED <<state_, outputBuffer_, writing, channel, pending, call, used,
                 closing, wire, drained, fin, sent, lost, completed, ub>>

CallStep(t) == SendQueue(t) \/ ShutdownSet(t) \/ ShutdownQueue(t)

Next ==
  /\ ~ub
  /\ \/ RunFunctor \/ HandleWrite \/ HandleClose
     \/ ShutdownSelf \/ \E m \in Messages : SendSelf(m)
     \/ RemoveConnectionInLoop
     \/ \E t \in Threads :
          \/ CallStep(t) \/ ShutdownTest(t)
          \/ \E m \in Messages : SendTest(t, m)
     \/ PeerRead \/ PeerClose

Spec == Init /\ [][Next]_vars

(* The loop's thread and the others run, poll reports a writable socket    *)
(* again and again, and the peer goes on reading.                          *)
Fairness ==
  /\ WF_vars(~ub /\ RunFunctor)
  /\ WF_vars(~ub /\ HandleWrite)
  /\ WF_vars(~ub /\ HandleClose)
  /\ WF_vars(~ub /\ PeerRead)
  /\ \A t \in Threads : WF_vars(~ub /\ CallStep(t))

FairSpec == Spec /\ Fairness

-----------------------------------------------------------------------------
(* Properties.                                                             *)

Bytes == Messages \X (1 .. MsgLen)

FunctorType ==
  [op : {"sendInLoop"}, msg : Messages]
    \cup [op : {"shutdownInLoop", "connectDestroyed", "writeComplete"},
          msg : {NULL}]

CallType ==
  [step : {"sendQueue"}, msg : Messages]
    \cup [step : {"idle", "shutdownSet", "shutdownQueue"}, msg : {NULL}]

(* Every byte buffered or written is one of a message (data + nwrote and   *)
(* remaining in sendInLoop).                                               *)
TypeOK ==
  /\ state_ \in {"kConnected", "kDisconnecting", "kDisconnected"}
  /\ outputBuffer_ \in Seq(Bytes) /\ wire \in Seq(Bytes) /\ sent \in Seq(Bytes)
  /\ writing \in BOOLEAN
  /\ channel \in {"polled", "hidden", "removed"}
  /\ pending \in Seq(FunctorType)
  /\ call \in [Threads -> CallType]
  /\ used \in SUBSET Messages
  /\ closing \in BOOLEAN
  /\ drained \in Nat /\ drained <= Len(wire)
  /\ fin \in BOOLEAN
  /\ peer \in {"open", "closed", "reset"}
  /\ lost \in BOOLEAN
  /\ completed \in Nat
  /\ ub \in BOOLEAN

(* Whatever mixture of direct writes, partial writes and writes from       *)
(* handleWrite puts bytes on the wire, they are the bytes sent, in order,  *)
(* and what is not written is in outputBuffer_ (sendInLoop, handleWrite);  *)
(* once a message has been dropped, nothing follows it.                    *)
NothingLostOrReordered ==
  IF lost THEN Broken /\ ~writing /\ outputBuffer_ = <<>>
          ELSE sent = wire \o outputBuffer_

(* While the connection is up, POLLOUT is asked for exactly as long as     *)
(* there is output: no busy loop, no output that waits for ever            *)
(* (enableWriting in sendInLoop, disableWriting in handleWrite).           *)
WritingIffOutput ==
  /\ channel = "polled" => (writing <=> outputBuffer_ # <<>>)
  /\ writing => outputBuffer_ # <<>>

(* Whenever the output has drained, writeCompleteCallback_ has been queued *)
(* for the last byte of it (sendInLoop, handleWrite).                      *)
WriteCompleteQueued ==
  ~lost /\ outputBuffer_ = <<>> => completed = Len(wire)

(* POLLOUT, the output and its completion stay in step, through writes     *)
(* that are partial, refused or made while output waits (sendInLoop,       *)
(* handleWrite).                                                           *)
OutputInStep == WritingIffOutput /\ WriteCompleteQueued

(* The connection is the stream it promises to be: shutdown waits for the  *)
(* output (shutdownInLoop, handleWrite) unless the connection was closed   *)
(* or the peer reset it.                                                   *)
Stream == INSTANCE OutStream WITH down <- lost \/ channel # "polled"

StreamSpec == Stream!Spec

(* shutdown, from any thread, ends in a FIN or in the connection's close:  *)
(* it is not forgotten while output drains (handleWrite's last test).      *)
ShutdownCompletes ==
  state_ = "kDisconnecting" ~> fin \/ channel # "polled" \/ ub
=============================================================================
