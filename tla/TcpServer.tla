------------------------------ MODULE TcpServer ------------------------------
(***************************************************************************)
(* The life of the connections of a muduo::net::TcpServer                  *)
(* (net/TcpServer.cc, net/TcpConnection.cc, net/EventLoopThreadPool.cc),   *)
(* from accept on the base loop, through the I/O loop that serves them, to *)
(* their destruction, under the calls http/HttpServer.cc makes on them:    *)
(* shutdown after a response, the idle kick of onCheckTimer, and CGI       *)
(* replies sent from the base loop.                                        *)
(*                                                                         *)
(* A loop is the FIFO executor of module EventLoop (theorem LoopIsFifo):   *)
(* poll, timer callbacks, channel callbacks, one batch of functors.  One   *)
(* action is one callback, except that calls the base loop makes on a      *)
(* connection of another loop are split where state_ is tested and where   *)
(* it is set, because nothing guards it.                                   *)
(***************************************************************************)
EXTENDS Integers, Sequences, FiniteSets

CONSTANTS Conns,        \* connections ever accepted (bound)
          Idlers,       \* those that may be found idle and kicked (bound)
          CgiUsers,     \* those that may ask for a CGI page (bound)
          NumThreads,   \* setThreadNum
          NULL          \* not a connection

ASSUME TcpServerAssumption ==
  /\ NumThreads \in Nat
  /\ Idlers \subseteq Conns /\ CgiUsers \subseteq Conns
  /\ NULL \notin Conns

(* TcpServer::loop_, and the loops of the pool. *)
Base == 0
Loops == 0 .. NumThreads

VARIABLES
  listenning_,          \* Acceptor::listenning_
  connections_,         \* TcpServer::connections_
  next_,                \* EventLoopThreadPool::next_
  loop_,                \* TcpConnection::loop_
  state_,               \* TcpConnection::state_, "none" before construction
  channel,              \* its channel: "new", "reading", "disabled", "removed"
  phase,                \* per loop: "poll", "timers", "dispatch", "functors"
  active,               \* per loop: connections still to be dispatched
  pending,              \* per loop: pendingFunctors_
  functors,             \* per loop: the batch being run, what is left of it
  held,                 \* per loop: connections that the run part of the batch keeps alive
  timer,                \* force-close timer of a connection
  call,                 \* the base thread's unfinished call on a connection
  data, closed,         \* connections with unread bytes; whose peer has closed
  cgi,                  \* connections with a CGI reply outstanding
  ub                    \* has the program left defined behaviour, and how

vars == <<listenning_, connections_, next_, loop_, state_, channel, phase, active, pending,
          functors, held, timer, call, data, closed, cgi, ub>>

serverVars == <<listenning_, connections_, next_, loop_>>
netVars == <<data, closed>>

(* Functors bound to a shared_ptr keep their connection alive;             *)
(* shutdownInLoop and sendInLoop are bound to a raw this, addTimerInLoop   *)
(* holds a WeakCallback.  (Mutant: connectDestroyed bound to this.)        *)
SharedNotDestroy == {"connectEstablished", "removeConnectionInLoop",
                     "forceCloseInLoop", "server_cgi"}
Shared == {"connectEstablished", "removeConnectionInLoop", "connectDestroyed",
           "forceCloseInLoop", "server_cgi"}
Raw == {"shutdownInLoop", "sendInLoop"}
Ops == Shared \cup Raw \cup {"addTimerInLoop"}

NoCall == [step |-> "none", conn |-> NULL]

Functor(op, c) == [op |-> op, conn |-> c]

(* What a loop has still to run, in order. *)
Todo(l) == functors[l] \o pending[l]

Queued(op, c) ==
  \E l \in Loops : \E i \in DOMAIN Todo(l) : Todo(l)[i] = Functor(op, c)

(* Does some shared_ptr keep the connection alive? *)
Alive(c) ==
  \/ c \in connections_
  \/ \E op \in Shared : Queued(op, c)
  \/ \E l \in Loops : c \in held[l]
  \/ call.conn = c

Up(c) == state_[c] \in {"kConnected", "kDisconnecting"}

Init ==
  /\ listenning_ = FALSE
  /\ connections_ = {}
  /\ next_ = 0
  /\ loop_ = [c \in Conns |-> Base]
  /\ state_ = [c \in Conns |-> "none"]
  /\ channel = [c \in Conns |-> "new"]
  /\ phase = [l \in Loops |-> "poll"]
  /\ active = [l \in Loops |-> {}]
  /\ pending = [l \in Loops |-> <<>>]
  /\ functors = [l \in Loops |-> <<>>]
  /\ held = [l \in Loops |-> {}]
  /\ timer = [c \in Conns |-> "none"]
  /\ call = NoCall
  /\ data = {} /\ closed = {}
  /\ cgi = {}
  /\ ub = "none"

-----------------------------------------------------------------------------
(* Effects.                                                                *)

QueueInLoop(l, op, c) ==
  pending' = [pending EXCEPT ![l] = Append(@, Functor(op, c))]

SetState(c, s) == state_' = [state_ EXCEPT ![c] = s]

(* TcpConnection::connectEstablished. *)
ConnectEstablished(c) ==
  /\ SetState(c, "kConnected")
  /\ channel' = [channel EXCEPT ![c] = "reading"]
  /\ UNCHANGED <<connections_, pending, timer, cgi, ub>>

(* Mutant of removeConnectionInLoop: a closed connection is only erased.   *)
EraseOnly(c) ==
  /\ connections_' = connections_ \ {c}
  /\ UNCHANGED pending

(* Mutant of removeConnectionInLoop: the map is searched for another name. *)
DestroyOnly(c) ==
  /\ UNCHANGED connections_
  /\ QueueInLoop(loop_[c], "connectDestroyed", c)

(* TcpServer::removeConnectionInLoop: erase, and hand connectDestroyed to  *)
(* the connection's loop, whether or not the map had the connection.       *)
RemoveConnectionInLoop(c) ==
  /\ connections_' = connections_ \ {c}
  /\ QueueInLoop(loop_[c], "connectDestroyed", c)

(* TcpConnection::handleClose: disable the channel, leave state_ alone,    *)
(* and removeConnection, which runs at once on the base loop.              *)
HandleClose(c) ==
  /\ channel' = [channel EXCEPT ![c] = "disabled"]
  /\ IF loop_[c] = Base
     THEN RemoveConnectionInLoop(c)
     ELSE /\ QueueInLoop(Base, "removeConnectionInLoop", c)
          /\ UNCHANGED connections_
  /\ UNCHANGED <<state_, timer, cgi, ub>>

(* Mutant of forceCloseInLoop: only a connection nobody has shut down. *)
ForceCloseConnected(c) ==
  \/ state_[c] = "kConnected" /\ HandleClose(c)
  \/ /\ state_[c] # "kConnected"
     /\ UNCHANGED <<connections_, pending, state_, channel, timer, cgi, ub>>

(* TcpConnection::forceCloseInLoop; disableAll on a channel that the       *)
(* poller has dropped writes to another channel's slot.                    *)
ForceCloseInLoop(c) ==
  \/ /\ Up(c) /\ channel[c] # "removed"
     /\ HandleClose(c)
  \/ /\ Up(c) /\ channel[c] = "removed"
     /\ ub' = "removedChannel"
     /\ UNCHANGED <<connections_, pending, state_, channel, timer, cgi>>
  \/ /\ ~Up(c)
     /\ UNCHANGED <<connections_, pending, state_, channel, timer, cgi, ub>>

(* TcpConnection::connectDestroyed. *)
ConnectDestroyed(c) ==
  /\ SetState(c, "kDisconnected")
  /\ channel' = [channel EXCEPT ![c] = "removed"]
  /\ ub' = IF channel[c] = "removed" THEN "removedChannel" ELSE ub
  /\ UNCHANGED <<connections_, pending, timer, cgi>>

(* TimerQueue::addTimerInLoop for the WeakCallback of forceClose. *)
AddTimerInLoop(c) ==
  /\ timer' = [timer EXCEPT ![c] = "armed"]
  /\ UNCHANGED <<connections_, pending, state_, channel, cgi, ub>>

(* HttpServer::server_cgi: the request goes out, the reply comes later. *)
ServerCgi(c) ==
  /\ cgi' = cgi \cup {c}
  /\ UNCHANGED <<connections_, pending, state_, channel, timer, ub>>

(* shutdownInLoop and sendInLoop touch nothing modelled here, but they     *)
(* dereference this.                                                       *)
RunRaw(c) ==
  /\ ub' = IF Alive(c) THEN ub ELSE "useAfterFree"
  /\ UNCHANGED <<connections_, pending, state_, channel, timer, cgi>>

-----------------------------------------------------------------------------
(* A loop's thread.  The base thread is busy while a call is unfinished.   *)

Free(l) == l = Base => call = NoCall

Ready(l) == {c \in data \cup closed : loop_[c] = l /\ channel[c] = "reading"}

Expired(l) == {c \in Conns : loop_[c] = l /\ timer[c] = "expired"}

(* The poller is level triggered and reports every ready connection; the   *)
(* timerfd, registered first, is dispatched before them.  On the base loop *)
(* the acceptor, the idle timer and the CGI connection may be ready too.   *)
Poll(l) ==
  /\ phase[l] = "poll"
  /\ \/ Ready(l) # {} \/ Expired(l) # {} \/ pending[l] # <<>>
     \/ l = Base
  /\ active' = [active EXCEPT ![l] = Ready(l)]
  /\ phase' = [phase EXCEPT ![l] = IF Expired(l) # {} \/ l = Base
                                   THEN "timers" ELSE "dispatch"]
  /\ UNCHANGED <<serverVars, state_, channel, pending, functors, held, timer,
                 call, netVars, cgi, ub>>

(* The force-close timer: WeakCallback, then TcpConnection::forceClose. *)
TimerFire(l, c) ==
  /\ phase[l] = "timers" /\ Free(l)
  /\ c \in Expired(l)
  /\ timer' = [timer EXCEPT ![c] = "none"]
  /\ IF Alive(c) /\ Up(c)
     THEN /\ SetState(c, "kDisconnecting")
          /\ QueueInLoop(l, "forceCloseInLoop", c)
     ELSE UNCHANGED <<state_, pending>>
  /\ UNCHANGED <<serverVars, channel, phase, active, functors, held, call,
                 netVars, cgi, ub>>

TimersDone(l) ==
  /\ phase[l] = "timers" /\ Free(l)
  /\ Expired(l) = {}
  /\ phase' = [phase EXCEPT ![l] = "dispatch"]
  /\ UNCHANGED <<serverVars, state_, channel, active, pending, functors, held,
                 timer, call, netVars, cgi, ub>>

(* TcpConnection::handleRead with n > 0: the message callback may shut     *)
(* down, and may pass a CGI request to the base loop (bound: one at a time *)
(* for a connection).                                                      *)
HandleRead(l, c) ==
  /\ phase[l] = "dispatch" /\ Free(l)
  /\ c \in active[l] /\ c \in data
  /\ active' = [active EXCEPT ![l] = @ \ {c}]
  /\ data' = data \ {c}
  /\ \/ UNCHANGED state_
     \/ state_[c] = "kConnected" /\ SetState(c, "kDisconnecting")
  /\ \/ UNCHANGED <<pending, cgi>>
     \/ /\ c \in CgiUsers /\ c \notin cgi /\ ~Queued("server_cgi", c)
        /\ IF l = Base THEN cgi' = cgi \cup {c} /\ UNCHANGED pending
                       ELSE QueueInLoop(Base, "server_cgi", c) /\ UNCHANGED cgi
  /\ UNCHANGED <<serverVars, channel, phase, functors, held, timer, call,
                 closed, ub>>

(* handleRead with n = 0, or POLLHUP: handleClose. *)
HandleReadZero(l, c) ==
  /\ phase[l] = "dispatch" /\ Free(l)
  /\ c \in active[l] /\ c \notin data
  /\ active' = [active EXCEPT ![l] = @ \ {c}]
  /\ HandleClose(c)
  /\ UNCHANGED <<listenning_, next_, loop_, phase, functors, held, call, netVars>>

(* EventLoop::doPendingFunctors swaps the vector. *)
SwapPending(l) ==
  /\ phase[l] = "dispatch" /\ Free(l)
  /\ active[l] = {}
  /\ phase' = [phase EXCEPT ![l] = "functors"]
  /\ functors' = [functors EXCEPT ![l] = pending[l]]
  /\ pending' = [pending EXCEPT ![l] = <<>>]
  /\ UNCHANGED <<serverVars, state_, channel, active, held, timer, call,
                 netVars, cgi, ub>>

RunFunctor(l) ==
  LET f == Head(functors[l])
      c == f.conn
  IN
  /\ phase[l] = "functors"
  /\ functors[l] # <<>>
  /\ functors' = [functors EXCEPT ![l] = Tail(@)]
  /\ held' = [held EXCEPT ![l] = IF f.op \in Shared THEN @ \cup {c} ELSE @]
  /\ \/ f.op = "connectEstablished" /\ ConnectEstablished(c)
     \/ /\ f.op = "removeConnectionInLoop"
        /\ RemoveConnectionInLoop(c)
        /\ UNCHANGED <<state_, channel, timer, cgi, ub>>
     \/ f.op = "connectDestroyed" /\ ConnectDestroyed(c)
     \/ f.op = "forceCloseInLoop" /\ ForceCloseInLoop(c)
     \/ f.op = "addTimerInLoop" /\ AddTimerInLoop(c)
     \/ f.op = "server_cgi" /\ ServerCgi(c)
     \/ f.op \in Raw /\ RunRaw(c)
  /\ UNCHANGED <<listenning_, next_, loop_, phase, active, call, netVars>>

(* The vector goes out of scope, and its shared_ptrs with it. *)
EndFunctors(l) ==
  /\ phase[l] = "functors"
  /\ functors[l] = <<>>
  /\ held' = [held EXCEPT ![l] = {}]
  /\ phase' = [phase EXCEPT ![l] = "poll"]
  /\ UNCHANGED <<serverVars, state_, channel, active, pending, functors, timer,
                 call, netVars, cgi, ub>>

-----------------------------------------------------------------------------
(* The base thread's callbacks.                                            *)

(* EventLoopThreadPool::getNextLoop: the loop, and the next index. *)
GetNextLoop == IF NumThreads = 0 THEN Base ELSE next_ + 1
NextAfter == IF next_ + 1 >= NumThreads THEN 0 ELSE next_ + 1

(* Acceptor::listen. *)
Listen == listenning_' = TRUE

(* TcpServer::start, which the base thread calls before or in its loop:    *)
(* the pool's loops exist when EventLoopThreadPool::start returns, and     *)
(* listen runs at once.  A second call changes nothing.                    *)
Start ==
  /\ call = NoCall
  /\ ~listenning_
  /\ Listen
  /\ UNCHANGED <<connections_, next_, loop_, state_, channel, phase, active,
                 pending, functors, held, timer, call, netVars, cgi, ub>>

(* The acceptor's channel is dispatched on the base loop. *)
AcceptReady == listenning_ /\ phase[Base] = "dispatch" /\ call = NoCall

(* sockets::accept fails.  EAGAIN, EMFILE and the other expected errors    *)
(* leave the connection in the backlog for the next poll, which is a       *)
(* stuttering step; an unexpected one (ENFILE, ENOBUFS, ...) ends the      *)
(* process in LOG_FATAL.                                                   *)
AcceptFatal ==
  /\ AcceptReady
  /\ ub' = "fatal"
  /\ UNCHANGED <<serverVars, state_, channel, phase, active, pending, functors,
                 held, timer, call, netVars, cgi>>

(* The constructor of TcpConnection: its loop is fixed, and state_ is      *)
(* kConnecting until connectEstablished.                                   *)
Construct(c, loop) ==
  /\ loop_' = [loop_ EXCEPT ![c] = loop]
  /\ loop # Base => SetState(c, "kConnecting")

(* TcpServer::newConnection; connectEstablished runs at once on one loop.  *)
NewConnection(c) ==
  /\ connections_' = connections_ \cup {c}
  /\ Construct(c, GetNextLoop)
  /\ next_' = NextAfter
  /\ IF GetNextLoop = Base
     THEN /\ SetState(c, "kConnected")
          /\ channel' = [channel EXCEPT ![c] = "reading"]
          /\ UNCHANGED pending
     ELSE /\ QueueInLoop(GetNextLoop, "connectEstablished", c)
          /\ UNCHANGED channel

(* Acceptor::handleRead takes one connection from the backlog. *)
Accept(c) ==
  /\ AcceptReady
  /\ state_[c] = "none"
  /\ NewConnection(c)
  /\ UNCHANGED <<listenning_, phase, active, functors, held, timer, call,
                 netVars, cgi, ub>>

(* HttpServer::onCheckTimer finds a connection idle: it holds a shared_ptr *)
(* to it while it calls shutdown and forceCloseWithDelay.                  *)
Kick(c) ==
  /\ phase[Base] = "timers" /\ call = NoCall
  /\ c \in Idlers /\ Alive(c) /\ state_[c] = "kConnected"
  /\ call' = [step |-> "shutdown", conn |-> c]
  /\ UNCHANGED <<serverVars, state_, channel, phase, active, pending, functors,
                 held, timer, netVars, cgi, ub>>

CallStep(step) == call.step = step

Goto(step) == call' = [call EXCEPT !.step = step]

(* shutdown tests state_ ... *)
ShutdownTest ==
  /\ CallStep("shutdown")
  /\ Goto(IF state_[call.conn] = "kConnected" THEN "shutdownSet" ELSE "delay")
  /\ UNCHANGED <<serverVars, state_, channel, phase, active, pending, functors,
                 held, timer, netVars, cgi, ub>>

(* ... and sets it; shutdownInLoop runs at once on the same loop. *)
ShutdownSet ==
  /\ CallStep("shutdownSet")
  /\ SetState(call.conn, "kDisconnecting")
  /\ IF loop_[call.conn] = Base
     THEN UNCHANGED pending
     ELSE QueueInLoop(loop_[call.conn], "shutdownInLoop", call.conn)
  /\ Goto("delay")
  /\ UNCHANGED <<serverVars, channel, phase, active, functors, held, timer,
                 netVars, cgi, ub>>

(* forceCloseWithDelay tests state_ ... *)
DelayTest ==
  /\ CallStep("delay")
  /\ IF Up(call.conn) THEN Goto("delaySet") ELSE call' = NoCall
  /\ UNCHANGED <<serverVars, state_, channel, phase, active, pending, functors,
                 held, timer, netVars, cgi, ub>>

(* ... and sets it; runAfter adds the timer to the connection's loop. *)
DelaySet ==
  /\ CallStep("delaySet")
  /\ SetState(call.conn, "kDisconnecting")
  /\ IF loop_[call.conn] = Base
     THEN timer' = [timer EXCEPT ![call.conn] = "armed"] /\ UNCHANGED pending
     ELSE /\ QueueInLoop(loop_[call.conn], "addTimerInLoop", call.conn)
          /\ UNCHANGED timer
  /\ call' = NoCall
  /\ UNCHANGED <<serverVars, channel, phase, active, functors, held, netVars,
                 cgi, ub>>

(* HttpServer::onCGIMessage: the weak_ptr of the request is locked, and    *)
(* send tests state_ ...                                                   *)
OnCgiMessage(c) ==
  /\ phase[Base] = "dispatch" /\ call = NoCall
  /\ c \in cgi
  /\ cgi' = cgi \ {c}
  /\ call' = IF Alive(c) /\ state_[c] = "kConnected"
             THEN [step |-> "send", conn |-> c] ELSE call
  /\ UNCHANGED <<serverVars, state_, channel, phase, active, pending, functors,
                 held, timer, netVars, ub>>

(* ... and hands sendInLoop, bound to this, to the connection's loop. *)
SendQueue ==
  /\ CallStep("send")
  /\ IF loop_[call.conn] = Base
     THEN UNCHANGED pending
     ELSE QueueInLoop(loop_[call.conn], "sendInLoop", call.conn)
  /\ call' = NoCall
  /\ UNCHANGED <<serverVars, state_, channel, phase, active, functors, held,
                 timer, netVars, cgi, ub>>

-----------------------------------------------------------------------------
(* The environment: peers send and close, time passes.  A timer that       *)
(* expires while the loop runs timer callbacks is seen at the next poll.   *)

PeerSend(c) ==
  /\ state_[c] # "none" /\ c \notin closed
  /\ data' = data \cup {c}
  /\ UNCHANGED <<serverVars, state_, channel, phase, active, pending, functors,
                 held, timer, call, closed, cgi, ub>>

PeerClose(c) ==
  /\ state_[c] # "none"
  /\ closed' = closed \cup {c}
  /\ UNCHANGED <<serverVars, state_, channel, phase, active, pending, functors,
                 held, timer, call, data, cgi, ub>>

TimePasses(c) ==
  /\ timer[c] = "armed" /\ phase[loop_[c]] # "timers"
  /\ timer' = [timer EXCEPT ![c] = "expired"]
  /\ UNCHANGED <<serverVars, state_, channel, phase, active, pending, functors,
                 held, call, netVars, cgi, ub>>

LoopStep(l) ==
  \/ Poll(l) \/ TimersDone(l) \/ SwapPending(l) \/ RunFunctor(l)
  \/ EndFunctors(l)
  \/ \E c \in Conns : TimerFire(l, c) \/ HandleRead(l, c) \/ HandleReadZero(l, c)

CallSteps == ShutdownTest \/ ShutdownSet \/ DelayTest \/ DelaySet \/ SendQueue

BaseStep(c) == Accept(c) \/ Kick(c) \/ OnCgiMessage(c)

Environment(c) == PeerSend(c) \/ PeerClose(c) \/ TimePasses(c)

(* Undefined behaviour, or LOG_FATAL, ends what can be said. *)
Next ==
  /\ ub = "none"
  /\ \/ \E l \in Loops : LoopStep(l)
     \/ Start \/ AcceptFatal \/ CallSteps
     \/ \E c \in Conns : BaseStep(c) \/ Environment(c)

Spec == Init /\ [][Next]_vars

(* The OS runs every loop's thread and expires every armed timer.  Nothing *)
(* is assumed of peers, of accepts or of the idle check.                   *)
Fairness ==
  /\ \A l \in Loops : WF_vars(ub = "none" /\ LoopStep(l))
  /\ WF_vars(ub = "none" /\ CallSteps)
  /\ \A c \in Conns : WF_vars(ub = "none" /\ TimePasses(c))

FairSpec == Spec /\ Fairness

-----------------------------------------------------------------------------
(* Properties.                                                             *)

(* Type correctness: getNextLoop's index stays inside the pool's vector of *)
(* loops.                                                                  *)
TypeOK ==
  /\ listenning_ \in BOOLEAN
  /\ connections_ \in SUBSET Conns
  /\ next_ \in Nat /\ (next_ = 0 \/ next_ < NumThreads)
  /\ loop_ \in [Conns -> Loops]
  /\ state_ \in [Conns -> {"none", "kConnecting", "kConnected",
                           "kDisconnecting", "kDisconnected"}]
  /\ channel \in [Conns -> {"new", "reading", "disabled", "removed"}]
  /\ phase \in [Loops -> {"poll", "timers", "dispatch", "functors"}]
  /\ active \in [Loops -> SUBSET Conns]
  /\ pending \in [Loops -> Seq([op : Ops, conn : Conns])]
  /\ functors \in [Loops -> Seq([op : Ops, conn : Conns])]
  /\ held \in [Loops -> SUBSET Conns]
  /\ timer \in [Conns -> {"none", "armed", "expired"}]
  /\ call \in [step : {"none", "shutdown", "shutdownSet", "delay", "delaySet",
                       "send"},
               conn : Conns \cup {NULL}]
  /\ data \in SUBSET Conns /\ closed \in SUBSET Conns /\ cgi \in SUBSET Conns
  /\ ub \in {"none", "removedChannel", "useAfterFree", "fatal"}

Registered(c) == channel[c] \in {"reading", "disabled"}

(* The poller never holds the channel of a destroyed connection, and the   *)
(* loop never dispatches to one: handleClose, removeConnectionInLoop and   *)
(* connectDestroyed pass the last reference on until removeChannel has     *)
(* run, across the two threads they run on.                                *)
RegisteredIsAlive ==
  /\ \A c \in Conns : Registered(c) => Alive(c)
  /\ \A l \in Loops : \A c \in active[l] : Registered(c) /\ loop_[c] = l

(* A connection the server has erased is either off the poller or has its  *)
(* connectDestroyed on the way: none is forgotten half closed              *)
(* (removeConnectionInLoop).                                               *)
ErasedIsDestroyed ==
  \A c \in Conns :
    state_[c] # "none" /\ c \notin connections_ /\ channel[c] # "removed"
      => Queued("connectDestroyed", c)

(* A connection is taken up by its loop before anything else happens to    *)
(* it: until connectEstablished has run it is not closed, kicked, written  *)
(* to or erased (newConnection's order of assignments and runInLoop).      *)
UpFirst ==
  \A c \in Conns :
    state_[c] = "kConnecting" =>
      /\ c \in connections_ /\ channel[c] = "new"
      /\ \A op \in Ops \ {"connectEstablished"} : ~Queued(op, c)
      /\ Queued("connectEstablished", c)
      /\ call.conn # c

(* How far a connection has got: its channel knows, and before it has one  *)
(* in use, the server.                                                     *)
Stage(c) ==
  CASE channel[c] = "new"      -> IF state_[c] = "none" THEN "none" ELSE "accepted"
    [] channel[c] = "reading"  -> "up"
    [] channel[c] = "disabled" -> "closing"
    [] channel[c] = "removed"  -> "gone"

Life == INSTANCE ConnectionLife
          WITH stage <- [c \in Conns |-> Stage(c)], known <- connections_

(* Whatever calls of two threads, timers and closes of the peer overlap,   *)
(* the server's part of a connection's life takes one course: in the map,  *)
(* up, closing, erased, destroyed (newConnection, connectEstablished,      *)
(* handleClose, removeConnectionInLoop, connectDestroyed).  A repeated call *)
(* of the last, which DestroyedOnce is about, comes when it is over.       *)
LifeSpec == Life!Spec

(* "called when TcpServer has removed me from its map" and "should be      *)
(* called only once" (TcpConnection.h, connectDestroyed): at most one call *)
(* is queued or has been made.                                             *)
DestroyedOnce ==
  \A c \in Conns :
    LET todo == Todo(loop_[c])
        calls == {i \in DOMAIN todo : todo[i] = Functor("connectDestroyed", c)}
    IN  Cardinality(calls) + (IF channel[c] = "removed" THEN 1 ELSE 0) <= 1

(* When the peer of an established connection closes, or when it stays     *)
(* silent after a kick, the connection is erased, taken off its loop and   *)
(* freed (handleClose, forceCloseWithDelay, forceClose, connectDestroyed). *)
ClosedIsFreed ==
  \A c \in Conns :
    ((Up(c) /\ c \in closed) \/ timer[c] = "armed")
      ~> (channel[c] = "removed" /\ ~Alive(c)) \/ ub # "none"
=============================================================================
