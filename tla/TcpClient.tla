----------------------------- MODULE TcpClient ------------------------------
(***************************************************************************)
(* muduo::net::TcpClient and its Connector (net/TcpClient.cc,              *)
(* net/Connector.cc): connect, stop and disconnect called by a user thread,*)
(* attempts, retries and reconnections on the loop's thread.               *)
(*                                                                         *)
(* The loop's thread polls, runs the callbacks of expired timers and ready *)
(* channels, then one batch of functors.  The user's calls are split at    *)
(* every access to a member the loop also uses, since nothing guards them; *)
(* so is removeConnection between its test of connect_ and the restart.    *)
(* A callback of the loop may destroy the client, once no call is under    *)
(* way; the connector goes at once or a second later.                      *)
(*                                                                         *)
(* Time is left out: a timer may expire at any poll after it was set, but  *)
(* the second's timer not before what is queued has run.                   *)
(***************************************************************************)
EXTENDS Integers, Sequences, SequencesExt

CONSTANTS MaxFailures,  \* failed attempts (bound)
          MaxConns,     \* connections made (bound)
          MaxCalls      \* calls of the user (bound)

ASSUME TcpClientAssumption ==
  /\ MaxFailures \in Nat /\ MaxConns \in Nat /\ MaxCalls \in Nat

VARIABLES
  retry_, wanted,       \* TcpClient's retry_ and connect_
  connect_, state_,     \* Connector's
  channel_,             \* "none", "polled", "removed" (not yet reset)
  timers, timerId_,     \* armed retry timers; the last one set, 0 if none
  connection_,          \* TcpClient::connection_ is set
  dying,                \* connections whose connectDestroyed is queued
  open,                 \* sockets created and not closed
  phase,                \* "poll", "timers", "dispatch", "functors"
  expired, active,      \* what poll reported and is not yet handled
  pending, functors,    \* the loop's queue; the batch being run
  restarting,           \* removeConnection has decided to restart
  call,                 \* the user's unfinished call
  calls,                \* calls the user has made
  stopped,              \* has stop returned, and connect not been called since?
  failures, conns,      \* attempts failed, connections made
  gaveUp,               \* connect(2) failed with an error that is not retried
  broken,               \* the first assertion of Connector.cc that failed,
                        \* or the use of something destroyed
  client,               \* "alive", "destroyed"
  connector,            \* "alive", "kept" by the timer of ~TcpClient, "dead"
  held,                 \* does the user hold a reference to the connection?
  orphan,               \* the connection of a destroyed client: "none",
                        \* "held", "freed" while its channel is registered
  risky                 \* was something destroyed that the loop still knows?

vars == <<retry_, wanted, connect_, state_, channel_, timers, timerId_,
          connection_, dying, open, phase, expired, active, pending, functors,
          restarting, call, calls, stopped, failures, conns, gaveUp, broken,
          client, connector, held, orphan, risky>>

lifeVars == <<client, connector, held, orphan, risky>>
connectorVars == <<state_, channel_, timers, timerId_, open, failures, gaveUp,
                   broken>>
loopVars == <<phase, expired, active, functors>>
userVars == <<retry_, wanted, call, calls, stopped>>

Functor(op, id) == [op |-> op, id |-> id]

ConnectorInit ==
  /\ connect_ = FALSE /\ state_ = "kDisconnected" /\ channel_ = "none"
  /\ timers = {} /\ timerId_ = 0 /\ open = 0 /\ failures = 0

Init ==
  /\ ConnectorInit
  /\ retry_ = FALSE /\ wanted = TRUE
  /\ connection_ = FALSE /\ dying = 0
  /\ phase = "poll" /\ expired = {} /\ active = {}
  /\ pending = <<>> /\ functors = <<>>
  /\ restarting = FALSE
  /\ call = "none" /\ calls = 0 /\ stopped = FALSE
  /\ conns = 0 /\ gaveUp = FALSE
  /\ broken = "none"
  /\ client = "alive" /\ connector = "alive"
  /\ held \in BOOLEAN /\ orphan = "none" /\ risky = FALSE

-----------------------------------------------------------------------------
(* Connector, in the loop's thread.                                        *)

(* Mutant of retry: the socket is forgotten. *)
RetryLeaking(fds, wish) ==
  /\ failures < MaxFailures
  /\ failures' = failures + 1
  /\ open' = fds
  /\ state_' = "kDisconnected"
  /\ IF wish
     THEN /\ timerId_' = failures + 1
          /\ timers' = timers \cup {failures + 1}
     ELSE UNCHANGED <<timers, timerId_>>

(* Mutant of retry: no timer. *)
RetryNever(fds, wish) ==
  /\ failures < MaxFailures
  /\ failures' = failures + 1
  /\ open' = fds - 1
  /\ state_' = "kDisconnected"
  /\ UNCHANGED <<timers, timerId_>>

(* retry closes the socket, one of fds, and sets a timer if connect_ still *)
(* has the wish.                                                           *)
Retry(fds, wish) ==
  /\ failures < MaxFailures
  /\ failures' = failures + 1
  /\ open' = fds - 1
  /\ state_' = "kDisconnected"
  /\ IF wish
     THEN /\ timerId_' = failures + 1
          /\ timers' = timers \cup {failures + 1}
     ELSE UNCHANGED <<timers, timerId_>>

(* connecting asserts that channel_ is null. *)
Connecting ==
  /\ state_' = "kConnecting"
  /\ channel_' = "polled"
  /\ open' = open + 1
  /\ broken' = IF channel_ = "none" THEN broken ELSE "connecting"
  /\ UNCHANGED <<timers, timerId_, failures, gaveUp>>

(* connect: connect(2) starts, fails for now, or fails for good. *)
Connect ==
  \/ Connecting
  \/ Retry(open + 1, TRUE) /\ UNCHANGED <<channel_, gaveUp, broken>>
  \/ gaveUp' = TRUE /\ state_' = "kDisconnected"
     /\ UNCHANGED <<channel_, timers, timerId_, open, failures, broken>>

(* startInLoop asserts that state_ is kDisconnected; restart has just set  *)
(* state_ and connect_, given here.                                        *)
StartInLoop(state, wish) ==
  IF state # "kDisconnected"
  THEN broken' = "startInLoop" /\ UNCHANGED <<state_, channel_, timers, timerId_,
                                              open, failures, gaveUp>>
  ELSE IF wish THEN Connect
  ELSE state_' = state /\ UNCHANGED <<channel_, timers, timerId_, open, failures,
                                      gaveUp, broken>>

(* Mutant: the channel stays in the poller. *)
RemoveAndResetLater ==
  /\ UNCHANGED channel_
  /\ pending' = Append(pending, Functor("resetChannel", 0))

RemoveAndResetChannel ==
  /\ channel_' = "removed"
  /\ pending' = Append(pending, Functor("resetChannel", 0))

(* handleError, or handleWrite that finds an error or a self-connect.      *)
(* After handleError the same event's handleWrite finds kDisconnected.     *)
HandleError ==
  /\ RemoveAndResetChannel
  /\ Retry(open, connect_)
  /\ UNCHANGED <<connection_, conns, gaveUp, broken>>

(* Mutant of handleWrite: connect_ is not tested. *)
HandleWriteAlways ==
  /\ conns < MaxConns
  /\ RemoveAndResetChannel
  /\ state_' = "kConnected"
  /\ connection_' = TRUE
  /\ conns' = conns + 1
  /\ UNCHANGED <<timers, timerId_, open, failures, gaveUp, broken>>

(* TcpClient::newConnection and connectEstablished. *)
NewConnection == connection_' = TRUE /\ conns' = conns + 1

(* handleWrite on success.  When connect_ is false the socket stays open   *)
(* and nobody has it.                                                      *)
HandleWrite ==
  /\ conns < MaxConns
  /\ RemoveAndResetChannel
  /\ state_' = "kConnected"
  /\ IF connect_ THEN NewConnection
                 ELSE UNCHANGED <<connection_, conns>>
  /\ UNCHANGED <<timers, timerId_, open, failures, gaveUp, broken>>

-----------------------------------------------------------------------------
(* The loop's thread.                                                      *)

Registered == (IF channel_ = "polled" THEN {"connector"} ELSE {})
                \cup (IF connection_ THEN {"connection"} ELSE {})
                \cup (IF orphan # "none" THEN {"orphan"} ELSE {})

(* Expired timers have been taken out of the set by getExpired.            *)
Poll ==
  /\ phase = "poll"
  /\ \E due \in SUBSET timers, ready \in SUBSET Registered :
       /\ due # {} \/ ready # {} \/ pending # <<>>
       /\ expired' = due /\ timers' = timers \ due
       /\ active' = ready
       /\ phase' = IF due = {} THEN "dispatch" ELSE "timers"
  /\ UNCHANGED <<connect_, state_, channel_, timerId_, connection_, dying, open,
                 pending, functors, restarting, userVars, failures, conns,
                 gaveUp, broken, lifeVars>>

RetryTimer ==
  /\ phase = "timers" /\ connector # "dead"
  /\ \E id \in expired :
       /\ expired' = expired \ {id}
       /\ phase' = IF expired = {id} THEN "dispatch" ELSE phase
  /\ StartInLoop(state_, connect_)
  /\ UNCHANGED <<connect_, connection_, dying, active, pending, functors,
                 restarting, userVars, conns, lifeVars>>

ConnectorEvent ==
  /\ phase = "dispatch" /\ "connector" \in active /\ ~restarting
  /\ connector # "dead"
  /\ active' = active \ {"connector"}
  /\ HandleError \/ HandleWrite
  /\ UNCHANGED <<connect_, dying, phase, expired, functors, restarting, userVars, lifeVars>>

(* TcpConnection::handleClose calls TcpClient::removeConnection ...        *)
RemoveConnection ==
  /\ phase = "dispatch" /\ "connection" \in active /\ ~restarting
  /\ active' = active \ {"connection"}
  /\ connection_' = FALSE
  /\ dying' = dying + 1
  /\ pending' = Append(pending, Functor("connectDestroyed", 0))
  /\ restarting' = (retry_ /\ wanted)
  /\ UNCHANGED <<connect_, connectorVars, phase, expired, functors, userVars,
                 conns, lifeVars>>

(* ... which may call Connector::restart. *)
Restart ==
  /\ restarting
  /\ restarting' = FALSE
  /\ connect_' = TRUE
  /\ StartInLoop("kDisconnected", TRUE)
  /\ UNCHANGED <<connection_, dying, loopVars, pending, userVars, conns, lifeVars>>

SwapPending ==
  /\ phase = "dispatch" /\ active = {} /\ ~restarting
  /\ phase' = "functors"
  /\ functors' = pending /\ pending' = <<>>
  /\ UNCHANGED <<connect_, connectorVars, connection_, dying, expired, active,
                 restarting, userVars, conns, lifeVars>>

(* TimerQueue::cancelInLoop. *)
Cancel(id) ==
  /\ timers' = timers \ {id}
  /\ UNCHANGED <<state_, channel_, timerId_, open, failures, gaveUp, broken, dying>>

(* resetChannel destroys the channel, which must not be polled any more. *)
ResetChannel ==
  /\ channel_' = "none"
  /\ broken' = IF channel_ = "polled" THEN "resetChannel" ELSE broken
  /\ UNCHANGED <<state_, timers, timerId_, open, failures, gaveUp, dying>>

(* The last reference goes, and ~Socket closes the socket. *)
ConnectDestroyed ==
  /\ dying' = dying - 1
  /\ open' = open - 1
  /\ UNCHANGED <<state_, channel_, timers, timerId_, failures, gaveUp, broken>>

(* The functors that are bound to the Connector's address. *)
OfConnector(f) == f.op \in {"startInLoop", "resetChannel"}
OfDeadConnector(f) == OfConnector(f) /\ connector = "dead"

RunFunctor ==
  /\ phase = "functors"
  /\ functors # <<>>
  /\ functors' = Tail(functors)
  /\ ~OfDeadConnector(Head(functors))
  /\ LET f == Head(functors) IN
     \/ f.op = "startInLoop" /\ StartInLoop(state_, connect_) /\ UNCHANGED dying
     \/ f.op = "cancel" /\ Cancel(f.id)
     \/ f.op = "resetChannel" /\ ResetChannel
     \/ f.op = "connectDestroyed" /\ ConnectDestroyed
  /\ UNCHANGED <<connect_, connection_, phase, expired, active, pending,
                 restarting, userVars, conns, lifeVars>>

EndFunctors ==
  /\ phase = "functors"
  /\ functors = <<>>
  /\ phase' = "poll"
  /\ UNCHANGED <<connect_, connectorVars, connection_, dying, expired, active,
                 pending, functors, restarting, userVars, conns, lifeVars>>

-----------------------------------------------------------------------------
(* The end of the client.                                                  *)

ConnectorQueued == \E f \in ToSet(pending \o functors) : OfConnector(f)

(* ~TcpClient with a connection: it closes by itself later, if the user    *)
(* holds it.  The connector has no other owner than the client.            *)
DestroyConnected ==
  /\ connection_
  /\ connection_' = FALSE
  /\ orphan' = IF held THEN "held" ELSE "freed"
  /\ open' = IF held THEN open ELSE open - 1
  /\ connector' = "dead"
  /\ risky' = (~held \/ ConnectorQueued)
  /\ UNCHANGED connect_

(* Mutant: no timer owns the connector. *)
DestroyAtOnce ==
  /\ ~connection_
  /\ connect_' = FALSE
  /\ connector' = "dead"
  /\ UNCHANGED <<connection_, orphan, open, risky>>

(* ... and without one: stop, and a timer that owns the connector. *)
DestroyUnconnected ==
  /\ ~connection_
  /\ connect_' = FALSE
  /\ connector' = "kept"
  /\ UNCHANGED <<connection_, orphan, open, risky>>

(* A functor of the user's destroys the client; either way the connector's *)
(* timer is cancelled.                                                     *)
Destroy ==
  /\ phase = "functors"
  /\ client = "alive" /\ call = "none"
  /\ client' = "destroyed"
  /\ DestroyConnected \/ DestroyUnconnected
  /\ timers' = timers \ {timerId_}
  /\ UNCHANGED <<state_, channel_, timerId_, failures, gaveUp, broken, dying,
                 loopVars, pending, restarting, userVars, conns, held>>

(* removeConnector's second is over, and ~Connector runs. *)
LetGo ==
  /\ phase = "poll" /\ connector = "kept" /\ ~ConnectorQueued
  /\ connector' = "dead"
  /\ risky' = (risky \/ channel_ = "polled")
  /\ timers' = timers \ {timerId_}
  /\ UNCHANGED <<connect_, state_, channel_, timerId_, open, failures, gaveUp,
                 broken, connection_, dying, loopVars, pending, restarting,
                 userVars, conns, client, held, orphan>>

(* detail::removeConnection, the close callback of an orphan. *)
RemoveOrphan ==
  /\ phase = "dispatch" /\ "orphan" \in active /\ ~restarting
  /\ orphan = "held"
  /\ active' = active \ {"orphan"}
  /\ orphan' = "none"
  /\ dying' = dying + 1
  /\ pending' = Append(pending, Functor("connectDestroyed", 0))
  /\ UNCHANGED <<connect_, connectorVars, connection_, phase, expired, functors,
                 restarting, userVars, conns, client, connector, held, risky>>

(* The loop reaches something that is not there any more. *)
ReachesDestroyed ==
  CASE phase = "timers"   -> connector = "dead"
    [] phase = "dispatch" -> \/ "orphan" \in active /\ orphan = "freed"
                             \/ "connector" \in active /\ connector = "dead"
    [] phase = "functors" -> functors # <<>> /\ OfDeadConnector(Head(functors))
    [] phase = "poll"     -> FALSE

UseDestroyed ==
  /\ ReachesDestroyed
  /\ broken' = IF risky THEN "undefined" ELSE "destroyed"
  /\ UNCHANGED <<connect_, state_, channel_, timers, timerId_, open, failures,
                 gaveUp, connection_, dying, loopVars, pending, restarting,
                 userVars, conns, lifeVars>>

-----------------------------------------------------------------------------
(* The user's thread.                                                      *)

MayCall == client = "alive" /\ call = "none" /\ calls < MaxCalls

(* TcpClient::connect, called once, sets both flags ... *)
CallConnect ==
  /\ MayCall
  /\ calls = 0
  /\ wanted' = TRUE /\ connect_' = TRUE
  /\ call' = "start" /\ calls' = calls + 1
  /\ UNCHANGED <<retry_, stopped, connectorVars, connection_, dying, loopVars, pending,
                 restarting, conns, lifeVars>>

(* ... and Connector::start queues startInLoop. *)
CallStart ==
  /\ call = "start"
  /\ call' = "none"
  /\ pending' = Append(pending, Functor("startInLoop", 0))
  /\ UNCHANGED <<retry_, wanted, calls, stopped, connect_, connectorVars, connection_,
                 dying, loopVars, restarting, conns, lifeVars>>

(* TcpClient::stop; Connector::stop cancels the timer it sees. *)
CallStop ==
  /\ MayCall
  /\ calls > 0 /\ ~stopped
  /\ wanted' = FALSE
  /\ call' = "stop" /\ calls' = calls + 1
  /\ UNCHANGED <<retry_, stopped, connect_, connectorVars, connection_, dying, loopVars,
                 pending, restarting, conns, lifeVars>>

CallStopConnector ==
  /\ call = "stop"
  /\ connect_' = FALSE
  /\ call' = "cancel"
  /\ UNCHANGED <<retry_, wanted, calls, stopped, connectorVars, connection_, dying,
                 loopVars, pending, restarting, conns, lifeVars>>

CallCancel ==
  /\ call = "cancel"
  /\ pending' = Append(pending, Functor("cancel", timerId_))
  /\ call' = "none" /\ stopped' = TRUE
  /\ UNCHANGED <<retry_, wanted, calls, connect_, connectorVars, connection_, dying,
                 loopVars, restarting, conns, lifeVars>>

(* disconnect: no reconnection; shutdown is the connection's affair. *)
CallDisconnect ==
  /\ MayCall
  /\ calls > 0
  /\ wanted' = FALSE
  /\ calls' = calls + 1
  /\ UNCHANGED <<retry_, call, stopped, connect_, connectorVars, connection_, dying,
                 loopVars, pending, restarting, conns, lifeVars>>

EnableRetry ==
  /\ ~retry_
  /\ client = "alive" /\ call = "none"
  /\ retry_' = TRUE
  /\ UNCHANGED <<wanted, call, calls, stopped, connect_, connectorVars,
                 connection_, dying, loopVars, pending, restarting, conns, lifeVars>>

LoopStep ==
  \/ Poll \/ RetryTimer \/ ConnectorEvent \/ RemoveConnection \/ Restart
  \/ SwapPending \/ RunFunctor \/ EndFunctors
  \/ LetGo \/ RemoveOrphan \/ UseDestroyed

CallStep == CallStart \/ CallStopConnector \/ CallCancel

Next ==
  /\ broken = "none"
  /\ \/ LoopStep \/ CallStep
     \/ CallConnect \/ CallStop \/ CallDisconnect \/ EnableRetry
     \/ Destroy

Spec == Init /\ [][Next]_vars

(* The loop's thread runs and poll returns as long as there is something   *)
(* to wait for; so does a call of the user once begun.                     *)
Fairness ==
  /\ WF_vars(broken = "none" /\ LoopStep)
  /\ WF_vars(broken = "none" /\ CallStep)

FairSpec == Spec /\ Fairness

-----------------------------------------------------------------------------
(* Properties.                                                             *)

(* The assertions of startInLoop and connecting, and the order between     *)
(* them and resetChannel, which runs later than the event that queued it:  *)
(* no attempt starts while another one, or its channel, is still there.    *)
(* Nor does the loop use anything of a destroyed client, unless it was     *)
(* destroyed with a connection that nobody else holds, in the batch of     *)
(* functors in which the connection came up, or while an attempt was under *)
(* way that lasted more than a second (~TcpClient, ~Connector).            *)
AssertionsHold == broken \in {"none", "undefined"}

(* An attempt, a timer that will start one, and a connection exclude each  *)
(* other, so that a client never has two connections (retry, restart,      *)
(* removeAndResetChannel).                                                 *)
OneAttempt ==
  LET One(b) == IF b THEN 1 ELSE 0 IN
  /\ AssertionsHold
  /\ One(channel_ = "polled") + One(timers \cup expired # {})
       + One(connection_ \/ restarting \/ orphan = "held") <= 1
  /\ \A i, j \in timers \cup expired : i = j
  /\ channel_ = "polled" <=> state_ = "kConnecting"

(* While the client is meant to connect, every open socket is the          *)
(* connector's, the connection's or that of a connection about to be       *)
(* destroyed: none leaks through retries, failures and reconnections       *)
(* (retry, newConnection, connectDestroyed).  After a stop handleWrite may *)
(* leave one behind, and SocketsOwned says nothing.                        *)
SocketsOwned ==
  connect_ => open = (IF channel_ = "polled" THEN 1 ELSE 0)
           + (IF connection_ \/ orphan = "held" THEN 1 ELSE 0) + dying

(* Once stop has returned no attempt starts and no connection is made, if  *)
(* reconnecting was not enabled (startInLoop, handleWrite, retry): with it *)
(* a restart begun before the stop would set connect_ again.  Neither does *)
(* a destroyed client connect (~TcpClient, removeConnection).              *)
StopIsFinal ==
  [][(stopped /\ ~retry_) \/ client = "destroyed" =>
       /\ connection_' => connection_
       /\ channel_' = "polled" => channel_ = "polled"]_vars

(* A client that is not stopped gets its connection although attempts      *)
(* fail (startInLoop, retry), and with enableRetry a connection whose close *)
(* is reported is made again (removeConnection, restart).                  *)
Connects ==
  /\ call = "start" ~> connection_ \/ gaveUp \/ call = "stop" \/ client = "destroyed"
  /\ ("connection" \in active /\ retry_ /\ wanted /\ conns < MaxConns)
       ~> (connection_ /\ "connection" \notin active) \/ gaveUp \/ ~wanted
             \/ client = "destroyed"
=============================================================================
