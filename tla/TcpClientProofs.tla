--------------------------- MODULE TcpClientProofs ---------------------------
(* Proofs about TcpClient and its Connector, for any number of attempts,   *)
(* connections and calls.                                                  *)
EXTENDS TcpClient, SequenceTheorems, TLAPS

-----------------------------------------------------------------------------
(* Queues of functors.                                                     *)

(* Is x in the sequence s, and is it there no more than once? *)
Holds(s, x) == \E i \in DOMAIN s : s[i] = x
Once(s, x) == \A i, j \in DOMAIN s : s[i] = x /\ s[j] = x => i = j

-----------------------------------------------------------------------------
(* Sequences.                                                              *)

(* Appending adds one element, in one place. *)
LEMMA AppendHolds ==
  ASSUME NEW S, NEW s \in Seq(S), NEW x \in S
  PROVE  /\ \A y : Holds(Append(s, x), y) <=> Holds(s, y) \/ y = x
         /\ \A y : Once(s, y) /\ y # x => Once(Append(s, x), y)
         /\ ~Holds(s, x) => Once(Append(s, x), x)
<1>1. /\ Len(s) \in Nat /\ Len(Append(s, x)) = Len(s) + 1
      /\ DOMAIN s = 1 .. Len(s) /\ DOMAIN Append(s, x) = 1 .. Len(s) + 1
      /\ \A i \in 1 .. Len(s) : Append(s, x)[i] = s[i]
      /\ Append(s, x)[Len(s) + 1] = x
  BY AppendProperties, LenProperties
<1> DEFINE t == Append(s, x)
<1> HIDE DEF t
<1>2. \A i \in DOMAIN t : (i \in DOMAIN s /\ t[i] = s[i]) \/ (i = Len(s) + 1 /\ t[i] = x)
  BY <1>1 DEF t
<1>3. \A y : Holds(t, y) <=> Holds(s, y) \/ y = x
  BY <1>1, <1>2 DEF Holds, t
<1>4. \A y : Once(s, y) /\ y # x => Once(t, y)
  BY <1>2 DEF Once
<1>5. ~Holds(s, x) => Once(t, x)
  BY <1>2 DEF Once, Holds
<1> QED BY <1>3, <1>4, <1>5 DEF t

(* Taking the head off removes one element. *)
LEMMA TailHolds ==
  ASSUME NEW S, NEW s \in Seq(S), s # <<>>
  PROVE  /\ Head(s) \in S /\ Holds(s, Head(s))
         /\ \A y : Holds(Tail(s), y) => Holds(s, y)
         /\ \A y : Holds(s, y) /\ y # Head(s) => Holds(Tail(s), y)
         /\ \A y : Once(s, y) => Once(Tail(s), y)
         /\ Once(s, Head(s)) => ~Holds(Tail(s), Head(s))
<1>1. /\ Len(s) \in Nat \ {0} /\ DOMAIN s = 1 .. Len(s)
      /\ DOMAIN Tail(s) = 1 .. Len(s) - 1 /\ Head(s) = s[1]
      /\ \A i \in 1 .. Len(s) - 1 : Tail(s)[i] = s[i + 1]
      /\ Head(s) \in S
  BY HeadTailProperties, LenProperties, EmptySeq
<1> DEFINE t == Tail(s)
<1> HIDE DEF t
<1>2. \A i \in DOMAIN t : i + 1 \in DOMAIN s /\ i + 1 # 1 /\ t[i] = s[i + 1] /\ i \in Nat
  BY <1>1 DEF t
<1>3. \A i \in DOMAIN s : i = 1 \/ (i - 1 \in DOMAIN t /\ t[i - 1] = s[i])
  BY <1>1 DEF t
<1>4. 1 \in DOMAIN s /\ s[1] = Head(s) /\ Head(s) \in S
  BY <1>1
<1>5. \A y : Holds(t, y) => Holds(s, y)
  BY <1>2 DEF Holds
<1>6. \A y : Holds(s, y) /\ y # Head(s) => Holds(t, y)
  BY <1>3, <1>4 DEF Holds
<1>7. \A y : Once(s, y) => Once(t, y)
  <2> SUFFICES ASSUME NEW y, Once(s, y), NEW i \in DOMAIN t, NEW j \in DOMAIN t,
                      t[i] = y, t[j] = y
               PROVE  i = j
    BY DEF Once
  <2>1. i + 1 = j + 1
    BY <1>2 DEF Once
  <2> QED BY <1>2, <2>1
<1>8. Once(s, Head(s)) => ~Holds(t, Head(s))
  BY <1>2, <1>4 DEF Once, Holds
<1> QED BY <1>4, <1>5, <1>6, <1>7, <1>8 DEF t, Holds

(* A queue in two parts grows at the end of the second ... *)
LEMMA ConcatAppend ==
  ASSUME NEW S, NEW s \in Seq(S), NEW t \in Seq(S), NEW x \in S
  PROVE  s \o Append(t, x) = Append(s \o t, x)
<1>1. s \o t \in Seq(S) /\ <<x>> \in Seq(S)
  BY ConcatProperties
<1>2. Append(t, x) = t \o <<x>> /\ Append(s \o t, x) = (s \o t) \o <<x>>
  BY <1>1, AppendIsConcat
<1> QED BY <1>1, <1>2, ConcatAssociative

(* ... and shrinks at the head of the first. *)
LEMMA ConcatTail ==
  ASSUME NEW S, NEW s \in Seq(S), NEW t \in Seq(S), s # <<>>
  PROVE  /\ s \o t # <<>> /\ Head(s \o t) = Head(s)
         /\ Tail(s \o t) = Tail(s) \o t
<1>0. s \o t \in Seq(S)
  BY ConcatProperties
<1>1. /\ Len(s) \in Nat \ {0} /\ Len(t) \in Nat /\ Len(s \o t) = Len(s) + Len(t)
      /\ \A i \in 1 .. Len(s) + Len(t) :
           (s \o t)[i] = IF i <= Len(s) THEN s[i] ELSE t[i - Len(s)]
  BY EmptySeq, LenProperties, ConcatProperties
<1>2. s \o t # <<>>
  BY <1>1
<1>3. Head(s \o t) = Head(s)
  BY <1>0, <1>1, <1>2
<1>4. /\ Tail(s) \in Seq(S) /\ Len(Tail(s)) = Len(s) - 1
      /\ \A i \in 1 .. Len(s) - 1 : Tail(s)[i] = s[i + 1]
      /\ Tail(s \o t) \in Seq(S) /\ Len(Tail(s \o t)) = Len(s) + Len(t) - 1
      /\ \A i \in 1 .. Len(s) + Len(t) - 1 : Tail(s \o t)[i] = (s \o t)[i + 1]
  BY <1>0, <1>1, <1>2, HeadTailProperties
<1>5. /\ Tail(s) \o t \in Seq(S) /\ Len(Tail(s) \o t) = Len(s) - 1 + Len(t)
      /\ \A i \in 1 .. Len(s) - 1 + Len(t) :
           (Tail(s) \o t)[i] = IF i <= Len(s) - 1 THEN Tail(s)[i] ELSE t[i - (Len(s) - 1)]
  BY <1>1, <1>4, ConcatProperties
<1>6. \A i \in 1 .. Len(s) + Len(t) - 1 : Tail(s \o t)[i] = (Tail(s) \o t)[i]
  <2> SUFFICES ASSUME NEW i \in 1 .. Len(s) + Len(t) - 1
               PROVE  Tail(s \o t)[i] = (Tail(s) \o t)[i]
    OBVIOUS
  <2>1. i + 1 \in 1 .. Len(s) + Len(t) /\ i \in 1 .. Len(s) - 1 + Len(t) /\ i \in Int
    BY <1>1
  <2>2. Tail(s \o t)[i] = IF i + 1 <= Len(s) THEN s[i + 1] ELSE t[i + 1 - Len(s)]
    BY <1>1, <1>4, <2>1
  <2>3. i + 1 - Len(s) = i - (Len(s) - 1) /\ (i + 1 <= Len(s) <=> i <= Len(s) - 1)
    BY <1>1, <2>1
  <2>4. i <= Len(s) - 1 => i \in 1 .. Len(s) - 1
    BY <1>1, <2>1
  <2> QED BY <1>4, <1>5, <2>1, <2>2, <2>3, <2>4
<1>7. Len(Tail(s \o t)) = Len(Tail(s) \o t)
  BY <1>1, <1>4, <1>5
<1> QED BY <1>2, <1>3, <1>4, <1>5, <1>6, <1>7, SeqEqual

-----------------------------------------------------------------------------
(* The invariant.                                                          *)

Begin == Functor("startInLoop", 0)
Reset == Functor("resetChannel", 0)
ClientFunctors ==
  [op : {"startInLoop", "resetChannel", "connectDestroyed"}, id : {0}]
    \cup [op : {"cancel"}, id : Nat]

Waits(f) == Holds(functors, f) \/ Holds(pending, f)

FlagsOK ==
  /\ retry_ \in BOOLEAN /\ wanted \in BOOLEAN /\ connect_ \in BOOLEAN
  /\ connection_ \in BOOLEAN /\ restarting \in BOOLEAN /\ stopped \in BOOLEAN
  /\ gaveUp \in BOOLEAN /\ held \in BOOLEAN /\ risky \in BOOLEAN

ClientTypeOK ==
  /\ FlagsOK
  /\ state_ \in {"kDisconnected", "kConnecting", "kConnected"}
  /\ channel_ \in {"none", "polled", "removed"}
  /\ timers \in SUBSET Nat /\ expired \in SUBSET Nat /\ timerId_ \in Nat
  /\ dying \in Int /\ open \in Int
  /\ phase \in {"poll", "timers", "dispatch", "functors"}
  /\ active \in SUBSET {"connector", "connection", "orphan"}
  /\ pending \in Seq(ClientFunctors) /\ functors \in Seq(ClientFunctors)
  /\ call \in {"none", "start", "stop", "cancel"} /\ calls \in Nat
  /\ failures \in Nat /\ conns \in Nat
  /\ client \in {"alive", "destroyed"} /\ connector \in {"alive", "kept", "dead"}
  /\ orphan \in {"none", "held", "freed"}

(* What the phases of the loop leave behind. *)
PhaseInv ==
  /\ functors # <<>> => phase = "functors"
  /\ Holds(pending, Reset) => phase = "dispatch"
  /\ active # {} => phase \in {"timers", "dispatch"}
  /\ expired # {} <=> phase = "timers"
  /\ restarting => phase = "dispatch"
  /\ "connector" \in active => channel_ = "polled"
  /\ "connection" \in active => connection_ /\ channel_ = "none"
  /\ "orphan" \in active => orphan # "none"

(* The first attempt has not begun. *)
Unstarted == calls = 0 \/ call = "start" \/ Waits(Begin)

(* An attempt, a timer and a connection each have a state_ of their own. *)
AttemptInv ==
  /\ channel_ = "polled" <=> state_ = "kConnecting"
  /\ connection_ \/ restarting \/ orphan = "held" => state_ = "kConnected"
  /\ restarting => ~connection_ /\ channel_ = "none"
  /\ timers \cup expired # {} => state_ = "kDisconnected"
  /\ timers \cup expired \subseteq {timerId_} /\ timers \cap expired = {}
  /\ Unstarted => state_ = "kDisconnected" /\ channel_ = "none"
       /\ timers \cup expired = {}

QueueInv ==
  /\ Once(functors, Begin) /\ Once(pending, Begin)
  /\ ~(Holds(functors, Begin) /\ Holds(pending, Begin))
  /\ call = "start" \/ calls = 0 => ~Waits(Begin)
  /\ calls = 0 => call = "none" /\ ~stopped
  /\ Once(functors, Reset) /\ Once(pending, Reset)
  /\ channel_ = "removed" <=> Waits(Reset)

LifeInv ==
  /\ connector = "alive" <=> client = "alive"
  /\ client = "destroyed" => ~connection_ /\ ~restarting /\ call = "none"
  /\ orphan # "none" => connector = "dead"
  /\ connector = "kept" => ~connect_
  /\ connector = "dead" => timers \cup expired = {}
  /\ connector = "dead" /\ (channel_ = "polled" \/ Waits(Begin) \/ Waits(Reset)) => risky
  /\ orphan = "freed" => risky

StopInv ==
  /\ restarting => retry_
  /\ (stopped \/ call = "cancel") /\ ~retry_ => ~connect_

Owned == (IF channel_ = "polled" THEN 1 ELSE 0)
           + (IF connection_ \/ orphan = "held" THEN 1 ELSE 0) + dying

(* handleWrite has left its socket behind, and no attempt will be made.    *)
Leaked ==
  state_ = "kConnected" /\ ~connect_ /\ ~connection_ /\ ~restarting /\ calls > 0

SocketInv == open = Owned \/ Leaked

SafeInv ==
  /\ AssertionsHold /\ PhaseInv /\ AttemptInv /\ QueueInv
  /\ LifeInv /\ StopInv /\ SocketInv

-----------------------------------------------------------------------------
(* Queues.                                                                 *)

(* The functors that matter are different ones. *)
LEMMA ClientFunctorFacts ==
  /\ Begin \in ClientFunctors /\ Reset \in ClientFunctors
  /\ Functor("connectDestroyed", 0) \in ClientFunctors
  /\ \A id \in Nat : Functor("cancel", id) \in ClientFunctors
  /\ Begin # Reset
  /\ \A id : Functor("connectDestroyed", id) \notin {Begin, Reset}
             /\ Functor("cancel", id) \notin {Begin, Reset}
  /\ \A f \in ClientFunctors : /\ f.op = "startInLoop" => f = Begin
                               /\ f.op = "resetChannel" => f = Reset
                               /\ f = Begin => f.op = "startInLoop"
                               /\ f = Reset => f.op = "resetChannel"
BY DEF Begin, Reset, Functor, ClientFunctors

(* The queues of the next state. *)
LEMMA NextQueues ==
  /\ \A f \in {Begin, Reset} :
       /\ Waits(f) <=> Holds(functors, f) \/ Holds(pending, f)
  /\ Holds(functors, Begin)' <=> Holds(functors', Begin)
  /\ Holds(pending, Begin)' <=> Holds(pending', Begin)
  /\ Holds(functors, Reset)' <=> Holds(functors', Reset)
  /\ Holds(pending, Reset)' <=> Holds(pending', Reset)
  /\ Once(functors, Begin)' <=> Once(functors', Begin)
  /\ Once(pending, Begin)' <=> Once(pending', Begin)
  /\ Once(functors, Reset)' <=> Once(functors', Reset)
  /\ Once(pending, Reset)' <=> Once(pending', Reset)
  /\ Waits(Begin)' <=> Holds(functors', Begin) \/ Holds(pending', Begin)
  /\ Waits(Reset)' <=> Holds(functors', Reset) \/ Holds(pending', Reset)
BY DEF Waits, Holds, Once, Begin, Reset, Functor

(* queueInLoop. *)
LEMMA PendingGains ==
  ASSUME ClientTypeOK, NEW f \in ClientFunctors, pending' = Append(pending, f)
  PROVE  /\ pending' \in Seq(ClientFunctors)
         /\ \A y : Holds(pending', y) <=> Holds(pending, y) \/ y = f
         /\ \A y : Once(pending, y) /\ ~(y = f /\ Holds(pending, y))
              => Once(pending', y)
<1>1. pending \in Seq(ClientFunctors)
  BY DEF ClientTypeOK, FlagsOK
<1> QED BY <1>1, AppendHolds, AppendProperties

(* A loop that begins on its first functor. *)
LEMMA FunctorsLose ==
  ASSUME ClientTypeOK, functors # <<>>, functors' = Tail(functors)
  PROVE  /\ functors' \in Seq(ClientFunctors)
              /\ Head(functors) \in ClientFunctors
         /\ Holds(functors, Head(functors))
         /\ \A y : Holds(functors', y) => Holds(functors, y)
         /\ \A y : Holds(functors, y) /\ y # Head(functors)
              => Holds(functors', y)
         /\ \A y : Once(functors, y) => Once(functors', y)
         /\ Once(functors, Head(functors)) => ~Holds(functors',
              Head(functors))
<1>1. functors \in Seq(ClientFunctors)
  BY DEF ClientTypeOK, FlagsOK
<1> QED BY <1>1, TailHolds, HeadTailProperties

(* Nothing waits in an empty queue.                                         *)
LEMMA NothingHeld == \A y : ~Holds(<<>>, y) /\ Once(<<>>, y)
BY DEF Holds, Once

(* A functor of the Connector that waits keeps the Connector alive.         *)
LEMMA WaitsIsQueued ==
  ASSUME ClientTypeOK, Waits(Begin) \/ Waits(Reset)
  PROVE  ConnectorQueued
<1>1. PICK f \in {Begin, Reset} : Holds(functors, f) \/ Holds(pending, f)
  BY DEF Waits
<1>2. OfConnector(f)
  BY DEF OfConnector, Begin, Reset, Functor
<1>3. /\ pending \in Seq(ClientFunctors) /\ functors \in Seq(ClientFunctors)
      /\ Len(pending) \in Nat /\ Len(functors) \in Nat
      /\ DOMAIN pending = 1 .. Len(pending)
           /\ DOMAIN functors = 1 .. Len(functors)
  BY LenProperties DEF ClientTypeOK, FlagsOK
<1>4. /\ DOMAIN (pending \o functors) = 1 .. Len(pending) + Len(functors)
      /\ \A i \in 1 .. Len(pending) + Len(functors) :
           (pending \o functors)[i] =
             IF i <= Len(pending) THEN pending[i] ELSE functors[i - Len(pending)]
  BY <1>3, ConcatProperties, LenProperties
<1>5. \E i \in DOMAIN (pending \o functors) : (pending \o functors)[i] = f
  <2>1. CASE Holds(pending, f)
    BY <1>3, <1>4, <2>1 DEF Holds
  <2>2. CASE Holds(functors, f)
    <3>1. PICK i \in 1 .. Len(functors) : functors[i] = f
      BY <1>3, <2>2 DEF Holds
    <3>2. /\ i + Len(pending) \in 1 .. Len(pending) + Len(functors)
          /\ ~(i + Len(pending) <= Len(pending))
               /\ i + Len(pending) - Len(pending) = i
      BY <1>3
    <3> QED BY <1>4, <3>1, <3>2
  <2> QED BY <1>1, <2>1, <2>2
<1> QED BY <1>2, <1>5 DEF ConnectorQueued, ToSet

-----------------------------------------------------------------------------
(* Types.                                                                  *)

(* startInLoop, connect and retry leave every variable of its type.         *)
LEMMA StartTypes ==
  ASSUME ClientTypeOK, NEW state \in {"kDisconnected", "kConnecting", "kConnected"},
         NEW wish, StartInLoop(state, wish)
  PROVE  /\ state_' \in {"kDisconnected", "kConnecting", "kConnected"}
         /\ channel_' \in {"none", "polled", "removed"}
         /\ timers' \in SUBSET Nat /\ timerId_' \in Nat
         /\ open' \in Int /\ failures' \in Nat /\ gaveUp' \in BOOLEAN
<1>1. CASE Connecting
  BY <1>1 DEF Connecting, ClientTypeOK, FlagsOK
<1>2. CASE Retry(open + 1, TRUE) /\ UNCHANGED <<channel_, gaveUp, broken>>
  <2>1. failures + 1 \in Nat /\ open + 1 - 1 \in Int
    BY DEF ClientTypeOK, FlagsOK
  <2>2. timers' \in SUBSET Nat /\ timerId_' \in Nat
    BY <1>2, <2>1 DEF Retry, ClientTypeOK, FlagsOK
  <2>3. open' \in Int /\ failures' \in Nat
    BY <1>2, <2>1 DEF Retry
  <2>4. state_' = "kDisconnected" /\ channel_' = channel_ /\ gaveUp' = gaveUp
    BY <1>2 DEF Retry
  <2> QED BY <2>2, <2>3, <2>4 DEF ClientTypeOK, FlagsOK
<1>3. CASE UNCHANGED <<channel_, timers, timerId_, open, failures>>
  BY <1>3 DEF StartInLoop, Connect, ClientTypeOK, FlagsOK, Connecting,
              Retry
<1> QED BY <1>1, <1>2, <1>3 DEF StartInLoop, Connect

(* Every step of the loop, the timers and the owner keeps the types.        *)
LEMMA ClientTypes == ClientTypeOK /\ [Next]_vars => ClientTypeOK'
<1> SUFFICES ASSUME ClientTypeOK, [Next]_vars PROVE ClientTypeOK'
  OBVIOUS
<1> USE DEF lifeVars, connectorVars, loopVars, userVars
<1>1. ASSUME Poll PROVE ClientTypeOK'
  <2>1. timers' \in SUBSET Nat /\ expired' \in SUBSET Nat
        /\ active' \in SUBSET {"connector", "connection", "orphan"}
    BY <1>1 DEF Poll, Registered, ClientTypeOK, FlagsOK
  <2>2. phase' \in {"dispatch", "timers"}
        /\ UNCHANGED <<connect_, state_, channel_, timerId_, connection_, dying,
                       open,
                       pending, functors, restarting, userVars, failures,
                         conns,
                       gaveUp, broken, lifeVars>>
    BY <1>1 DEF Poll
  <2> QED BY <2>1, <2>2 DEF ClientTypeOK, FlagsOK
<1>2. ASSUME RetryTimer PROVE ClientTypeOK'
  <2>1. expired' \in SUBSET Nat /\ phase' \in {"dispatch", phase}
        /\ StartInLoop(state_, connect_)
        /\ UNCHANGED <<connect_, connection_, dying, active, pending,
                       functors,
                       restarting, userVars, conns, lifeVars>>
    BY <1>2 DEF RetryTimer, ClientTypeOK, FlagsOK
  <2>2. state_ \in {"kDisconnected", "kConnecting", "kConnected"}
    BY DEF ClientTypeOK, FlagsOK
  <2> QED BY <2>1, <2>2, StartTypes DEF ClientTypeOK, FlagsOK
<1>3. ASSUME ConnectorEvent PROVE ClientTypeOK'
  <2>1. channel_' = "removed" /\ pending' = Append(pending, Reset)
        /\ active' = active \ {"connector"}
        /\ UNCHANGED <<connect_, dying, phase, expired, functors, restarting,
                       userVars,
                       lifeVars, gaveUp>>
    BY <1>3 DEF ConnectorEvent, HandleError, HandleWrite,
                RemoveAndResetChannel, Reset
  <2>2. pending' \in Seq(ClientFunctors)
    BY <2>1, PendingGains, ClientFunctorFacts
  <2>3. /\ state_' \in {"kDisconnected", "kConnected"}
        /\ timers' \in SUBSET Nat /\ timerId_' \in Nat
        /\ open' \in Int /\ failures' \in Nat
        /\ connection_' \in BOOLEAN /\ conns' \in Nat
    <3>1. CASE HandleWrite
      <4>1. conns + 1 \in Nat
        BY DEF ClientTypeOK, FlagsOK
      <4>2. connection_' \in BOOLEAN /\ conns' \in Nat
        BY <3>1, <4>1 DEF HandleWrite, NewConnection, ClientTypeOK, FlagsOK
      <4> QED BY <3>1, <4>2 DEF HandleWrite, ClientTypeOK, FlagsOK
    <3>2. CASE HandleError
      <4>1. failures + 1 \in Nat /\ open - 1 \in Int
        BY DEF ClientTypeOK, FlagsOK
      <4> QED BY <3>2, <4>1 DEF HandleError, Retry, ClientTypeOK, FlagsOK
    <3> QED BY <1>3, <3>1, <3>2 DEF ConnectorEvent
  <2>4. active' \in SUBSET {"connector", "connection", "orphan"}
    BY <2>1 DEF ClientTypeOK, FlagsOK
  <2> QED BY <2>1, <2>2, <2>3, <2>4 DEF ClientTypeOK, FlagsOK
<1>4. ASSUME RemoveConnection \/ RemoveOrphan PROVE ClientTypeOK'
  <2>1. pending' = Append(pending, Functor("connectDestroyed", 0))
    BY <1>4 DEF RemoveConnection, RemoveOrphan
  <2>2. pending' \in Seq(ClientFunctors)
    BY <2>1, PendingGains, ClientFunctorFacts
  <2>3. active' \in SUBSET {"connector", "connection", "orphan"} /\ dying' \in Int
    <3>1. active' \subseteq active /\ dying' = dying + 1
      BY <1>4 DEF RemoveConnection, RemoveOrphan
    <3>2. active \in SUBSET {"connector", "connection", "orphan"} /\ dying \in Int
      BY DEF ClientTypeOK, FlagsOK
    <3> QED BY <3>1, <3>2
  <2>4. CASE RemoveConnection
    <3>1. restarting' \in BOOLEAN /\ connection_' = FALSE
      BY <2>4 DEF RemoveConnection
    <3>2. UNCHANGED <<connect_, connectorVars, phase, expired, functors,
                      userVars,
                      conns, lifeVars>>
      BY <2>4 DEF RemoveConnection
    <3>3. FlagsOK'
      BY <3>1, <3>2 DEF ClientTypeOK, FlagsOK
    <3> QED BY <2>2, <2>3, <3>2, <3>3 DEF ClientTypeOK
  <2>5. CASE RemoveOrphan
    BY <2>2, <2>3, <2>5 DEF RemoveOrphan, ClientTypeOK, FlagsOK
  <2> QED BY <1>4, <2>4, <2>5
<1>5. ASSUME Restart PROVE ClientTypeOK'
  <2>1. /\ StartInLoop("kDisconnected", TRUE) /\ restarting' = FALSE
             /\ connect_' = TRUE
        /\ UNCHANGED <<connection_, dying, loopVars, pending, userVars,
                       conns, lifeVars>>
    BY <1>5 DEF Restart
  <2>2. /\ state_' \in {"kDisconnected", "kConnecting", "kConnected"}
        /\ channel_' \in {"none", "polled", "removed"}
        /\ timers' \in SUBSET Nat /\ timerId_' \in Nat
        /\ open' \in Int /\ failures' \in Nat /\ gaveUp' \in BOOLEAN
    BY <2>1, StartTypes
  <2>3. FlagsOK'
    BY <2>1, <2>2 DEF ClientTypeOK, FlagsOK
  <2> QED BY <2>1, <2>2, <2>3 DEF ClientTypeOK
<1>6. ASSUME SwapPending PROVE ClientTypeOK'
  BY <1>6, EmptySeq DEF SwapPending, ClientTypeOK, FlagsOK
<1>7. ASSUME RunFunctor PROVE ClientTypeOK'
  <2>1. functors' \in Seq(ClientFunctors)
    BY <1>7, FunctorsLose DEF RunFunctor
  <2>2. UNCHANGED <<connect_, connection_, phase, expired, active,
                    pending,
                    restarting, userVars, conns, lifeVars>>
    BY <1>7 DEF RunFunctor
  <2>3. /\ state_' \in {"kDisconnected", "kConnecting", "kConnected"}
        /\ channel_' \in {"none", "polled", "removed"}
        /\ timers' \in SUBSET Nat /\ timerId_' \in Nat
        /\ open' \in Int /\ failures' \in Nat /\ gaveUp' \in BOOLEAN /\ dying' \in Int
    <3>1. CASE StartInLoop(state_, connect_) /\ UNCHANGED dying
      BY <3>1, StartTypes DEF ClientTypeOK, FlagsOK
    <3>2. ASSUME NEW id, Cancel(id)
          PROVE  timers' \in SUBSET Nat /\ UNCHANGED <<state_, channel_, timerId_,
                                                       open,
                                                       failures, gaveUp, dying>>
      BY <3>2 DEF Cancel, ClientTypeOK, FlagsOK
    <3>3. CASE ResetChannel
      BY <3>3 DEF ResetChannel, ClientTypeOK, FlagsOK
    <3>4. CASE ConnectDestroyed
      BY <3>4 DEF ConnectDestroyed, ClientTypeOK, FlagsOK
    <3>5. \/ StartInLoop(state_, connect_) /\ UNCHANGED dying
          \/ Cancel(Head(functors).id) \/ ResetChannel
               \/ ConnectDestroyed
      BY <1>7 DEF RunFunctor
    <3> QED BY <3>1, <3>2, <3>3, <3>4, <3>5 DEF ClientTypeOK, FlagsOK
  <2> QED BY <2>1, <2>2, <2>3 DEF ClientTypeOK, FlagsOK
<1>8. ASSUME EndFunctors PROVE ClientTypeOK'
  BY <1>8 DEF EndFunctors, ClientTypeOK, FlagsOK
<1>9. ASSUME Destroy \/ LetGo PROVE ClientTypeOK'
  <2>1. timers' \in SUBSET Nat /\ connect_' \in BOOLEAN /\ connection_' \in BOOLEAN
        /\ risky' \in BOOLEAN /\ orphan' \in {"none", "held", "freed"} /\ open' \in Int
        /\ client' \in {"alive", "destroyed"} /\ connector' \in {"alive", "kept", "dead"}
    <3>1. CASE LetGo
      BY <3>1 DEF LetGo, ClientTypeOK, FlagsOK
    <3>2. CASE Destroy /\ DestroyConnected
      <4>1. (~held \/ ConnectorQueued) \in BOOLEAN /\ open - 1 \in Int
        BY DEF ClientTypeOK, FlagsOK
      <4> QED BY <3>2, <4>1 DEF Destroy, DestroyConnected, ClientTypeOK,
                                FlagsOK
    <3>3. CASE Destroy /\ DestroyUnconnected
      BY <3>3 DEF Destroy, DestroyUnconnected, ClientTypeOK, FlagsOK
    <3> QED BY <1>9, <3>1, <3>2, <3>3 DEF Destroy
  <2>2. UNCHANGED <<state_, channel_, timerId_, failures, gaveUp, broken, dying,
                    loopVars,
                    pending, restarting, userVars, conns, held>>
    BY <1>9 DEF Destroy, LetGo
  <2> QED BY <2>1, <2>2 DEF ClientTypeOK, FlagsOK
<1>10. ASSUME UseDestroyed \/ UNCHANGED vars PROVE ClientTypeOK'
  <2>1. CASE UseDestroyed
    BY <2>1 DEF UseDestroyed, ClientTypeOK, FlagsOK
  <2>2. CASE UNCHANGED vars
    BY <2>2 DEF vars, ClientTypeOK, FlagsOK
  <2> QED BY <1>10, <2>1, <2>2
<1>11. ASSUME CallStart \/ CallCancel PROVE ClientTypeOK'
  <2>1. pending' \in Seq(ClientFunctors)
    <3>1. timerId_ \in Nat
      BY DEF ClientTypeOK, FlagsOK
    <3> QED BY <1>11, <3>1, PendingGains, ClientFunctorFacts
       DEF CallStart, CallCancel, Begin
  <2>2. CASE CallStart
    BY <2>1, <2>2 DEF CallStart, ClientTypeOK, FlagsOK
  <2>3. CASE CallCancel
    BY <2>1, <2>3 DEF CallCancel, ClientTypeOK, FlagsOK
  <2> QED BY <1>11, <2>2, <2>3
<1>12. ASSUME CallConnect \/ CallStop \/ CallStopConnector
                \/ CallDisconnect \/ EnableRetry
       PROVE  ClientTypeOK'
  <2>1. calls + 1 \in Nat
    BY DEF ClientTypeOK, FlagsOK
  <2>2. CASE CallConnect
    BY <2>1, <2>2 DEF CallConnect, ClientTypeOK, FlagsOK
  <2>3. CASE CallStop \/ CallStopConnector \/ CallDisconnect
               \/ EnableRetry
    <3>1. FlagsOK'
      BY <2>3 DEF CallStop, CallStopConnector, CallDisconnect,
                  EnableRetry, ClientTypeOK, FlagsOK
    <3>2. call' \in {"none", "start", "stop", "cancel"} /\ calls' \in Nat
      BY <2>1, <2>3 DEF CallStop, CallStopConnector, CallDisconnect,
                        EnableRetry, ClientTypeOK
    <3>3. UNCHANGED <<connectorVars, dying, loopVars, pending, conns,
                      client, connector, orphan>>
      BY <2>3 DEF CallStop, CallStopConnector, CallDisconnect,
                  EnableRetry
    <3> QED BY <3>1, <3>2, <3>3 DEF ClientTypeOK
  <2> QED BY <1>12, <2>2, <2>3
<1> QED BY <1>1, <1>2, <1>3, <1>4, <1>5, <1>6, <1>7, <1>8, <1>9, <1>10, <1>11, <1>12
        DEF Next, LoopStep, CallStep

-----------------------------------------------------------------------------
(* One lemma for each kind of step.                                        *)

(* What waits in the queues while none of them changes.                     *)
LEMMA QueuesUnchanged ==
  ASSUME UNCHANGED <<functors, pending>>
  PROVE  /\ Holds(functors, Begin)' <=> Holds(functors, Begin)
         /\ Holds(pending, Begin)' <=> Holds(pending, Begin)
         /\ Holds(functors, Reset)' <=> Holds(functors, Reset)
         /\ Holds(pending, Reset)' <=> Holds(pending, Reset)
         /\ Once(functors, Begin)' <=> Once(functors, Begin)
         /\ Once(pending, Begin)' <=> Once(pending, Begin)
         /\ Once(functors, Reset)' <=> Once(functors, Reset)
         /\ Once(pending, Reset)' <=> Once(pending, Reset)
         /\ Waits(Begin)' <=> Waits(Begin)
         /\ Waits(Reset)' <=> Waits(Reset)
BY DEF Waits, Holds, Once, Begin, Reset, Functor

(* The user's calls, but for those that queue something. *)
LEMMA CallsKeep ==
  ASSUME ClientTypeOK, SafeInv,
         CallConnect \/ CallStop \/ CallStopConnector
           \/ CallDisconnect \/ EnableRetry
  PROVE  SafeInv'
<1> USE DEF connectorVars, loopVars, lifeVars, MayCall, SafeInv
<1>1. UNCHANGED <<functors, pending>>
  BY DEF CallConnect, CallStop, CallStopConnector,
         CallDisconnect, EnableRetry
<1>2. AssertionsHold' /\ PhaseInv'
  BY <1>1, QueuesUnchanged DEF CallConnect, CallStop,
                               CallStopConnector, CallDisconnect,
                               EnableRetry, AssertionsHold, PhaseInv
<1>7. AttemptInv'
  <2>1. Unstarted' => Unstarted
    BY <1>1, QueuesUnchanged DEF CallConnect, CallStop,
                                 CallStopConnector, CallDisconnect,
                                 EnableRetry, Unstarted, ClientTypeOK
  <2>2. UNCHANGED <<connectorVars, connection_, loopVars, restarting, orphan>>
    BY DEF CallConnect, CallStop, CallStopConnector,
           CallDisconnect, EnableRetry
  <2> QED BY <2>1, <2>2 DEF AttemptInv
<1>3. QueueInv'
  BY <1>1, QueuesUnchanged DEF CallConnect, CallStop,
                               CallStopConnector, CallDisconnect,
                               EnableRetry, QueueInv, ClientTypeOK
<1>4. LifeInv'
  BY <1>1, QueuesUnchanged DEF CallConnect, CallStop,
                               CallStopConnector, CallDisconnect,
                               EnableRetry, LifeInv
<1>5. StopInv'
  BY DEF CallConnect, CallStop, CallStopConnector,
         CallDisconnect, EnableRetry, StopInv, QueueInv
<1>6. SocketInv'
  BY DEF CallConnect, CallStop, CallStopConnector,
         CallDisconnect, EnableRetry, SocketInv, Owned, Leaked, ClientTypeOK
<1> QED BY <1>2, <1>3, <1>4, <1>5, <1>6, <1>7

(* poll reports expired timers and ready channels that are there.          *)
LEMMA PollKeeps ==
  ASSUME ClientTypeOK, SafeInv, broken = "none", Poll
  PROVE  SafeInv'
<1> USE DEF SafeInv, userVars, lifeVars
<1>1. UNCHANGED <<functors, pending>>
  BY DEF Poll
<1>2. PICK due \in SUBSET timers, ready \in SUBSET Registered :
        /\ expired' = due /\ timers' = timers \ due /\ active' = ready
        /\ phase' = IF due = {} THEN "dispatch" ELSE "timers"
  BY DEF Poll
<1>3. phase = "poll" /\ UNCHANGED <<connect_, state_, channel_, timerId_,
                                          connection_, dying,
        open, restarting, userVars, conns, broken, lifeVars>>
  BY DEF Poll
<1>4. functors = <<>> /\ ~Holds(pending, Reset) /\ expired = {}
        /\ active = {} /\ ~restarting
  BY <1>3 DEF PhaseInv
<1>5. PhaseInv'
  <2>1. channel_ # "removed"
    BY <1>4, NothingHeld DEF QueueInv, Waits
  <2>2. /\ "connector" \in ready => channel_ = "polled"
        /\ "connection" \in ready => connection_ /\ channel_ = "none"
        /\ "orphan" \in ready => orphan # "none"
    <3>1. connection_ => channel_ # "polled"
      BY DEF AttemptInv
    <3> QED BY <2>1, <3>1 DEF Registered, ClientTypeOK
  <2> QED BY <1>1, <1>2, <1>3, <1>4, <2>2, QueuesUnchanged DEF PhaseInv
<1>6. AttemptInv'
  BY <1>1, <1>2, <1>3, <1>4, QueuesUnchanged DEF AttemptInv, Unstarted
<1>7. AssertionsHold' /\ QueueInv'
  BY <1>1, <1>3, QueuesUnchanged DEF AssertionsHold, QueueInv
<1>8. LifeInv'
  BY <1>1, <1>2, <1>3, <1>4, QueuesUnchanged DEF LifeInv
<1>9. StopInv' /\ SocketInv'
  BY <1>3 DEF StopInv, SocketInv, Owned, Leaked
<1> QED BY <1>5, <1>6, <1>7, <1>8, <1>9

(* The end of a batch of doPendingFunctors.                                 *)
LEMMA EndFunctorsKeeps ==
  ASSUME ClientTypeOK, SafeInv, broken = "none", EndFunctors
  PROVE  SafeInv'
<1> USE DEF SafeInv, connectorVars, userVars, lifeVars
<1>1. UNCHANGED <<functors, pending>>
  BY DEF EndFunctors
<1>2. PhaseInv'
  BY <1>1, QueuesUnchanged DEF EndFunctors, PhaseInv
<1>3. AttemptInv' /\ AssertionsHold' /\ QueueInv'
  BY <1>1, QueuesUnchanged DEF EndFunctors, AttemptInv, Unstarted,
                               AssertionsHold, QueueInv
<1>4. LifeInv' /\ StopInv' /\ SocketInv'
  BY <1>1, QueuesUnchanged DEF EndFunctors, LifeInv, StopInv, SocketInv, Owned,
                               Leaked
<1> QED BY <1>2, <1>3, <1>4

(* A loop that reaches something destroyed does so by a risk that was      *)
(* taken: otherwise the connector's timers were cancelled, its channel was *)
(* off the poller and none of its functors were queued.                    *)
LEMMA UseDestroyedKeeps ==
  ASSUME ClientTypeOK, SafeInv, broken = "none", UseDestroyed
  PROVE  SafeInv'
<1> USE DEF SafeInv, loopVars, userVars, lifeVars
<1>1. UNCHANGED <<functors, pending>>
  BY DEF UseDestroyed
<1>2. risky
  <2>1. CASE phase = "timers" /\ connector = "dead"
    BY <2>1 DEF PhaseInv, LifeInv
  <2>2. CASE "orphan" \in active /\ orphan = "freed"
    BY <2>2 DEF LifeInv
  <2>3. CASE "connector" \in active /\ connector = "dead"
    BY <2>3 DEF PhaseInv, LifeInv
  <2>4. CASE functors # <<>> /\ OfDeadConnector(Head(functors))
    <3>1. functors \in Seq(ClientFunctors)
      BY DEF ClientTypeOK
    <3>2. Head(functors) \in ClientFunctors /\ Holds(functors,
            Head(functors))
      BY <2>4, <3>1, TailHolds
    <3>3. Waits(Begin) \/ Waits(Reset)
      BY <2>4, <3>2, ClientFunctorFacts DEF OfDeadConnector, OfConnector,
         Waits
    <3> QED BY <2>4, <3>3 DEF OfDeadConnector, LifeInv
  <2> QED BY <2>1, <2>2, <2>3, <2>4 DEF UseDestroyed, ReachesDestroyed,
     ClientTypeOK
<1>3. AssertionsHold'
  BY <1>2 DEF UseDestroyed, AssertionsHold
<1>4. PhaseInv' /\ AttemptInv' /\ QueueInv'
  BY <1>1, QueuesUnchanged DEF UseDestroyed, PhaseInv, AttemptInv, Unstarted,
                               QueueInv
<1>5. LifeInv' /\ StopInv' /\ SocketInv'
  BY <1>1, QueuesUnchanged DEF UseDestroyed, LifeInv, StopInv, SocketInv, Owned,
                               Leaked
<1> QED BY <1>3, <1>4, <1>5

(* ~Connector, a second after ~TcpClient.                                  *)
LEMMA LetGoKeeps ==
  ASSUME ClientTypeOK, SafeInv, broken = "none", LetGo
  PROVE  SafeInv'
<1> USE DEF SafeInv, loopVars, userVars
<1>1. UNCHANGED <<functors, pending>>
  BY DEF LetGo
<1>2. timers' = {} /\ expired = {}
  BY DEF LetGo, PhaseInv, AttemptInv
<1>3. ~Waits(Begin) /\ ~Waits(Reset)
  BY WaitsIsQueued DEF LetGo
<1>4. LifeInv'
  BY <1>1, <1>2, <1>3, QueuesUnchanged DEF LetGo, LifeInv, FlagsOK, ClientTypeOK
<1>5. AttemptInv'
  BY <1>1, <1>2, QueuesUnchanged DEF LetGo, AttemptInv, Unstarted
<1>6. AssertionsHold' /\ PhaseInv' /\ QueueInv'
  BY <1>1, QueuesUnchanged DEF LetGo, AssertionsHold, PhaseInv, QueueInv
<1>7. StopInv' /\ SocketInv'
  BY DEF LetGo, StopInv, SocketInv, Owned, Leaked
<1> QED BY <1>4, <1>5, <1>6, <1>7

(* ~TcpClient. *)
LEMMA DestroyKeeps ==
  ASSUME ClientTypeOK, SafeInv, broken = "none", Destroy
  PROVE  SafeInv'
<1> USE DEF SafeInv, loopVars, userVars
<1>1. UNCHANGED <<functors, pending>>
  BY DEF Destroy
<1>2. phase = "functors" /\ active = {} /\ expired = {} /\ ~restarting
        /\ connector = "alive"
      /\ orphan = "none"
  BY DEF Destroy, PhaseInv, LifeInv
<1>3. timers' = {}
  BY DEF Destroy, AttemptInv
<1>4. AssertionsHold' /\ PhaseInv' /\ QueueInv'
  BY <1>1, <1>2, QueuesUnchanged DEF Destroy, DestroyConnected,
                                     DestroyUnconnected, AssertionsHold,
                                     PhaseInv, QueueInv
<1>5. AttemptInv'
  BY <1>1, <1>2, <1>3, QueuesUnchanged DEF Destroy, DestroyConnected,
     DestroyUnconnected, AttemptInv, Unstarted
<1>6. LifeInv'
  <2>1. CASE DestroyConnected
    <3>1. channel_ # "polled"
      BY <2>1 DEF DestroyConnected, AttemptInv
    <3>2. Waits(Begin) \/ Waits(Reset) => risky'
      BY <2>1, WaitsIsQueued DEF DestroyConnected
    <3> QED BY <1>1, <1>2, <1>3, <2>1, <3>1, <3>2, QueuesUnchanged
            DEF Destroy, DestroyConnected, LifeInv
  <2>2. CASE DestroyUnconnected
    BY <1>1, <1>2, <1>3, <2>2, QueuesUnchanged DEF Destroy,
       DestroyUnconnected, LifeInv
  <2> QED BY <2>1, <2>2 DEF Destroy
<1>7. StopInv' /\ SocketInv'
  BY <1>2 DEF Destroy, DestroyConnected, DestroyUnconnected, StopInv,
              SocketInv, Owned, Leaked, ClientTypeOK
<1> QED BY <1>4, <1>5, <1>6, <1>7

(* Connector::start and stop queue a functor each.                         *)
LEMMA CallsQueueKeep ==
  ASSUME ClientTypeOK, SafeInv, CallStart \/ CallCancel
  PROVE  SafeInv'
<1> USE DEF connectorVars, loopVars, lifeVars, SafeInv
<1>1. PICK f \in ClientFunctors :
        /\ pending' = Append(pending, f) /\ f # Reset
        /\ f = Begin <=> CallStart
  <2>1. CASE CallStart
    BY <2>1, ClientFunctorFacts DEF CallStart, Begin
  <2>2. CASE CallCancel /\ ~CallStart
    BY <2>2, ClientFunctorFacts DEF CallCancel, ClientTypeOK
  <2> QED BY <2>1, <2>2
<1>2. functors' = functors
  BY DEF CallStart, CallCancel
<1>3. /\ \A y : Holds(pending', y) <=> Holds(pending, y) \/ y = f
      /\ \A y : Once(pending, y) /\ ~(y = f /\ Holds(pending, y))
           => Once(pending', y)
  BY <1>1, PendingGains
<1>4. /\ UNCHANGED <<connect_, connectorVars, connection_, dying, loopVars,
                     restarting,
                     conns, lifeVars, retry_, calls>>
      /\ call' = "none" /\ calls # 0
      /\ CallStart => call = "start" /\ stopped' = stopped
      /\ ~CallStart => call = "cancel" /\ stopped' = TRUE
  BY DEF CallStart, CallCancel, QueueInv
<1>5. /\ Unstarted' <=> Unstarted
      /\ AssertionsHold' /\ PhaseInv' /\ AttemptInv'
  BY <1>1, <1>2, <1>3, <1>4, NextQueues, ClientFunctorFacts
     DEF AssertionsHold, PhaseInv, AttemptInv, Unstarted
<1>6. QueueInv'
  BY <1>1, <1>2, <1>3, <1>4, NextQueues, ClientFunctorFacts DEF QueueInv
<1>7. LifeInv'
  <2>1. connector = "alive"
    BY <1>4 DEF CallStart, CallCancel, LifeInv, ClientTypeOK
  <2> QED BY <1>4, <2>1 DEF LifeInv
<1>8. StopInv' /\ SocketInv'
  BY <1>4 DEF StopInv, SocketInv, Owned, Leaked
<1> QED BY <1>5, <1>6, <1>7, <1>8

(* What is left by an attempt that begins when none is under way.          *)
Attempted ==
  /\ broken' = broken
  /\ \/ /\ state_' = "kConnecting" /\ channel_' = "polled" /\ open' = open + 1
        /\ UNCHANGED <<timers, timerId_>>
     \/ /\ state_' = "kDisconnected" /\ channel_' = channel_ /\ open' = open
        /\ UNCHANGED <<timers, timerId_>>
     \/ /\ state_' = "kDisconnected" /\ channel_' = channel_ /\ open' = open
        /\ timers' = timers \cup {timerId_'}

(* startInLoop from kDisconnected makes at most one attempt, and none that  *)
(* is not wished for (connect, connecting, retry).                          *)
LEMMA StartAttempts ==
  ASSUME ClientTypeOK, channel_ = "none", NEW wish \in BOOLEAN,
         StartInLoop("kDisconnected", wish)
  PROVE  Attempted /\ (channel_' = "polled" => wish)
<1>1. CASE Connecting /\ wish
  BY <1>1 DEF Connecting, Attempted
<1>2. CASE Retry(open + 1, TRUE) /\ UNCHANGED <<channel_, gaveUp, broken>>
  <2>1. open' = open
    BY <1>2 DEF Retry, ClientTypeOK
  <2>2. state_' = "kDisconnected" /\ timerId_' = failures + 1
        /\ timers' = timers \cup {failures + 1}
    BY <1>2 DEF Retry
  <2> QED BY <1>2, <2>1, <2>2 DEF Attempted
<1>3. CASE /\ state_' = "kDisconnected"
           /\ UNCHANGED <<channel_, timers, timerId_, open, failures, broken>>
  BY <1>3 DEF Attempted
<1> QED BY <1>1, <1>2, <1>3 DEF StartInLoop, Connect

(* The timer of retry starts the next attempt.                              *)
LEMMA RetryTimerKeeps ==
  ASSUME ClientTypeOK, SafeInv, broken = "none", RetryTimer
  PROVE  SafeInv'
<1> USE DEF loopVars, userVars, lifeVars, SafeInv
<1>1. UNCHANGED <<functors, pending>> /\ phase = "timers" /\ expired # {}
      /\ expired' = {} /\ timers = {} /\ phase' = "dispatch" /\ connector # "dead"
  BY DEF RetryTimer, PhaseInv, AttemptInv
<1>2. state_ = "kDisconnected" /\ channel_ = "none" /\ ~connection_ /\ ~restarting
      /\ orphan # "held" /\ active \cap {"connector", "connection"} = {} /\ ~Unstarted
  <2>1. state_ = "kDisconnected" /\ channel_ # "polled" /\ ~connection_
          /\ ~restarting
        /\ orphan # "held" /\ ~Unstarted
    BY <1>1 DEF AttemptInv
  <2>2. channel_ # "removed"
    BY <1>1, NothingHeld DEF PhaseInv, QueueInv, Waits
  <2> QED BY <2>1, <2>2 DEF ClientTypeOK, PhaseInv
<1>3. Attempted
  BY <1>2, StartAttempts DEF RetryTimer, ClientTypeOK, FlagsOK
<1>4. UNCHANGED <<connect_, connection_, dying, active, restarting, userVars,
                  conns, lifeVars>>
  BY DEF RetryTimer
<1>5. AssertionsHold' /\ PhaseInv'
  BY <1>1, <1>2, <1>3, <1>4, QueuesUnchanged DEF Attempted, AssertionsHold, PhaseInv
<1>6. AttemptInv' /\ QueueInv'
  BY <1>1, <1>2, <1>3, <1>4, QueuesUnchanged DEF Attempted, AttemptInv, QueueInv, Unstarted
<1>7. LifeInv' /\ StopInv'
  BY <1>1, <1>2, <1>3, <1>4, QueuesUnchanged DEF Attempted, LifeInv, StopInv
<1>8. SocketInv'
  BY <1>2, <1>3, <1>4 DEF Attempted, SocketInv, Owned, Leaked, ClientTypeOK
<1> QED BY <1>5, <1>6, <1>7, <1>8

(* Connector::restart, in the callback of the connection that went down.   *)
LEMMA RestartKeeps ==
  ASSUME ClientTypeOK, SafeInv, broken = "none", Restart
  PROVE  SafeInv'
<1> USE DEF loopVars, userVars, lifeVars, SafeInv
<1>1. UNCHANGED <<functors, pending>> /\ restarting /\ ~restarting'
        /\ phase = "dispatch"
      /\ channel_ = "none" /\ ~connection_ /\ expired = {} /\ timers = {} /\ ~Unstarted
      /\ state_ = "kConnected" /\ client = "alive" /\ connect_' = TRUE /\ retry_
  BY DEF Restart, PhaseInv, AttemptInv, LifeInv, StopInv, ClientTypeOK
<1>2. orphan = "none" /\ active \cap {"connector", "connection"} = {}
        /\ connector = "alive"
  BY <1>1 DEF LifeInv, PhaseInv, ClientTypeOK
<1>3. Attempted
  BY <1>1, StartAttempts DEF Restart
<1>4. UNCHANGED <<connection_, dying, phase, expired, active, userVars,
                  conns, lifeVars>>
  BY DEF Restart
<1>5. AssertionsHold' /\ PhaseInv'
  BY <1>1, <1>2, <1>3, <1>4, QueuesUnchanged DEF Attempted, AssertionsHold, PhaseInv
<1>6. AttemptInv' /\ QueueInv'
  BY <1>1, <1>2, <1>3, <1>4, QueuesUnchanged DEF Attempted, AttemptInv, QueueInv, Unstarted
<1>7. LifeInv' /\ StopInv'
  BY <1>1, <1>2, <1>3, <1>4, QueuesUnchanged DEF Attempted, LifeInv, StopInv
<1>8. SocketInv'
  BY <1>1, <1>2, <1>3, <1>4 DEF Attempted, SocketInv, Owned, Leaked, ClientTypeOK
<1> QED BY <1>5, <1>6, <1>7, <1>8

(* handleError and handleWrite end the attempt.                            *)
LEMMA ConnectorEventKeeps ==
  ASSUME ClientTypeOK, SafeInv, broken = "none", ConnectorEvent
  PROVE  SafeInv'
<1> USE DEF userVars, lifeVars, SafeInv
<1>1. /\ phase = "dispatch" /\ channel_ = "polled" /\ connector # "dead"
      /\ "connector" \in active /\ active' = active \ {"connector"}
      /\ UNCHANGED <<connect_, dying, phase, expired, functors, restarting,
                     userVars,
                     lifeVars, broken>>
      /\ channel_' = "removed" /\ pending' = Append(pending, Reset)
  BY DEF ConnectorEvent, PhaseInv, HandleError, HandleWrite,
         RemoveAndResetChannel, Reset
<1>2. /\ state_ = "kConnecting" /\ ~connection_ /\ ~restarting /\ orphan # "held"
      /\ timers = {} /\ expired = {} /\ ~Unstarted /\ calls > 0
      /\ ~Waits(Reset) /\ functors = <<>> /\ "connection" \notin active
  BY <1>1 DEF AttemptInv, QueueInv, PhaseInv, Unstarted, ClientTypeOK
<1>3. \/ /\ state_' = "kDisconnected" /\ ~connection_' /\ open' = open - 1
         /\ timers' \subseteq {timerId_'}
      \/ /\ state_' = "kConnected" /\ connection_' = connect_ /\ open' = open
         /\ UNCHANGED <<timers, timerId_>>
  <2>1. CASE HandleError
    BY <1>2, <2>1 DEF HandleError, Retry
  <2>2. CASE HandleWrite
    BY <1>2, <2>2 DEF HandleWrite, NewConnection, ClientTypeOK, FlagsOK
  <2> QED BY <2>1, <2>2 DEF ConnectorEvent
<1>4. /\ \A y : Holds(pending', y) <=> Holds(pending, y) \/ y = Reset
      /\ \A y : Once(pending, y) /\ ~(y = Reset /\ Holds(pending, y))
           => Once(pending', y)
  BY <1>1, PendingGains, ClientFunctorFacts
<1>5. AssertionsHold' /\ PhaseInv'
  BY <1>1, <1>2, <1>3, <1>4, NextQueues DEF AssertionsHold, PhaseInv
<1>6. ~Unstarted' /\ QueueInv'
  BY <1>1, <1>2, <1>4, NextQueues, ClientFunctorFacts DEF QueueInv, Unstarted
<1>7. AttemptInv'
  BY <1>1, <1>2, <1>3, <1>6 DEF AttemptInv
<1>8. LifeInv' /\ StopInv'
  BY <1>1, <1>2, <1>3 DEF LifeInv, StopInv, ClientTypeOK
<1>9. SocketInv'
  BY <1>1, <1>2, <1>3 DEF SocketInv, Owned, Leaked, ClientTypeOK
<1> QED BY <1>5, <1>6, <1>7, <1>8, <1>9

(* The connection goes down.                                               *)
LEMMA RemoveConnectionKeeps ==
  ASSUME ClientTypeOK, SafeInv, broken = "none", RemoveConnection
  PROVE  SafeInv'
<1> USE DEF connectorVars, userVars, lifeVars, SafeInv
<1>1. /\ phase = "dispatch" /\ connection_ /\ channel_ = "none" /\ ~restarting
      /\ active' = active \ {"connection"} /\ ~connection_'
           /\ dying' = dying + 1
      /\ pending' = Append(pending, Functor("connectDestroyed", 0))
      /\ restarting' => retry_
      /\ UNCHANGED <<connect_, connectorVars, phase, expired, functors,
                     userVars,
                     conns, lifeVars>>
  BY DEF RemoveConnection, PhaseInv
<1>2. state_ = "kConnected" /\ ~Unstarted /\ timers = {} /\ expired = {}
      /\ client = "alive" /\ orphan = "none"
  BY <1>1 DEF AttemptInv, LifeInv, ClientTypeOK
<1>3. /\ \A y : Holds(pending', y) <=> Holds(pending, y)
           \/ y = Functor("connectDestroyed", 0)
      /\ \A y : Once(pending, y) /\ y # Functor("connectDestroyed", 0)
           => Once(pending', y)
  BY <1>1, PendingGains, ClientFunctorFacts
<1>4. AssertionsHold' /\ PhaseInv'
  BY <1>1, <1>2, <1>3, NextQueues DEF AssertionsHold, PhaseInv
<1>5. QueueInv' /\ ~Unstarted'
  BY <1>1, <1>2, <1>3, NextQueues, ClientFunctorFacts DEF QueueInv, Unstarted
<1>6. AttemptInv'
  BY <1>1, <1>2, <1>5 DEF AttemptInv
<1>7. LifeInv' /\ StopInv'
  BY <1>1, <1>2 DEF LifeInv, StopInv
<1>8. SocketInv'
  BY <1>1, <1>2 DEF SocketInv, Owned, Leaked, ClientTypeOK
<1> QED BY <1>4, <1>5, <1>6, <1>7, <1>8

(* A connection that TcpClient's destructor left behind closes, and its     *)
(* connectDestroyed is queued.                                              *)
LEMMA RemoveOrphanKeeps ==
  ASSUME ClientTypeOK, SafeInv, broken = "none", RemoveOrphan
  PROVE  SafeInv'
<1> USE DEF connectorVars, userVars, SafeInv
<1>1. /\ phase = "dispatch" /\ orphan = "held" /\ orphan' = "none"
      /\ active' = active \ {"orphan"} /\ dying' = dying + 1
      /\ pending' = Append(pending, Functor("connectDestroyed", 0))
      /\ UNCHANGED <<connect_, connectorVars, connection_, phase, expired,
                     functors,
                     restarting, userVars, conns, client, connector, held,
                       risky>>
  BY DEF RemoveOrphan
<1>2. state_ = "kConnected" /\ ~connection_ /\ ~restarting /\ ~Unstarted
      /\ connector = "dead"
  BY <1>1 DEF AttemptInv, LifeInv, ClientTypeOK
<1>3. /\ \A y : Holds(pending', y) <=> Holds(pending, y)
           \/ y = Functor("connectDestroyed", 0)
      /\ \A y : Once(pending, y) /\ y # Functor("connectDestroyed", 0)
           => Once(pending', y)
  BY <1>1, PendingGains, ClientFunctorFacts
<1>4. AssertionsHold' /\ PhaseInv'
  BY <1>1, <1>2, <1>3, NextQueues DEF AssertionsHold, PhaseInv
<1>5. /\ QueueInv' /\ ~Unstarted' /\ (Waits(Begin)' <=> Waits(Begin))
      /\ Waits(Reset)' <=> Waits(Reset)
  BY <1>1, <1>2, <1>3, NextQueues, ClientFunctorFacts DEF QueueInv, Unstarted
<1>6. AttemptInv'
  BY <1>1, <1>2, <1>5 DEF AttemptInv
<1>7. LifeInv' /\ StopInv'
  BY <1>1, <1>2, <1>5 DEF LifeInv, StopInv
<1>8. SocketInv'
  BY <1>1, <1>2 DEF SocketInv, Owned, Leaked, ClientTypeOK
<1> QED BY <1>4, <1>5, <1>6, <1>7, <1>8

(* EventLoop::doPendingFunctors swaps the vector. *)
LEMMA SwapPendingKeeps ==
  ASSUME ClientTypeOK, SafeInv, broken = "none", SwapPending
  PROVE  SafeInv'
<1> USE DEF connectorVars, userVars, lifeVars, SafeInv
<1>1. /\ phase = "dispatch" /\ active = {} /\ ~restarting
           /\ phase' = "functors"
      /\ functors' = pending /\ pending' = <<>> /\ functors = <<>>
      /\ UNCHANGED <<connect_, connectorVars, connection_, dying, expired,
                     active,
                     restarting, userVars, conns, lifeVars>>
  BY DEF SwapPending, PhaseInv
<1>2. AssertionsHold' /\ PhaseInv'
  BY <1>1, NextQueues, NothingHeld DEF AssertionsHold, PhaseInv
<1>3. QueueInv' /\ (Waits(Begin)' <=> Waits(Begin)) /\ (Waits(Reset)' <=> Waits(Reset))
  BY <1>1, NextQueues, NothingHeld DEF QueueInv
<1>4. AttemptInv'
  BY <1>1, <1>3 DEF AttemptInv, Unstarted
<1>5. LifeInv' /\ StopInv'
  BY <1>1, <1>3 DEF LifeInv, StopInv
<1>6. SocketInv'
  BY <1>1 DEF SocketInv, Owned, Leaked
<1> QED BY <1>2, <1>3, <1>4, <1>5, <1>6

(* The first functor of the batch runs.                                    *)
LEMMA RunFunctorOfClient ==
  ASSUME ClientTypeOK, SafeInv, broken = "none", RunFunctor
  PROVE  SafeInv'
<1> USE DEF userVars, lifeVars, SafeInv
<1> DEFINE f == Head(functors)
<1>1. /\ phase = "functors" /\ functors # <<>>
           /\ functors' = Tail(functors)
      /\ active = {} /\ expired = {} /\ ~restarting /\ ~Holds(pending, Reset)
      /\ UNCHANGED <<connect_, connection_, phase, expired, active,
                     pending,
                     restarting, userVars, conns, lifeVars>>
  BY DEF RunFunctor, PhaseInv
<1>2. /\ f \in ClientFunctors /\ Holds(functors, f)
      /\ \A y : Holds(functors', y) => Holds(functors, y)
      /\ \A y : Holds(functors, y) /\ y # f => Holds(functors', y)
      /\ \A y : Once(functors, y) => Once(functors', y)
      /\ Once(functors, f) => ~Holds(functors', f)
  BY <1>1, FunctorsLose
<1>3. (OfConnector(f) => connector # "dead") /\ (f \in {Begin, Reset}
        <=> OfConnector(f))
  BY <1>2, ClientFunctorFacts DEF RunFunctor, OfDeadConnector,
                                  OfConnector
<1>4. /\ Waits(Begin)' => Waits(Begin)
      /\ f # Reset => (Waits(Reset)' <=> Waits(Reset))
      /\ f = Begin => Waits(Begin) /\ ~Waits(Begin)'
      /\ f = Reset => Waits(Reset) /\ ~Waits(Reset)'
  BY <1>1, <1>2, NextQueues DEF QueueInv
<1>5. PhaseInv'
  BY <1>1, NextQueues DEF PhaseInv
<1>6. /\ Once(functors, Begin)' /\ Once(pending, Begin)'
      /\ Once(functors, Reset)' /\ Once(pending, Reset)'
      /\ ~(Holds(functors, Begin)' /\ Holds(pending, Begin)')
  BY <1>1, <1>2, NextQueues DEF QueueInv
<1>7. CASE f = Begin /\ StartInLoop(state_, connect_) /\ UNCHANGED dying
  <2>1. /\ state_ = "kDisconnected" /\ channel_ = "none" /\ timers = {}
             /\ ~Waits(Reset)
        /\ ~connection_ /\ orphan # "held" /\ ~Unstarted' /\ calls # 0
    BY <1>1, <1>4, <1>7 DEF AttemptInv, Unstarted, QueueInv
  <2>2. Attempted /\ (channel_' = "polled" => connect_)
    BY <1>7, <2>1, StartAttempts DEF ClientTypeOK, FlagsOK
  <2>3. connector # "dead" /\ f # Reset
    BY <1>3, <1>7, ClientFunctorFacts
  <2>4. AssertionsHold' /\ QueueInv'
    BY <1>1, <1>4, <1>6, <2>1, <2>2, <2>3 DEF Attempted, AssertionsHold, QueueInv
  <2>5. AttemptInv'
    BY <1>1, <2>1, <2>2 DEF Attempted, AttemptInv
  <2>6. LifeInv' /\ StopInv'
    BY <1>1, <1>4, <2>1, <2>2, <2>3 DEF Attempted, LifeInv, StopInv
  <2>7. SocketInv'
    BY <1>1, <1>7, <2>1, <2>2 DEF Attempted, SocketInv, Owned, Leaked, ClientTypeOK
  <2> QED BY <1>5, <2>4, <2>5, <2>6, <2>7
<1>8. CASE f = Reset /\ ResetChannel
  <2>1. channel_ = "removed" /\ channel_' = "none" /\ ~Unstarted
        /\ UNCHANGED <<state_, timers, timerId_, open, dying, broken>>
    BY <1>4, <1>8 DEF ResetChannel, QueueInv, AttemptInv
  <2>2. f # Begin /\ (Unstarted' => Unstarted)
    BY <1>1, <1>4, <1>8, ClientFunctorFacts DEF Unstarted
  <2>3. AssertionsHold' /\ QueueInv'
    BY <1>1, <1>4, <1>6, <1>8, <2>1, <2>2 DEF AssertionsHold, QueueInv
  <2>4. AttemptInv'
    BY <1>1, <2>1, <2>2 DEF AttemptInv
  <2>5. LifeInv' /\ StopInv'
    BY <1>1, <1>4, <1>8, <2>1 DEF LifeInv, StopInv
  <2>6. SocketInv'
    BY <1>1, <2>1 DEF SocketInv, Owned, Leaked
  <2> QED BY <1>5, <2>3, <2>4, <2>5, <2>6
<1>9. CASE /\ f \notin {Begin, Reset}
           /\ \/ ConnectDestroyed
              \/ timers' \subseteq timers /\ UNCHANGED <<state_, channel_, timerId_,
                                                         open,
                                                         broken, dying>>
  <2>1. /\ UNCHANGED <<state_, channel_, timerId_, broken>>
             /\ timers' \subseteq timers
        /\ \/ open' = open - 1 /\ dying' = dying - 1
           \/ open' = open /\ dying' = dying
    BY <1>9 DEF ConnectDestroyed
  <2>2. Unstarted' => Unstarted
    BY <1>1, <1>4 DEF Unstarted
  <2>3. AssertionsHold' /\ QueueInv'
    BY <1>1, <1>4, <1>6, <1>9, <2>1 DEF AssertionsHold, QueueInv
  <2>4. AttemptInv'
    BY <1>1, <2>1, <2>2 DEF AttemptInv
  <2>5. LifeInv' /\ StopInv'
    BY <1>1, <1>4, <1>9, <2>1 DEF LifeInv, StopInv
  <2>6. SocketInv'
    <3>1. Leaked' <=> Leaked
      BY <1>1, <2>1 DEF Leaked
    <3>2. open = Owned => open' = Owned'
      BY <1>1, <2>1 DEF Owned, ClientTypeOK
    <3> QED BY <3>1, <3>2 DEF SocketInv
  <2> QED BY <1>5, <2>3, <2>4, <2>5, <2>6
<1>10. \/ f = Begin /\ StartInLoop(state_, connect_) /\ UNCHANGED dying
       \/ f = Reset /\ ResetChannel
       \/ f \notin {Begin, Reset} /\ ConnectDestroyed
       \/ /\ f \notin {Begin, Reset} /\ timers' \subseteq timers
          /\ UNCHANGED <<state_, channel_, timerId_, open, broken, dying>>
  BY <1>2, ClientFunctorFacts DEF RunFunctor, Cancel
<1> QED BY <1>7, <1>8, <1>9, <1>10

-----------------------------------------------------------------------------
(* The invariant holds.                                                    *)

(* The inductive invariant of TcpClient and its Connector, for any number   *)
(* of attempts, timers and failures (start, stop, retry, handleWrite,       *)
(* handleError, resetChannel).                                              *)
THEOREM ClientInvariant == Spec => [](ClientTypeOK /\ SafeInv)
<1>1. Init => ClientTypeOK /\ SafeInv
  <2> SUFFICES ASSUME Init PROVE ClientTypeOK /\ SafeInv
    OBVIOUS
  <2>1. ClientTypeOK
    <3>1. FlagsOK
      BY DEF Init, ConnectorInit, FlagsOK
    <3>2. pending \in Seq(ClientFunctors) /\ functors \in Seq(ClientFunctors)
      BY DEF Init
    <3> QED BY <3>1, <3>2 DEF Init, ConnectorInit, ClientTypeOK
  <2>2. ~Waits(Begin) /\ ~Waits(Reset)
    BY NothingHeld DEF Init, Waits
  <2>3. AssertionsHold /\ PhaseInv /\ AttemptInv
    BY NothingHeld DEF Init, ConnectorInit, AssertionsHold, PhaseInv,
                       AttemptInv
  <2>4. QueueInv
    BY <2>2, NothingHeld DEF Init, ConnectorInit, QueueInv
  <2>5. LifeInv /\ StopInv /\ SocketInv
    BY <2>2 DEF Init, ConnectorInit, LifeInv, StopInv, SocketInv, Owned
  <2> QED BY <2>1, <2>3, <2>4, <2>5 DEF SafeInv
<1>2. ClientTypeOK /\ SafeInv /\ [Next]_vars => SafeInv'
  <2> SUFFICES ASSUME ClientTypeOK, SafeInv, [Next]_vars PROVE SafeInv'
    OBVIOUS
  <2>1. CASE UNCHANGED vars
    <3>1. UNCHANGED <<functors, pending>>
      BY <2>1 DEF vars
    <3>2. AssertionsHold' /\ PhaseInv' /\ AttemptInv' /\ QueueInv'
      BY <2>1, <3>1, QueuesUnchanged
         DEF vars, SafeInv, AssertionsHold, PhaseInv, AttemptInv, Unstarted,
             QueueInv
    <3>3. LifeInv' /\ StopInv' /\ SocketInv'
      BY <2>1, <3>1, QueuesUnchanged
         DEF vars, SafeInv, LifeInv, StopInv, SocketInv, Owned, Leaked
    <3> QED BY <3>2, <3>3 DEF SafeInv
  <2>2. CASE Next
    BY <2>2, PollKeeps, RetryTimerKeeps, ConnectorEventKeeps, RemoveConnectionKeeps,
       RestartKeeps, SwapPendingKeeps, RunFunctorOfClient, EndFunctorsKeeps, LetGoKeeps,
       RemoveOrphanKeeps, UseDestroyedKeeps, CallsKeep, CallsQueueKeep, DestroyKeeps
       DEF Next, LoopStep, CallStep
  <2> QED BY <2>1, <2>2
<1> QED BY <1>1, <1>2, ClientTypes, PTL DEF Spec

(* No assertion of Connector.cc fails, nothing destroyed is used but by a  *)
(* risk that the destructors take, and an attempt, a retry timer and a     *)
(* connection exclude each other (startInLoop, connecting, resetChannel,   *)
(* ~TcpClient).                                                            *)
THEOREM OneAttemptAtATime == Spec => []OneAttempt
<1>1. ClientTypeOK /\ SafeInv => OneAttempt
  <2> SUFFICES ASSUME ClientTypeOK, SafeInv PROVE OneAttempt
    OBVIOUS
  <2>1. AssertionsHold /\ AttemptInv
    BY DEF SafeInv
  <2> QED BY <2>1 DEF OneAttempt, AttemptInv, ClientTypeOK
<1> QED BY ClientInvariant, <1>1, PTL

(* While the connector wishes to connect no socket is lost: each is the    *)
(* attempt's, the connection's or that of one about to be destroyed        *)
(* (retry, handleWrite, connectDestroyed).                                 *)
THEOREM SocketsAreOwned == Spec => []SocketsOwned
<1>1. SafeInv => SocketsOwned
  BY DEF SafeInv, SocketInv, Owned, Leaked, SocketsOwned
<1> QED BY ClientInvariant, <1>1, PTL

(* After stop, unless reconnecting was enabled, and after the client is    *)
(* gone, no attempt starts and no connection is made (startInLoop,         *)
(* handleWrite and restart test connect_, or are reached no more).         *)
THEOREM StopsForGood == Spec => StopIsFinal
<1>1. ClientTypeOK /\ SafeInv /\ [Next]_vars
      => ((stopped /\ ~retry_) \/ client = "destroyed" =>
            /\ connection_' => connection_
            /\ channel_' = "polled" => channel_ = "polled")
  <2> SUFFICES ASSUME ClientTypeOK, SafeInv, [Next]_vars,
                      (stopped /\ ~retry_) \/ client = "destroyed"
               PROVE  /\ connection_' => connection_
                      /\ channel_' = "polled" => channel_ = "polled"
    OBVIOUS
  <2>1. ~restarting /\ (connect_ => connector = "dead")
    BY DEF SafeInv, StopInv, LifeInv, ClientTypeOK
  <2>2. ASSUME NEW state, StartInLoop(state, connect_), connector # "dead"
        PROVE  channel_' = channel_
    BY <2>1, <2>2 DEF StartInLoop
  <2>3. CASE RetryTimer
    BY <2>2, <2>3 DEF RetryTimer
  <2>4. CASE RunFunctor
    BY <2>2, <2>4 DEF RunFunctor, OfDeadConnector, OfConnector,
                      Cancel, ResetChannel, ConnectDestroyed
  <2>5. CASE ConnectorEvent
    BY <2>1, <2>5 DEF ConnectorEvent, HandleError, HandleWrite,
                      RemoveAndResetChannel
  <2>6. CASE UNCHANGED channel_ /\ (connection_' => connection_)
    BY <2>6
  <2>7. CASE Destroy \/ RemoveConnection
    BY <2>7 DEF Destroy, DestroyConnected, DestroyUnconnected,
                RemoveConnection, connectorVars
  <2>8. ASSUME \/ UNCHANGED vars \/ Poll \/ SwapPending
                    \/ EndFunctors \/ LetGo
               \/ RemoveOrphan \/ UseDestroyed
        PROVE  UNCHANGED <<channel_, connection_>>
    BY <2>8 DEF vars, Poll, SwapPending, EndFunctors,
                LetGo, RemoveOrphan, UseDestroyed, connectorVars
  <2>9. ASSUME \/ CallConnect \/ CallStop \/ CallDisconnect
                    \/ EnableRetry \/ CallStep
        PROVE  UNCHANGED <<channel_, connection_>>
    BY <2>9 DEF CallConnect, CallStop, CallDisconnect,
                EnableRetry, CallStep, CallStart,
                CallStopConnector, CallCancel, connectorVars
  <2> QED BY <2>1, <2>3, <2>4, <2>5, <2>6, <2>7, <2>8, <2>9 DEF Next,
     LoopStep, Restart
<1> QED BY ClientInvariant, <1>1, PTL DEF Spec, StopIsFinal
=============================================================================
