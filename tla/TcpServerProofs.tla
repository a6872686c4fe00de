--------------------------- MODULE TcpServerProofs ---------------------------
(* Proofs about the life of the connections of TcpServer, for any number   *)
(* of connections, of I/O loops and of functors on their way.              *)
EXTENDS TcpServer, SequenceTheorems, TLAPS

-----------------------------------------------------------------------------
(* Queues of functors.                                                     *)

(* Is x in the sequence s, and is it there no more than once? *)
Holds(s, x) == \E i \in DOMAIN s : s[i] = x
Once(s, x) == \A i, j \in DOMAIN s : s[i] = x /\ s[j] = x => i = j

Functors == [op : Ops, conn : Conns]

(* The functor waits on loop l. *)
At(l, op, c) == Holds(Todo(l), Functor(op, c))

-----------------------------------------------------------------------------
(* The invariant.                                                          *)

(* A batch is run in its phase, and nothing is dispatched outside of its.  *)
LoopInv ==
  \A l \in Loops :
    /\ phase[l] # "functors" => functors[l] = <<>>
    /\ phase[l] \notin {"timers", "dispatch"} => active[l] = {}

(* Before it is accepted nothing knows a connection, ... *)
Fresh(c) ==
  state_[c] = "none" =>
    /\ channel[c] = "new" /\ c \notin connections_ /\ call.conn # c
    /\ \A l \in Loops, op \in Ops : ~At(l, op, c)

(* ... before it is established nothing but the map and the one functor    *)
(* that establishes it, on its own loop, ...                               *)
Connecting(c) ==
  state_[c] = "kConnecting" =>
    /\ channel[c] = "new" /\ c \in connections_ /\ call.conn # c
    /\ At(loop_[c], "connectEstablished", c)
    /\ \A l \in Loops, op \in Ops \ {"connectEstablished"} : ~At(l, op, c)

EstablishedOnce(c) ==
  /\ Once(Todo(loop_[c]), Functor("connectEstablished", c))
  /\ \A l \in Loops :
       At(l, "connectEstablished", c) => state_[c] = "kConnecting" /\ l = loop_[c]

(* ... connectDestroyed runs on its own loop, and it comes when the map    *)
(* has lost the connection.                                                *)
DestroyedAtHome(c) ==
  /\ \A l \in Loops : At(l, "connectDestroyed", c) => l = loop_[c]
  /\ state_[c] # "none" /\ c \notin connections_ /\ channel[c] # "removed"
       => At(loop_[c], "connectDestroyed", c)

Dispatched(c) ==
  \A l \in Loops : c \in active[l] => Registered(c) /\ loop_[c] = l

ConnInv(c) ==
  /\ Fresh(c) /\ Connecting(c) /\ EstablishedOnce(c)
  /\ DestroyedAtHome(c) /\ Dispatched(c)

CallInv == call.step # "none" => call.conn \in Conns

IInv == TypeOK /\ LoopInv /\ CallInv /\ \A c \in Conns : ConnInv(c)
-----------------------------------------------------------------------------
(* Sequences.                                                              *)

(* Appending adds one element, in one place. *)
LEMMA AppendHolds ==
  ASSUME NEW S, NEW s \in Seq(S), NEW x \in S
  PROVE  /\ \A y : Holds(Append(s, x), y) <=> Holds(s, y) \/ y = x
         /\ \A y : Once(s, y) /\ y # x => Once(Append(s, x), y)
         /\ ~Holds(s, x) => Once(Append(s, x), x)
<1>1. /\ Len(s) \in Nat /\ Len(Append(s, x)) = Len(s) + 1
      /\ DOMAIN s = 1 .. Len(s) /\ DOMAIN Append(s, x) = 1 .. Len(s) + 1
      /\ \A i \in 1 .. Len(s) : Append(s, x)[i] = s[i]
      /\ Append(s, x)[Len(s) + 1] = x
  BY AppendProperties, LenProperties
<1> DEFINE t == Append(s, x)
<1> HIDE DEF t
<1>2. \A i \in DOMAIN t : (i \in DOMAIN s /\ t[i] = s[i]) \/ (i = Len(s) + 1 /\ t[i] = x)
  BY <1>1 DEF t
<1>3. \A y : Holds(t, y) <=> Holds(s, y) \/ y = x
  BY <1>1, <1>2 DEF Holds, t
<1>4. \A y : Once(s, y) /\ y # x => Once(t, y)
  BY <1>2 DEF Once
<1>5. ~Holds(s, x) => Once(t, x)
  BY <1>2 DEF Once, Holds
<1> QED BY <1>3, <1>4, <1>5 DEF t

(* Taking the head off removes one element. *)
LEMMA TailHolds ==
  ASSUME NEW S, NEW s \in Seq(S), s # <<>>
  PROVE  /\ Head(s) \in S /\ Holds(s, Head(s))
         /\ \A y : Holds(Tail(s), y) => Holds(s, y)
         /\ \A y : Holds(s, y) /\ y # Head(s) => Holds(Tail(s), y)
         /\ \A y : Once(s, y) => Once(Tail(s), y)
         /\ Once(s, Head(s)) => ~Holds(Tail(s), Head(s))
<1>1. /\ Len(s) \in Nat \ {0} /\ DOMAIN s = 1 .. Len(s)
      /\ DOMAIN Tail(s) = 1 .. Len(s) - 1 /\ Head(s) = s[1]
      /\ \A i \in 1 .. Len(s) - 1 : Tail(s)[i] = s[i + 1]
      /\ Head(s) \in S
  BY HeadTailProperties, LenProperties, EmptySeq
<1> DEFINE t == Tail(s)
<1> HIDE DEF t
<1>2. \A i \in DOMAIN t : i + 1 \in DOMAIN s /\ i + 1 # 1 /\ t[i] = s[i + 1] /\ i \in Nat
  BY <1>1 DEF t
<1>3. \A i \in DOMAIN s : i = 1 \/ (i - 1 \in DOMAIN t /\ t[i - 1] = s[i])
  BY <1>1 DEF t
<1>4. 1 \in DOMAIN s /\ s[1] = Head(s) /\ Head(s) \in S
  BY <1>1
<1>5. \A y : Holds(t, y) => Holds(s, y)
  BY <1>2 DEF Holds
<1>6. \A y : Holds(s, y) /\ y # Head(s) => Holds(t, y)
  BY <1>3, <1>4 DEF Holds
<1>7. \A y : Once(s, y) => Once(t, y)
  <2> SUFFICES ASSUME NEW y, Once(s, y), NEW i \in DOMAIN t, NEW j \in DOMAIN t,
                      t[i] = y, t[j] = y
               PROVE  i = j
    BY DEF Once
  <2>1. i + 1 = j + 1
    BY <1>2 DEF Once
  <2> QED BY <1>2, <2>1
<1>8. Once(s, Head(s)) => ~Holds(t, Head(s))
  BY <1>2, <1>4 DEF Once, Holds
<1> QED BY <1>4, <1>5, <1>6, <1>7, <1>8 DEF t, Holds

(* A queue in two parts grows at the end of the second ... *)
LEMMA ConcatAppend ==
  ASSUME NEW S, NEW s \in Seq(S), NEW t \in Seq(S), NEW x \in S
  PROVE  s \o Append(t, x) = Append(s \o t, x)
<1>1. s \o t \in Seq(S) /\ <<x>> \in Seq(S)
  BY ConcatProperties
<1>2. Append(t, x) = t \o <<x>> /\ Append(s \o t, x) = (s \o t) \o <<x>>
  BY <1>1, AppendIsConcat
<1> QED BY <1>1, <1>2, ConcatAssociative

(* ... and shrinks at the head of the first. *)
LEMMA ConcatTail ==
  ASSUME NEW S, NEW s \in Seq(S), NEW t \in Seq(S), s # <<>>
  PROVE  /\ s \o t # <<>> /\ Head(s \o t) = Head(s)
         /\ Tail(s \o t) = Tail(s) \o t
<1>0. s \o t \in Seq(S)
  BY ConcatProperties
<1>1. /\ Len(s) \in Nat \ {0} /\ Len(t) \in Nat /\ Len(s \o t) = Len(s) + Len(t)
      /\ \A i \in 1 .. Len(s) + Len(t) :
           (s \o t)[i] = IF i <= Len(s) THEN s[i] ELSE t[i - Len(s)]
  BY EmptySeq, LenProperties, ConcatProperties
<1>2. s \o t # <<>>
  BY <1>1
<1>3. Head(s \o t) = Head(s)
  BY <1>0, <1>1, <1>2
<1>4. /\ Tail(s) \in Seq(S) /\ Len(Tail(s)) = Len(s) - 1
      /\ \A i \in 1 .. Len(s) - 1 : Tail(s)[i] = s[i + 1]
      /\ Tail(s \o t) \in Seq(S) /\ Len(Tail(s \o t)) = Len(s) + Len(t) - 1
      /\ \A i \in 1 .. Len(s) + Len(t) - 1 : Tail(s \o t)[i] = (s \o t)[i + 1]
  BY <1>0, <1>1, <1>2, HeadTailProperties
<1>5. /\ Tail(s) \o t \in Seq(S) /\ Len(Tail(s) \o t) = Len(s) - 1 + Len(t)
      /\ \A i \in 1 .. Len(s) - 1 + Len(t) :
           (Tail(s) \o t)[i] = IF i <= Len(s) - 1 THEN Tail(s)[i] ELSE t[i - (Len(s) - 1)]
  BY <1>1, <1>4, ConcatProperties
<1>6. \A i \in 1 .. Len(s) + Len(t) - 1 : Tail(s \o t)[i] = (Tail(s) \o t)[i]
  <2> SUFFICES ASSUME NEW i \in 1 .. Len(s) + Len(t) - 1
               PROVE  Tail(s \o t)[i] = (Tail(s) \o t)[i]
    OBVIOUS
  <2>1. i + 1 \in 1 .. Len(s) + Len(t) /\ i \in 1 .. Len(s) - 1 + Len(t) /\ i \in Int
    BY <1>1
  <2>2. Tail(s \o t)[i] = IF i + 1 <= Len(s) THEN s[i + 1] ELSE t[i + 1 - Len(s)]
    BY <1>1, <1>4, <2>1
  <2>3. i + 1 - Len(s) = i - (Len(s) - 1) /\ (i + 1 <= Len(s) <=> i <= Len(s) - 1)
    BY <1>1, <2>1
  <2>4. i <= Len(s) - 1 => i \in 1 .. Len(s) - 1
    BY <1>1, <2>1
  <2> QED BY <1>4, <1>5, <2>1, <2>2, <2>3, <2>4
<1>7. Len(Tail(s \o t)) = Len(Tail(s) \o t)
  BY <1>1, <1>4, <1>5
<1> QED BY <1>2, <1>3, <1>4, <1>5, <1>6, <1>7, SeqEqual

-----------------------------------------------------------------------------
(* What a step does to the queues.                                         *)

(* The functors a loop has still to run are functors.                       *)
LEMMA TodoType ==
  ASSUME TypeOK, NEW l \in Loops
  PROVE  /\ functors[l] \in Seq(Functors) /\ pending[l] \in Seq(Functors)
         /\ Todo(l) \in Seq(Functors)
<1>1. functors[l] \in Seq(Functors) /\ pending[l] \in Seq(Functors)
  BY DEF TypeOK, Functors
<1> QED BY <1>1, ConcatProperties DEF Todo

(* Functors are known by their fields. *)
LEMMA FunctorFields ==
  /\ \A o, d, op, c : Functor(o, d) = Functor(op, c) <=> o = op /\ d = c
  /\ \A op \in Ops, c \in Conns : Functor(op, c) \in Functors
BY DEF Functor, Functors

(* Functor(op, c) joins the queue of loop l, and nothing else changes; ... *)
Gains(l, op, c) ==
  \A m \in Loops : \A o, d :
    LET new == m = l /\ o = op /\ d = c
        once == Once(Todo(m), Functor(o, d))
    IN /\ At(m, o, d)' <=> At(m, o, d) \/ new
       /\ once /\ ~(new /\ At(m, o, d)) => once'

(* ... no queue changes. *)
KeepsQueues ==
  \A m \in Loops : \A o, d :
    LET once == Once(Todo(m), Functor(o, d))
    IN (At(m, o, d)' <=> At(m, o, d)) /\ (once => once')

(* queueInLoop. *)
LEMMA QueueAppends ==
  ASSUME TypeOK, NEW l \in Loops, NEW op \in Ops, NEW c \in Conns,
         QueueInLoop(l, op, c), UNCHANGED functors, NEW m \in Loops
  PROVE  Todo(m)' = IF m = l THEN Append(Todo(m), Functor(op, c)) ELSE Todo(m)
<1> DEFINE f == Functor(op, c)
<1>1. pending' = [pending EXCEPT ![l] = Append(pending[l], f)] /\ functors' = functors
  BY DEF QueueInLoop
<1>2. pending'[m] = IF m = l THEN Append(pending[m], f) ELSE pending[m]
  BY <1>1 DEF TypeOK
<1>3. functors[m] \o Append(pending[m], f) = Append(functors[m] \o pending[m], f)
  <2>1. functors[m] \in Seq(Functors) /\ pending[m] \in Seq(Functors) /\ f \in Functors
    BY TodoType, FunctorFields
  <2>2. \A s, t \in Seq(Functors), x \in Functors :
          s \o Append(t, x) = Append(s \o t, x)
    BY ConcatAppend
  <2> HIDE DEF f
  <2> QED BY <2>1, <2>2, Zenon
<1>4. Todo(m) = functors[m] \o pending[m] /\ Todo(m)' = functors'[m] \o pending'[m]
  BY DEF Todo
<1>5. CASE m = l
  BY <1>1, <1>2, <1>3, <1>4, <1>5
<1>6. CASE m # l
  BY <1>1, <1>2, <1>4, <1>6
<1> QED BY <1>5, <1>6

(* queueInLoop adds its functor to one loop's queue and nothing else.       *)
LEMMA QueueGains ==
  ASSUME TypeOK, NEW l \in Loops, NEW op \in Ops, NEW c \in Conns,
         QueueInLoop(l, op, c), UNCHANGED functors
  PROVE  Gains(l, op, c)
<1> DEFINE f == Functor(op, c)
<1> SUFFICES ASSUME NEW m \in Loops, NEW o, NEW d
             PROVE  LET new == m = l /\ o = op /\ d = c
                        once == Once(Todo(m), Functor(o, d))
                    IN /\ At(m, o, d)' <=> At(m, o, d) \/ new
                       /\ once /\ ~(new /\ At(m, o, d)) => once'
  BY DEF Gains
<1>1. Todo(m)' = IF m = l THEN Append(Todo(m), f) ELSE Todo(m)
  BY QueueAppends
<1>2. /\ Todo(m) \in Seq(Functors) /\ f \in Functors
      /\ Functor(o, d) = f <=> o = op /\ d = c
  BY TodoType, FunctorFields
<1> HIDE DEF f
<1> DEFINE g == Functor(o, d)
<1>3. At(m, o, d) = Holds(Todo(m), g) /\ At(m, o, d)' = Holds(Todo(m)', g)
  BY DEF At, Functor, Holds
<1>4. Once(Todo(m), g)' = Once(Todo(m)', g)
  BY DEF Functor, Once
<1> HIDE DEF g
<1>5. CASE m = l
  <2>1. Todo(m)' = Append(Todo(m), f)
    BY <1>1, <1>5
  <2>2. Holds(Todo(m)', g) <=> Holds(Todo(m), g) \/ g = f
    BY <1>2, <2>1, AppendHolds
  <2>3. Once(Todo(m), g) /\ ~(g = f /\ Holds(Todo(m), g)) => Once(Todo(m)', g)
    BY <1>2, <2>1, AppendHolds
  <2> QED BY <1>2, <1>3, <1>4, <1>5, <2>2, <2>3 DEF g
<1>6. CASE m # l
  BY <1>1, <1>3, <1>4, <1>6 DEF g
<1> QED BY <1>5, <1>6

(* A step that leaves the queues alone keeps what waits in them.            *)
LEMMA QueuesKept ==
  ASSUME UNCHANGED <<functors, pending>>
  PROVE  KeepsQueues
<1>1. \A m \in Loops : Todo(m)' = Todo(m)
  BY DEF Todo
<1> QED BY <1>1 DEF KeepsQueues, At, Functor, Holds, Once

(* The batch is the queue so far. *)
LEMMA SwapKeepsQueues ==
  ASSUME TypeOK, NEW l \in Loops, functors[l] = <<>>,
         functors' = [functors EXCEPT ![l] = pending[l]],
         pending' = [pending EXCEPT ![l] = <<>>]
  PROVE  KeepsQueues
<1>1. ASSUME NEW m \in Loops PROVE Todo(m)' = Todo(m)
  <2>1. CASE m = l
    <3>1. functors'[m] = pending[m] /\ pending'[m] = <<>> /\ functors[m] = <<>>
      BY <2>1 DEF TypeOK
    <3>2. pending[m] \o <<>> = <<>> \o pending[m]
      BY TodoType, ConcatEmptySeq
    <3> QED BY <3>1, <3>2 DEF Todo
  <2>2. CASE m # l
    BY <2>2 DEF Todo, TypeOK
  <2> QED BY <2>1, <2>2
<1> QED BY <1>1 DEF KeepsQueues, At, Functor, Holds, Once

(* What is left of a queue when its loop l has begun on its first functor. *)
Rest(m, l) == IF m = l THEN Tail(Todo(m)) ELSE Todo(m)

(* The head of a batch and the rest: what waits besides it still waits.     *)
LEMMA RestHolds ==
  ASSUME TypeOK, NEW l \in Loops, functors[l] # <<>>, NEW m \in Loops, NEW y
  PROVE  LET f == Head(functors[l])
         IN /\ Rest(m, l) \in Seq(Functors) /\ Holds(Todo(l), f) /\ f \in Functors
            /\ Holds(Rest(m, l), y) => Holds(Todo(m), y)
            /\ Holds(Todo(m), y) /\ ~(m = l /\ y = f) => Holds(Rest(m, l), y)
            /\ Once(Todo(m), y) => Once(Rest(m, l), y)
            /\ m = l /\ y = f /\ Once(Todo(m), y) => ~Holds(Rest(m, l), y)
<1>1. functors[l] \in Seq(Functors) /\ pending[l] \in Seq(Functors)
      /\ Todo(l) \in Seq(Functors) /\ Todo(m) \in Seq(Functors)
  BY TodoType
<1>2. Todo(l) # <<>> /\ Head(Todo(l)) = Head(functors[l])
  BY <1>1, ConcatTail DEF Todo
<1>3. Head(functors[l]) \in Functors
  BY <1>1, HeadTailProperties
<1>4. CASE m = l
  <2>1. Rest(m, l) = Tail(Todo(m)) /\ Rest(m, l) \in Seq(Functors)
    BY <1>1, <1>2, <1>4, HeadTailProperties DEF Rest
  <2> QED BY <1>1, <1>2, <1>3, <1>4, <2>1, TailHolds
<1>5. CASE m # l
  <2>1. Rest(m, l) = Todo(m)
    BY <1>5 DEF Rest
  <2>2. Holds(Todo(l), Head(functors[l]))
    BY <1>1, <1>2, TailHolds
  <2> QED BY <1>1, <1>3, <1>5, <2>1, <2>2
<1> QED BY <1>4, <1>5

(* Loop l has begun on Functor(op, c), which has queued nothing, ... *)
Loses(l, op, c) ==
  \A m \in Loops : \A o, d :
    LET gone == m = l /\ o = op /\ d = c
        once == Once(Todo(m), Functor(o, d))
    IN /\ At(m, o, d)' => At(m, o, d)
       /\ At(m, o, d) /\ ~gone => At(m, o, d)'
       /\ once => once'
       /\ gone => At(m, o, d) /\ (once => ~At(m, o, d)')

(* ... or another functor for the same connection, on loop k.              *)
LosesGains(l, op, k, next, c) ==
  \A m \in Loops : \A o, d :
    LET gone == m = l /\ o = op /\ d = c
        new == m = k /\ o = next /\ d = c
        once == Once(Todo(m), Functor(o, d))
    IN /\ At(m, o, d)' => At(m, o, d) \/ new
       /\ (At(m, o, d) /\ ~gone) \/ new => At(m, o, d)'
       /\ once /\ ~new => once'
       /\ gone => At(m, o, d) /\ (once /\ ~new => ~At(m, o, d)')

(* Running a functor takes it out of the queue, ...                         *)
LEMMA RunLoses ==
  ASSUME TypeOK, NEW l \in Loops, functors[l] # <<>>,
         NEW op, NEW c, Head(functors[l]) = Functor(op, c),
         functors' = [functors EXCEPT ![l] = Tail(functors[l])], UNCHANGED pending
  PROVE  Loses(l, op, c)
<1> SUFFICES ASSUME NEW m \in Loops, NEW o, NEW d
             PROVE  LET gone == m = l /\ o = op /\ d = c
                        once == Once(Todo(m), Functor(o, d))
                    IN /\ At(m, o, d)' => At(m, o, d)
                       /\ At(m, o, d) /\ ~gone => At(m, o, d)'
                       /\ once => once'
                       /\ gone => At(m, o, d) /\ (once => ~At(m, o, d)')
  BY DEF Loses
<1>1. Todo(m)' = Rest(m, l)
  <2>1. functors[m] \in Seq(Functors) /\ pending[m] \in Seq(Functors)
    BY TodoType
  <2>2. CASE m = l
    <3>1. functors'[m] = Tail(functors[m])
      BY <2>2 DEF TypeOK
    <3>2. Tail(functors[m] \o pending[m]) = Tail(functors[m]) \o pending[m]
      BY <2>1, <2>2, ConcatTail
    <3>3. Todo(m)' = functors'[m] \o pending[m] /\ Rest(m, l) = Tail(functors[m] \o pending[m])
      BY <2>2 DEF Todo, Rest
    <3> QED BY <3>1, <3>2, <3>3
  <2>3. CASE m # l
    BY <2>3 DEF Todo, Rest, TypeOK
  <2> QED BY <2>2, <2>3
<1> DEFINE g == Functor(o, d)
<1>2. g = Functor(op, c) <=> o = op /\ d = c
  BY FunctorFields
<1>3. /\ At(m, o, d) = Holds(Todo(m), g) /\ At(m, o, d)' = Holds(Todo(m)', g)
      /\ Once(Todo(m), g)' = Once(Todo(m)', g)
  BY DEF At, Functor, Holds, Once
<1>4. /\ Holds(Rest(m, l), g) => Holds(Todo(m), g)
      /\ Holds(Todo(m), g) /\ ~(m = l /\ g = Functor(op, c)) => Holds(Rest(m, l), g)
      /\ Once(Todo(m), g) => Once(Rest(m, l), g)
      /\ m = l /\ g = Functor(op, c) /\ Once(Todo(m), g) => ~Holds(Rest(m, l), g)
      /\ Holds(Todo(l), Functor(op, c))
  BY RestHolds
<1> HIDE DEF g
<1> QED BY <1>1, <1>2, <1>3, <1>4 DEF g

(* ... and one that queues another puts that into its loop's queue.         *)
LEMMA RunLosesGains ==
  ASSUME TypeOK, NEW l \in Loops, functors[l] # <<>>,
         NEW op, NEW c \in Conns, Head(functors[l]) = Functor(op, c),
         functors' = [functors EXCEPT ![l] = Tail(functors[l])],
         NEW k \in Loops, NEW next \in Ops, QueueInLoop(k, next, c)
  PROVE  LosesGains(l, op, k, next, c)
<1> SUFFICES ASSUME NEW m \in Loops, NEW o, NEW d
             PROVE  LET gone == m = l /\ o = op /\ d = c
                        new == m = k /\ o = next /\ d = c
                        once == Once(Todo(m), Functor(o, d))
                    IN /\ At(m, o, d)' => At(m, o, d) \/ new
                       /\ (At(m, o, d) /\ ~gone) \/ new => At(m, o, d)'
                       /\ once /\ ~new => once'
                       /\ gone => At(m, o, d) /\ (once /\ ~new => ~At(m, o, d)')
  BY DEF LosesGains
<1> DEFINE f == Functor(next, c)
<1>1. f \in Functors
  BY FunctorFields
<1>2. Todo(m)' = IF m = k THEN Append(Rest(m, l), f) ELSE Rest(m, l)
  <2>1. functors[m] \in Seq(Functors) /\ pending[m] \in Seq(Functors)
    BY TodoType
  <2> DEFINE fs == IF m = l THEN Tail(functors[m]) ELSE functors[m]
  <2>2. functors'[m] = fs /\ pending'[m] = IF m = k THEN Append(pending[m], f) ELSE pending[m]
    BY DEF TypeOK, QueueInLoop
  <2>3. fs \in Seq(Functors) /\ fs \o pending[m] = Rest(m, l)
    <3>1. CASE m = l
      <4>1. Tail(functors[m] \o pending[m]) = Tail(functors[m]) \o pending[m]
        BY <2>1, <3>1, ConcatTail
      <4>2. Rest(m, l) = Tail(functors[m] \o pending[m]) /\ fs = Tail(functors[m])
        BY <3>1 DEF Todo, Rest
      <4>3. Tail(functors[m]) \in Seq(Functors)
        BY <2>1, <3>1, HeadTailProperties
      <4> QED BY <4>1, <4>2, <4>3
    <3>2. CASE m # l
      BY <2>1, <3>2 DEF Todo, Rest
    <3> QED BY <3>1, <3>2
  <2>4. Todo(m)' = fs \o pending'[m]
    BY <2>2 DEF Todo
  <2> HIDE DEF f, fs
  <2>5. \A s, t \in Seq(Functors), x \in Functors :
          s \o Append(t, x) = Append(s \o t, x)
    BY ConcatAppend
  <2>6. fs \o Append(pending[m], f) = Append(fs \o pending[m], f)
    BY <1>1, <2>1, <2>3, <2>5, Zenon
  <2>7. CASE m = k
    BY <2>2, <2>3, <2>4, <2>6, <2>7
  <2>8. CASE m # k
    BY <2>2, <2>3, <2>4, <2>8
  <2> QED BY <2>7, <2>8
<1> DEFINE g == Functor(o, d)
<1>3. (g = Functor(op, c) <=> o = op /\ d = c) /\ (g = f <=> o = next /\ d = c)
  BY FunctorFields
<1>4. /\ At(m, o, d) = Holds(Todo(m), g) /\ At(m, o, d)' = Holds(Todo(m)', g)
      /\ Once(Todo(m), g)' = Once(Todo(m)', g)
  BY DEF At, Functor, Holds, Once
<1>5. /\ Rest(m, l) \in Seq(Functors)
      /\ Holds(Rest(m, l), g) => Holds(Todo(m), g)
      /\ Holds(Todo(m), g) /\ ~(m = l /\ g = Functor(op, c)) => Holds(Rest(m, l), g)
      /\ Once(Todo(m), g) => Once(Rest(m, l), g)
      /\ m = l /\ g = Functor(op, c) /\ Once(Todo(m), g) => ~Holds(Rest(m, l), g)
      /\ Holds(Todo(l), Functor(op, c))
  BY RestHolds
<1>6. /\ Holds(Append(Rest(m, l), f), g) <=> Holds(Rest(m, l), g) \/ g = f
      /\ Once(Rest(m, l), g) /\ g # f => Once(Append(Rest(m, l), f), g)
  BY <1>1, <1>5, AppendHolds
<1> HIDE DEF g, f
<1>7. CASE m = k
  BY <1>2, <1>3, <1>4, <1>5, <1>6, <1>7 DEF g
<1>8. CASE m # k
  BY <1>2, <1>3, <1>4, <1>5, <1>8 DEF g
<1> QED BY <1>7, <1>8

-----------------------------------------------------------------------------
(* Types.                                                                  *)

(* queueInLoop keeps the queues' types.                                     *)
LEMMA QueueType ==
  ASSUME TypeOK, NEW l \in Loops, NEW op \in Ops, NEW c \in Conns,
         QueueInLoop(l, op, c)
  PROVE  pending' \in [Loops -> Seq([op : Ops, conn : Conns])]
<1>1. Functor(op, c) \in [op : Ops, conn : Conns]
  BY FunctorFields DEF Functors
<1>2. pending \in [Loops -> Seq([op : Ops, conn : Conns])]
  BY DEF TypeOK
<1>3. Append(pending[l], Functor(op, c)) \in Seq([op : Ops, conn : Conns])
  BY <1>1, <1>2, AppendProperties
<1> QED BY <1>2, <1>3 DEF QueueInLoop

(* getNextLoop's index never leaves the vector of loops.                   *)
LEMMA NextLoopIsLoop ==
  ASSUME TypeOK
  PROVE  /\ Base \in Loops /\ GetNextLoop \in Loops
         /\ NextAfter \in Nat /\ (NextAfter = 0 \/ NextAfter < NumThreads)
BY TcpServerAssumption DEF TypeOK, Base, Loops, GetNextLoop, NextAfter

(* handleClose queues something for the same connection.                   *)
LEMMA CloseQueues ==
  ASSUME TypeOK, NEW c \in Conns, HandleClose(c)
  PROVE  /\ channel' = [channel EXCEPT ![c] = "disabled"]
         /\ connections_' \in {connections_, connections_ \ {c}}
         /\ UNCHANGED <<state_, timer, cgi, ub>>
         /\ pending' \in [Loops -> Seq([op : Ops, conn : Conns])]
<1>1. loop_[c] \in Loops /\ Base \in Loops
  BY NextLoopIsLoop DEF TypeOK
<1>2. "connectDestroyed" \in Ops /\ "removeConnectionInLoop" \in Ops
  BY DEF Ops, Shared
<1>3. pending' \in [Loops -> Seq([op : Ops, conn : Conns])]
  BY <1>1, <1>2, QueueType DEF HandleClose, RemoveConnectionInLoop
<1> QED BY <1>3 DEF HandleClose, RemoveConnectionInLoop

(* Every step of the server's loops keeps the types, and a call going on is *)
(* about a connection.                                                      *)
LEMMA TypeInductive == TypeOK /\ CallInv /\ [Next]_vars => TypeOK' /\ CallInv'
<1> SUFFICES ASSUME TypeOK, CallInv, [Next]_vars PROVE TypeOK' /\ CallInv'
  OBVIOUS
<1> USE DEF serverVars, netVars
<1>1. ASSUME NEW l \in Loops, Poll(l) \/ TimersDone(l) \/ EndFunctors(l)
      PROVE  TypeOK' /\ CallInv'
  <2>1. /\ active' \in [Loops -> SUBSET Conns] /\ held' \in [Loops -> SUBSET Conns]
        /\ phase' \in [Loops -> {"poll", "timers", "dispatch", "functors"}]
    <3>1. CASE Poll(l)
      <4>1. Ready(l) \in SUBSET Conns
        BY DEF Ready, TypeOK
      <4> QED BY <3>1, <4>1 DEF Poll, TypeOK
    <3>2. CASE TimersDone(l)
      BY <3>2 DEF TimersDone, TypeOK
    <3>3. CASE EndFunctors(l)
      BY <3>3 DEF EndFunctors, TypeOK
    <3> QED BY <1>1, <3>1, <3>2, <3>3
  <2>2. UNCHANGED <<serverVars, state_, channel, pending, functors, timer, call, netVars, cgi, ub>>
    BY <1>1 DEF Poll, TimersDone, EndFunctors
  <2> QED BY <2>1, <2>2 DEF TypeOK, CallInv
<1>2. ASSUME NEW l \in Loops, SwapPending(l) PROVE TypeOK' /\ CallInv'
  <2>1. <<>> \in Seq([op : Ops, conn : Conns])
    OBVIOUS
  <2> QED BY <1>2, <2>1 DEF TypeOK, CallInv, SwapPending
<1>3. ASSUME NEW l \in Loops, RunFunctor(l) PROVE TypeOK' /\ CallInv'
  <2> DEFINE f == Head(functors[l])
  <2>1. /\ functors[l] \in Seq([op : Ops, conn : Conns]) /\ functors[l] # <<>>
        /\ f \in [op : Ops, conn : Conns]
        /\ Tail(functors[l]) \in Seq([op : Ops, conn : Conns])
    BY <1>3, HeadTailProperties DEF TypeOK, RunFunctor
  <2>2. f.conn \in Conns /\ f.op \in Ops /\ loop_[f.conn] \in Loops
    BY <2>1 DEF TypeOK
  <2>3. /\ functors' \in [Loops -> Seq([op : Ops, conn : Conns])]
        /\ held' \in [Loops -> SUBSET Conns]
        /\ UNCHANGED <<listenning_, next_, loop_, phase, active, call, data, closed>>
    BY <1>3, <2>1, <2>2 DEF TypeOK, RunFunctor
  <2>4. /\ pending' \in [Loops -> Seq([op : Ops, conn : Conns])]
        /\ connections_' \in SUBSET Conns
        /\ state_' \in [Conns -> {"none", "kConnecting", "kConnected",
                                  "kDisconnecting", "kDisconnected"}]
        /\ channel' \in [Conns -> {"new", "reading", "disabled", "removed"}]
        /\ timer' \in [Conns -> {"none", "armed", "expired"}]
        /\ cgi' \in SUBSET Conns
        /\ ub' \in {"none", "removedChannel", "useAfterFree", "fatal"}
    <3>1. CASE ConnectEstablished(f.conn)
      BY <2>2, <3>1 DEF ConnectEstablished, SetState, TypeOK
    <3>2. CASE /\ RemoveConnectionInLoop(f.conn)
               /\ UNCHANGED <<state_, channel, timer, cgi, ub>>
      <4>1. "connectDestroyed" \in Ops
        BY DEF Ops, Shared
      <4> QED BY <2>2, <3>2, <4>1, QueueType DEF RemoveConnectionInLoop, TypeOK
    <3>3. CASE ConnectDestroyed(f.conn)
      BY <2>2, <3>3 DEF ConnectDestroyed, SetState, TypeOK
    <3>4. CASE ForceCloseInLoop(f.conn)
      <4>1. CASE HandleClose(f.conn)
        <5>1. /\ channel' = [channel EXCEPT ![f.conn] = "disabled"]
              /\ connections_' \in {connections_, connections_ \ {f.conn}}
              /\ UNCHANGED <<state_, timer, cgi, ub>>
              /\ pending' \in [Loops -> Seq([op : Ops, conn : Conns])]
          BY <2>2, <4>1, CloseQueues
        <5>2. channel' \in [Conns -> {"new", "reading", "disabled", "removed"}]
          BY <5>1 DEF TypeOK
        <5> QED BY <5>1, <5>2 DEF TypeOK
      <4> QED BY <3>4, <4>1 DEF ForceCloseInLoop, TypeOK
    <3>5. CASE AddTimerInLoop(f.conn)
      BY <2>2, <3>5 DEF AddTimerInLoop, TypeOK
    <3>6. CASE ServerCgi(f.conn)
      BY <2>2, <3>6 DEF ServerCgi, TypeOK
    <3>7. CASE RunRaw(f.conn)
      BY <2>2, <3>7 DEF RunRaw, TypeOK
    <3> QED BY <1>3, <3>1, <3>2, <3>3, <3>4, <3>5, <3>6, <3>7 DEF RunFunctor
  <2> QED BY <2>3, <2>4 DEF TypeOK, CallInv
<1>4. ASSUME NEW l \in Loops, NEW c \in Conns, TimerFire(l, c)
      PROVE  TypeOK' /\ CallInv'
  <2>1. "forceCloseInLoop" \in Ops
    BY DEF Ops, Shared
  <2>2. pending' \in [Loops -> Seq([op : Ops, conn : Conns])]
    BY <1>4, <2>1, QueueType DEF TimerFire, TypeOK
  <2> QED BY <1>4, <2>2 DEF TypeOK, CallInv, TimerFire, SetState
<1>5. ASSUME NEW l \in Loops, NEW c \in Conns, HandleRead(l, c)
      PROVE  TypeOK' /\ CallInv'
  <2>1. "server_cgi" \in Ops /\ Base \in Loops
    BY NextLoopIsLoop DEF Ops, Shared
  <2>2. pending' \in [Loops -> Seq([op : Ops, conn : Conns])]
    BY <1>5, <2>1, QueueType DEF HandleRead, TypeOK
  <2>3. /\ state_' \in [Conns -> {"none", "kConnecting", "kConnected",
                                  "kDisconnecting", "kDisconnected"}]
        /\ active' \in [Loops -> SUBSET Conns]
        /\ data' \in SUBSET Conns /\ cgi' \in SUBSET Conns
    <3>1. state_' = state_ \/ state_' = [state_ EXCEPT ![c] = "kDisconnecting"]
      BY <1>5 DEF HandleRead, SetState
    <3>2. active' = [active EXCEPT ![l] = @ \ {c}] /\ data' = data \ {c}
      BY <1>5 DEF HandleRead
    <3>3. cgi' = cgi \/ cgi' = cgi \cup {c}
      BY <1>5 DEF HandleRead
    <3>4. state_' \in [Conns -> {"none", "kConnecting", "kConnected",
                                "kDisconnecting", "kDisconnected"}]
      BY <3>1 DEF TypeOK
    <3>5. active' \in [Loops -> SUBSET Conns]
      <4>1. active \in [Loops -> SUBSET Conns] /\ active[l] \ {c} \in SUBSET Conns
        BY DEF TypeOK
      <4> QED BY <3>2, <4>1
    <3>6. data' \in SUBSET Conns /\ cgi' \in SUBSET Conns
      BY <3>2, <3>3 DEF TypeOK
    <3> QED BY <3>4, <3>5, <3>6
  <2>4. UNCHANGED <<serverVars, channel, phase, functors, held, timer, call, closed, ub>>
    BY <1>5 DEF HandleRead
  <2> QED BY <2>2, <2>3, <2>4 DEF TypeOK, CallInv
<1>6. ASSUME NEW l \in Loops, NEW c \in Conns, HandleReadZero(l, c)
      PROVE  TypeOK' /\ CallInv'
  BY <1>6, CloseQueues DEF TypeOK, CallInv, HandleReadZero
<1>7. ASSUME Start \/ AcceptFatal PROVE TypeOK' /\ CallInv'
  BY <1>7 DEF TypeOK, CallInv, Start, Listen, AcceptFatal
<1>8. ASSUME CallSteps PROVE TypeOK' /\ CallInv'
  <2>1. call.step # "none" /\ call.conn \in Conns
    BY <1>8 DEF CallSteps, ShutdownTest, ShutdownSet, DelayTest, DelaySet,
                SendQueue, CallStep, CallInv
  <2>2. loop_[call.conn] \in Loops
    BY <2>1 DEF TypeOK
  <2>3. {"shutdownInLoop", "sendInLoop", "addTimerInLoop"} \subseteq Ops
    BY DEF Ops, Raw
  <2>4. pending' \in [Loops -> Seq([op : Ops, conn : Conns])]
    BY <1>8, <2>1, <2>2, <2>3, QueueType DEF CallSteps, ShutdownTest, ShutdownSet,
       DelayTest, DelaySet, SendQueue, TypeOK
  <2>5. call' = NoCall \/ \E s \in {"shutdownSet", "delay", "delaySet"} : Goto(s)
    BY <1>8 DEF CallSteps, ShutdownTest, ShutdownSet, DelayTest, DelaySet, SendQueue
  <2>6. CallInv' /\ call' \in [step : {"none", "shutdown", "shutdownSet", "delay", "delaySet",
                                      "send"}, conn : Conns \cup {NULL}]
    <3>1. CASE call' = NoCall
      BY <3>1 DEF NoCall, CallInv
    <3>2. ASSUME NEW s \in {"shutdownSet", "delay", "delaySet"}, Goto(s)
          PROVE  /\ call' \in [step : {"none", "shutdown", "shutdownSet", "delay",
                                       "delaySet", "send"}, conn : Conns \cup {NULL}]
                 /\ call'.conn \in Conns
      <4>1. call \in [step : {"none", "shutdown", "shutdownSet", "delay",
                             "delaySet", "send"}, conn : Conns \cup {NULL}]
        BY DEF TypeOK
      <4> QED BY <2>1, <3>2, <4>1 DEF Goto
    <3> QED BY <2>5, <3>1, <3>2 DEF CallInv
  <2>7. /\ state_' = state_ \/ SetState(call.conn, "kDisconnecting")
        /\ timer' = timer \/ timer' = [timer EXCEPT ![call.conn] = "armed"]
        /\ UNCHANGED <<serverVars, channel, phase, active, functors, held, netVars, cgi, ub>>
    BY <1>8 DEF CallSteps, ShutdownTest, ShutdownSet, DelayTest, DelaySet, SendQueue
  <2>8. /\ state_' \in [Conns -> {"none", "kConnecting", "kConnected",
                                  "kDisconnecting", "kDisconnected"}]
        /\ timer' \in [Conns -> {"none", "armed", "expired"}]
    <3>1. state_' = state_ \/ state_' = [state_ EXCEPT ![call.conn] = "kDisconnecting"]
      BY <2>7 DEF SetState
    <3>2. /\ state_ \in [Conns -> {"none", "kConnecting", "kConnected",
                                   "kDisconnecting", "kDisconnected"}]
          /\ timer \in [Conns -> {"none", "armed", "expired"}]
      BY DEF TypeOK
    <3> QED BY <2>1, <2>7, <3>1, <3>2
  <2> QED BY <2>4, <2>6, <2>7, <2>8 DEF TypeOK
<1>9. ASSUME NEW c \in Conns, Accept(c) PROVE TypeOK' /\ CallInv'
  <2>1. "connectEstablished" \in Ops
    BY DEF Ops, Shared
  <2>2. pending' \in [Loops -> Seq([op : Ops, conn : Conns])]
    BY <1>9, <2>1, QueueType, NextLoopIsLoop DEF Accept, NewConnection, TypeOK
  <2>3. state_' \in [Conns -> {"none", "kConnecting", "kConnected",
                               "kDisconnecting", "kDisconnected"}]
    <3>1. \E s \in {"kConnected", "kConnecting"} : SetState(c, s)
      BY <1>9 DEF Accept, NewConnection, Construct
    <3> QED BY <3>1 DEF SetState, TypeOK
  <2>4. /\ loop_' \in [Conns -> Loops] /\ connections_' \in SUBSET Conns
        /\ channel' \in [Conns -> {"new", "reading", "disabled", "removed"}]
        /\ next_' \in Nat /\ (next_' = 0 \/ next_' < NumThreads)
    BY <1>9, NextLoopIsLoop DEF Accept, NewConnection, Construct, TypeOK
  <2> QED BY <1>9, <2>2, <2>3, <2>4 DEF Accept, TypeOK, CallInv
<1>10. ASSUME NEW c \in Conns, Kick(c) \/ OnCgiMessage(c) PROVE TypeOK' /\ CallInv'
  <2>1. /\ cgi' \in SUBSET Conns
        /\ UNCHANGED <<serverVars, state_, channel, phase, active, pending, functors, held,
                       timer, netVars, ub>>
        /\ call' = call \/ \E s \in {"shutdown", "send"} : call' = [step |-> s, conn |-> c]
    BY <1>10 DEF Kick, OnCgiMessage, TypeOK
  <2>2. call' \in [step : {"none", "shutdown", "shutdownSet", "delay", "delaySet",
                          "send"}, conn : Conns \cup {NULL}]
    BY <2>1 DEF TypeOK
  <2>3. CallInv'
    BY <2>1 DEF CallInv
  <2> QED BY <2>1, <2>2, <2>3 DEF TypeOK
<1>11. ASSUME NEW c \in Conns, Environment(c) PROVE TypeOK' /\ CallInv'
  <2>1. /\ data' = data \/ data' = data \cup {c}
        /\ closed' = closed \/ closed' = closed \cup {c}
        /\ timer' = timer \/ timer' = [timer EXCEPT ![c] = "expired"]
        /\ UNCHANGED <<serverVars, state_, channel, phase, active, pending, functors, held,
                       call, cgi, ub>>
    BY <1>11 DEF Environment, PeerSend, PeerClose, TimePasses
  <2>2. data' \in SUBSET Conns /\ closed' \in SUBSET Conns
    BY <2>1 DEF TypeOK
  <2>3. timer' \in [Conns -> {"none", "armed", "expired"}]
    <3>1. timer \in [Conns -> {"none", "armed", "expired"}]
      BY DEF TypeOK
    <3> QED BY <2>1, <3>1
  <2> QED BY <2>1, <2>2, <2>3 DEF TypeOK, CallInv
<1>12. CASE UNCHANGED vars
  BY <1>12 DEF vars, TypeOK, CallInv
<1> QED BY <1>1, <1>2, <1>3, <1>4, <1>5, <1>6, <1>7, <1>8, <1>9, <1>10, <1>11, <1>12
        DEF Next, LoopStep, BaseStep

-----------------------------------------------------------------------------
(* Loops.                                                                  *)

(* A loop holds functors and active channels only in the phases that use    *)
(* them.                                                                    *)
LEMMA LoopInductive == TypeOK /\ LoopInv /\ [Next]_vars => LoopInv'
<1> SUFFICES ASSUME TypeOK, LoopInv, [Next]_vars PROVE LoopInv'
  OBVIOUS
<1>1. ASSUME NEW l \in Loops,
             \/ Poll(l) \/ TimersDone(l) \/ SwapPending(l) \/ RunFunctor(l)
             \/ EndFunctors(l)
      PROVE  LoopInv'
  <2>1. CASE Poll(l)
    BY <2>1 DEF Poll, LoopInv, TypeOK
  <2>2. CASE TimersDone(l)
    BY <2>2 DEF TimersDone, LoopInv, TypeOK
  <2>3. CASE SwapPending(l)
    BY <2>3 DEF SwapPending, LoopInv, TypeOK
  <2>4. CASE RunFunctor(l)
    <3>1. /\ phase' = phase /\ active' = active /\ phase[l] = "functors"
          /\ functors' = [functors EXCEPT ![l] = Tail(@)]
      BY <2>4 DEF RunFunctor
    <3> QED BY <3>1 DEF LoopInv, TypeOK
  <2>5. CASE EndFunctors(l)
    BY <2>5 DEF EndFunctors, LoopInv, TypeOK
  <2> QED BY <1>1, <2>1, <2>2, <2>3, <2>4, <2>5
<1>2. ASSUME NEW l \in Loops, NEW c \in Conns,
             TimerFire(l, c) \/ HandleRead(l, c) \/ HandleReadZero(l, c)
      PROVE  LoopInv'
  <2>1. phase' = phase /\ functors' = functors
    BY <1>2 DEF TimerFire, HandleRead, HandleReadZero
  <2>2. active' = active \/ active' = [active EXCEPT ![l] = @ \ {c}]
    BY <1>2 DEF TimerFire, HandleRead, HandleReadZero
  <2>3. \A m \in Loops : active'[m] \subseteq active[m]
    <3>1. CASE active' = active
      BY <3>1
    <3>2. CASE active' = [active EXCEPT ![l] = @ \ {c}]
      BY <3>2 DEF TypeOK
    <3> QED BY <2>2, <3>1, <3>2
  <2> QED BY <2>1, <2>3 DEF LoopInv
<1>3. CASE UNCHANGED <<phase, functors, active>>
  BY <1>3 DEF LoopInv
<1>4. ASSUME NEW c \in Conns, BaseStep(c) \/ Environment(c)
      PROVE  UNCHANGED <<phase, functors, active>>
  BY <1>4 DEF BaseStep, Environment, Accept, Kick, OnCgiMessage, PeerSend, PeerClose,
              TimePasses
<1>5. ASSUME Start \/ AcceptFatal \/ CallSteps \/ UNCHANGED vars
      PROVE  UNCHANGED <<phase, functors, active>>
  BY <1>5 DEF Start, AcceptFatal, CallSteps, ShutdownTest, ShutdownSet, DelayTest,
              DelaySet, SendQueue, vars
<1> QED BY <1>1, <1>2, <1>3, <1>4, <1>5 DEF Next, LoopStep

-----------------------------------------------------------------------------
(* Connections.                                                            *)

(* A connection that its loop has taken up. *)
Live(c) == state_[c] \notin {"none", "kConnecting"}

(* A step that is about another connection.                                *)
LEMMA OthersKeep ==
  ASSUME NEW c \in Conns, ConnInv(c), loop_[c] \in Loops,
         loop_'[c] = loop_[c], state_'[c] = state_[c], channel'[c] = channel[c],
         c \in connections_' <=> c \in connections_,
         \A m \in Loops, o \in Ops : At(m, o, c)' <=> At(m, o, c),
         \A m \in Loops : LET once == Once(Todo(m), Functor("connectEstablished", c))
                          IN once => once',
         call'.conn = c => call.conn = c,
         Dispatched(c)'
  PROVE  ConnInv(c)'
<1>1. "connectEstablished" \in Ops /\ "connectDestroyed" \in Ops
  BY DEF Ops, Shared
<1>2. Fresh(c)'
  BY DEF ConnInv, Fresh
<1>3. Connecting(c)'
  BY <1>1 DEF ConnInv, Connecting
<1>4. EstablishedOnce(c)'
  BY <1>1 DEF ConnInv, EstablishedOnce
<1>5. DestroyedAtHome(c)'
  BY <1>1 DEF ConnInv, DestroyedAtHome
<1> QED BY <1>2, <1>3, <1>4, <1>5 DEF ConnInv

(* A step about this connection, once it has been taken up. *)
LEMMA LiveKeeps ==
  ASSUME NEW c \in Conns, ConnInv(c), loop_[c] \in Loops, Live(c), Live(c)',
         loop_'[c] = loop_[c],
         \A m \in Loops : At(m, "connectEstablished", c)' => At(m, "connectEstablished", c),
         \A m \in Loops :
           At(m, "connectDestroyed", c)' => At(m, "connectDestroyed", c) \/ m = loop_[c],
         c \notin connections_' /\ channel'[c] # "removed"
           => At(loop_[c], "connectDestroyed", c)',
         Dispatched(c)'
  PROVE  ConnInv(c)'
<1>1. Fresh(c)' /\ Connecting(c)'
  BY DEF Fresh, Connecting, Live
<1>2. \A m \in Loops : ~At(m, "connectEstablished", c)'
  BY DEF ConnInv, EstablishedOnce, Live
<1>3. EstablishedOnce(c)'
  <2>1. Once(Todo(loop_[c]), Functor("connectEstablished", c))'
    BY <1>2 DEF At, Holds, Once
  <2> QED BY <1>2, <2>1 DEF EstablishedOnce
<1>4. DestroyedAtHome(c)'
  BY DEF ConnInv, DestroyedAtHome
<1> QED BY <1>1, <1>3, <1>4 DEF ConnInv

(* Whatever is on its way to a connection, or holds it, it has been taken  *)
(* up, except for connectEstablished.                                      *)
LEMMA KnownIsLive ==
  ASSUME NEW c \in Conns, ConnInv(c)
  PROVE  /\ \A l \in Loops, op \in Ops \ {"connectEstablished"} :
              At(l, op, c) => Live(c)
         /\ call.conn = c => Live(c)
         /\ Registered(c) => Live(c)
         /\ Up(c) => Live(c)
BY DEF ConnInv, Fresh, Connecting, Live, Registered, Up

(* Active channels stay registered ones while channels are only added or    *)
(* dispatched.                                                              *)
LEMMA DispatchedKeeps ==
  ASSUME IInv, loop_' = loop_,
         \A m \in Loops : active'[m] \subseteq active[m],
         \A c \in Conns : Registered(c) => Registered(c)'
  PROVE  \A c \in Conns : Dispatched(c)'
BY DEF IInv, ConnInv, Dispatched

(* The step concerns the queued functors of d at most, ...                 *)
QueuesOfOthers(d) ==
  \A m \in Loops, o \in Ops, c \in Conns \ {d} :
    LET once == Once(Todo(m), Functor(o, c))
    IN (At(m, o, c)' <=> At(m, o, c)) /\ (once => once')

(* ... and it queues none of connectEstablished, nor connectDestroyed but  *)
(* on d's own loop.                                                        *)
QueuesOf(d) ==
  /\ QueuesOfOthers(d)
  /\ \A m \in Loops :
       /\ At(m, "connectEstablished", d)' => At(m, "connectEstablished", d)
       /\ At(m, "connectDestroyed", d)' => At(m, "connectDestroyed", d) \/ m = loop_[d]

(* Which changes of the queues keep the order of a connection's functors.   *)
LEMMA QueueCases ==
  ASSUME NEW d \in Conns
  PROVE  /\ KeepsQueues => QueuesOf(d)
         /\ \A l \in Loops : \A op : Loses(l, op, d) => QueuesOf(d)
         /\ \A l \in Loops : \A op :
              /\ Gains(l, op, d) /\ op # "connectEstablished"
              /\ op = "connectDestroyed" => l = loop_[d]
              => QueuesOf(d)
<1>1. KeepsQueues => QueuesOf(d)
  BY DEF KeepsQueues, QueuesOf, QueuesOfOthers
<1>2. ASSUME NEW l \in Loops, NEW op, Loses(l, op, d) PROVE QueuesOf(d)
  BY <1>2 DEF Loses, QueuesOf, QueuesOfOthers
<1>3. ASSUME NEW l \in Loops, NEW op, Gains(l, op, d), op # "connectEstablished",
             op = "connectDestroyed" => l = loop_[d]
      PROVE  QueuesOf(d)
  BY <1>3 DEF Gains, QueuesOf, QueuesOfOthers
<1> QED BY <1>1, <1>2, <1>3

(* One functor of a connection run and another queued keeps that order,     *)
(* too.                                                                     *)
LEMMA RunQueuesOf ==
  ASSUME NEW d \in Conns, NEW l \in Loops, NEW op, NEW k \in Loops, NEW next,
         LosesGains(l, op, k, next, d), next # "connectEstablished",
         next = "connectDestroyed" => k = loop_[d]
  PROVE  QueuesOf(d)
BY DEF LosesGains, QueuesOf, QueuesOfOthers

(* Of the other connections nothing changes.                               *)
FieldsOf(d) ==
  \A c \in Conns \ {d} :
    /\ state_'[c] = state_[c] /\ channel'[c] = channel[c]
    /\ c \in connections_' <=> c \in connections_
    /\ call'.conn = c => call.conn = c

(* A step of a connection that has been taken up. *)
LEMMA LiveStep ==
  ASSUME IInv, NEW d \in Conns, Live(d), Live(d)', loop_' = loop_,
         FieldsOf(d), QueuesOf(d),
         d \notin connections_' /\ channel'[d] # "removed"
           => At(loop_[d], "connectDestroyed", d)',
         \A c \in Conns : Dispatched(c)'
  PROVE  \A c \in Conns : ConnInv(c)'
<1> SUFFICES ASSUME NEW c \in Conns PROVE ConnInv(c)'
  OBVIOUS
<1>0. ConnInv(c) /\ loop_[c] \in Loops /\ "connectEstablished" \in Ops
  BY DEF IInv, TypeOK, Ops, Shared
<1>1. CASE c = d
  BY <1>0, <1>1, LiveKeeps DEF QueuesOf
<1>2. CASE c # d
  BY <1>0, <1>2, OthersKeep DEF QueuesOf, QueuesOfOthers, FieldsOf
<1> QED BY <1>1, <1>2

(* A step that no connection's invariant speaks of. *)
LEMMA QuietStep ==
  ASSUME IInv, KeepsQueues, UNCHANGED <<loop_, state_, channel, connections_>>,
         \A c \in Conns : call'.conn = c => call.conn = c,
         \A c \in Conns : Dispatched(c)'
  PROVE  \A c \in Conns : ConnInv(c)'
<1> SUFFICES ASSUME NEW c \in Conns PROVE ConnInv(c)'
  OBVIOUS
<1>0. ConnInv(c) /\ loop_[c] \in Loops /\ "connectEstablished" \in Ops
  BY DEF IInv, TypeOK, Ops, Shared
<1> QED BY <1>0, OthersKeep DEF KeepsQueues

-----------------------------------------------------------------------------
(* One lemma for each of the steps that change a connection.               *)

(* handleClose: the functor that is queued erases the connection from the  *)
(* map, or destroys it.                                                    *)
LEMMA HandleCloseQueues ==
  ASSUME IInv, NEW c \in Conns, Live(c), HandleClose(c)
  PROVE  /\ state_' = state_ /\ channel'[c] = "disabled"
         /\ \A d \in Conns \ {c} : channel'[d] = channel[d]
                                   /\ (d \in connections_' <=> d \in connections_)
         /\ \E k \in Loops, op \in Ops \ {"connectEstablished"} :
              /\ QueueInLoop(k, op, c)
              /\ op = "connectDestroyed" => k = loop_[c]
              /\ c \in connections_ /\ c \notin connections_' => op = "connectDestroyed"
<1>1. loop_[c] \in Loops /\ Base \in Loops /\ TypeOK
  BY NextLoopIsLoop DEF TypeOK, IInv
<1>2. {"connectDestroyed", "removeConnectionInLoop"} \subseteq Ops \ {"connectEstablished"}
  BY DEF Ops, Shared
<1>3. state_' = state_ /\ channel' = [channel EXCEPT ![c] = "disabled"]
  BY DEF HandleClose
<1>4. connections_' = connections_ \/ connections_' = connections_ \ {c}
  BY DEF HandleClose, RemoveConnectionInLoop
<1>5. CASE loop_[c] = Base
  <2>1. QueueInLoop(loop_[c], "connectDestroyed", c)
    BY <1>5 DEF HandleClose, RemoveConnectionInLoop
  <2> QED BY <1>1, <1>2, <1>3, <1>4, <2>1 DEF TypeOK
<1>6. CASE loop_[c] # Base
  <2>1. QueueInLoop(Base, "removeConnectionInLoop", c) /\ connections_' = connections_
    BY <1>6 DEF HandleClose
  <2> QED BY <1>1, <1>2, <1>3, <2>1 DEF TypeOK
<1> QED BY <1>5, <1>6

(* read returns 0: handleClose, in the connection's own loop.               *)
LEMMA HandleReadZeroKeeps ==
  ASSUME IInv, NEW l \in Loops, NEW c \in Conns, HandleReadZero(l, c)
  PROVE  \A d \in Conns : ConnInv(d)'
<1>1. TypeOK /\ ConnInv(c) /\ c \in active[l]
  BY DEF IInv, HandleReadZero
<1>2. Registered(c) /\ loop_[c] = l
  BY <1>1 DEF ConnInv, Dispatched
<1>3. Live(c)
  BY <1>1, <1>2, KnownIsLive
<1>4. HandleClose(c) /\ UNCHANGED <<loop_, functors, call>>
      /\ active' = [active EXCEPT ![l] = @ \ {c}]
  BY DEF HandleReadZero
<1>5. /\ state_' = state_ /\ channel'[c] = "disabled"
      /\ \A d \in Conns \ {c} : channel'[d] = channel[d]
                                /\ (d \in connections_' <=> d \in connections_)
  BY <1>3, <1>4, HandleCloseQueues
<1>6. PICK k \in Loops, op \in Ops \ {"connectEstablished"} :
        /\ QueueInLoop(k, op, c)
        /\ op = "connectDestroyed" => k = loop_[c]
        /\ c \in connections_ /\ c \notin connections_' => op = "connectDestroyed"
  BY <1>3, <1>4, HandleCloseQueues
<1>7. Gains(k, op, c)
  BY <1>1, <1>4, <1>6, QueueGains
<1>8. QueuesOf(c)
  BY <1>6, <1>7, QueueCases
<1>9. c \notin connections_' => At(loop_[c], "connectDestroyed", c)'
  <2>1. c \notin connections_ => At(loop_[c], "connectDestroyed", c)
    BY <1>1, <1>2, <1>3 DEF ConnInv, DestroyedAtHome, Live, Registered
  <2>2. At(loop_[c], "connectDestroyed", c) \/ op = "connectDestroyed"
        => At(loop_[c], "connectDestroyed", c)'
    <3>1. loop_[c] \in Loops
      BY <1>1 DEF TypeOK
    <3>2. \A m \in Loops : \A o : At(m, o, c)' <=> At(m, o, c) \/ (m = k /\ o = op)
      BY <1>7 DEF Gains
    <3> QED BY <1>4, <1>6, <3>1, <3>2
  <2> QED BY <1>6, <2>1, <2>2
<1>10. \A d \in Conns : Dispatched(d)'
  <2>1. \A m \in Loops : active'[m] \subseteq active[m]
    BY <1>1, <1>4 DEF TypeOK
  <2>2. \A d \in Conns : Registered(d) => Registered(d)'
    BY <1>5 DEF Registered
  <2> QED BY <1>4, <2>1, <2>2, DispatchedKeeps
<1>11. FieldsOf(c) /\ Live(c)'
  BY <1>3, <1>4, <1>5 DEF FieldsOf, Live
<1> QED BY <1>3, <1>4, <1>8, <1>9, <1>10, <1>11, LiveStep

(* A step of the program with the connection: nothing but its state is     *)
(* set, among the states of a connection that is up, and nothing but       *)
(* functors other than connectEstablished and connectDestroyed are queued. *)
LEMMA UpStep ==
  ASSUME IInv, NEW c \in Conns, Live(c), UNCHANGED <<loop_, channel, connections_, functors>>,
         state_' = state_ \/ SetState(c, "kDisconnecting"),
         \/ UNCHANGED pending
         \/ \E k \in Loops, op \in Ops \ {"connectEstablished", "connectDestroyed"} :
              QueueInLoop(k, op, c),
         \A d \in Conns : call'.conn = d => call.conn = d \/ d = c,
         \A m \in Loops : active'[m] \subseteq active[m]
  PROVE  \A d \in Conns : ConnInv(d)'
<1>1. TypeOK /\ ConnInv(c) /\ loop_[c] \in Loops
  BY DEF IInv, TypeOK
<1>2. QueuesOf(c) /\ (At(loop_[c], "connectDestroyed", c)
                        => At(loop_[c], "connectDestroyed", c)')
  <2>1. CASE UNCHANGED pending
    BY <1>1, <2>1, QueuesKept, QueueCases DEF KeepsQueues
  <2>2. ASSUME NEW k \in Loops, NEW op \in Ops \ {"connectEstablished", "connectDestroyed"},
               QueueInLoop(k, op, c)
        PROVE  QueuesOf(c) /\ (At(loop_[c], "connectDestroyed", c)
                                 => At(loop_[c], "connectDestroyed", c)')
    <3>1. Gains(k, op, c)
      BY <1>1, <2>2, QueueGains
    <3> QED BY <1>1, <3>1, QueueCases DEF Gains
  <2> QED BY <2>1, <2>2
<1>3. Live(c)' /\ FieldsOf(c)
  BY <1>1 DEF Live, FieldsOf, SetState, TypeOK
<1>4. c \notin connections_' /\ channel'[c] # "removed"
        => At(loop_[c], "connectDestroyed", c)'
  BY <1>1, <1>2 DEF ConnInv, DestroyedAtHome, Live
<1>5. \A d \in Conns : Dispatched(d)'
  BY DispatchedKeeps DEF Registered
<1> QED BY <1>2, <1>3, <1>4, <1>5, LiveStep

(* The idle timer closes a connection.                                      *)
LEMMA TimerFireKeeps ==
  ASSUME IInv, NEW l \in Loops, NEW c \in Conns, TimerFire(l, c)
  PROVE  \A d \in Conns : ConnInv(d)'
<1>1. /\ UNCHANGED <<loop_, channel, connections_, functors, active, call>>
  BY DEF TimerFire, serverVars
<1>2. CASE Alive(c) /\ Up(c)
  <2>1. SetState(c, "kDisconnecting") /\ QueueInLoop(l, "forceCloseInLoop", c)
    BY <1>2 DEF TimerFire
  <2>2. "forceCloseInLoop" \in Ops \ {"connectEstablished", "connectDestroyed"}
    BY DEF Ops, Shared
  <2>3. Live(c)
    BY <1>2 DEF Live, Up
  <2> QED BY <1>1, <2>1, <2>2, <2>3, UpStep
<1>3. CASE ~(Alive(c) /\ Up(c))
  <2>1. UNCHANGED <<state_, pending>>
    BY <1>3 DEF TimerFire
  <2>2. \A d \in Conns : Dispatched(d)'
    BY <1>1, DispatchedKeeps DEF Registered
  <2> QED BY <1>1, <2>1, <2>2, QueuesKept, QuietStep
<1> QED BY <1>2, <1>3

(* A message arrives.                                                       *)
LEMMA HandleReadKeeps ==
  ASSUME IInv, NEW l \in Loops, NEW c \in Conns, HandleRead(l, c)
  PROVE  \A d \in Conns : ConnInv(d)'
<1>1. TypeOK /\ ConnInv(c) /\ c \in active[l]
  BY DEF IInv, HandleRead
<1>2. Live(c)
  BY <1>1, KnownIsLive DEF ConnInv, Dispatched
<1>3. UNCHANGED <<loop_, channel, connections_, functors, call>>
  BY DEF HandleRead, serverVars
<1>4. state_' = state_ \/ SetState(c, "kDisconnecting")
  BY DEF HandleRead
<1>5. UNCHANGED pending \/ QueueInLoop(Base, "server_cgi", c)
  BY DEF HandleRead
<1>6. "server_cgi" \in Ops \ {"connectEstablished", "connectDestroyed"} /\ Base \in Loops
  BY <1>1, NextLoopIsLoop DEF Ops, Shared
<1>7. \A m \in Loops : active'[m] \subseteq active[m]
  <2>1. active' = [active EXCEPT ![l] = @ \ {c}]
    BY DEF HandleRead
  <2> QED BY <1>1, <2>1 DEF TypeOK
<1> QED BY <1>2, <1>3, <1>4, <1>5, <1>6, <1>7, UpStep

(* The second halves of calls that another thread interrupts.               *)
LEMMA CallStepsKeep ==
  ASSUME IInv, CallSteps
  PROVE  \A d \in Conns : ConnInv(d)'
<1> DEFINE c == call.conn
<1>1. c \in Conns /\ TypeOK /\ ConnInv(c) /\ loop_[c] \in Loops
  <2>1. call.step # "none"
    BY DEF CallSteps, ShutdownTest, ShutdownSet, DelayTest, DelaySet, SendQueue, CallStep
  <2> QED BY <2>1 DEF IInv, CallInv, TypeOK
<1>2. Live(c)
  BY <1>1, KnownIsLive
<1>3. UNCHANGED <<loop_, channel, connections_, functors, active>>
  BY DEF CallSteps, ShutdownTest, ShutdownSet, DelayTest, DelaySet, SendQueue, serverVars
<1>4. state_' = state_ \/ SetState(c, "kDisconnecting")
  BY DEF CallSteps, ShutdownTest, ShutdownSet, DelayTest, DelaySet, SendQueue
<1>5. UNCHANGED pending
      \/ \E op \in {"shutdownInLoop", "sendInLoop", "addTimerInLoop"} :
           QueueInLoop(loop_[c], op, c)
  BY DEF CallSteps, ShutdownTest, ShutdownSet, DelayTest, DelaySet, SendQueue
<1>6. {"shutdownInLoop", "sendInLoop", "addTimerInLoop"}
        \subseteq Ops \ {"connectEstablished", "connectDestroyed"}
  BY DEF Ops, Raw, Shared
<1>7. \A d \in Conns : call'.conn = d => call.conn = d \/ d = c
  <2>1. call' = NoCall \/ \E s \in {"shutdownSet", "delay", "delaySet"} : Goto(s)
    BY DEF CallSteps, ShutdownTest, ShutdownSet, DelayTest, DelaySet, SendQueue
  <2>2. NoCall.conn \notin Conns
    BY TcpServerAssumption DEF NoCall
  <2>3. ASSUME NEW s \in {"shutdownSet", "delay", "delaySet"}, Goto(s)
        PROVE  call'.conn = call.conn
    BY <1>1, <2>3 DEF Goto, TypeOK
  <2> QED BY <2>1, <2>2, <2>3
<1> HIDE DEF c
<1> QED BY <1>1, <1>2, <1>3, <1>4, <1>5, <1>6, <1>7, UpStep

(* The base loop kicks an idle connection, or an answer of the CGI program  *)
(* comes.                                                                   *)
LEMMA KickKeeps ==
  ASSUME IInv, NEW c \in Conns, Kick(c) \/ OnCgiMessage(c)
  PROVE  \A d \in Conns : ConnInv(d)'
<1>1. UNCHANGED <<loop_, channel, state_, connections_, functors, pending, active>>
  BY DEF Kick, OnCgiMessage, serverVars
<1>2. CASE call' = call
  <2>1. \A d \in Conns : Dispatched(d)'
    BY <1>1, DispatchedKeeps DEF Registered
  <2> QED BY <1>1, <1>2, <2>1, QueuesKept, QuietStep
<1>3. CASE call' # call
  <2>1. state_[c] = "kConnected" /\ call'.conn = c
    BY <1>3 DEF Kick, OnCgiMessage
  <2>2. Live(c)
    BY <2>1 DEF Live
  <2> QED BY <1>1, <2>1, <2>2, UpStep
<1> QED BY <1>2, <1>3

(* Running the first functor of the batch.                                 *)
LEMMA RunFunctorKeeps ==
  ASSUME IInv, NEW l \in Loops, RunFunctor(l)
  PROVE  \A d \in Conns : ConnInv(d)'
<1>1. TypeOK /\ functors[l] # <<>> /\ functors[l] \in Seq(Functors)
  BY DEF IInv, RunFunctor, TypeOK, Functors
<1>2. PICK op \in Ops, c \in Conns : Head(functors[l]) = Functor(op, c)
  <2>1. Head(functors[l]) \in Functors
    BY <1>1, HeadTailProperties
  <2> QED BY <2>1 DEF Functors, Functor
<1>3. At(l, op, c)
  BY <1>1, <1>2, RestHolds DEF At
<1>4. /\ ConnInv(c) /\ loop_[c] \in Loops
      /\ "connectEstablished" \in Ops /\ "connectDestroyed" \in Ops
      /\ Base \in Loops
  BY <1>2, NextLoopIsLoop DEF IInv, TypeOK, Ops, Shared
<1>5. op # "connectEstablished" => Live(c)
  BY <1>2, <1>3, <1>4, KnownIsLive
<1>6. /\ UNCHANGED <<loop_, active, call>>
      /\ functors' = [functors EXCEPT ![l] = Tail(functors[l])]
      /\ active[l] = {}
  <2>1. phase[l] = "functors" /\ UNCHANGED <<loop_, active, call>>
        /\ functors' = [functors EXCEPT ![l] = Tail(functors[l])]
    BY DEF RunFunctor
  <2> QED BY <2>1 DEF IInv, LoopInv
<1>7. UNCHANGED pending => Loses(l, op, c)
  BY <1>1, <1>2, <1>6, RunLoses
<1>8. c \notin connections_ /\ channel[c] # "removed" /\ Live(c)
        => At(loop_[c], "connectDestroyed", c)
  BY <1>4 DEF ConnInv, DestroyedAtHome, Live
<1>9. CASE op = "connectEstablished" /\ ConnectEstablished(c)
  <2>1. /\ state_'[c] = "kConnected" /\ channel'[c] = "reading"
        /\ UNCHANGED <<connections_, pending>> /\ FieldsOf(c)
    BY <1>1, <1>2, <1>6, <1>9 DEF ConnectEstablished, SetState, TypeOK, FieldsOf
  <2>2. state_[c] = "kConnecting" /\ l = loop_[c]
    BY <1>3, <1>4, <1>9 DEF ConnInv, EstablishedOnce
  <2>3. c \in connections_ /\ channel[c] = "new"
        /\ \A m \in Loops, o \in Ops \ {"connectEstablished"} : ~At(m, o, c)
    BY <1>4, <2>2 DEF ConnInv, Connecting
  <2>4. /\ \A m \in Loops, o \in Ops : At(m, o, c)' => At(m, o, c)
        /\ ~At(l, "connectEstablished", c)'
    <3>1. Loses(l, op, c)
      BY <1>7, <2>1
    <3>2. Once(Todo(l), Functor("connectEstablished", c))
      BY <1>4, <2>2 DEF ConnInv, EstablishedOnce
    <3> QED BY <1>9, <3>1, <3>2 DEF Loses
  <2>5. \A m \in Loops : ~At(m, "connectEstablished", c)'
    BY <1>4, <2>2, <2>4 DEF ConnInv, EstablishedOnce
  <2>6. \A d \in Conns : Dispatched(d)'
    <3>1. \A d \in Conns : Registered(d) => Registered(d)'
      BY <2>1 DEF Registered, FieldsOf
    <3> QED BY <1>6, <3>1, DispatchedKeeps
  <2>7. Fresh(c)' /\ Connecting(c)' /\ DestroyedAtHome(c)'
    BY <1>4, <2>1, <2>3, <2>4 DEF Fresh, Connecting, DestroyedAtHome
  <2>8. EstablishedOnce(c)'
    <3>1. Once(Todo(loop_[c]), Functor("connectEstablished", c))'
      BY <1>4, <1>6, <2>5 DEF At, Holds, Once
    <3> QED BY <2>5, <3>1 DEF EstablishedOnce
  <2>9. ConnInv(c)'
    BY <1>2, <2>6, <2>7, <2>8 DEF ConnInv
  <2>10. QueuesOf(c)
    BY <1>2, <1>7, <2>1, QueueCases
  <2>11. ASSUME NEW d \in Conns \ {c} PROVE ConnInv(d)'
    <3>1. ConnInv(d) /\ loop_[d] \in Loops
      BY DEF IInv, TypeOK
    <3> QED BY <1>4, <1>6, <2>1, <2>6, <2>10, <3>1, OthersKeep DEF QueuesOf, QueuesOfOthers, FieldsOf
  <2> QED BY <2>9, <2>11
<1>10. CASE /\ op = "removeConnectionInLoop" /\ RemoveConnectionInLoop(c)
            /\ UNCHANGED <<state_, channel>>
  <2>1. LosesGains(l, op, loop_[c], "connectDestroyed", c)
    BY <1>1, <1>2, <1>4, <1>6, <1>10, RunLosesGains DEF RemoveConnectionInLoop
  <2>2. QueuesOf(c)
    BY <1>2, <1>4, <2>1, RunQueuesOf
  <2>3. At(loop_[c], "connectDestroyed", c)'
    BY <1>4, <1>6, <2>1 DEF LosesGains
  <2>4. FieldsOf(c) /\ Live(c) /\ Live(c)'
    BY <1>5, <1>6, <1>10 DEF FieldsOf, Live, RemoveConnectionInLoop
  <2>5. \A d \in Conns : Dispatched(d)'
    BY <1>6, <1>10, DispatchedKeeps DEF Registered
  <2> QED BY <1>2, <1>6, <2>2, <2>3, <2>4, <2>5, LiveStep
<1>11. CASE op = "connectDestroyed" /\ ConnectDestroyed(c)
  <2>1. /\ state_'[c] = "kDisconnected" /\ channel'[c] = "removed"
        /\ UNCHANGED <<connections_, pending>> /\ FieldsOf(c)
    BY <1>1, <1>2, <1>6, <1>11 DEF ConnectDestroyed, SetState, TypeOK, FieldsOf
  <2>2. QueuesOf(c)
    BY <1>2, <1>7, <2>1, QueueCases
  <2>3. \A d \in Conns : Dispatched(d)'
    <3>1. \A m \in Loops : c \notin active[m]
      <4>1. l = loop_[c]
        BY <1>3, <1>4, <1>11 DEF ConnInv, DestroyedAtHome
      <4> QED BY <1>4, <1>6, <4>1 DEF ConnInv, Dispatched
    <3>2. \A d \in Conns \ {c} : Registered(d) => Registered(d)'
      BY <2>1 DEF Registered, FieldsOf
    <3>3. \A d \in Conns : Dispatched(d)
      BY DEF IInv, ConnInv
    <3> QED BY <1>6, <3>1, <3>2, <3>3 DEF Dispatched
  <2>4. Live(c) /\ Live(c)'
    BY <1>5, <1>11, <2>1 DEF Live
  <2> QED BY <1>2, <1>6, <2>1, <2>2, <2>3, <2>4, LiveStep
<1>12. CASE /\ op # "connectEstablished" /\ op # "connectDestroyed"
            /\ UNCHANGED <<connections_, pending, state_, channel>>
  <2>1. Loses(l, op, c) /\ QueuesOf(c)
    BY <1>2, <1>7, <1>12, QueueCases
  <2>2. c \notin connections_' /\ channel'[c] # "removed"
          => At(loop_[c], "connectDestroyed", c)'
    <3>1. \A m \in Loops : \A o : At(m, o, c) /\ o # op => At(m, o, c)'
      BY <2>1 DEF Loses
    <3> QED BY <1>4, <1>5, <1>6, <1>8, <1>12, <3>1
  <2>3. FieldsOf(c) /\ Live(c) /\ Live(c)'
    BY <1>5, <1>6, <1>12 DEF FieldsOf, Live
  <2>4. \A d \in Conns : Dispatched(d)'
    BY <1>6, <1>12, DispatchedKeeps DEF Registered
  <2> QED BY <1>2, <1>6, <2>1, <2>2, <2>3, <2>4, LiveStep
<1>13. CASE op = "forceCloseInLoop" /\ HandleClose(c) /\ channel[c] # "removed" /\ Up(c)
  <2>1. Live(c)
    BY <1>13 DEF Live, Up
  <2>2. /\ state_' = state_ /\ channel'[c] = "disabled"
        /\ \A d \in Conns \ {c} : channel'[d] = channel[d]
                                  /\ (d \in connections_' <=> d \in connections_)
    BY <1>2, <1>13, <2>1, HandleCloseQueues
  <2>3. PICK k \in Loops, next \in Ops \ {"connectEstablished"} :
          /\ QueueInLoop(k, next, c)
          /\ next = "connectDestroyed" => k = loop_[c]
          /\ c \in connections_ /\ c \notin connections_' => next = "connectDestroyed"
    BY <1>2, <1>13, <2>1, HandleCloseQueues
  <2>4. LosesGains(l, op, k, next, c)
    BY <1>1, <1>2, <1>6, <2>3, RunLosesGains
  <2>5. QueuesOf(c)
    BY <1>2, <2>3, <2>4, RunQueuesOf
  <2>6. c \notin connections_' => At(loop_[c], "connectDestroyed", c)'
    <3>1. \A m \in Loops : \A o :
            (At(m, o, c) /\ o # op) \/ (m = k /\ o = next) => At(m, o, c)'
      BY <2>4 DEF LosesGains
    <3> QED BY <1>4, <1>6, <1>8, <1>13, <2>1, <2>3, <3>1
  <2>7. FieldsOf(c) /\ Live(c)'
    BY <1>6, <2>1, <2>2 DEF FieldsOf, Live
  <2>8. \A d \in Conns : Dispatched(d)'
    <3>1. \A d \in Conns : Registered(d) => Registered(d)'
      BY <2>2 DEF Registered
    <3> QED BY <1>6, <3>1, DispatchedKeeps
  <2> QED BY <1>2, <1>6, <2>1, <2>5, <2>6, <2>7, <2>8, LiveStep
<1>14. \/ op = "connectEstablished" /\ ConnectEstablished(c)
       \/ /\ op = "removeConnectionInLoop" /\ RemoveConnectionInLoop(c)
          /\ UNCHANGED <<state_, channel>>
       \/ op = "connectDestroyed" /\ ConnectDestroyed(c)
       \/ /\ op \notin {"connectEstablished", "connectDestroyed"}
          /\ UNCHANGED <<connections_, pending, state_, channel>>
       \/ op = "forceCloseInLoop" /\ HandleClose(c) /\ channel[c] # "removed" /\ Up(c)
  <2>1. Head(functors[l]).op = op /\ Head(functors[l]).conn = c
    BY <1>2 DEF Functor
  <2> QED BY <2>1 DEF RunFunctor, ForceCloseInLoop, AddTimerInLoop, ServerCgi, RunRaw, Raw
<1> QED BY <1>9, <1>10, <1>11, <1>12, <1>13, <1>14

(* newConnection: one functor is on its way to a connection that nothing   *)
(* knew, or none when it is established at once.                           *)
LEMMA AcceptKeeps ==
  ASSUME IInv, NEW c \in Conns, Accept(c)
  PROVE  \A d \in Conns : ConnInv(d)'
<1>1. TypeOK /\ ConnInv(c) /\ state_[c] = "none"
      /\ "connectEstablished" \in Ops /\ "connectDestroyed" \in Ops
  BY DEF IInv, Accept, Ops, Shared
<1>2. /\ channel[c] = "new" /\ call.conn # c
      /\ \A m \in Loops, o \in Ops : ~At(m, o, c)
      /\ \A m \in Loops : c \notin active[m]
  BY <1>1 DEF ConnInv, Fresh, Dispatched, Registered
<1>3. PICK home \in Loops :
        /\ loop_' = [loop_ EXCEPT ![c] = home]
        /\ IF home = Base
           THEN /\ SetState(c, "kConnected")
                /\ channel' = [channel EXCEPT ![c] = "reading"]
                /\ UNCHANGED pending
           ELSE /\ SetState(c, "kConnecting")
                /\ QueueInLoop(home, "connectEstablished", c)
                /\ UNCHANGED channel
  <2>1. GetNextLoop \in Loops
    BY <1>1, NextLoopIsLoop
  <2> QED BY <2>1 DEF Accept, NewConnection, Construct
<1>4. connections_' = connections_ \cup {c} /\ UNCHANGED <<functors, call, active>>
  BY DEF Accept, NewConnection
<1>5. /\ state_'[c] = IF home = Base THEN "kConnected" ELSE "kConnecting"
      /\ channel'[c] = IF home = Base THEN "reading" ELSE "new"
      /\ loop_'[c] = home /\ c \in connections_' /\ call'.conn # c
  BY <1>1, <1>2, <1>3, <1>4 DEF SetState, TypeOK
<1>6. ASSUME NEW d \in Conns \ {c}
      PROVE  /\ state_'[d] = state_[d] /\ channel'[d] = channel[d] /\ loop_'[d] = loop_[d]
             /\ d \in connections_' <=> d \in connections_
  BY <1>1, <1>3, <1>4 DEF SetState, TypeOK
<1>7. /\ home = Base => KeepsQueues
      /\ home # Base => Gains(home, "connectEstablished", c)
  BY <1>1, <1>3, <1>4, QueuesKept, QueueGains
<1>8. \A d \in Conns : Dispatched(d)'
  <2>1. Dispatched(c)'
    BY <1>2, <1>4 DEF Dispatched
  <2>2. ASSUME NEW d \in Conns \ {c} PROVE Dispatched(d)'
    <3>1. Dispatched(d)
      BY DEF IInv, ConnInv
    <3> QED BY <1>4, <1>6, <3>1 DEF Dispatched, Registered
  <2> QED BY <2>1, <2>2
<1>9. ConnInv(c)'
  <2>1. \A m \in Loops, o \in Ops :
          At(m, o, c)' <=> home # Base /\ m = home /\ o = "connectEstablished"
    <3>1. CASE home = Base
      BY <1>2, <1>7, <3>1 DEF KeepsQueues
    <3>2. CASE home # Base
      <4>1. \A m \in Loops : \A o :
              At(m, o, c)' <=> At(m, o, c) \/ (m = home /\ o = "connectEstablished")
        BY <1>7, <3>2 DEF Gains
      <4> QED BY <1>2, <3>2, <4>1
    <3> QED BY <3>1, <3>2
  <2>2. Fresh(c)' /\ Connecting(c)' /\ DestroyedAtHome(c)'
    BY <1>1, <1>5, <2>1 DEF Fresh, Connecting, DestroyedAtHome
  <2>3. Once(Todo(loop_[c]), Functor("connectEstablished", c))'
    <3>1. CASE home = Base
      <4>1. ~At(home, "connectEstablished", c)'
        BY <1>1, <2>1, <3>1
      <4> QED BY <1>5, <4>1 DEF At, Holds, Once
    <3>2. CASE home # Base
      <4>1. Todo(home)' = Append(Todo(home), Functor("connectEstablished", c))
        BY <1>1, <1>3, <1>4, <3>2, QueueAppends
      <4>2. /\ Todo(home) \in Seq(Functors) /\ Functor("connectEstablished", c) \in Functors
        BY <1>1, TodoType, FunctorFields
      <4>3. ~Holds(Todo(home), Functor("connectEstablished", c))
        BY <1>1, <1>2 DEF At
      <4>4. Once(Append(Todo(home), Functor("connectEstablished", c)),
                 Functor("connectEstablished", c))
        BY <4>2, <4>3, AppendHolds
      <4> QED BY <1>5, <4>1, <4>4 DEF Once, Functor
    <3> QED BY <3>1, <3>2
  <2>4. EstablishedOnce(c)'
    BY <1>1, <1>5, <2>1, <2>3 DEF EstablishedOnce
  <2> QED BY <1>8, <2>2, <2>4 DEF ConnInv
<1>10. ASSUME NEW d \in Conns \ {c} PROVE ConnInv(d)'
  <2>1. ConnInv(d) /\ loop_[d] \in Loops
    BY DEF IInv, TypeOK
  <2>2. QueuesOfOthers(c)
    BY <1>7 DEF KeepsQueues, Gains, QueuesOfOthers
  <2> QED BY <1>1, <1>4, <1>6, <1>8, <2>1, <2>2, OthersKeep DEF QueuesOfOthers
<1> QED BY <1>9, <1>10

-----------------------------------------------------------------------------
(* The invariant holds.                                                    *)

(* No step of any loop breaks the invariant of any connection.              *)
LEMMA ConnInductive == IInv /\ [Next]_vars => \A c \in Conns : ConnInv(c)'
<1> SUFFICES ASSUME IInv, [Next]_vars PROVE \A c \in Conns : ConnInv(c)'
  OBVIOUS
<1>0. TypeOK /\ LoopInv
  BY DEF IInv
<1>1. ASSUME NEW l \in Loops, Poll(l) PROVE \A c \in Conns : ConnInv(c)'
  <2>1. UNCHANGED <<loop_, state_, channel, connections_, functors, pending, call>>
        /\ active' = [active EXCEPT ![l] = Ready(l)]
    BY <1>1 DEF Poll, serverVars
  <2>2. \A c \in Conns : Dispatched(c)'
    BY <1>0, <2>1 DEF IInv, ConnInv, Dispatched, Ready, Registered, TypeOK
  <2> QED BY <2>1, <2>2, QueuesKept, QuietStep
<1>2. ASSUME NEW l \in Loops, SwapPending(l) PROVE \A c \in Conns : ConnInv(c)'
  <2>1. /\ UNCHANGED <<loop_, state_, channel, connections_, call, active>>
        /\ phase[l] = "dispatch"
        /\ functors' = [functors EXCEPT ![l] = pending[l]]
        /\ pending' = [pending EXCEPT ![l] = <<>>]
    BY <1>2 DEF SwapPending, serverVars
  <2>2. functors[l] = <<>>
    BY <1>0, <2>1 DEF LoopInv
  <2>3. KeepsQueues
    BY <1>0, <2>1, <2>2, SwapKeepsQueues
  <2>4. \A c \in Conns : Dispatched(c)'
    BY <2>1, DispatchedKeeps DEF Registered
  <2> QED BY <2>1, <2>3, <2>4, QuietStep
<1>3. CASE UNCHANGED <<loop_, state_, channel, connections_, functors, pending, call, active>>
  <2>1. \A c \in Conns : Dispatched(c)'
    BY <1>3, DispatchedKeeps DEF Registered
  <2> QED BY <1>3, <2>1, QueuesKept, QuietStep
<1>4. ASSUME NEW l \in Loops, TimersDone(l) \/ EndFunctors(l)
      PROVE  UNCHANGED <<loop_, state_, channel, connections_, functors, pending, call, active>>
  BY <1>4 DEF TimersDone, EndFunctors, serverVars
<1>5. ASSUME \/ Start \/ AcceptFatal \/ UNCHANGED vars
             \/ \E c \in Conns : Environment(c)
      PROVE  UNCHANGED <<loop_, state_, channel, connections_, functors, pending, call, active>>
  BY <1>5 DEF Start, AcceptFatal, vars, Environment, PeerSend, PeerClose, TimePasses, serverVars
<1> QED BY <1>1, <1>2, <1>3, <1>4, <1>5, RunFunctorKeeps, TimerFireKeeps, HandleReadKeeps,
           HandleReadZeroKeeps, CallStepsKeep, KickKeeps, AcceptKeeps
        DEF Next, LoopStep, BaseStep

(* The server before its first connection.                                  *)
LEMMA InitInv == Init => IInv
<1> SUFFICES ASSUME Init PROVE IInv
  OBVIOUS
<1>1. TypeOK
  <2>1. Base \in Loops /\ <<>> \in Seq([op : Ops, conn : Conns])
    BY TcpServerAssumption DEF Base, Loops
  <2> QED BY <2>1 DEF Init, TypeOK, NoCall
<1>2. LoopInv /\ CallInv
  BY DEF Init, LoopInv, CallInv, NoCall
<1>3. \A l \in Loops : \A o, d : ~At(l, o, d)
  <2>1. \A l \in Loops : Todo(l) = <<>>
    BY DEF Init, Todo
  <2> QED BY <2>1 DEF At, Holds
<1>4. \A c \in Conns : ConnInv(c)
  <2> SUFFICES ASSUME NEW c \in Conns PROVE ConnInv(c)
    OBVIOUS
  <2>1. Fresh(c) /\ Connecting(c) /\ DestroyedAtHome(c) /\ Dispatched(c)
    BY <1>3, TcpServerAssumption
       DEF Init, NoCall, Fresh, Connecting, DestroyedAtHome, Dispatched
  <2>2. EstablishedOnce(c)
    <3>1. loop_[c] \in Loops
      BY <1>1 DEF TypeOK
    <3> QED BY <1>3, <3>1 DEF EstablishedOnce, At, Holds, Once
  <2> QED BY <2>1, <2>2 DEF ConnInv
<1> QED BY <1>1, <1>2, <1>4 DEF IInv

(* The inductive invariant of TcpServer and its connections, for any number *)
(* of loops and connections (newConnection, removeConnection,               *)
(* removeConnectionInLoop, connectEstablished, connectDestroyed).           *)
THEOREM Invariant == Spec => []IInv
<1>1. IInv /\ [Next]_vars => IInv'
  BY TypeInductive, LoopInductive, ConnInductive DEF IInv
<1> QED BY InitInv, <1>1, PTL DEF Spec

(* What Queued means of the queues. *)
LEMMA QueuedAt == \A op, c : Queued(op, c) <=> \E l \in Loops : At(l, op, c)
BY DEF Queued, At, Holds

(* Type correctness: getNextLoop's index stays inside the vector of loops, *)
(* and no call is left without its connection.                             *)
THEOREM ServerTypeCorrect == Spec => []TypeOK
BY Invariant, PTL DEF IInv

(* The poller never holds, and the loop never dispatches to, the channel   *)
(* of a connection that no shared_ptr keeps alive: handleClose,            *)
(* removeConnectionInLoop and connectDestroyed pass the reference on.      *)
THEOREM RegisteredStaysAlive == Spec => []RegisteredIsAlive
<1>1. IInv => RegisteredIsAlive
  <2> SUFFICES ASSUME IInv PROVE RegisteredIsAlive
    OBVIOUS
  <2>1. ASSUME NEW c \in Conns, Registered(c) PROVE Alive(c)
    <3>1. ConnInv(c) /\ loop_[c] \in Loops /\ Live(c) /\ "connectDestroyed" \in Shared
      BY <2>1, KnownIsLive DEF IInv, TypeOK, Shared
    <3>2. c \in connections_ \/ At(loop_[c], "connectDestroyed", c)
      BY <2>1, <3>1 DEF ConnInv, DestroyedAtHome, Live, Registered
    <3> QED BY <3>1, <3>2, QueuedAt DEF Alive
  <2>2. ASSUME NEW l \in Loops, NEW c \in active[l] PROVE Registered(c) /\ loop_[c] = l
    BY <2>2 DEF IInv, TypeOK, ConnInv, Dispatched
  <2> QED BY <2>1, <2>2 DEF RegisteredIsAlive
<1> QED BY Invariant, <1>1, PTL

(* A connection that the map has lost is off the poller, or its            *)
(* connectDestroyed is on the way: removeConnectionInLoop forgets none.    *)
THEOREM ErasedGetsDestroyed == Spec => []ErasedIsDestroyed
<1>1. IInv => ErasedIsDestroyed
  <2> SUFFICES ASSUME IInv, NEW c \in Conns, state_[c] # "none",
                      c \notin connections_, channel[c] # "removed"
               PROVE  Queued("connectDestroyed", c)
    BY DEF ErasedIsDestroyed
  <2>1. ConnInv(c) /\ loop_[c] \in Loops
    BY DEF IInv, TypeOK
  <2> QED BY <2>1, QueuedAt DEF ConnInv, DestroyedAtHome
<1> QED BY Invariant, <1>1, PTL

(* Until connectEstablished has run on its loop, nothing else happens to a *)
(* connection: it is not closed, kicked, written to or erased              *)
(* (newConnection hands it over with runInLoop after it is in the map).    *)
THEOREM ConnectionsComeUpFirst == Spec => []UpFirst
<1>1. IInv => UpFirst
  <2> SUFFICES ASSUME IInv, NEW c \in Conns, state_[c] = "kConnecting"
               PROVE  /\ c \in connections_ /\ channel[c] = "new"
                      /\ \A op \in Ops \ {"connectEstablished"} : ~Queued(op, c)
                      /\ Queued("connectEstablished", c)
                      /\ call.conn # c
    BY DEF UpFirst
  <2>1. ConnInv(c) /\ loop_[c] \in Loops
    BY DEF IInv, TypeOK
  <2> QED BY <2>1, QueuedAt DEF ConnInv, Connecting
<1> QED BY Invariant, <1>1, PTL

-----------------------------------------------------------------------------
(* The course of a connection's life.                                      *)

(* handleClose has run. *)
Closing(c) == channel[c] \in {"disabled", "removed"}

(* What the channel says agrees with state_, with the map, and with what   *)
(* is on its way: nobody erases a connection or has it destroyed that      *)
(* handleClose has not closed, and it is out of the map when it is.        *)
LifeInv(c) ==
  /\ channel[c] = "new" <=> ~Live(c)
  /\ channel[c] = "reading" => c \in connections_
  /\ channel[c] = "removed" => c \notin connections_
  /\ \A l \in Loops :
       /\ At(l, "removeConnectionInLoop", c) => Closing(c)
       /\ At(l, "connectDestroyed", c) => Closing(c) /\ c \notin connections_

LivesInv == \A c \in Conns : LifeInv(c)

Ends == {"removeConnectionInLoop", "connectDestroyed"}

(* A step of the abstract life, or none. *)
LifeStep == [Life!Next]_(Life!lifeVars)

(* Nothing that LifeInv speaks of happens to c. *)
Unmoved(c) ==
  /\ channel'[c] = channel[c] /\ state_'[c] = state_[c]
  /\ c \in connections_' <=> c \in connections_
  /\ \A l \in Loops, op \in Ends : At(l, op, c)' => At(l, op, c)

(* Then its stage and its invariant stay.                                  *)
LEMMA UnmovedKeeps ==
  ASSUME NEW c \in Conns, LifeInv(c), Unmoved(c)
  PROVE  LifeInv(c)' /\ Stage(c)' = Stage(c)
<1>1. Closing(c)' <=> Closing(c)
  BY DEF Unmoved, Closing
<1>2. Live(c)' <=> Live(c)
  BY DEF Unmoved, Live
<1> QED BY <1>1, <1>2 DEF Unmoved, LifeInv, Ends, Stage

(* Nor does it if only the state of a connection that was taken up changes,*)
(* and the functors queued are of other kinds.                             *)
Steady ==
  /\ UNCHANGED <<channel, connections_>>
  /\ \A c \in Conns : state_'[c] = state_[c] \/ (Live(c) /\ Live(c)')
  /\ \A c \in Conns, l \in Loops, op \in Ends : At(l, op, c)' => At(l, op, c)

(* Such a step is none of the abstract life.                               *)
LEMMA SteadyKeeps ==
  ASSUME IInv, LivesInv, Steady
  PROVE  LivesInv' /\ LifeStep
<1>1. ASSUME NEW c \in Conns PROVE LifeInv(c)' /\ Stage(c)' = Stage(c)
  <2>1. LifeInv(c) /\ channel'[c] = channel[c] /\ (c \in connections_' <=> c \in connections_)
        /\ (Live(c)' <=> Live(c)) /\ (Closing(c)' <=> Closing(c))
    BY DEF LivesInv, Steady, Live, Closing
  <2>2. LifeInv(c)'
    BY <2>1 DEF LifeInv, Steady, Ends
  <2>3. Stage(c)' = Stage(c)
    <3>1. CASE channel[c] = "new"
      <4>1. ~Live(c)
        BY <2>1, <3>1 DEF LifeInv
      <4>2. state_'[c] = state_[c]
        BY <4>1 DEF Steady
      <4> QED BY <2>1, <3>1, <4>2 DEF Stage
    <3>2. CASE channel[c] # "new"
      <4>1. channel'[c] = channel[c] /\ channel[c] \in {"reading", "disabled", "removed"}
        BY <2>1, <3>2 DEF IInv, TypeOK
      <4> QED BY <4>1 DEF Stage
    <3> QED BY <3>1, <3>2
  <2> QED BY <2>2, <2>3
<1>2. LifeStep
  BY <1>1 DEF LifeStep, Life!lifeVars, Steady
<1> QED BY <1>1, <1>2 DEF LivesInv

(* Of all connections only c moves, from one stage to another.             *)
Moves(c, from, to) ==
  /\ Stage(c) = from /\ Stage(c)' = to
  /\ LifeInv(c)'
  /\ \A d \in Conns \ {c} : Unmoved(d)

(* Such a step is one of the abstract life.                                *)
LEMMA MovesGoes ==
  ASSUME LivesInv, NEW c \in Conns, NEW from, NEW to, Moves(c, from, to)
  PROVE  LivesInv' /\ Life!Goes(c, from, to)
<1>1. ASSUME NEW d \in Conns \ {c} PROVE LifeInv(d)' /\ Stage(d)' = Stage(d)
  BY <1>1, UnmovedKeeps DEF Moves, LivesInv
<1>2. LivesInv'
  BY <1>1 DEF LivesInv, Moves
<1> DEFINE stage == [d \in Conns |-> Stage(d)]
<1>3. stage[c] = from /\ stage' = [stage EXCEPT ![c] = to]
  BY <1>1 DEF Moves
<1> QED BY <1>2, <1>3 DEF Life!Goes

(* The map only loses a connection that is closing. *)
LEMMA MovesErases ==
  ASSUME LivesInv, NEW c \in Conns, Moves(c, "closing", "closing"),
         connections_' \in {connections_, connections_ \ {c}}
  PROVE  LivesInv' /\ LifeStep
<1>1. LivesInv' /\ Life!Goes(c, "closing", "closing")
  BY MovesGoes
<1> DEFINE stage == [d \in Conns |-> Stage(d)]
<1>2. stage[c] = "closing" /\ stage' = stage
  BY <1>1 DEF Life!Goes
<1>3. CASE connections_' = connections_
  <2>1. UNCHANGED Life!lifeVars
    BY <1>2, <1>3 DEF Life!lifeVars
  <2> QED BY <2>1, <1>1 DEF LifeStep
<1>4. CASE connections_' = connections_ \ {c}
  <2>1. Life!Erase(c)
    BY <1>2, <1>4 DEF Life!Erase
  <2>2. Life!Next
    BY <2>1 DEF Life!Next
  <2> QED BY <2>2, <1>1 DEF LifeStep
<1> QED BY <1>1, <1>3, <1>4

(* The queues of a step that is none of a connection's end.                *)
LEMMA EndsUnqueued ==
  ASSUME TypeOK, NEW l \in Loops, NEW op \in Ops \ Ends, NEW c \in Conns,
         QueueInLoop(l, op, c), UNCHANGED functors
  PROVE  \A d \in Conns, m \in Loops, o \in Ends : At(m, o, d)' => At(m, o, d)
BY QueueGains DEF Gains

(* Nor of a step that queues nothing.                                      *)
LEMMA EndsKept ==
  ASSUME KeepsQueues
  PROVE  \A d \in Conns, m \in Loops, o \in Ends : At(m, o, d)' => At(m, o, d)
BY DEF KeepsQueues

(* The steps of the program with a connection that is up.                  *)
LEMMA UpSteady ==
  ASSUME IInv, NEW c \in Conns, Live(c), UNCHANGED <<channel, connections_, functors>>,
         state_' = state_ \/ SetState(c, "kDisconnecting"),
         \/ UNCHANGED pending
         \/ \E k \in Loops, op \in Ops \ Ends : QueueInLoop(k, op, c)
  PROVE  Steady
<1>1. TypeOK
  BY DEF IInv
<1>2. \A d \in Conns : state_'[d] = state_[d] \/ (Live(d) /\ Live(d)')
  BY <1>1 DEF Live, SetState, TypeOK
<1>3. \A d \in Conns, m \in Loops, o \in Ends : At(m, o, d)' => At(m, o, d)
  BY <1>1, QueuesKept, EndsKept, EndsUnqueued
<1> QED BY <1>2, <1>3 DEF Steady

(* Timers, messages, calls of the base thread and everything around the    *)
(* loops leave the course of life alone.                                   *)
LEMMA TimerFireSteady ==
  ASSUME IInv, NEW l \in Loops, NEW c \in Conns, TimerFire(l, c)
  PROVE  Steady
<1>1. UNCHANGED <<channel, connections_, functors>>
  BY DEF TimerFire, serverVars
<1>2. CASE Alive(c) /\ Up(c)
  <2>1. SetState(c, "kDisconnecting") /\ QueueInLoop(l, "forceCloseInLoop", c)
    BY <1>2 DEF TimerFire
  <2>2. "forceCloseInLoop" \in Ops \ Ends /\ Live(c)
    BY <1>2 DEF Ops, Shared, Ends, Live, Up
  <2> QED BY <1>1, <2>1, <2>2, UpSteady
<1>3. CASE ~(Alive(c) /\ Up(c))
  <2>1. UNCHANGED <<state_, pending>>
    BY <1>3 DEF TimerFire
  <2> QED BY <1>1, <2>1, QueuesKept, EndsKept DEF Steady
<1> QED BY <1>2, <1>3

(* A message is read: the program may shut the connection down, or have it *)
(* answered by the base loop.                                              *)
LEMMA HandleReadSteady ==
  ASSUME IInv, NEW l \in Loops, NEW c \in Conns, HandleRead(l, c)
  PROVE  Steady
<1>1. ConnInv(c) /\ c \in active[l] /\ TypeOK
  BY DEF IInv, HandleRead
<1>2. Live(c)
  BY <1>1, KnownIsLive DEF ConnInv, Dispatched
<1>3. UNCHANGED <<channel, connections_, functors>>
  BY DEF HandleRead, serverVars
<1>4. state_' = state_ \/ SetState(c, "kDisconnecting")
  BY DEF HandleRead
<1>5. UNCHANGED pending \/ QueueInLoop(Base, "server_cgi", c)
  BY DEF HandleRead
<1>6. "server_cgi" \in Ops \ Ends /\ Base \in Loops
  BY <1>1, NextLoopIsLoop DEF Ops, Shared, Ends
<1> QED BY <1>2, <1>3, <1>4, <1>5, <1>6, UpSteady

(* A call of the base thread sets state_, and queues what is left to do.   *)
LEMMA CallStepsSteady ==
  ASSUME IInv, CallSteps
  PROVE  Steady
<1> DEFINE c == call.conn
<1>1. c \in Conns /\ TypeOK /\ ConnInv(c) /\ loop_[c] \in Loops
  <2>1. call.step # "none"
    BY DEF CallSteps, ShutdownTest, ShutdownSet, DelayTest, DelaySet, SendQueue, CallStep
  <2> QED BY <2>1 DEF IInv, CallInv, TypeOK
<1>2. Live(c)
  BY <1>1, KnownIsLive
<1>3. UNCHANGED <<channel, connections_, functors>>
  BY DEF CallSteps, ShutdownTest, ShutdownSet, DelayTest, DelaySet, SendQueue, serverVars
<1>4. state_' = state_ \/ SetState(c, "kDisconnecting")
  BY DEF CallSteps, ShutdownTest, ShutdownSet, DelayTest, DelaySet, SendQueue
<1>5. UNCHANGED pending
      \/ \E op \in {"shutdownInLoop", "sendInLoop", "addTimerInLoop"} :
           QueueInLoop(loop_[c], op, c)
  BY DEF CallSteps, ShutdownTest, ShutdownSet, DelayTest, DelaySet, SendQueue
<1>6. {"shutdownInLoop", "sendInLoop", "addTimerInLoop"} \subseteq Ops \ Ends
  BY DEF Ops, Raw, Shared, Ends
<1> HIDE DEF c
<1> QED BY <1>1, <1>2, <1>3, <1>4, <1>5, <1>6, UpSteady

(* The loops' own steps, the base thread's and those of the surroundings.   *)
LEMMA OthersSteady ==
  ASSUME IInv,
         \/ \E l \in Loops : Poll(l) \/ TimersDone(l) \/ SwapPending(l) \/ EndFunctors(l)
         \/ Start \/ AcceptFatal \/ UNCHANGED vars
         \/ \E c \in Conns : Kick(c) \/ OnCgiMessage(c) \/ Environment(c)
  PROVE  Steady
<1>1. UNCHANGED <<state_, channel, connections_>>
  BY DEF Poll, TimersDone, SwapPending, EndFunctors, Start, AcceptFatal, vars, Kick, OnCgiMessage,
         Environment, PeerSend, PeerClose, TimePasses, serverVars
<1>2. CASE UNCHANGED <<functors, pending>>
  BY <1>1, <1>2, QueuesKept, EndsKept DEF Steady
<1>3. ASSUME NEW l \in Loops, SwapPending(l) PROVE KeepsQueues
  <2>1. /\ phase[l] = "dispatch"
        /\ functors' = [functors EXCEPT ![l] = pending[l]]
        /\ pending' = [pending EXCEPT ![l] = <<>>]
    BY <1>3 DEF SwapPending
  <2>2. functors[l] = <<>> /\ TypeOK
    BY <2>1 DEF IInv, LoopInv
  <2> QED BY <2>1, <2>2, SwapKeepsQueues
<1>4. UNCHANGED <<functors, pending>> \/ \E l \in Loops : SwapPending(l)
  BY DEF Poll, TimersDone, EndFunctors, Start, AcceptFatal, vars, Kick, OnCgiMessage,
         Environment, PeerSend, PeerClose, TimePasses, serverVars
<1> QED BY <1>1, <1>2, <1>3, <1>4, EndsKept DEF Steady

(* handleClose queues one of the two functors that end a connection: the   *)
(* second one when the map has lost it.                                    *)
LEMMA CloseQueuesEnd ==
  ASSUME TypeOK, NEW c \in Conns, HandleClose(c)
  PROVE  \E k \in Loops, op \in Ends :
           /\ QueueInLoop(k, op, c)
           /\ op = "connectDestroyed" => c \notin connections_'
<1>1. loop_[c] \in Loops /\ Base \in Loops
  BY NextLoopIsLoop DEF TypeOK
<1>2. CASE loop_[c] = Base
  BY <1>1, <1>2 DEF HandleClose, RemoveConnectionInLoop, Ends
<1>3. CASE loop_[c] # Base
  BY <1>1, <1>3 DEF HandleClose, Ends
<1> QED BY <1>2, <1>3

(* handleClose, if nothing but that functor is queued: the connection is   *)
(* closed, or was closed before.                                           *)
LEMMA ClosedMoves ==
  ASSUME TypeOK, LivesInv, NEW c \in Conns, HandleClose(c), Live(c), channel[c] # "removed",
         NEW op \in Ends, op = "connectDestroyed" => c \notin connections_',
         \A d \in Conns, m \in Loops, o \in Ends :
           At(m, o, d)' => At(m, o, d) \/ (d = c /\ o = op)
  PROVE  LivesInv' /\ LifeStep
<1>1. /\ channel' = [channel EXCEPT ![c] = "disabled"] /\ state_' = state_
      /\ connections_' \in {connections_, connections_ \ {c}}
  BY CloseQueues
<1>2. channel'[c] = "disabled" /\ Closing(c)' /\ Live(c)' /\ Stage(c)' = "closing"
  BY <1>1 DEF TypeOK, Closing, Live, Stage
<1>3. LifeInv(c)
  BY DEF LivesInv
<1>4. LifeInv(c)'
  <2>1. ASSUME NEW m \in Loops, At(m, "connectDestroyed", c)' PROVE c \notin connections_'
    BY <1>1, <1>3, <2>1 DEF LifeInv, Ends
  <2> QED BY <1>2, <2>1 DEF LifeInv
<1>5. \A d \in Conns \ {c} : Unmoved(d)
  BY <1>1 DEF Unmoved, TypeOK
<1>6. CASE channel[c] = "reading"
  <2>1. Stage(c) = "up"
    BY <1>6 DEF Stage
  <2>2. LivesInv' /\ Life!Goes(c, "up", "closing")
    <3>1. Moves(c, "up", "closing")
      BY <1>2, <1>4, <1>5, <2>1 DEF Moves
    <3> QED BY <3>1, MovesGoes
  <2>3. Life!Close(c)
    BY <1>1, <2>2 DEF Life!Close
  <2> QED BY <2>2, <2>3 DEF LifeStep, Life!Next
<1>7. CASE channel[c] = "disabled"
  <2>1. Stage(c) = "closing"
    BY <1>7 DEF Stage
  <2>2. Moves(c, "closing", "closing")
    BY <1>2, <1>4, <1>5, <2>1 DEF Moves
  <2> QED BY <1>1, <2>2, MovesErases
<1>8. channel[c] \in {"reading", "disabled"}
  BY <1>3 DEF TypeOK, LifeInv
<1> QED BY <1>6, <1>7, <1>8

(* The peer has closed.                                                    *)
LEMMA HandleReadZeroMoves ==
  ASSUME IInv, LivesInv, NEW l \in Loops, NEW c \in Conns, HandleReadZero(l, c)
  PROVE  LivesInv' /\ LifeStep
<1>1. TypeOK /\ ConnInv(c) /\ c \in active[l] /\ HandleClose(c) /\ functors' = functors
  BY DEF IInv, HandleReadZero
<1>2. Registered(c) /\ Live(c)
  BY <1>1, KnownIsLive DEF ConnInv, Dispatched
<1>3. PICK k \in Loops, op \in Ends :
        QueueInLoop(k, op, c) /\ (op = "connectDestroyed" => c \notin connections_')
  BY <1>1, CloseQueuesEnd
<1>4. Gains(k, op, c)
  <2>1. op \in Ops
    BY DEF Ends, Ops, Shared
  <2> QED BY <1>1, <1>3, <2>1, QueueGains
<1>5. \A d \in Conns, m \in Loops, o \in Ends :
        At(m, o, d)' => At(m, o, d) \/ (d = c /\ o = op)
  BY <1>4 DEF Gains
<1> QED BY <1>1, <1>2, <1>3, <1>5, ClosedMoves DEF Registered

(* A functor of the batch: it takes a connection up, erases it, destroys   *)
(* it, closes it, or does none of these.                                   *)
LEMMA RunFunctorMoves ==
  ASSUME IInv, LivesInv, NEW l \in Loops, RunFunctor(l)
  PROVE  LivesInv' /\ LifeStep
<1>1. TypeOK /\ functors[l] # <<>> /\ functors[l] \in Seq(Functors)
      /\ functors' = [functors EXCEPT ![l] = Tail(functors[l])]
  BY DEF IInv, RunFunctor, TypeOK, Functors
<1>2. PICK op \in Ops, c \in Conns : Head(functors[l]) = Functor(op, c)
  <2>1. Head(functors[l]) \in Functors
    BY <1>1, HeadTailProperties
  <2> QED BY <2>1 DEF Functors, Functor
<1>3. At(l, op, c)
  BY <1>1, <1>2, RestHolds DEF At
<1>4. ConnInv(c) /\ LifeInv(c) /\ loop_[c] \in Loops /\ Base \in Loops
  BY <1>2, NextLoopIsLoop DEF IInv, TypeOK, LivesInv
<1>5. UNCHANGED pending => Loses(l, op, c)
  BY <1>1, <1>2, RunLoses
<1>6. UNCHANGED pending => \A d \in Conns, m \in Loops, o \in Ends : At(m, o, d)' => At(m, o, d)
  BY <1>5 DEF Loses
<1>7. CASE op = "connectEstablished" /\ ConnectEstablished(c)
  <2>1. /\ state_' = [state_ EXCEPT ![c] = "kConnected"]
        /\ channel' = [channel EXCEPT ![c] = "reading"]
        /\ UNCHANGED <<connections_, pending>>
    BY <1>7 DEF ConnectEstablished, SetState
  <2>2. state_[c] = "kConnecting" /\ channel[c] = "new" /\ c \in connections_
        /\ \A m \in Loops : \A o \in Ends : ~At(m, o, c)
    <3>1. state_[c] = "kConnecting"
      BY <1>3, <1>7, <1>4 DEF ConnInv, EstablishedOnce
    <3> QED BY <1>4, <3>1 DEF ConnInv, Connecting, Ends, Ops, Shared
  <2>3. state_'[c] = "kConnected" /\ channel'[c] = "reading" /\ Live(c)'
        /\ Stage(c) = "accepted" /\ Stage(c)' = "up"
    BY <1>1, <1>2, <2>1, <2>2 DEF TypeOK, Live, Stage
  <2>4. LifeInv(c)'
    BY <1>2, <1>6, <2>1, <2>2, <2>3 DEF LifeInv, Ends
  <2>5. \A d \in Conns \ {c} : Unmoved(d)
    BY <1>1, <1>6, <2>1 DEF Unmoved, TypeOK
  <2>6. LivesInv' /\ Life!Goes(c, "accepted", "up")
    <3>1. Moves(c, "accepted", "up")
      BY <2>3, <2>4, <2>5 DEF Moves
    <3> QED BY <1>2, <3>1, MovesGoes
  <2>7. Life!Establish(c)
    BY <2>1, <2>6 DEF Life!Establish
  <2> QED BY <1>2, <2>6, <2>7 DEF LifeStep, Life!Next
<1>8. CASE /\ op = "removeConnectionInLoop" /\ RemoveConnectionInLoop(c)
           /\ UNCHANGED <<state_, channel>>
  <2>1. connections_' = connections_ \ {c}
    BY <1>8 DEF RemoveConnectionInLoop
  <2>2. LosesGains(l, op, loop_[c], "connectDestroyed", c)
    <3>1. "connectDestroyed" \in Ops /\ QueueInLoop(loop_[c], "connectDestroyed", c)
      BY <1>8 DEF Ops, Shared, RemoveConnectionInLoop
    <3> QED BY <1>1, <1>2, <1>4, <3>1, RunLosesGains
  <2>3. \A d \in Conns, m \in Loops, o \in Ends :
          At(m, o, d)' => At(m, o, d) \/ (d = c /\ o = "connectDestroyed")
    BY <2>2 DEF LosesGains
  <2>4. Closing(c)
    BY <1>3, <1>4, <1>8 DEF LifeInv
  <2>5. LifeInv(c)' /\ Stage(c)' = Stage(c)
    <3>1. Closing(c)' /\ channel'[c] = channel[c] /\ (Live(c)' <=> Live(c)) /\ Stage(c)' = Stage(c)
      BY <1>8, <2>4 DEF Closing, Live, Stage
    <3>2. channel[c] # "reading"
      BY <2>4 DEF Closing
    <3> QED BY <1>4, <2>1, <3>1, <3>2 DEF LifeInv
  <2>6. \A d \in Conns \ {c} : Unmoved(d)
    BY <1>8, <2>1, <2>3 DEF Unmoved
  <2>7. CASE channel[c] = "disabled"
    <3>1. Moves(c, "closing", "closing")
      BY <2>5, <2>6, <2>7 DEF Moves, Stage
    <3> QED BY <1>2, <2>1, <3>1, MovesErases
  <2>8. CASE channel[c] = "removed"
    <3>1. connections_' = connections_
      BY <1>4, <2>1, <2>8 DEF LifeInv
    <3>2. \A d \in Conns : LifeInv(d)' /\ Stage(d)' = Stage(d)
      BY <2>5, <2>6, UnmovedKeeps DEF LivesInv
    <3> QED BY <3>1, <3>2 DEF LivesInv, LifeStep, Life!lifeVars
  <2> QED BY <2>4, <2>7, <2>8 DEF Closing
<1>9. CASE op = "connectDestroyed" /\ ConnectDestroyed(c)
  <2>1. /\ state_' = [state_ EXCEPT ![c] = "kDisconnected"]
        /\ channel' = [channel EXCEPT ![c] = "removed"]
        /\ UNCHANGED <<connections_, pending>>
    BY <1>9 DEF ConnectDestroyed, SetState
  <2>2. Closing(c) /\ c \notin connections_
    BY <1>3, <1>4, <1>9 DEF LifeInv
  <2>3. state_'[c] = "kDisconnected" /\ channel'[c] = "removed" /\ Live(c)'
        /\ Closing(c)' /\ Stage(c)' = "gone"
    BY <1>1, <1>2, <2>1 DEF TypeOK, Live, Stage, Closing
  <2>4. LifeInv(c)'
    BY <2>1, <2>2, <2>3 DEF LifeInv
  <2>5. \A d \in Conns \ {c} : Unmoved(d)
    BY <1>1, <1>6, <2>1 DEF Unmoved, TypeOK
  <2>6. CASE channel[c] = "disabled"
    <3>1. LivesInv' /\ Life!Goes(c, "closing", "gone")
      <4>1. Moves(c, "closing", "gone")
        BY <2>3, <2>4, <2>5, <2>6 DEF Moves, Stage
      <4> QED BY <1>2, <4>1, MovesGoes
    <3>2. Life!Destroy(c)
      BY <2>1, <2>2, <3>1 DEF Life!Destroy
    <3> QED BY <1>2, <3>1, <3>2 DEF LifeStep, Life!Next
  <2>7. CASE channel[c] = "removed"
    <3>1. \A d \in Conns : LifeInv(d)' /\ Stage(d)' = Stage(d)
      BY <2>3, <2>4, <2>5, <2>7, UnmovedKeeps DEF LivesInv, Stage
    <3> QED BY <2>1, <3>1 DEF LivesInv, LifeStep, Life!lifeVars
  <2> QED BY <2>2, <2>6, <2>7 DEF Closing
<1>10. CASE op = "forceCloseInLoop" /\ HandleClose(c) /\ channel[c] # "removed" /\ Up(c)
  <2>1. PICK k \in Loops, next \in Ends :
          QueueInLoop(k, next, c) /\ (next = "connectDestroyed" => c \notin connections_')
    BY <1>1, <1>2, <1>10, CloseQueuesEnd
  <2>2. LosesGains(l, op, k, next, c)
    <3>1. next \in Ops
      BY DEF Ends, Ops, Shared
    <3> QED BY <1>1, <1>2, <2>1, <3>1, RunLosesGains
  <2>3. \A d \in Conns, m \in Loops, o \in Ends :
          At(m, o, d)' => At(m, o, d) \/ (d = c /\ o = next)
    BY <2>2 DEF LosesGains
  <2>4. Live(c)
    BY <1>10 DEF Live, Up
  <2> QED BY <1>1, <1>2, <1>10, <2>1, <2>3, <2>4, ClosedMoves
<1>11. CASE UNCHANGED <<connections_, pending, state_, channel>>
  <2>1. Steady
    BY <1>6, <1>11 DEF Steady
  <2> QED BY <2>1, SteadyKeeps
<1>12. \/ op = "connectEstablished" /\ ConnectEstablished(c)
       \/ /\ op = "removeConnectionInLoop" /\ RemoveConnectionInLoop(c)
          /\ UNCHANGED <<state_, channel>>
       \/ op = "connectDestroyed" /\ ConnectDestroyed(c)
       \/ UNCHANGED <<connections_, pending, state_, channel>>
       \/ op = "forceCloseInLoop" /\ HandleClose(c) /\ channel[c] # "removed" /\ Up(c)
  <2>1. Head(functors[l]).op = op /\ Head(functors[l]).conn = c
    BY <1>2 DEF Functor
  <2> QED BY <2>1 DEF RunFunctor, ForceCloseInLoop, AddTimerInLoop, ServerCgi, RunRaw
<1> QED BY <1>7, <1>8, <1>9, <1>10, <1>11, <1>12

(* A new connection.                                                       *)
LEMMA AcceptMoves ==
  ASSUME IInv, LivesInv, NEW c \in Conns, Accept(c)
  PROVE  LivesInv' /\ LifeStep
<1>1. TypeOK /\ ConnInv(c) /\ state_[c] = "none"
  BY DEF IInv, Accept
<1>2. channel[c] = "new" /\ \A m \in Loops, o \in Ops : ~At(m, o, c)
  BY <1>1 DEF ConnInv, Fresh
<1>3. PICK home \in Loops :
        IF home = Base
        THEN /\ SetState(c, "kConnected")
             /\ channel' = [channel EXCEPT ![c] = "reading"]
             /\ UNCHANGED pending
        ELSE /\ SetState(c, "kConnecting")
             /\ QueueInLoop(home, "connectEstablished", c)
             /\ UNCHANGED channel
  <2>1. GetNextLoop \in Loops
    BY <1>1, NextLoopIsLoop
  <2> QED BY <2>1 DEF Accept, NewConnection, Construct
<1>4. connections_' = connections_ \cup {c} /\ functors' = functors
  BY DEF Accept, NewConnection
<1>5. /\ state_'[c] = IF home = Base THEN "kConnected" ELSE "kConnecting"
      /\ channel'[c] = IF home = Base THEN "reading" ELSE "new"
      /\ \A d \in Conns \ {c} : state_'[d] = state_[d] /\ channel'[d] = channel[d]
  <2>1. CASE home = Base
    <3>1. SetState(c, "kConnected") /\ channel' = [channel EXCEPT ![c] = "reading"]
      BY <1>3, <2>1
    <3> QED BY <1>1, <2>1, <3>1 DEF SetState, TypeOK
  <2>2. CASE home # Base
    <3>1. SetState(c, "kConnecting") /\ channel' = channel
      BY <1>3, <2>2
    <3> QED BY <1>1, <1>2, <2>2, <3>1 DEF SetState, TypeOK
  <2> QED BY <2>1, <2>2
<1>6. \A d \in Conns, m \in Loops, o \in Ends : At(m, o, d)' => At(m, o, d)
  <2>1. CASE home = Base
    BY <1>3, <1>4, <2>1, QueuesKept, EndsKept
  <2>2. CASE home # Base
    <3>1. "connectEstablished" \in Ops \ Ends
      BY DEF Ops, Shared, Ends
    <3> QED BY <1>1, <1>3, <1>4, <2>2, <3>1, EndsUnqueued
  <2> QED BY <2>1, <2>2
<1>7. \A d \in Conns \ {c} : Unmoved(d)
  BY <1>4, <1>5, <1>6 DEF Unmoved
<1>8. LifeInv(c)'
  <2>1. \A m \in Loops, o \in Ends : ~At(m, o, c)'
    <3>1. Ends \subseteq Ops
      BY DEF Ends, Ops, Shared
    <3> QED BY <1>2, <1>6, <3>1
  <2> QED BY <1>4, <1>5, <2>1 DEF LifeInv, Live, Ends
<1>9. Stage(c) = "none" /\ Stage(c)' = IF home = Base THEN "up" ELSE "accepted"
  BY <1>1, <1>2, <1>5 DEF Stage
<1>10. LivesInv' /\ (Life!Goes(c, "none", "accepted") \/ Life!Goes(c, "none", "up"))
  <2>1. CASE home = Base
    <3>1. Moves(c, "none", "up")
      BY <1>7, <1>8, <1>9, <2>1 DEF Moves
    <3> QED BY <3>1, MovesGoes
  <2>2. CASE home # Base
    <3>1. Moves(c, "none", "accepted")
      BY <1>7, <1>8, <1>9, <2>2 DEF Moves
    <3> QED BY <3>1, MovesGoes
  <2> QED BY <2>1, <2>2
<1>11. Life!Accept(c)
  BY <1>4, <1>10 DEF Life!Accept
<1> QED BY <1>10, <1>11 DEF LifeStep, Life!Next

(* Every step of the server is one of the abstract life, or none.          *)
LEMMA LivesStep ==
  ASSUME IInv, LivesInv, [Next]_vars
  PROVE  LivesInv' /\ LifeStep
<1>1. CASE Next
  <2>1. ASSUME NEW l \in Loops, LoopStep(l) PROVE LivesInv' /\ LifeStep
    BY <2>1, RunFunctorMoves, HandleReadZeroMoves, TimerFireSteady, HandleReadSteady, OthersSteady,
       SteadyKeeps DEF LoopStep
  <2>2. ASSUME NEW c \in Conns, BaseStep(c) \/ Environment(c) PROVE LivesInv' /\ LifeStep
    BY <2>2, AcceptMoves, OthersSteady, SteadyKeeps DEF BaseStep
  <2>3. CASE Start \/ AcceptFatal \/ CallSteps
    BY <2>3, CallStepsSteady, OthersSteady, SteadyKeeps
  <2> QED BY <1>1, <2>1, <2>2, <2>3 DEF Next
<1>2. CASE UNCHANGED vars
  BY <1>2, OthersSteady, SteadyKeeps
<1> QED BY <1>1, <1>2

(* At the start no connection is known, and none is on its way.            *)
LEMMA LivesStart == Init => LivesInv /\ Life!Init
<1> SUFFICES ASSUME Init PROVE LivesInv /\ Life!Init
  OBVIOUS
<1>1. \A l \in Loops : \A o, d : ~At(l, o, d)
  <2>1. \A l \in Loops : Todo(l) = <<>>
    BY DEF Init, Todo
  <2> QED BY <2>1 DEF At, Holds
<1>2. LivesInv
  BY <1>1 DEF Init, LivesInv, LifeInv, Live
<1>3. \A c \in Conns : Stage(c) = "none"
  BY DEF Init, Stage
<1> QED BY <1>2, <1>3 DEF Life!Init, Init

(* The server implements the abstract life of its connections: whichever   *)
(* loops they are on and whatever overlaps, each is in the map, up,        *)
(* closing, erased and destroyed, in this order (newConnection,            *)
(* connectEstablished, handleClose, removeConnectionInLoop,                *)
(* connectDestroyed).                                                      *)
THEOREM ServerImplementsLife == Spec => LifeSpec
<1>1. IInv /\ LivesInv /\ [Next]_vars => LivesInv' /\ [Life!Next]_(Life!lifeVars)
  BY LivesStep DEF LifeStep
<1> QED BY LivesStart, <1>1, Invariant, PTL DEF Spec, LifeSpec, Life!Spec
=============================================================================
