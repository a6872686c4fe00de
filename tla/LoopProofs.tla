----------------------------- MODULE LoopProofs ------------------------------
(***************************************************************************)
(* Proofs about a loop and its poller, whose specifications have no state  *)
(* in common.  EventLoop, for every set of threads and functors: type      *)
(* correctness, no lost wakeup, and that the loop implements FunctorQueue; *)
(* and that an EventLoopThread uses its loop as EventLoop allows, so that  *)
(* all of it holds of the loops of a pool.  Poller, for any set of         *)
(* channels and any assignment of descriptors to them.                     *)
(***************************************************************************)
EXTENDS EventLoopThread, Poller, SequenceTheorems, TLAPS

-----------------------------------------------------------------------------
(* EventLoop and EventLoopThread.                                          *)

(* Outside the window between poll's return and the swap, a queued functor *)
(* has a wakeup on its way.                                                *)
PendingHasWakeup ==
  pc \notin {"dispatch", "ioCallback"} /\ pendingFunctors_ # <<>>
    => WakeupComing

(* quit_ is read just before poll: if it is set during poll, its wakeup is *)
(* on its way.                                                             *)
QuitHasWakeup == pc = "poll" /\ quit_ => WakeupComing

(* The flag read by queueInLoop tells whether a batch is being run.        *)
FlagMeansBatch == callingPendingFunctors_ <=> pc \in {"functors", "functor"}

(* Nothing is left of a batch once doPendingFunctors has returned: the     *)
(* next swap overwrites an empty vector.                                   *)
BatchFinished == pc \notin {"functors", "functor"} => functors = <<>>

(* The inductive invariant: NoLostWakeup speaks of poll alone, and a step  *)
(* into poll needs the same fact about every place a functor may be queued *)
(* from, which in turn needs the meaning of the flag.                      *)
LoopInv ==
  /\ TypeOK
  /\ FlagMeansBatch
  /\ BatchFinished
  /\ PendingHasWakeup
  /\ QuitHasWakeup

-----------------------------------------------------------------------------
(* Every action of EventLoop.cc keeps the variables in their types. *)
LEMMA TypeStep == TypeOK /\ [Next]_vars => TypeOK'
<1> SUFFICES ASSUME TypeOK, [Next]_vars
             PROVE  TypeOK'
  OBVIOUS
<1> USE DEF TypeOK
<1>1. ASSUME NEW t \in Threads, NEW f \in Functors, QueueInLoop(t, f)
      PROVE  TypeOK'
  BY <1>1 DEF QueueInLoop, Enqueue, Enqueue
<1>2. ASSUME NEW t \in Threads, Quit(t)
      PROVE  TypeOK'
  BY <1>2 DEF Quit
<1>3. ASSUME NEW t \in Threads, Wakeup(t)
      PROVE  TypeOK'
  BY <1>3 DEF Wakeup
<1>4. ASSUME NEW f \in Functors, QueueInLoopSelf(f)
      PROVE  TypeOK'
  BY <1>4 DEF QueueInLoopSelf, Enqueue, SelfWakeup
<1>5. CASE QuitSelf
  BY <1>5 DEF QuitSelf
<1>6. CASE LoopEnter
  BY <1>6 DEF LoopEnter
<1>7. CASE TestQuit
  BY <1>7 DEF TestQuit
<1>8. ASSUME NEW ready \in SUBSET LoopChannels, PollReturn(ready)
      PROVE  TypeOK'
  BY <1>8 DEF PollReturn
<1>9. CASE PollTimeout
  BY <1>9 DEF PollTimeout
<1>10. CASE HandleRead
  BY <1>10 DEF HandleRead
<1>11. CASE HandleEvent
  BY <1>11 DEF HandleEvent
<1>12. CASE IoReturn
  BY <1>12 DEF IoReturn
<1>13. CASE SwapPending
  BY <1>13 DEF SwapPending
<1>14. CASE RunFunctor
  BY <1>14 DEF RunFunctor
<1>15. CASE FunctorReturn
  BY <1>15 DEF FunctorReturn
<1>16. CASE EndPending
  BY <1>16 DEF EndPending
<1>17. CASE UNCHANGED vars
  BY <1>17 DEF vars
<1>18. {"ioChannel"} \in SUBSET LoopChannels
  BY DEF LoopChannels
<1> QED
  BY <1>1, <1>2, <1>3, <1>4, <1>5, <1>6, <1>7, <1>8, <1>9, <1>10, <1>11,
     <1>12, <1>13, <1>14, <1>15, <1>16, <1>17, <1>18
  DEF Next, LoopStep, LoopCall, ThreadStep, PollWakeup, PollIo

(* The initial state of the constructor EventLoop::EventLoop is well typed. *)
LEMMA TypeInit == Init => TypeOK
<1> SUFFICES ASSUME Init
             PROVE  TypeOK
  OBVIOUS
<1>1. <<>> \in Seq(Functors)
  OBVIOUS
<1>2. tpc \in [Threads -> {"idle", "wakeup"}]
  BY DEF Init
<1>3. pc = "idle" /\ activeChannels = {} /\ used = {}
  BY DEF Init
<1>4. /\ quit_ \in BOOLEAN
      /\ looping_ \in BOOLEAN
      /\ callingPendingFunctors_ \in BOOLEAN
      /\ wakeupFd \in BOOLEAN
  BY DEF Init
<1>5. /\ pendingFunctors_ \in Seq(Functors)
      /\ functors \in Seq(Functors)
      /\ executed \in Seq(Functors)
  BY <1>1 DEF Init
<1> QED
  BY <1>2, <1>3, <1>4, <1>5 DEF TypeOK

(* The variables of EventLoop keep their types in every behaviour: no      *)
(* action of EventLoop.cc leaves one of them undefined.                    *)
THEOREM LoopTypeCorrect == Spec => []TypeOK
<1> QED
  BY TypeInit, TypeStep, PTL DEF Spec

-----------------------------------------------------------------------------
(* No action of EventLoop.cc can put a functor, or quit, out of reach of a *)
(* wakeup: LoopInv is inductive.                                              *)
LEMMA WakeupStep == LoopInv /\ [Next]_vars => LoopInv'
<1> SUFFICES ASSUME LoopInv, [Next]_vars
             PROVE  LoopInv'
  OBVIOUS
<1>0. TypeOK'
  BY TypeStep DEF LoopInv
<1> USE DEF LoopInv, FlagMeansBatch, BatchFinished, PendingHasWakeup,
            QuitHasWakeup, WakeupComing
<1>1. ASSUME NEW t \in Threads, NEW f \in Functors, QueueInLoop(t, f)
      PROVE  LoopInv'
  BY <1>0, <1>1 DEF QueueInLoop, Enqueue, TypeOK
<1>2. ASSUME NEW t \in Threads, Quit(t)
      PROVE  LoopInv'
  BY <1>0, <1>2 DEF Quit, TypeOK
<1>3. ASSUME NEW t \in Threads, Wakeup(t)
      PROVE  LoopInv'
  BY <1>0, <1>3 DEF Wakeup, TypeOK
<1>4. ASSUME NEW f \in Functors, QueueInLoopSelf(f)
      PROVE  LoopInv'
  BY <1>0, <1>4
  DEF QueueInLoopSelf, Enqueue, SelfWakeup, InCallback, TypeOK
<1>5. CASE QuitSelf
  BY <1>0, <1>5 DEF QuitSelf, InCallback
<1>6. CASE LoopEnter
  BY <1>0, <1>6 DEF LoopEnter
<1>7. CASE TestQuit
  BY <1>0, <1>7 DEF TestQuit
<1>8. ASSUME NEW ready \in SUBSET LoopChannels, PollReturn(ready)
      PROVE  LoopInv'
  BY <1>0, <1>8 DEF PollReturn
<1>9. CASE PollTimeout
  BY <1>0, <1>9 DEF PollTimeout
<1>10. CASE HandleRead
  BY <1>0, <1>10 DEF HandleRead
<1>11. CASE HandleEvent
  BY <1>0, <1>11 DEF HandleEvent
<1>12. CASE IoReturn
  BY <1>0, <1>12 DEF IoReturn
<1>13. CASE SwapPending
  BY <1>0, <1>13 DEF SwapPending
<1>14. CASE RunFunctor
  BY <1>0, <1>14 DEF RunFunctor
<1>15. CASE FunctorReturn
  BY <1>0, <1>15 DEF FunctorReturn
<1>16. CASE EndPending
  BY <1>0, <1>16 DEF EndPending
<1>17. CASE UNCHANGED vars
  BY <1>0, <1>17 DEF vars
<1>18. {"ioChannel"} \in SUBSET LoopChannels
  BY DEF LoopChannels
<1> QED
  BY <1>1, <1>2, <1>3, <1>4, <1>5, <1>6, <1>7, <1>8, <1>9, <1>10, <1>11,
     <1>12, <1>13, <1>14, <1>15, <1>16, <1>17, <1>18
  DEF Next, LoopStep, LoopCall, ThreadStep, PollWakeup, PollIo

(* The strengthened invariant holds throughout: every write of quit_ or    *)
(* pendingFunctors_ is followed by a wakeup the loop has not consumed.     *)
THEOREM LoopInvariant == Spec => []LoopInv
<1>1. Init => LoopInv
  BY TypeInit
  DEF Init, LoopInv, FlagMeansBatch, BatchFinished, PendingHasWakeup,
      QuitHasWakeup, WakeupComing
<1> QED
  BY <1>1, WakeupStep, PTL DEF Spec

(* No functor and no quit ever waits for poll's time-out: whenever the     *)
(* loop is in poll with work to do, a wakeup is readable or about to be    *)
(* written (queueInLoop, quit, wakeup, handleRead, doPendingFunctors).     *)
THEOREM WakeupNeverLost == Spec => []NoLostWakeup
<1>1. LoopInv => NoLostWakeup
  BY DEF LoopInv, PendingHasWakeup, QuitHasWakeup, NoLostWakeup
<1> QED
  BY <1>1, LoopInvariant, PTL

-----------------------------------------------------------------------------
(* Appending at the right of a concatenation, and taking the head of its   *)
(* left part: the two ways the loop's two vectors change.                  *)
LEMMA ConcatFacts ==
  ASSUME NEW S, NEW s \in Seq(S), NEW u \in Seq(S), NEW e \in S
  PROVE  /\ s \o Append(u, e) = Append(s \o u, e)
         /\ s \o <<>> = s
         /\ <<>> \o s = s
         /\ s # <<>> => /\ s \o u # <<>>
                        /\ Head(s \o u) = Head(s)
                        /\ Tail(s \o u) = Tail(s) \o u
  OBVIOUS

(* queueInLoop and doPendingFunctors implement FunctorQueue with the rest  *)
(* of the batch followed by pendingFunctors_ as the queue: callbacks run   *)
(* exactly once and in the order they were queued, by whatever thread.     *)
THEOREM LoopIsFifo == Spec => FifoOnce
<1>1. Init => FQ!Init
  BY DEF Init, FQ!Init
<1>2. LoopInv /\ [Next]_vars => [FQ!Next]_(FQ!fqvars)
  <2> SUFFICES ASSUME LoopInv, [Next]_vars
               PROVE  FQ!Next \/ UNCHANGED FQ!fqvars
    BY DEF FQ!fqvars
  <2>0. TypeOK
    BY DEF LoopInv
  <2>1. ASSUME NEW t \in Threads, NEW f \in Functors, QueueInLoop(t, f)
        PROVE  FQ!Submit(f)
    BY <2>0, <2>1, ConcatFacts DEF QueueInLoop, Enqueue, TypeOK, FQ!Submit
  <2>2. ASSUME NEW f \in Functors, QueueInLoopSelf(f)
        PROVE  FQ!Submit(f)
    BY <2>0, <2>2, ConcatFacts DEF QueueInLoopSelf, Enqueue, TypeOK, FQ!Submit
  <2>3. CASE SwapPending
    <3>1. functors = <<>>
      BY <2>3 DEF SwapPending, LoopInv, BatchFinished
    <3> QED
      BY <2>0, <2>3, <3>1 DEF SwapPending, TypeOK, FQ!fqvars
  <2>4. CASE RunFunctor
    BY <2>0, <2>4, SMTT(40) DEF RunFunctor, TypeOK, FQ!RunHead, FQ!Next
  <2> QED
    BY <2>1, <2>2, <2>3, <2>4
    DEF Next, LoopStep, LoopCall, ThreadStep, PollWakeup, PollIo, Quit, Wakeup,
        QuitSelf, LoopEnter, TestQuit, PollReturn, PollTimeout, HandleRead,
        HandleEvent, IoReturn, FunctorReturn, EndPending, vars,
        FQ!Next, FQ!fqvars
<1> QED
  BY <1>1, <1>2, LoopInvariant, PTL DEF Spec, FifoOnce, FQ!Spec

-----------------------------------------------------------------------------
(* Each step of an EventLoopThread, its owner and its users is a step of   *)
(* EventLoop or none at all.                                               *)
LEMMA ThreadStepIsLoopStep == [ThreadNext]_allVars => [Next]_vars
<1> SUFFICES ASSUME [ThreadNext]_allVars
             PROVE  Next \/ UNCHANGED vars
  OBVIOUS
<1> USE DEF Next
<1>1. CASE UNCHANGED allVars
  BY <1>1 DEF allVars
<1>2. CASE StartThread \/ StartLoop \/ SpuriousWakeup \/ Join \/ Publish
  BY <1>2 DEF StartThread, StartLoop, SpuriousWakeup, Join, Publish
<1>3. CASE Destroy
  BY <1>3, OwnerAssumption DEF Destroy, ThreadStep
<1>4. ASSUME NEW t \in Threads, Use(t) \/ FinishCall(t)
      PROVE  Next
  BY <1>4 DEF Use, FinishCall, ThreadStep
<1>5. CASE EnterLoop
  BY <1>5 DEF EnterLoop
<1>6. CASE InLoop(LoopStep) \/ InLoop(PollIo) \/ InLoop(PollTimeout) \/ InLoop(LoopCall)
  BY <1>6 DEF InLoop
<1> QED
  BY <1>1, <1>2, <1>3, <1>4, <1>5, <1>6 DEF ThreadNext

(* EventLoopThread implements EventLoop: entering loop once, from its own  *)
(* thread, and quitting from the destructor are within what EventLoop      *)
(* allows.                                                                 *)
THEOREM ThreadUsesLoop == ThreadSpec => Spec
<1>1. ThreadInit => Init
  BY DEF ThreadInit
<1> QED
  BY <1>1, ThreadStepIsLoopStep, PTL DEF ThreadSpec, Spec

(* So no functor handed to a loop of the pool and no quit of its           *)
(* destructor waits for poll's time-out.                                   *)
THEOREM ThreadWakeupNeverLost == ThreadSpec => []NoLostWakeup
<1> QED
  BY ThreadUsesLoop, WakeupNeverLost, PTL

(* The owner goes on from startLoop, and quits and joins, only with the    *)
(* loop published; the loop runs exactly while threadFunc is in loop.      *)
THEOREM ThreadTypeCorrect == ThreadSpec => []ThreadTypeOK
<1>1. ThreadInit => ThreadTypeOK
  BY DEF ThreadInit, Init, ThreadTypeOK
<1>2. ThreadTypeOK /\ TypeOK /\ [ThreadNext]_allVars => ThreadTypeOK'
  <2> SUFFICES ASSUME ThreadTypeOK, TypeOK, [ThreadNext]_allVars
               PROVE  ThreadTypeOK'
    OBVIOUS
  <2> USE DEF ThreadTypeOK
  <2>1. CASE UNCHANGED allVars
    BY <2>1 DEF allVars, vars, threadVars
  <2>2. CASE StartThread
    BY <2>2 DEF StartThread, vars
  <2>8. CASE StartLoop
    BY <2>8 DEF StartLoop, vars
  <2>9. CASE SpuriousWakeup \/ Join
    BY <2>9 DEF SpuriousWakeup, Join, vars
  <2>10. CASE Publish
    BY <2>10 DEF Publish, vars
  <2>3. CASE Destroy
    BY <2>3 DEF Destroy, Quit
  <2>4. ASSUME NEW t \in Threads, Use(t) \/ FinishCall(t)
        PROVE  ThreadTypeOK'
    BY <2>4 DEF Use, FinishCall, QueueInLoop, Wakeup, threadVars
  <2>5. CASE EnterLoop
    BY <2>5 DEF EnterLoop, LoopEnter
  <2>6. CASE InLoop(LoopStep)
    BY <2>6 DEF InLoop, LoopStep, TestQuit, PollWakeup, PollReturn, HandleRead,
                HandleEvent, IoReturn, SwapPending, RunFunctor, FunctorReturn, EndPending
  <2>7. CASE InLoop(PollIo) \/ InLoop(PollTimeout) \/ InLoop(LoopCall)
    BY <2>7 DEF InLoop, PollIo, PollReturn, PollTimeout, LoopCall, QueueInLoopSelf,
                QuitSelf, InCallback
  <2> QED
    BY <2>1, <2>2, <2>3, <2>4, <2>5, <2>6, <2>7, <2>8,
       <2>9, <2>10 DEF ThreadNext
<1> QED
  BY <1>1, <1>2, ThreadUsesLoop, LoopTypeCorrect, PTL DEF ThreadSpec

-----------------------------------------------------------------------------
(* Poller.                                                                 *)

(* The map files every channel under its own descriptor. *)
MapKeyed ==
  \A fd \in Fds : channels_[fd] \in Channels => FdOf[channels_[fd]] = fd

(* A channel with an index is in the map, unless its owner removed it; a   *)
(* removed one is not, so its stale index is never used.                   *)
IndexedIsMapped ==
  \A c \in Channels :
    /\ index_[c] >= 0 /\ c \notin removed => Registered(c)
    /\ c \in removed => ~Registered(c)

(* IndexConsistent alone is not inductive: updateChannel trusts index_ to  *)
(* say whether the channel is in the map.                                  *)
PollerInv ==
  /\ PollerTypeOK
  /\ MapKeyed
  /\ IndexedIsMapped
  /\ IndexConsistent
  /\ NoInterestIsHidden

-----------------------------------------------------------------------------
(* A poller without channels.                                               *)
LEMMA PollerInitInv == PollerInit => PollerInv
  <1> SUFFICES ASSUME PollerInit PROVE PollerInv
    OBVIOUS
  <1>1. {} \in SUBSET Events /\ <<>> \in Seq(PollFd) /\ Len(<<>>) = 0
    OBVIOUS
  <1>2. PollerTypeOK
    BY <1>1 DEF PollerInit, PollerTypeOK
  <1>3. \A c \in Channels : ~Registered(c) /\ index_[c] = -1
    BY PollerAssumption DEF PollerInit, Registered, Fds
  <1>4. \A fd \in Fds : channels_[fd] \notin Channels
    BY PollerAssumption DEF PollerInit
  <1>5. 1 .. Len(pollfds_) = {} /\ removed = {} /\ activeChannels_ = {}
    BY <1>1 DEF PollerInit
  <1>6. QED
    BY <1>2, <1>3, <1>4, <1>5
    DEF PollerInv, MapKeyed, IndexedIsMapped, IndexConsistent,
        NoInterestIsHidden

(* Hiding a descriptor loses nothing: Decode undoes Ignored. *)
LEMMA DecodeFacts ==
  \A fd \in Nat : /\ Decode(fd) = fd
                  /\ Decode(Ignored(fd)) = fd
                  /\ Ignored(fd) \in Int
  BY DEF Decode, Ignored

(* updateChannel of a channel the poller does not know. *)
LEMMA UpdateNew ==
  ASSUME PollerInv, NEW c \in Channels, NEW ev \in SUBSET Events, ev # {},
         MayEnable(c), index_[c] < 0, UpdateChannel(c, ev)
  PROVE  PollerInv'
  <1>1. /\ FdOf[c] \in Fds /\ FdOf[c] \in Nat
        /\ \A d \in Channels : FdOf[d] \in Fds /\ FdOf[d] \in Nat
    BY PollerAssumption DEF Fds
  <1>2. /\ events_' = [events_ EXCEPT ![c] = ev]
        /\ pollfds_' = Append(pollfds_, [fd |-> FdOf[c], events |-> ev])
        /\ index_' = [index_ EXCEPT ![c] = Len(pollfds_)]
        /\ channels_' = [channels_ EXCEPT ![FdOf[c]] = c]
        /\ removed' = removed /\ activeChannels_' = activeChannels_
        /\ c \notin removed /\ channels_[FdOf[c]] = NULL
    BY DEF UpdateChannel, MayEnable
  <1>3. [fd |-> FdOf[c], events |-> ev] \in PollFd
    BY <1>1 DEF PollFd
  <1>4. PollerTypeOK'
    BY <1>1, <1>2, <1>3 DEF PollerTypeOK, PollerInv
  <1>5. /\ Len(pollfds_') = Len(pollfds_) + 1
        /\ Len(pollfds_) \in Nat
        /\ \A i \in 1 .. Len(pollfds_) : pollfds_'[i] = pollfds_[i]
        /\ pollfds_'[Len(pollfds_) + 1] = [fd |-> FdOf[c], events |-> ev]
    BY <1>2, <1>3 DEF PollerTypeOK, PollerInv
  <1>6. \A d \in Channels \ {c} :
          /\ Registered(d)' <=> Registered(d)
          /\ Registered(d) => FdOf[d] # FdOf[c]
          /\ index_'[d] = index_[d] /\ events_'[d] = events_[d]
    BY <1>1, <1>2, PollerAssumption DEF Registered, PollerTypeOK, PollerInv
  <1>7. Registered(c)' /\ index_'[c] = Len(pollfds_) /\ events_'[c] = ev
    BY <1>1, <1>2 DEF Registered, PollerTypeOK, PollerInv
  <1>8. MapKeyed'
    BY <1>1, <1>2 DEF MapKeyed, PollerTypeOK, PollerInv
  <1>9. IndexedIsMapped'
    BY <1>2, <1>6, <1>7 DEF IndexedIsMapped, PollerInv
  <1>10. \A d \in Channels \ {c} : Registered(d) => Slot(d)' = Slot(d)
    BY <1>5, <1>6 DEF Slot, PollerInv, IndexConsistent, PollerTypeOK
  <1>11. Slot(c)' = [fd |-> FdOf[c], events |-> ev]
    BY <1>5, <1>7 DEF Slot
  <1>12. NoInterestIsHidden'
    BY <1>6, <1>7, <1>10 DEF NoInterestIsHidden, PollerInv
  <1>14. ASSUME NEW d \in Channels, Registered(d)'
         PROVE  /\ index_'[d] \in 0 .. Len(pollfds_') - 1
                /\ Decode(Slot(d)'.fd) = FdOf[d]
                /\ Slot(d)'.events = events_'[d]
    <2>1. CASE d = c
      BY <2>1, <1>1, <1>5, <1>7, <1>11, DecodeFacts
    <2>2. CASE d # c
      BY <2>2, <1>5, <1>6, <1>10, <1>14 DEF PollerInv, IndexConsistent
    <2>3. QED
      BY <2>1, <2>2
  <1>15. ASSUME NEW i \in 1 .. Len(pollfds_')
         PROVE  /\ Decode(pollfds_'[i].fd) \in Fds
                /\ channels_'[Decode(pollfds_'[i].fd)] \in Channels
                /\ index_'[channels_'[Decode(pollfds_'[i].fd)]] = i - 1
    <2>1. CASE i = Len(pollfds_) + 1
      <3>1. Decode(pollfds_'[i].fd) = FdOf[c]
        BY <2>1, <1>1, <1>5, DecodeFacts
      <3>2. channels_'[FdOf[c]] = c
        BY <1>7 DEF Registered
      <3>3. QED
        BY <2>1, <3>1, <3>2, <1>1, <1>5, <1>7
    <2>2. CASE i \in 1 .. Len(pollfds_)
      <3> DEFINE fd == Decode(pollfds_[i].fd)
      <3>1. /\ pollfds_'[i] = pollfds_[i] /\ fd \in Fds
            /\ channels_[fd] \in Channels /\ index_[channels_[fd]] = i - 1
        BY <2>2, <1>5 DEF PollerInv, IndexConsistent
      <3>2. fd # FdOf[c]
        BY <3>1, <1>2, PollerAssumption
      <3>3. channels_'[fd] = channels_[fd] /\ channels_[fd] # c
        BY <3>1, <3>2, <1>2 DEF MapKeyed, PollerInv, PollerTypeOK
      <3>4. QED
        BY <3>1, <3>3, <1>6
    <2>3. QED
      BY <2>1, <2>2, <1>5
  <1>16. IndexConsistent'
    BY <1>14, <1>15 DEF IndexConsistent, Registered, Slot
  <1>17. QED
    BY <1>4, <1>8, <1>9, <1>12, <1>16 DEF PollerInv

(* updateChannel of a channel the poller knows. *)
LEMMA UpdateKnown ==
  ASSUME PollerInv, NEW c \in Channels, NEW ev \in SUBSET Events,
         Registered(c), UpdateChannel(c, ev)
  PROVE  PollerInv'
  <1> DEFINE k == index_[c] + 1
             slot == [fd |-> IF ev = {} THEN Ignored(FdOf[c])
                             ELSE pollfds_[k].fd,
                      events |-> ev]
  <1>1. \A d \in Channels : FdOf[d] \in Fds /\ FdOf[d] \in Nat
    BY PollerAssumption DEF Fds
  <1>2. /\ k \in 1 .. Len(pollfds_) /\ ~(index_[c] < 0)
        /\ pollfds_[k] \in PollFd /\ Decode(pollfds_[k].fd) = FdOf[c]
    BY DEF PollerInv, IndexConsistent, PollerTypeOK, Slot
  <1>3. /\ events_' = [events_ EXCEPT ![c] = ev]
        /\ pollfds_' = [pollfds_ EXCEPT ![k] = slot]
        /\ UNCHANGED <<index_, channels_, removed, activeChannels_>>
    BY <1>2 DEF UpdateChannel
  <1>4. slot \in PollFd /\ Decode(slot.fd) = FdOf[c]
    BY <1>1, <1>2, DecodeFacts DEF PollFd
  <1>5. PollerTypeOK'
    BY <1>2, <1>3, <1>4 DEF PollerTypeOK, PollerInv
  <1>6. /\ Len(pollfds_') = Len(pollfds_) /\ pollfds_'[k] = slot
        /\ \A i \in 1 .. Len(pollfds_) : i # k => pollfds_'[i] = pollfds_[i]
    BY <1>2, <1>3 DEF PollerTypeOK, PollerInv
  <1>7. ASSUME NEW d \in Channels, Registered(d)', d # c
        PROVE  Registered(d) /\ Slot(d)' = Slot(d) /\ events_'[d] = events_[d]
    <2>1. /\ Registered(d) /\ index_[d] + 1 \in 1 .. Len(pollfds_)
          /\ Decode(Slot(d).fd) = FdOf[d]
      BY <1>3, <1>7 DEF Registered, PollerInv, IndexConsistent, PollerTypeOK
    <2>2. FdOf[d] # FdOf[c]
      BY <2>1, <1>7 DEF Registered
    <2>3. index_[d] # index_[c]
      BY <2>1, <2>2, <1>2 DEF Slot
    <2>4. QED
      BY <2>1, <2>3, <1>3, <1>6, <1>7 DEF Slot, PollerTypeOK, PollerInv
  <1>8. Slot(c)' = slot /\ events_'[c] = ev
    BY <1>3, <1>6 DEF Slot, PollerTypeOK, PollerInv
  <1>9. MapKeyed' /\ IndexedIsMapped'
    BY <1>3 DEF MapKeyed, IndexedIsMapped, Registered, PollerInv
  <1>10. NoInterestIsHidden'
    <2> SUFFICES ASSUME NEW d \in Channels, Registered(d)', events_'[d] = {}
                 PROVE  Slot(d)'.fd = Ignored(FdOf[d])
      BY DEF NoInterestIsHidden
    <2>1. CASE d = c
      BY <2>1, <1>8
    <2>2. CASE d # c
      BY <2>2, <1>7 DEF NoInterestIsHidden, PollerInv
    <2>3. QED
      BY <2>1, <2>2
  <1>11. ASSUME NEW d \in Channels, Registered(d)'
         PROVE  /\ index_'[d] \in 0 .. Len(pollfds_') - 1
                /\ Decode(Slot(d)'.fd) = FdOf[d]
                /\ Slot(d)'.events = events_'[d]
    <2>1. CASE d = c
      BY <2>1, <1>2, <1>3, <1>4, <1>6, <1>8 DEF PollerTypeOK, PollerInv
    <2>2. CASE d # c
      BY <2>2, <1>3, <1>6, <1>7, <1>11 DEF PollerInv, IndexConsistent
    <2>3. QED
      BY <2>1, <2>2
  <1>12. ASSUME NEW i \in 1 .. Len(pollfds_')
         PROVE  Decode(pollfds_'[i].fd) = Decode(pollfds_[i].fd)
    BY <1>2, <1>4, <1>6
  <1>13. IndexConsistent'
    <2>1. \A i \in 1 .. Len(pollfds_') :
            /\ Decode(pollfds_'[i].fd) \in Fds
            /\ channels_[Decode(pollfds_'[i].fd)] \in Channels
            /\ index_[channels_[Decode(pollfds_'[i].fd)]] = i - 1
      BY <1>6, <1>12 DEF IndexConsistent, PollerInv
    <2>2. channels_' = channels_ /\ index_' = index_
      BY <1>3
    <2>3. QED
      BY <2>1, <2>2, <1>11 DEF IndexConsistent
  <1>14. QED
    BY <1>5, <1>9, <1>10, <1>13 DEF PollerInv

(* removeChannel: whichever slot is filled by the last one, the channel    *)
(* that owned the last slot follows it.                                    *)
LEMMA Remove ==
  ASSUME PollerInv, NEW c \in Channels, RemoveChannel(c)
  PROVE  PollerInv'
  <1> DEFINE n == Len(pollfds_)
             idx == index_[c]
             last == pollfds_[n]
             moved == channels_[Decode(last.fd)]
  <1>1. \A d \in Channels : FdOf[d] \in Fds /\ FdOf[d] \in Nat
    BY PollerAssumption DEF Fds
  <1>2. /\ Registered(c) /\ c \notin activeChannels_
        /\ channels_' = [channels_ EXCEPT ![FdOf[c]] = NULL]
        /\ removed' = removed \cup {c}
        /\ UNCHANGED <<events_, activeChannels_>>
    BY DEF RemoveChannel, Removable, MovedIndex
  <1>3. n \in Nat /\ idx \in 0 .. n - 1 /\ last \in PollFd
    BY <1>2 DEF PollerInv, IndexConsistent, PollerTypeOK
  <1>4. \A d \in Channels \ {c} :
          /\ Registered(d) => FdOf[d] # FdOf[c]
          /\ Registered(d)' <=> Registered(d)
    BY <1>1, <1>2, PollerAssumption DEF Registered, PollerTypeOK, PollerInv
  <1>5. ~Registered(c)'
    BY <1>1, <1>2, PollerAssumption DEF Registered, PollerTypeOK, PollerInv
  <1>6. MapKeyed'
    BY <1>1, <1>2, PollerAssumption DEF MapKeyed, PollerTypeOK, PollerInv
  <1>8. \A d, e \in Channels :
          Registered(d) /\ Registered(e) /\ index_[d] = index_[e] => d = e
    BY DEF PollerInv, IndexConsistent, Slot, Registered
  <1>9. /\ moved \in Channels /\ index_[moved] = n - 1 /\ Registered(moved)
    BY <1>3 DEF PollerInv, IndexConsistent, MapKeyed, Registered
  (* What the two branches have in common. *)
  <1>10. /\ pollfds_' \in Seq(PollFd) /\ Len(pollfds_') = n - 1
         /\ \A i \in 1 .. n - 1 :
               pollfds_'[i] = IF i = idx + 1 THEN last ELSE pollfds_[i]
         /\ index_' \in [Channels -> Int]
         /\ \A d \in Channels \ {c} :
               Registered(d) =>
                 index_'[d] = IF index_[d] = n - 1 THEN idx ELSE index_[d]
         /\ \A d \in Channels \ {moved} : index_'[d] = index_[d]
         /\ index_'[moved] = idx
    <2>1. CASE idx = n - 1
      <3>1. pollfds_' = SubSeq(pollfds_, 1, n - 1) /\ index_' = index_
        BY <2>1 DEF RemoveChannel, Removable, MovedIndex
      <3>2. /\ pollfds_' \in Seq(PollFd) /\ Len(pollfds_') = n - 1
            /\ \A i \in 1 .. n - 1 : pollfds_'[i] = pollfds_[i]
        <4>1. /\ 1 \in Int /\ n - 1 \in Int /\ n - 1 >= 0
              /\ \A i \in 1 .. n - 1 : pollfds_[i] \in PollFd
          BY <1>3 DEF PollerTypeOK, PollerInv
        <4>2. /\ SubSeq(pollfds_, 1, n - 1) \in Seq(PollFd)
              /\ Len(SubSeq(pollfds_, 1, n - 1)) =
                   IF 1 <= n - 1 THEN n - 1 - 1 + 1 ELSE 0
              /\ \A i \in 1 .. n - 1 - 1 + 1 :
                   SubSeq(pollfds_, 1, n - 1)[i] = pollfds_[1 + i - 1]
          BY <4>1, SubSeqProperties
        <4>3. /\ n - 1 - 1 + 1 = n - 1
              /\ (IF 1 <= n - 1 THEN n - 1 - 1 + 1 ELSE 0) = n - 1
              /\ \A i \in 1 .. n - 1 : 1 + i - 1 = i
          <5>1. n \in Nat /\ n > 0
            BY <1>3
          <5>2. \A m \in Nat : m > 0 =>
                  /\ m - 1 - 1 + 1 = m - 1
                  /\ (IF 1 <= m - 1 THEN m - 1 - 1 + 1 ELSE 0) = m - 1
                  /\ \A i \in 1 .. m - 1 : 1 + i - 1 = i
            OBVIOUS
          <5>3. QED
            BY <5>1, <5>2, Zenon
        <4>4. /\ pollfds_' \in Seq(PollFd) /\ Len(pollfds_') = n - 1
          BY <3>1, <4>2, <4>3
        <4>5. QED
          BY <3>1, <4>2, <4>3, <4>4, Zenon
      <3>3. QED
        BY <2>1, <3>1, <3>2, <1>2, <1>3, <1>8, <1>9 DEF PollerTypeOK, PollerInv
    <2>2. CASE idx # n - 1
      <3>1. /\ pollfds_' = [i \in 1 .. n - 1 |->
                              IF i = idx + 1 THEN last ELSE pollfds_[i]]
            /\ index_' = [index_ EXCEPT ![moved] = idx]
        BY <2>2 DEF RemoveChannel, Removable, MovedIndex
      <3>2. \A i \in 1 .. n - 1 : pollfds_[i] \in PollFd
        BY <1>3 DEF PollerTypeOK, PollerInv
      <3>3. pollfds_' \in Seq(PollFd) /\ Len(pollfds_') = n - 1
        <4>1. n - 1 \in Nat
          BY <1>3
        <4>2. pollfds_' \in [1 .. n - 1 -> PollFd]
          BY <3>1, <3>2, <1>3
        <4>3. QED
          BY <4>1, <4>2
      <3>4. index_' \in [Channels -> Int] /\ index_'[moved] = idx
        BY <3>1, <1>3, <1>9 DEF PollerTypeOK, PollerInv
      <3>5. \A d \in Channels : d # moved => index_'[d] = index_[d]
        BY <3>1 DEF PollerTypeOK, PollerInv
      <3>6. \A d \in Channels :
              Registered(d) /\ d # moved => index_[d] # n - 1
        BY <1>8, <1>9
      <3>7. QED
        BY <3>1, <3>3, <3>4, <3>5, <3>6, <1>9
    <2>3. QED
      BY <2>1, <2>2
  <1>11. PollerTypeOK'
    BY <1>2, <1>10, ZenonT(60) DEF PollerTypeOK, PollerInv
  <1>12. ASSUME NEW d \in Channels, Registered(d)'
         PROVE  /\ d # c /\ Registered(d) /\ Slot(d)' = Slot(d)
                /\ index_'[d] \in 0 .. n - 2 /\ events_'[d] = events_[d]
    <2>1. d # c /\ Registered(d)
      BY <1>4, <1>5, <1>12
    <2>2. index_[d] # idx /\ index_[d] \in 0 .. n - 1
      BY <2>1, <1>2, <1>8 DEF PollerInv, IndexConsistent
    <2>3. index_'[d] = IF index_[d] = n - 1 THEN idx ELSE index_[d]
      BY <2>1, <1>10
    <2>4. index_'[d] \in 0 .. n - 2 /\ index_'[d] + 1 \in 1 .. n - 1
      BY <2>2, <2>3, <1>3
    <2>5. pollfds_'[index_'[d] + 1] = pollfds_[index_[d] + 1]
      <3>1. \A i \in 1 .. n - 1 :
              pollfds_'[i] = IF i = idx + 1 THEN last ELSE pollfds_[i]
        BY <1>10
      <3>2. CASE index_[d] = n - 1
        BY <3>1, <3>2, <2>2, <2>3, <2>4, <1>3
      <3>3. CASE index_[d] # n - 1
        BY <3>1, <3>3, <2>2, <2>3, <2>4, <1>3, SMTT(40)
      <3>4. QED
        BY <3>2, <3>3
    <2>6. QED
      BY <2>1, <2>4, <2>5, <1>2 DEF Slot
  <1>13. NoInterestIsHidden'
    BY <1>12 DEF NoInterestIsHidden, PollerInv
  <1>14. IndexedIsMapped'
    <2>1. ASSUME NEW d \in Channels, index_'[d] >= 0, d \notin removed'
          PROVE  Registered(d)'
      <3>1. d # c /\ d \notin removed
        BY <2>1, <1>2
      <3>2. index_[d] >= 0
        BY <2>1, <1>3, <1>9, <1>10
      <3>3. QED
        BY <3>1, <3>2, <1>4 DEF IndexedIsMapped, PollerInv
    <2>2. ASSUME NEW d \in Channels, d \in removed' PROVE ~Registered(d)'
      BY <2>2, <1>2, <1>4, <1>5 DEF IndexedIsMapped, PollerInv
    <2>3. QED
      BY <2>1, <2>2 DEF IndexedIsMapped
  <1>15. ASSUME NEW i \in 1 .. Len(pollfds_')
         PROVE  /\ Decode(pollfds_'[i].fd) \in Fds
                /\ channels_'[Decode(pollfds_'[i].fd)] \in Channels
                /\ index_'[channels_'[Decode(pollfds_'[i].fd)]] = i - 1
    <2> DEFINE j == IF i = idx + 1 THEN n ELSE i
               d == channels_[Decode(pollfds_[j].fd)]
    <2>1. /\ j \in 1 .. n /\ pollfds_'[i] = pollfds_[j] /\ j - 1 # idx
      BY <1>3, <1>10, SMTT(40)
    <2>2. /\ Decode(pollfds_[j].fd) \in Fds
          /\ d \in Channels /\ index_[d] = j - 1
          /\ FdOf[d] = Decode(pollfds_[j].fd)
      BY <2>1 DEF PollerInv, IndexConsistent, MapKeyed
    <2>3. Registered(d) /\ d # c /\ FdOf[d] # FdOf[c]
      BY <2>1, <2>2, <1>4 DEF Registered
    <2>4. channels_'[FdOf[d]] = d
      BY <2>2, <2>3, <1>4 DEF Registered
    <2>5. index_'[d] = i - 1
      BY <2>1, <2>2, <2>3, <1>3, <1>10, SMTT(40)
    <2>6. QED
      BY <2>1, <2>2, <2>4, <2>5
  <1>16. IndexConsistent'
    BY <1>10, <1>12, <1>15 DEF IndexConsistent, PollerInv
  <1>17. QED
    BY <1>6, <1>11, <1>13, <1>14, <1>16 DEF PollerInv

(* The owner's new channel, poll and dispatch. *)
LEMMA OtherSteps ==
  ASSUME PollerInv,
         \/ \E c \in Channels : Reconstruct(c)
         \/ \E ready \in SUBSET (1 .. Len(pollfds_)) : Poll(ready)
         \/ \E c \in activeChannels_ : Dispatch(c)
         \/ UNCHANGED pollerVars
  PROVE  PollerInv'
  <1>1. ASSUME NEW c \in Channels, Reconstruct(c) PROVE PollerInv'
    <2>1. /\ c \in removed /\ ~Registered(c)
          /\ events_' = [events_ EXCEPT ![c] = {}]
          /\ index_' = [index_ EXCEPT ![c] = -1]
          /\ removed' = removed \ {c}
          /\ UNCHANGED <<pollfds_, channels_, activeChannels_>>
      BY <1>1 DEF Reconstruct, PollerInv, IndexedIsMapped
    <2>2. PollerTypeOK'
      BY <2>1 DEF PollerTypeOK, PollerInv
    <2>3. \A d \in Channels : Registered(d)' <=> Registered(d)
      BY <2>1 DEF Registered
    <2>4. \A d \in Channels \ {c} :
            /\ index_'[d] = index_[d] /\ events_'[d] = events_[d]
            /\ Slot(d)' = Slot(d)
      BY <2>1 DEF Slot, PollerTypeOK, PollerInv
    <2>5. index_'[c] = -1
      BY <2>1 DEF PollerTypeOK, PollerInv
    <2>6. MapKeyed'
      BY <2>1, <2>3 DEF MapKeyed, PollerInv
    <2>7. IndexedIsMapped'
      BY <2>1, <2>3, <2>4, <2>5 DEF IndexedIsMapped, PollerInv
    <2>8. NoInterestIsHidden'
      BY <2>1, <2>3, <2>4 DEF NoInterestIsHidden, PollerInv
    <2>9. ASSUME NEW i \in 1 .. Len(pollfds_)
          PROVE  channels_[Decode(pollfds_[i].fd)] # c
      BY <2>1 DEF PollerInv, IndexConsistent, MapKeyed, Registered
    <2>10. IndexConsistent'
      BY <2>1, <2>3, <2>4, <2>9 DEF IndexConsistent, PollerInv
    <2>11. QED
      BY <2>2, <2>6, <2>7, <2>8, <2>10 DEF PollerInv
  <1>2. ASSUME NEW ready \in SUBSET (1 .. Len(pollfds_)), Poll(ready)
        PROVE  PollerInv'
    <2>1. ASSUME NEW i \in ready
          PROVE  LET c == channels_[pollfds_[i].fd]
                 IN  c \in Channels /\ Registered(c)
      <3>1. i \in 1 .. Len(pollfds_) /\ pollfds_[i] \in PollFd
        BY <2>1 DEF PollerTypeOK, PollerInv
      <3>2. pollfds_[i].fd \in Int /\ pollfds_[i].fd >= 0
        BY <1>2, <2>1, <3>1 DEF Poll, PollFd
      <3>3. Decode(pollfds_[i].fd) = pollfds_[i].fd
        BY <3>2 DEF Decode
      <3>4. QED
        BY <3>1, <3>3 DEF PollerInv, IndexConsistent, MapKeyed, Registered
    <2>2. activeChannels_' \in SUBSET Channels
      BY <1>2, <2>1 DEF Poll
    <2>3. QED
      BY <1>2, <2>2
      DEF Poll, PollerInv, PollerTypeOK, MapKeyed, IndexedIsMapped, IndexConsistent,
          NoInterestIsHidden, Registered, Slot
  <1>3. ASSUME NEW c \in activeChannels_, Dispatch(c) PROVE PollerInv'
    BY <1>3
    DEF Dispatch, PollerInv, PollerTypeOK, MapKeyed, IndexedIsMapped, IndexConsistent,
        NoInterestIsHidden, Registered, Slot
  <1>4. CASE UNCHANGED pollerVars
    BY <1>4
    DEF pollerVars, PollerInv, PollerTypeOK, MapKeyed, IndexedIsMapped, IndexConsistent,
        NoInterestIsHidden, Registered, Slot
  <1>5. QED
    BY <1>1, <1>2, <1>3, <1>4

(* updateChannel, removeChannel and poll keep map, array and indexes in     *)
(* agreement.                                                               *)
LEMMA PollerNextInv == PollerInv /\ [PollerNext]_pollerVars => PollerInv'
  <1> SUFFICES ASSUME PollerInv, [PollerNext]_pollerVars PROVE PollerInv'
    OBVIOUS
  <1>1. ASSUME NEW c \in Channels, NEW ev \in SUBSET Events, ev # {},
               MayEnable(c), UpdateChannel(c, ev)
        PROVE  PollerInv'
    <2>1. CASE index_[c] < 0
      BY <1>1, <2>1, UpdateNew
    <2>2. CASE ~(index_[c] < 0)
      <3>1. Registered(c)
        BY <1>1, <2>2 DEF MayEnable, PollerInv, IndexedIsMapped, PollerTypeOK
      <3>2. QED
        BY <1>1, <3>1, UpdateKnown
    <2>3. QED
      BY <2>1, <2>2
  <1>2. \A c \in Channels : events_[c] \in SUBSET Events
    BY DEF PollerInv, PollerTypeOK
  <1>3. ASSUME NEW c \in Channels, EnableReading(c) PROVE PollerInv'
    <2>1. /\ events_[c] \cup {"read"} \in SUBSET Events
          /\ events_[c] \cup {"read"} # {}
      BY <1>2 DEF Events
    <2>2. QED
      BY <1>1, <1>3, <2>1 DEF EnableReading
  <1>4. ASSUME NEW c \in Channels, EnableWriting(c) PROVE PollerInv'
    <2>1. /\ events_[c] \cup {"write"} \in SUBSET Events
          /\ events_[c] \cup {"write"} # {}
      BY <1>2 DEF Events
    <2>2. QED
      BY <1>1, <1>4, <2>1 DEF EnableWriting
  <1>5. ASSUME NEW c \in Channels, DisableWriting(c) PROVE PollerInv'
    <2>1. events_[c] \ {"write"} \in SUBSET Events
      BY <1>2
    <2>2. QED
      BY <1>5, <2>1, UpdateKnown DEF DisableWriting
  <1>6. ASSUME NEW c \in Channels, DisableAll(c) PROVE PollerInv'
    <2>1. {} \in SUBSET Events
      OBVIOUS
    <2>2. QED
      BY <1>6, <2>1, UpdateKnown DEF DisableAll
  <1>7. QED
    BY <1>3, <1>4, <1>5, <1>6, Remove, OtherSteps DEF PollerNext

-----------------------------------------------------------------------------
(* The inductive invariant holds of every reachable state of the poller.   *)
THEOREM PollerInvariant == PollerSpec => []PollerInv
  BY PollerInitInv, PollerNextInv, PTL DEF PollerSpec

(* The vector, the map and the indices agree after any history of updates, *)
(* swap-removals and descriptor reuse, for every set of channels.          *)
THEOREM IndicesAgree == PollerSpec => []IndexConsistent
  <1>1. PollerInv => IndexConsistent
    BY DEF PollerInv
  <1>2. QED
    BY <1>1, PollerInvariant, PTL

(* The slot of a registered channel with no interest is one poll(2) skips, *)
(* after any updates and swap-removals (updateChannel, removeChannel).     *)
THEOREM NoInterestStaysHidden == PollerSpec => []NoInterestIsHidden
  <1>1. PollerInv => NoInterestIsHidden
    BY DEF PollerInv
  <1>2. QED
    BY <1>1, PollerInvariant, PTL
=============================================================================
