-------------------------- MODULE TimerQueueProofs --------------------------
(* Proofs about module TimerQueue, for every set of timers, every set of   *)
(* intervals and every bound of the clock.                                 *)
EXTENDS TimerQueue, SequenceTheorems, TLAPS

Functors == {"add", "cancel"} \X created

(* A timer is on its way to the loop once at most ... *)
QueuedOnce ==
  /\ queue \in Seq(Functors)
  /\ \A i, j \in DOMAIN queue :
       queue[i] = queue[j] /\ queue[i][1] = "add" => i = j

(* ... and no longer once the loop has it. *)
OnePlace ==
  /\ timers_ \cap expired = {}
  /\ \A t \in timers_ \cup expired : ~Queued(<<"add", t>>)

(* What keeps a cancelled timer from coming back, and only those. *)
CancelledIsBarred ==
  /\ \A t \in cancelled : t \notin timers_ /\ ~Queued(<<"add", t>>)
  /\ \A t \in expired : t \in cancelingTimers_ <=> t \in cancelled
  /\ pc = "callbacks" => callingExpiredTimers_ = TRUE

IInv ==
  /\ TypeOK
  /\ QueuedOnce
  /\ OnePlace
  /\ CancelledIsBarred
  /\ TimerfdCoversEarliest
  /\ RepeatingIsKept

-----------------------------------------------------------------------------
(* Sequences of functors.                                                  *)

(* What queueInLoop adds is the only thing it adds. *)
LEMMA AppendHas ==
  ASSUME NEW S, NEW q \in Seq(S), NEW x \in S
  PROVE  /\ Append(q, x) \in Seq(S)
         /\ DOMAIN Append(q, x) = DOMAIN q \cup {Len(q) + 1}
         /\ Len(q) + 1 \notin DOMAIN q
         /\ Append(q, x)[Len(q) + 1] = x
         /\ \A i \in DOMAIN q : Append(q, x)[i] = q[i]
  BY AppendProperties, LenProperties, SMT

(* What doPendingFunctors takes from the front is the only thing it takes. *)
LEMMA TailHas ==
  ASSUME NEW S, NEW q \in Seq(S), q # <<>>
  PROVE  /\ Tail(q) \in Seq(S)
         /\ Head(q) \in S /\ Head(q) = q[1]
         /\ 1 \in DOMAIN q
         /\ \A i \in DOMAIN Tail(q) : i + 1 \in DOMAIN q /\ Tail(q)[i] = q[i + 1]
         /\ \A i \in DOMAIN q \ {1} : i - 1 \in DOMAIN Tail(q) /\ Tail(q)[i - 1] = q[i]
         /\ DOMAIN q \subseteq Int /\ DOMAIN Tail(q) \subseteq Int
  BY HeadTailProperties, EmptySeq, LenProperties, SMT

(* addTimer from another thread puts a timer in the queue that is nowhere  *)
(* else (addTimer).                                                        *)
LEMMA QueueAdd ==
  ASSUME QueuedOnce, NEW t, t \notin created, created' = created \cup {t},
         queue' = Append(queue, <<"add", t>>)
  PROVE  /\ QueuedOnce'
         /\ \A x : Queued(x)' <=> Queued(x) \/ x = <<"add", t>>
PROOF
  <1> DEFINE S == {"add", "cancel"} \X (created \cup {t})
  <1>1. queue \in Seq(S) /\ <<"add", t>> \in S
    <2>1. Functors \subseteq S
      BY DEF Functors
    <2> QED BY <2>1, SeqDef DEF QueuedOnce
  <1>2. \A i \in DOMAIN queue : queue[i] # <<"add", t>>
    <2>1. \A i \in DOMAIN queue : queue[i] \in Functors
      BY ElementOfSeq, LenProperties DEF QueuedOnce
    <2> QED BY <2>1 DEF Functors
  <1> HIDE DEF S
  <1>3. queue' \in Seq(Functors')
    BY <1>1, AppendHas DEF Functors, S
  <1>4. \A i, j \in DOMAIN queue' :
          queue'[i] = queue'[j] /\ queue'[i][1] = "add" => i = j
    BY <1>1, <1>2, AppendHas DEF QueuedOnce
  <1>5. \A x : Queued(x)' <=> Queued(x) \/ x = <<"add", t>>
    BY <1>1, AppendHas DEF Queued
  <1> QED BY <1>3, <1>4, <1>5 DEF QueuedOnce

(* cancel from another thread moves no timer (cancel). *)
LEMMA QueueCancel ==
  ASSUME QueuedOnce, NEW t \in created, UNCHANGED created,
         queue' = Append(queue, <<"cancel", t>>)
  PROVE  /\ QueuedOnce'
         /\ \A u : Queued(<<"add", u>>)' <=> Queued(<<"add", u>>)
PROOF
  <1>1. queue \in Seq(Functors) /\ <<"cancel", t>> \in Functors
    BY DEF QueuedOnce, Functors
  <1>2. Functors' = Functors
    BY DEF Functors
  <1>3. queue' \in Seq(Functors')
    BY <1>1, <1>2, AppendHas
  <1>4. \A i, j \in DOMAIN queue' :
          queue'[i] = queue'[j] /\ queue'[i][1] = "add" => i = j
    BY <1>1, AppendHas DEF QueuedOnce
  <1>5. ASSUME NEW u
        PROVE  Queued(<<"add", u>>)' <=> Queued(<<"add", u>>)
    <2>1. <<"cancel", t>> # <<"add", u>>
      OBVIOUS
    <2>2. queue' = Append(queue, <<"cancel", t>>)
      OBVIOUS
    <2>3. DOMAIN queue' = DOMAIN queue \cup {Len(queue) + 1}
      BY <1>1, <2>2, AppendHas
    <2>4. queue'[Len(queue) + 1] = <<"cancel", t>>
      BY <1>1, <2>2, AppendHas
    <2>5. \A i \in DOMAIN queue : queue'[i] = queue[i]
      BY <1>1, <2>2, AppendHas
    <2> QED BY <2>1, <2>3, <2>4, <2>5, Zenon DEF Queued
  <1> QED BY <1>3, <1>4, <1>5 DEF QueuedOnce

(* The loop takes the first functor out of the queue, and a timer it took  *)
(* out is not in there a second time (doPendingFunctors).                  *)
LEMMA TakeFunctor ==
  ASSUME QueuedOnce, queue # <<>>, queue' = Tail(queue), UNCHANGED created
  PROVE  /\ QueuedOnce'
         /\ Queued(Head(queue))
         /\ \A u : Queued(<<"add", u>>)'
                     <=> Queued(<<"add", u>>) /\ Head(queue) # <<"add", u>>
PROOF
  <1>1. queue \in Seq(Functors) /\ Functors' = Functors
    BY DEF QueuedOnce, Functors
  <1>2. queue' \in Seq(Functors')
    BY <1>1, TailHas
  <1>3. \A i, j \in DOMAIN queue' :
          queue'[i] = queue'[j] /\ queue'[i][1] = "add" => i = j
    <2> SUFFICES ASSUME NEW i \in DOMAIN queue', NEW j \in DOMAIN queue',
                        queue'[i] = queue'[j], queue'[i][1] = "add"
                 PROVE  i = j
      OBVIOUS
    <2>1. i + 1 \in DOMAIN queue /\ j + 1 \in DOMAIN queue /\ i \in Int /\ j \in Int
      BY <1>1, TailHas
    <2>2. queue[i + 1] = queue[j + 1] /\ queue[i + 1][1] = "add"
      BY <1>1, TailHas
    <2>3. i + 1 = j + 1
      BY <2>1, <2>2 DEF QueuedOnce
    <2> QED BY <2>1, <2>3
  <1>4. Queued(Head(queue))
    BY <1>1, TailHas DEF Queued
  <1>5. ASSUME NEW u
        PROVE  Queued(<<"add", u>>)'
                 <=> Queued(<<"add", u>>) /\ Head(queue) # <<"add", u>>
    <2>1. ASSUME NEW i \in DOMAIN queue', queue'[i] = <<"add", u>>
          PROVE  Queued(<<"add", u>>) /\ Head(queue) # <<"add", u>>
      <3>1. i + 1 \in DOMAIN queue /\ queue[i + 1] = <<"add", u>> /\ i \in Int
        BY <1>1, <2>1, TailHas
      <3>2. 1 \in DOMAIN queue /\ Head(queue) = queue[1]
        BY <1>1, TailHas
      <3>3. i # 0
        BY <1>1, <2>1, LenProperties, TailHas, SMT
      <3>4. Head(queue) # <<"add", u>>
        <4> SUFFICES ASSUME queue[1] = <<"add", u>> PROVE FALSE
          BY <3>2
        <4>1. i + 1 = 1
          BY <3>1, <3>2 DEF QueuedOnce
        <4> QED BY <4>1, <3>1, <3>3
      <3> QED BY <3>1, <3>4 DEF Queued
    <2>2. ASSUME NEW i \in DOMAIN queue, queue[i] = <<"add", u>>,
                 Head(queue) # <<"add", u>>
          PROVE  Queued(<<"add", u>>)'
      <3>1. i # 1
        BY <1>1, <2>2, TailHas
      <3>2. i - 1 \in DOMAIN queue' /\ queue'[i - 1] = <<"add", u>>
        BY <1>1, <2>2, <3>1, TailHas
      <3> QED BY <3>2 DEF Queued
    <2> QED BY <2>1, <2>2 DEF Queued
  <1> QED BY <1>2, <1>3, <1>4, <1>5 DEF QueuedOnce

-----------------------------------------------------------------------------
(* The rest of the type invariant, without the queue. *)
FieldsOK ==
  /\ now \in Nat /\ at \in Nat /\ at <= now
  /\ expiration_ \in [Timers -> Nat]
  /\ interval_ \in [Timers -> Nat]
  /\ created \in SUBSET Timers
  /\ timers_ \in SUBSET created
  /\ armed \in Nat \cup {Never}
  /\ pc \in {"idle", "ready", "callbacks"}
  /\ expired \in SUBSET created /\ toRun \in SUBSET expired
  /\ pc # "callbacks" => expired = {}
  /\ callingExpiredTimers_ \in BOOLEAN
  /\ cancelingTimers_ \in SUBSET created
  /\ cancelled \in SUBSET created /\ ran \in SUBSET created

(* The queue's type follows from what QueuedOnce says of it. *)
LEMMA TypeParts == FieldsOK /\ QueuedOnce => TypeOK
PROOF
  <1> SUFFICES ASSUME FieldsOK, QueuedOnce PROVE TypeOK
    OBVIOUS
  <1>1. Functors \subseteq {"add", "cancel"} \X Timers
    BY DEF Functors, FieldsOK
  <1>2. queue \in Seq({"add", "cancel"} \X Timers)
    <2>1. queue \in Seq(Functors)
      BY DEF QueuedOnce
    <2> QED BY <1>1, <2>1, SeqDef
  <1> QED BY <1>2 DEF TypeOK, FieldsOK

(* The parts of the type invariant, after a step.                           *)
LEMMA TypePartsNext == FieldsOK' /\ QueuedOnce' => TypeOK'
  BY TypeParts, PTL

(* A queue without timers.                                                  *)
LEMMA InitInv == Init => IInv
PROOF
  <1> SUFFICES ASSUME Init PROVE IInv
    OBVIOUS
  <1>1. FieldsOK
    BY SMT DEF Init, FieldsOK, Never
  <1>2. queue = <<>> /\ DOMAIN queue = {}
    BY EmptySeq, LenProperties, SMT DEF Init
  <1>3. QueuedOnce
    BY <1>2, EmptySeq DEF QueuedOnce
  <1>4. OnePlace /\ CancelledIsBarred /\ TimerfdCoversEarliest /\ RepeatingIsKept
    BY SMT DEF Init, OnePlace, CancelledIsBarred, TimerfdCoversEarliest,
           RepeatingIsKept
  <1> QED BY <1>1, <1>3, <1>4, TypeParts DEF IInv

-----------------------------------------------------------------------------
(* addTimerInLoop leaves the timerfd set early enough for every timer of   *)
(* the set, the new one included (insert, resetTimerfd).                   *)
LEMMA AddCovers ==
  ASSUME now \in Nat, armed \in Nat \cup {Never}, timers_ \subseteq Timers,
         expiration_' \in [Timers -> Nat],
         \A u \in timers_ :
           armed # Never /\ (armed <= expiration_'[u] \/ armed <= now),
         NEW t \in Timers, AddTimerInLoop(t)
  PROVE  /\ armed' \in Nat \cup {Never}
         /\ \A u \in timers_' :
              armed' # Never /\ (armed' <= expiration_'[u] \/ armed' <= now)
PROOF
  <1> DEFINE exp == expiration_'
  <1>1. \A u \in timers_ \cup {t} : exp[u] \in Nat
    OBVIOUS
  <1>2. timers_' = timers_ \cup {t}
    BY DEF AddTimerInLoop
  <1>3. CASE \A u \in timers_ : exp[t] < exp[u]
    <2>1. armed' = IF exp[t] > now THEN exp[t] ELSE now
      BY <1>3 DEF AddTimerInLoop, EarliestChanged, ArmFor
    <2> QED BY <1>1, <1>2, <1>3, <2>1, SMT DEF Never
  <1>4. CASE ~(\A u \in timers_ : exp[t] < exp[u])
    <2>1. armed' = armed
      BY <1>4 DEF AddTimerInLoop, EarliestChanged
    <2>2. PICK u \in timers_ : ~(exp[t] < exp[u])
      BY <1>4
    <2> QED BY <1>1, <1>2, <2>1, <2>2, SMT DEF Never
  <1> QED BY <1>3, <1>4

(* A functor adds the timer it was queued for. *)
LEMMA FunctorAdds ==
  ASSUME IInv, pc = "idle", queue # <<>>, queue' = Tail(queue),
         NEW t \in created, Head(queue) = <<"add", t>>,
         AddTimerInLoop(t),
         UNCHANGED <<now, expiration_, interval_, created, pc, at, expired, toRun,
                     callingExpiredTimers_, cancelingTimers_, cancelled, ran>>
  PROVE  IInv'
PROOF
  <1> USE DEF IInv
  <1>1. QueuedOnce' /\ Queued(<<"add", t>>)
        /\ \A u : Queued(<<"add", u>>)' <=> Queued(<<"add", u>>) /\ u # t
    BY TakeFunctor
  <1>2. /\ armed' \in Nat \cup {Never}
        /\ TimerfdCoversEarliest'
    BY AddCovers DEF TypeOK, TimerfdCoversEarliest
  <1>3. timers_' = timers_ \cup {t}
    BY DEF AddTimerInLoop
  <1>4. FieldsOK'
    BY <1>2, <1>3 DEF TypeOK, FieldsOK
  <1>5. OnePlace'
    BY <1>1, <1>3 DEF OnePlace, TypeOK
  <1>6. CancelledIsBarred'
    BY <1>1, <1>3 DEF CancelledIsBarred
  <1>7. RepeatingIsKept'
    <2> SUFFICES ASSUME NEW u \in created \ cancelled, Repeats(u)
                 PROVE  u \in timers_' \cup expired \/ Queued(<<"add", u>>)'
      BY DEF RepeatingIsKept, Repeats
    <2>1. u \in timers_ \cup expired \/ Queued(<<"add", u>>)
      BY DEF RepeatingIsKept
    <2> QED BY <1>1, <1>3, <2>1, Zenon
  <1> QED BY <1>1, <1>2, <1>4, <1>5, <1>6, <1>7, TypePartsNext

(* A callback adds a timer at once. *)
LEMMA SelfAdds ==
  ASSUME IInv, NEW t \in Timers, NEW when \in Nat, NEW interval \in Nat,
         AddTimerSelf(t, when, interval)
  PROVE  IInv'
PROOF
  <1> USE DEF IInv
  <1>1. /\ t \notin created /\ created' = created \cup {t}
        /\ expiration_' = [expiration_ EXCEPT ![t] = when]
        /\ interval_' = [interval_ EXCEPT ![t] = interval]
        /\ AddTimerInLoop(t)
        /\ timers_' = timers_ \cup {t}
        /\ UNCHANGED <<now, queue, pc, at, expired, toRun, callingExpiredTimers_,
                       cancelingTimers_, cancelled, ran>>
    BY DEF AddTimerSelf, NewTimer, AddTimerInLoop
  <1>2. interval \in Nat /\ when \in Nat
    BY TimerQueueAssumption
  <1>3. /\ expiration_' \in [Timers -> Nat] /\ interval_' \in [Timers -> Nat]
        /\ \A u \in created : expiration_'[u] = expiration_[u]
        /\ \A u \in created : interval_'[u] = interval_[u]
    BY <1>1, <1>2 DEF TypeOK
  <1>4. \A u : ~Queued(<<"add", t>>) /\ (Queued(<<"add", u>>)' <=> Queued(<<"add", u>>))
    <2>1. ~Queued(<<"add", t>>)
      <3>1. \A i \in DOMAIN queue : queue[i] \in Functors
        BY ElementOfSeq, LenProperties DEF QueuedOnce
      <3>2. <<"add", t>> \notin Functors
        BY <1>1 DEF Functors
      <3> QED BY <3>1, <3>2 DEF Queued
    <2> QED BY <1>1, <2>1 DEF Queued
  <1>5. QueuedOnce'
    <2>1. Functors \subseteq Functors'
      BY <1>1 DEF Functors
    <2> QED BY <1>1, <2>1, SeqDef DEF QueuedOnce
  <1>6. armed' \in Nat \cup {Never} /\ TimerfdCoversEarliest'
    <2>1. CASE pc = "callbacks"
      BY <1>1, <1>3, <2>1, SMT DEF TypeOK, TimerfdCoversEarliest, AddTimerInLoop, ArmFor
    <2>2. CASE pc # "callbacks"
      <3>1. \A u \in timers_ :
              armed # Never /\ (armed <= expiration_'[u] \/ armed <= now)
        BY <1>3, <2>2 DEF TypeOK, TimerfdCoversEarliest
      <3>2. \A u \in timers_' :
              armed' # Never /\ (armed' <= expiration_'[u] \/ armed' <= now)
        BY <1>1, <1>3, <3>1, AddCovers DEF TypeOK
      <3>3. armed' \in Nat \cup {Never}
        BY <1>1, <1>3, <3>1, AddCovers DEF TypeOK
      <3> QED BY <1>1, <3>2, <3>3 DEF TimerfdCoversEarliest
    <2> QED BY <2>1, <2>2
  <1>7. FieldsOK'
    BY <1>1, <1>3, <1>6 DEF TypeOK, FieldsOK
  <1>8. OnePlace'
    BY <1>1, <1>4 DEF OnePlace, TypeOK
  <1>9. CancelledIsBarred'
    BY <1>1, <1>4 DEF CancelledIsBarred, TypeOK
  <1>10. RepeatingIsKept'
    <2> SUFFICES ASSUME NEW u \in created' \ cancelled, Repeats(u)'
                 PROVE  u \in timers_' \cup expired \/ Queued(<<"add", u>>)'
      BY <1>1, Zenon DEF RepeatingIsKept
    <2>1. CASE u = t
      BY <1>1, <2>1
    <2>2. CASE u # t
      <3>1. u \in created \ cancelled /\ Repeats(u)
        BY <1>1, <1>3, <2>2 DEF Repeats
      <3>2. u \in timers_ \cup expired \/ Queued(<<"add", u>>)
        BY <3>1 DEF RepeatingIsKept
      <3> QED BY <1>1, <1>4, <3>2
    <2> QED BY <2>1, <2>2
  <1> QED BY <1>5, <1>6, <1>7, <1>8, <1>9, <1>10, TypePartsNext

(* Another thread queues the adding of a timer. *)
LEMMA OtherAdds ==
  ASSUME IInv, NEW t \in Timers, NEW when \in Nat, NEW interval \in Nat,
         AddTimer(t, when, interval)
  PROVE  IInv'
PROOF
  <1> USE DEF IInv
  <1>1. /\ t \notin created /\ created' = created \cup {t}
        /\ expiration_' = [expiration_ EXCEPT ![t] = when]
        /\ interval_' = [interval_ EXCEPT ![t] = interval]
        /\ queue' = Append(queue, <<"add", t>>)
        /\ UNCHANGED <<now, timers_, armed, pc, at, expired, toRun,
                       callingExpiredTimers_, cancelingTimers_, cancelled, ran>>
    BY DEF AddTimer, NewTimer
  <1>2. interval \in Nat /\ when \in Nat
    BY TimerQueueAssumption
  <1>3. /\ expiration_' \in [Timers -> Nat] /\ interval_' \in [Timers -> Nat]
        /\ \A u \in created : expiration_'[u] = expiration_[u]
        /\ \A u \in created : interval_'[u] = interval_[u]
    BY <1>1, <1>2 DEF TypeOK
  <1>4. QueuedOnce' /\ \A x : Queued(x)' <=> Queued(x) \/ x = <<"add", t>>
    BY <1>1, QueueAdd
  <1>5. \A u : Queued(<<"add", u>>)' <=> Queued(<<"add", u>>) \/ u = t
    BY <1>4
  <1>6. FieldsOK'
    BY <1>1, <1>3 DEF TypeOK, FieldsOK
  <1>7. OnePlace'
    BY <1>1, <1>5 DEF OnePlace, TypeOK
  <1>8. CancelledIsBarred'
    BY <1>1, <1>5 DEF CancelledIsBarred, TypeOK
  <1>9. TimerfdCoversEarliest'
    BY <1>1, <1>3 DEF TimerfdCoversEarliest, TypeOK
  <1>10. RepeatingIsKept'
    <2> SUFFICES ASSUME NEW u \in created' \ cancelled, Repeats(u)'
                 PROVE  u \in timers_ \cup expired \/ Queued(<<"add", u>>)'
      BY <1>1 DEF RepeatingIsKept
    <2>1. CASE u = t
      BY <1>5, <2>1
    <2>2. CASE u # t
      <3>1. u \in created \ cancelled /\ Repeats(u)
        BY <1>1, <1>3, <2>2 DEF Repeats
      <3> QED BY <1>5, <3>1 DEF RepeatingIsKept
    <2> QED BY <2>1, <2>2
  <1> QED BY <1>4, <1>6, <1>7, <1>8, <1>9, <1>10, TypePartsNext

-----------------------------------------------------------------------------
(* Cancelling, at once or in a functor, takes the timer out of the set or  *)
(* bars it from being restarted (cancelInLoop).                            *)
LEMMA CancelKeeps ==
  ASSUME IInv, NEW t \in created, CancelInLoop(t), QueuedOnce',
         \A u : Queued(<<"add", u>>)' <=> Queued(<<"add", u>>),
         UNCHANGED <<now, expiration_, interval_, created, armed, pc, at,
                     expired, toRun, callingExpiredTimers_, ran>>
  PROVE  IInv'
PROOF
  <1> USE DEF IInv
  <1>1. timers_' = timers_ \ {t}
    BY DEF CancelInLoop
  <1>2. cancelled' = IF t \in timers_ \cup expired THEN cancelled \cup {t}
                                                  ELSE cancelled
    BY DEF CancelInLoop
  <1>3. cancelingTimers_' \in SUBSET created
    BY DEF CancelInLoop, TypeOK
  <1>4. FieldsOK'
    BY <1>1, <1>2, <1>3 DEF TypeOK, FieldsOK
  <1>5. OnePlace'
    BY <1>1 DEF OnePlace
  <1>6. CancelledIsBarred'
    <2>1. \A u \in cancelled' : u \notin timers_' /\ ~Queued(<<"add", u>>)'
      BY <1>1, <1>2 DEF CancelledIsBarred, OnePlace
    <2>2. ASSUME NEW u \in expired
          PROVE  u \in cancelingTimers_' <=> u \in cancelled'
      <3>1. CASE u = t
        <4>1. pc = "callbacks" /\ callingExpiredTimers_
          BY DEF CancelledIsBarred, TypeOK
        <4>2. t \in expired /\ t \notin timers_
          BY <3>1 DEF OnePlace
        <4>3. t \in cancelingTimers_' /\ t \in cancelled'
          BY <1>2, <4>1, <4>2 DEF CancelInLoop, Alive
        <4> QED BY <3>1, <4>3
      <3>2. CASE u # t
        <4>1. u \in cancelingTimers_' <=> u \in cancelingTimers_
          BY <3>2 DEF CancelInLoop
        <4>2. u \in cancelled' <=> u \in cancelled
          BY <1>2, <3>2
        <4> QED BY <4>1, <4>2 DEF CancelledIsBarred
      <3> QED BY <3>1, <3>2
    <2> QED BY <2>1, <2>2 DEF CancelledIsBarred
  <1>7. TimerfdCoversEarliest'
    BY <1>1 DEF TimerfdCoversEarliest
  <1>8. RepeatingIsKept'
    <2> SUFFICES ASSUME NEW u \in created \ cancelled', Repeats(u)
                 PROVE  u \in timers_' \cup expired \/ Queued(<<"add", u>>)'
      BY DEF RepeatingIsKept, Repeats
    <2>1. u \in created \ cancelled
      BY <1>2
    <2>2. u \in timers_ \cup expired \/ Queued(<<"add", u>>)
      BY <2>1 DEF RepeatingIsKept
    <2> QED BY <1>1, <1>2, <2>2
  <1> QED BY <1>4, <1>5, <1>6, <1>7, <1>8, TypePartsNext

(* The loop runs the next functor, whichever it is (doPendingFunctors). *)
LEMMA FunctorRuns ==
  ASSUME IInv, RunFunctor
  PROVE  IInv'
PROOF
  <1> USE DEF IInv
  <1>1. /\ pc = "idle" /\ queue # <<>> /\ queue' = Tail(queue)
        /\ UNCHANGED <<now, interval_, created, pc, at, expired, toRun,
                       callingExpiredTimers_, ran>>
    BY DEF RunFunctor
  <1>2. PICK t \in created :
          \/ /\ Head(queue) = <<"add", t>>
             /\ AddTimerInLoop(t)
             /\ UNCHANGED <<expiration_, cancelingTimers_, cancelled>>
          \/ /\ Head(queue) = <<"cancel", t>>
             /\ CancelInLoop(t)
             /\ UNCHANGED <<expiration_, armed>>
    BY DEF RunFunctor
  <1>3. CASE /\ Head(queue) = <<"add", t>>
             /\ AddTimerInLoop(t)
             /\ UNCHANGED <<expiration_, cancelingTimers_, cancelled>>
    BY <1>1, <1>3, FunctorAdds
  <1>4. CASE /\ Head(queue) = <<"cancel", t>>
             /\ CancelInLoop(t)
             /\ UNCHANGED <<expiration_, armed>>
    <2>1. QueuedOnce'
      BY <1>1, TakeFunctor
    <2>2. \A u : Head(queue) # <<"add", u>>
      BY <1>4
    <2>3. \A u : Queued(<<"add", u>>)' <=> Queued(<<"add", u>>)
      BY <1>1, <2>2, TakeFunctor
    <2> QED BY <1>1, <1>4, <2>1, <2>3, CancelKeeps
  <1> QED BY <1>2, <1>3, <1>4

(* Another thread queues a cancellation. *)
LEMMA OtherCancels ==
  ASSUME IInv, NEW t \in Timers, Cancel(t)
  PROVE  IInv'
PROOF
  <1> USE DEF IInv
  <1>1. /\ t \in created /\ queue' = Append(queue, <<"cancel", t>>)
        /\ UNCHANGED <<now, expiration_, interval_, created, timers_, armed, pc, at,
                       expired, toRun, callingExpiredTimers_, cancelingTimers_,
                       cancelled, ran>>
    BY DEF Cancel
  <1>2. QueuedOnce' /\ \A u : Queued(<<"add", u>>)' <=> Queued(<<"add", u>>)
    BY <1>1, QueueCancel
  <1>3. FieldsOK'
    BY <1>1 DEF TypeOK, FieldsOK
  <1>4. OnePlace' /\ CancelledIsBarred'
    BY <1>1, <1>2 DEF OnePlace, CancelledIsBarred
  <1>5. TimerfdCoversEarliest'
    BY <1>1 DEF TimerfdCoversEarliest
  <1>6. RepeatingIsKept'
    <2> SUFFICES ASSUME NEW u \in created \ cancelled, Repeats(u)
                 PROVE  u \in timers_ \cup expired \/ Queued(<<"add", u>>)'
      BY <1>1 DEF RepeatingIsKept, Repeats
    <2> QED BY <1>2 DEF RepeatingIsKept
  <1> QED BY <1>2, <1>3, <1>4, <1>5, <1>6, TypePartsNext

(* getExpired takes timers that nobody cancelled (handleRead). *)
LEMMA HandleReadKeeps ==
  ASSUME IInv, HandleRead
  PROVE  IInv'
PROOF
  <1> USE DEF IInv
  <1>1. /\ expired' = {u \in timers_ : expiration_[u] <= now}
        /\ timers_' = timers_ \ expired' /\ toRun' = expired'
        /\ callingExpiredTimers_' = TRUE /\ cancelingTimers_' = {}
        /\ pc = "ready" /\ pc' = "callbacks" /\ at' = now
        /\ armed' = IF Readable THEN Never ELSE armed
        /\ UNCHANGED <<now, expiration_, interval_, created, queue, cancelled, ran>>
    BY DEF HandleRead
  <1>2. expired' \subseteq timers_ /\ expired = {}
    BY <1>1 DEF TypeOK
  <1>3. \A u : Queued(<<"add", u>>)' <=> Queued(<<"add", u>>)
    BY <1>1 DEF Queued
  <1>4. FieldsOK'
    BY <1>1, <1>2 DEF TypeOK, FieldsOK
  <1>5. QueuedOnce'
    BY <1>1 DEF QueuedOnce, Functors
  <1>6. OnePlace'
    BY <1>1, <1>2, <1>3 DEF OnePlace
  <1>7. CancelledIsBarred'
    BY <1>1, <1>2, <1>3 DEF CancelledIsBarred
  <1>8. TimerfdCoversEarliest'
    BY <1>1 DEF TimerfdCoversEarliest
  <1>9. RepeatingIsKept'
    <2> SUFFICES ASSUME NEW u \in created \ cancelled, Repeats(u)
                 PROVE  u \in timers_' \cup expired' \/ Queued(<<"add", u>>)'
      BY <1>1 DEF RepeatingIsKept, Repeats
    <2>1. u \in timers_ \cup expired \/ Queued(<<"add", u>>)
      BY DEF RepeatingIsKept
    <2> QED BY <1>1, <1>2, <1>3, <2>1
  <1> QED BY <1>4, <1>5, <1>6, <1>7, <1>8, <1>9, TypePartsNext

(* reset puts back the repeating timers that are not barred and sets the   *)
(* timerfd for the first of all (reset).                                   *)
LEMMA ResetKeeps ==
  ASSUME IInv, Reset
  PROVE  IInv'
PROOF
  <1> USE DEF IInv
  <1>1. /\ callingExpiredTimers_' = FALSE
        /\ expiration_' = [u \in Timers |-> IF Restarts(u) THEN at + interval_[u]
                                                           ELSE expiration_[u]]
        /\ timers_' = timers_ \cup {u \in Timers : Restarts(u)}
        /\ expired' = {} /\ pc = "callbacks" /\ pc' = "idle" /\ toRun = {}
        /\ UNCHANGED <<now, interval_, created, queue, at, toRun,
                       cancelingTimers_, cancelled, ran>>
    BY DEF Reset
  <1>2. \A u \in Timers : Restarts(u) => u \in expired /\ u \notin cancelingTimers_
    BY DEF Restarts
  <1>3. timers_' \subseteq timers_ \cup expired
    BY <1>1, <1>2
  <1>4. \A u : Queued(<<"add", u>>)' <=> Queued(<<"add", u>>)
    BY <1>1 DEF Queued
  <1>5. expiration_' \in [Timers -> Nat]
    BY <1>1 DEF TypeOK
  <1>6. armed' \in Nat \cup {Never} /\ TimerfdCoversEarliest'
    <2>1. CASE timers_' = {}
      BY <2>1 DEF Reset, TimerfdCoversEarliest, TypeOK
    <2>2. CASE timers_' # {}
      <3>1. PICK u \in timers_' : IsEarliest(u, timers_', expiration_')
                                 /\ armed' = ArmFor(expiration_'[u])
        BY <2>2 DEF Reset
      <3>2. \A v \in timers_' : expiration_'[v] \in Nat
        BY <1>3, <1>5 DEF TypeOK
      <3>3. now' = now /\ now \in Nat
        BY <1>1 DEF TypeOK
      <3> QED BY <3>1, <3>2, <3>3, SMT DEF IsEarliest, ArmFor, TimerfdCoversEarliest, Never
    <2> QED BY <2>1, <2>2
  <1>7. FieldsOK'
    BY <1>1, <1>3, <1>5, <1>6 DEF TypeOK, FieldsOK
  <1>8. QueuedOnce'
    BY <1>1 DEF QueuedOnce, Functors
  <1>9. OnePlace'
    BY <1>1, <1>3, <1>4 DEF OnePlace
  <1>10. CancelledIsBarred'
    BY <1>1, <1>2, <1>4 DEF CancelledIsBarred, TypeOK
  <1>11. RepeatingIsKept'
    <2> SUFFICES ASSUME NEW u \in created \ cancelled, Repeats(u)
                 PROVE  u \in timers_' \/ Queued(<<"add", u>>)'
      BY <1>1 DEF RepeatingIsKept, Repeats
    <2>1. u \in timers_ \cup expired \/ Queued(<<"add", u>>)
      BY DEF RepeatingIsKept
    <2>2. u \in expired => Restarts(u) /\ u \in Timers
      BY DEF Restarts, CancelledIsBarred, TypeOK
    <2> QED BY <1>1, <1>4, <2>1, <2>2
  <1> QED BY <1>6, <1>7, <1>8, <1>9, <1>10, <1>11, TypePartsNext

(* The remaining steps move no timer. *)
LEMMA OtherStepsKeep ==
  ASSUME IInv,
         \/ PollTimerfd \/ Tick \/ UNCHANGED vars
         \/ \E t \in Timers : RunTimer(t)
  PROVE  IInv'
PROOF
  <1> USE DEF IInv
  <1>1. /\ pc # "callbacks" => pc' # "callbacks"
        /\ pc' # "callbacks" => pc # "callbacks"
        /\ pc' \in {"idle", "ready", "callbacks"}
        /\ now' \in Nat /\ now <= now'
        /\ toRun' \subseteq toRun /\ ran' \in SUBSET created
        /\ UNCHANGED <<expiration_, interval_, created, queue, timers_, armed, at,
                       expired, callingExpiredTimers_, cancelingTimers_, cancelled>>
    <2>1. CASE PollTimerfd
      BY <2>1 DEF PollTimerfd, TypeOK
    <2>2. CASE Tick
      BY <2>2 DEF Tick, TypeOK
    <2>3. CASE UNCHANGED vars
      BY <2>3 DEF vars, TypeOK
    <2>4. ASSUME NEW t \in Timers, RunTimer(t)
          PROVE  <1>1!1 /\ <1>1!2 /\ <1>1!3 /\ <1>1!4 /\ <1>1!5 /\ <1>1!6
      BY <2>4 DEF RunTimer, IsEarliest, TypeOK
    <2> QED BY <2>1, <2>2, <2>3, <2>4
  <1>2. \A u : Queued(<<"add", u>>)' <=> Queued(<<"add", u>>)
    BY <1>1 DEF Queued
  <1>3. FieldsOK'
    BY <1>1 DEF TypeOK, FieldsOK
  <1>4. QueuedOnce'
    BY <1>1 DEF QueuedOnce, Functors
  <1>5. OnePlace'
    BY <1>1, <1>2 DEF OnePlace
  <1>6. CancelledIsBarred'
    BY <1>1, <1>2 DEF CancelledIsBarred
  <1>7. TimerfdCoversEarliest'
    BY <1>1, SMT DEF TimerfdCoversEarliest, TypeOK
  <1>8. RepeatingIsKept'
    BY <1>1, <1>2 DEF RepeatingIsKept, Repeats
  <1> QED BY <1>3, <1>4, <1>5, <1>6, <1>7, <1>8, TypePartsNext

(* No step of the loop, the clock or another thread breaks the invariant.   *)
LEMMA NextInv == IInv /\ [Next]_vars => IInv'
PROOF
  <1> SUFFICES ASSUME IInv, [Next]_vars PROVE IInv'
    OBVIOUS
  <1>1. ASSUME NEW t \in Timers, NEW time \in 1 .. MaxTime, RunAt(t, time)
        PROVE  IInv'
    <2>1. time \in Nat /\ 0 \in Nat
      BY TimerQueueAssumption
    <2> QED BY <1>1, <2>1, OtherAdds, SelfAdds DEF RunAt
  <1>2. ASSUME NEW t \in Timers, NEW interval \in Intervals,
               RunEvery(t, interval)
        PROVE  IInv'
    <2>1. interval \in Nat /\ now + interval \in Nat
      BY TimerQueueAssumption DEF IInv, TypeOK
    <2> QED BY <1>2, <2>1, OtherAdds, SelfAdds DEF RunEvery
  <1>3. ASSUME NEW t \in Timers, Cancel(t) PROVE IInv'
    BY <1>3, OtherCancels
  <1>4. ASSUME NEW t \in Timers, CancelSelf(t) PROVE IInv'
    <2>1. QueuedOnce' /\ \A u : Queued(<<"add", u>>)' <=> Queued(<<"add", u>>)
      BY <1>4 DEF CancelSelf, IInv, QueuedOnce, Functors, Queued
    <2> QED BY <1>4, <2>1, CancelKeeps DEF CancelSelf
  <1>5. CASE RunFunctor
    BY <1>5, FunctorRuns
  <1>6. CASE HandleRead
    BY <1>6, HandleReadKeeps
  <1>7. CASE Reset
    BY <1>7, ResetKeeps
  <1>8. CASE \/ PollTimerfd \/ Tick \/ UNCHANGED vars
             \/ \E t \in Timers : RunTimer(t)
    BY <1>8, OtherStepsKeep
  <1> QED BY <1>1, <1>2, <1>3, <1>4, <1>5, <1>6, <1>7, <1>8 DEF Next, Handler

-----------------------------------------------------------------------------
(* The theorems. *)

(* The inductive invariant holds in every state of the timer queue.        *)
THEOREM Invariant == Spec => []IInv
  <1> QED BY InitInv, NextInv, PTL DEF Spec

(* Whatever is added, cancelled and restarted, from other threads and from *)
(* callbacks, the timerfd is set no later than the earliest waiting timer  *)
(* (insert, reset, resetTimerfd).                                          *)
THEOREM NoTimerSleepsThrough == Spec => []TimerfdCoversEarliest
  <1>1. IInv => TimerfdCoversEarliest
    BY DEF IInv
  <1> QED BY <1>1, Invariant, PTL

(* A cancelled timer is not restarted, and only a cancelled one is not     *)
(* (cancelInLoop, reset).                                                  *)
THEOREM CancelDecidesRestart == Spec => []CancelDecides
  <1>1. IInv => CancelDecides
    BY DEF IInv, CancelledIsBarred, CancelIsFinal, CancelDecides
  <1> QED BY <1>1, Invariant, PTL
=============================================================================
