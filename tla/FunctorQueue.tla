---------------------------- MODULE FunctorQueue ----------------------------
(***************************************************************************)
(* What EventLoop::queueInLoop promises its callers, with threads, locks,  *)
(* wakeups and batches left out: callbacks handed to a loop are run by the *)
(* loop one at a time, each exactly once, in the order they were handed    *)
(* over.                                                                   *)
(***************************************************************************)
EXTENDS Sequences

CONSTANT Functors       \* identities of the callbacks ever handed over

VARIABLES queue,        \* handed over and not yet run, oldest first
          executed      \* run, in the order they ran

fqvars == <<queue, executed>>

Init ==
  /\ queue = <<>>
  /\ executed = <<>>

Submit(f) ==
  /\ queue' = Append(queue, f)
  /\ UNCHANGED executed

RunHead ==
  /\ queue # <<>>
  /\ queue' = Tail(queue)
  /\ executed' = Append(executed, Head(queue))

Next == (\E f \in Functors : Submit(f)) \/ RunHead

Spec == Init /\ [][Next]_fqvars
=============================================================================
