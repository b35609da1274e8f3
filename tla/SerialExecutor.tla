--------------------------- MODULE SerialExecutor ---------------------------
(***************************************************************************)
(* What EventLoop promises to the callers of RunInLoop and QueueInLoop: a   *)
(* serial executor.  Functors wait in one first-in-first-out queue and are  *)
(* run one at a time, each exactly once; only a RunInLoop made by the       *)
(* executing thread itself may overtake the queue.                          *)
(***************************************************************************)
EXTENDS Naturals, Sequences

CONSTANT Functor        \* the calls of RunInLoop / QueueInLoop

VARIABLES queue,        \* accepted and not yet run, oldest first
          executed      \* run, in the order in which they started

vars == <<queue, executed>>

Members(s) == {s[i] : i \in 1..Len(s)}

Fresh(f) == f \notin Members(queue) \union Members(executed)

Init == queue = <<>> /\ executed = <<>>

Submit(f) ==
    /\ Fresh(f)
    /\ queue' = Append(queue, f)
    /\ UNCHANGED executed

RunDirectly(f) ==
    /\ Fresh(f)
    /\ executed' = Append(executed, f)
    /\ UNCHANGED queue

RunOldest ==
    /\ queue # <<>>
    /\ executed' = Append(executed, Head(queue))
    /\ queue' = Tail(queue)

Next == RunOldest \/ \E f \in Functor : Submit(f) \/ RunDirectly(f)

Spec == Init /\ [][Next]_vars
=============================================================================
