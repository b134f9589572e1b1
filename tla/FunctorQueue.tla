---------------------------- MODULE FunctorQueue ----------------------------
(***************************************************************************)
(* What EventLoop::runInLoop and EventLoop::queueInLoop promise to their   *)
(* callers, with no wakeup descriptor, no mutex and no batches: functors   *)
(* wait in one queue in the order in which they were handed over, each is  *)
(* executed at most once and in that order, and only a functor that the    *)
(* loop's own thread runs at once (runInLoop) overtakes the queue.         *)
(***************************************************************************)
EXTENDS Sequences, Functions

CONSTANT Functor \* the functors that can be handed to the loop

VARIABLES queue, \* handed over and not yet executed, oldest first
          done   \* executed, oldest first

vars == <<queue, done>>

Fresh(f) == f \notin Range(queue) \cup Range(done)

Init == queue = << >> /\ done = << >>

\* queueInLoop, or runInLoop called by another thread.
Post(f) ==
  /\ Fresh(f)
  /\ queue' = Append(queue, f)
  /\ UNCHANGED done

\* runInLoop called by the loop's own thread.
RunNow(f) ==
  /\ Fresh(f)
  /\ done' = Append(done, f)
  /\ UNCHANGED queue

\* The loop executes the oldest functor.
RunNext ==
  /\ queue # << >>
  /\ queue' = Tail(queue)
  /\ done' = Append(done, Head(queue))

Next == RunNext \/ \E f \in Functor : Post(f) \/ RunNow(f)

Spec == Init /\ [][Next]_vars
=============================================================================
