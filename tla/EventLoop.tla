------------------------------ MODULE EventLoop ------------------------------
(***************************************************************************)
(* One EventLoop (src/EventLoop.cc): the thread that runs loop(), and the  *)
(* other threads that call runInLoop, queueInLoop and quit on it.  The     *)
(* mutex around pendingFunctors_ makes a push and the swap atomic; the     *)
(* write to wakeupFd_ that follows a push, or the store to quit_, is a     *)
(* step of its own, so another thread may run in between.                  *)
(*                                                                         *)
(* A functor is the record of who queued it and in what order; what it     *)
(* does when it runs is that it may call the loop again.                   *)
(***************************************************************************)
EXTENDS Naturals, Sequences, Functions

CONSTANTS LoopThread, \* the thread that owns the loop (threadId_)
          Callers,    \* the other threads that hold a pointer to it
          MaxPosts    \* bound: functors each thread hands to the loop

ASSUME ThreadAssumption == LoopThread \notin Callers
ASSUME BoundAssumption == MaxPosts \in Nat

VARIABLES looping,                \* looping_
          quit,                   \* quit_
          callingPendingFunctors, \* callingPendingFunctors_
          pendingFunctors,        \* pendingFunctors_
          functors,               \* local of doPendingFunctors: what is left to call
          wakeupFd,               \* is the eventfd readable (its counter not 0)?
          activeChannels,         \* activeChannels_ not yet dispatched
          loopPc,                 \* where the loop's thread is
          callerPc,               \* where each other thread is
          posts,                  \* functors created so far, per thread
          executed                \* history: functors called, oldest first

flags == <<looping, quit, callingPendingFunctors>>
queues == <<pendingFunctors, functors, posts, executed>>
vars == <<flags, queues, wakeupFd, activeChannels, loopPc, callerPc>>

Threads == Callers \cup {LoopThread}
Channels == {"wakeup", "io"} \* wakeupChannel_, and any other channel
LoopPcs == {"outside", "entered", "test", "poll", "dispatch", "handler",
            "swap", "run", "functor"}
CallerPcs == {"idle", "pushed", "quitting"}

\* early: handed over by the loop's own thread while it is not in loop().
Functor == [by: Threads, n: 1..MaxPosts, early: BOOLEAN]

TypeOK ==
  /\ looping \in BOOLEAN
  /\ quit \in BOOLEAN
  /\ callingPendingFunctors \in BOOLEAN
  /\ pendingFunctors \in Seq(Functor)
  /\ functors \in Seq(Functor)
  /\ wakeupFd \in BOOLEAN
  /\ activeChannels \in SUBSET Channels
  /\ loopPc \in LoopPcs
  /\ callerPc \in [Callers -> CallerPcs]
  /\ posts \in [Threads -> 0..MaxPosts]
  /\ executed \in Seq(Functor)

Init ==
  /\ looping = FALSE
  /\ quit = FALSE
  /\ callingPendingFunctors = FALSE
  /\ pendingFunctors = << >>
  /\ functors = << >>
  /\ wakeupFd = FALSE
  /\ activeChannels = {}
  /\ loopPc = "outside"
  /\ callerPc = [c \in Callers |-> "idle"]
  /\ posts = [t \in Threads |-> 0]
  /\ executed = << >>
-----------------------------------------------------------------------------
(***************************************************************************)
(* Steps of loop()                                                         *)
(***************************************************************************)

LoopGoes(from, to) == loopPc = from /\ loopPc' = to

\* looping_ = true
EnterLoop ==
  /\ LoopGoes("outside", "entered")
  /\ looping' = TRUE
  /\ UNCHANGED <<quit, callingPendingFunctors, queues, wakeupFd, activeChannels,
                 callerPc>>

\* quit_ = false: a quit() that came earlier is forgotten.
ClearQuit ==
  /\ LoopGoes("entered", "test")
  /\ quit' = FALSE
  /\ UNCHANGED <<looping, callingPendingFunctors, queues, wakeupFd, activeChannels,
                 callerPc>>

\* while (!quit_): clear activeChannels_ and call poll, or leave.
TestQuit ==
  \/ /\ ~quit
     /\ LoopGoes("test", "poll")
     /\ activeChannels' = {}
     /\ UNCHANGED <<flags, queues, wakeupFd, callerPc>>
  \/ /\ quit
     /\ LoopGoes("test", "outside")
     /\ looping' = FALSE
     /\ UNCHANGED <<quit, callingPendingFunctors, queues, wakeupFd, activeChannels,
                    callerPc>>

\* epoll_wait returns with the channels in ready; {} is the timeout (or EINTR).
\* It may leave out a readable wakeupFd_ when its event list is full.
PollReturns(ready) ==
  /\ LoopGoes("poll", "dispatch")
  /\ "wakeup" \in ready => wakeupFd
  /\ activeChannels' = ready
  /\ UNCHANGED <<flags, queues, wakeupFd, callerPc>>

\* The event loop's own handleRead: reading an eventfd sets its counter to 0.
HandleWakeup ==
  /\ LoopGoes("dispatch", "dispatch")
  /\ "wakeup" \in activeChannels
  /\ wakeupFd' = FALSE
  /\ activeChannels' = activeChannels \ {"wakeup"}
  /\ UNCHANGED <<flags, queues, callerPc>>

\* Another channel's handleEvent begins; user code runs until HandlerReturns.
HandleIo ==
  /\ LoopGoes("dispatch", "handler")
  /\ "io" \in activeChannels
  /\ activeChannels' = activeChannels \ {"io"}
  /\ UNCHANGED <<flags, queues, wakeupFd, callerPc>>

HandlerReturns ==
  /\ LoopGoes("handler", "dispatch")
  /\ UNCHANGED <<flags, queues, wakeupFd, activeChannels, callerPc>>

DispatchDone ==
  /\ LoopGoes("dispatch", "swap")
  /\ activeChannels = {}
  /\ UNCHANGED <<flags, queues, wakeupFd, activeChannels, callerPc>>

\* Mutant: the flag is raised only after the swap and the calls.
SwapFunctorsUnflagged ==
  /\ LoopGoes("swap", "run")
  /\ functors' = pendingFunctors
  /\ pendingFunctors' = << >>
  /\ UNCHANGED <<flags, posts, executed, wakeupFd, activeChannels, callerPc>>

\* Mutant: the batch is copied, not swapped out.
SwapFunctorsCopied ==
  /\ LoopGoes("swap", "run")
  /\ callingPendingFunctors' = TRUE
  /\ functors' = pendingFunctors
  /\ UNCHANGED <<pendingFunctors, looping, quit, posts, executed, wakeupFd,
                 activeChannels, callerPc>>

\* doPendingFunctors up to its loop: raise the flag, swap under the mutex.
SwapFunctors ==
  /\ LoopGoes("swap", "run")
  /\ callingPendingFunctors' = TRUE
  /\ functors' = pendingFunctors
  /\ pendingFunctors' = << >>
  /\ UNCHANGED <<looping, quit, posts, executed, wakeupFd, activeChannels, callerPc>>

\* The next functor of the batch begins; it runs until FunctorReturns.
CallFunctor ==
  /\ LoopGoes("run", "functor")
  /\ functors # << >>
  /\ functors' = Tail(functors)
  /\ executed' = Append(executed, Head(functors))
  /\ UNCHANGED <<flags, pendingFunctors, posts, wakeupFd, activeChannels, callerPc>>

FunctorReturns ==
  /\ LoopGoes("functor", "run")
  /\ UNCHANGED <<flags, queues, wakeupFd, activeChannels, callerPc>>

\* Lower the flag at the end of doPendingFunctors, back to the while test.
BatchDone ==
  /\ LoopGoes("run", "test")
  /\ functors = << >>
  /\ callingPendingFunctors' = FALSE
  /\ UNCHANGED <<looping, quit, queues, wakeupFd, activeChannels, callerPc>>
-----------------------------------------------------------------------------
(***************************************************************************)
(* Calls on the loop                                                       *)
(***************************************************************************)

\* User code runs on the loop's thread: before or after loop() (a thread's
\* init callback, main), in an event handler, in a functor.
InUserCode == loopPc \in {"outside", "handler", "functor"}

NewFunctor(t) ==
  [by |-> t, n |-> posts[t] + 1, early |-> t = LoopThread /\ loopPc = "outside"]

Create(t) ==
  /\ posts[t] < MaxPosts
  /\ posts' = [posts EXCEPT ![t] = @ + 1]

\* Mutant: the loop's own thread never writes to wakeupFd_.
QueueInLoopHereSilent ==
  /\ InUserCode
  /\ Create(LoopThread)
  /\ pendingFunctors' = Append(pendingFunctors, NewFunctor(LoopThread))
  /\ UNCHANGED <<flags, functors, executed, wakeupFd, activeChannels, loopPc, callerPc>>

\* queueInLoop called on the loop's thread: it wakes itself up only while it
\* is calling functors.
QueueInLoopHere ==
  /\ InUserCode
  /\ Create(LoopThread)
  /\ pendingFunctors' = Append(pendingFunctors, NewFunctor(LoopThread))
  /\ wakeupFd' = (wakeupFd \/ callingPendingFunctors)
  /\ UNCHANGED <<flags, functors, executed, activeChannels, loopPc, callerPc>>

\* runInLoop called on the loop's thread: the functor runs at once.
RunInLoopHere ==
  /\ InUserCode
  /\ Create(LoopThread)
  /\ executed' = Append(executed, NewFunctor(LoopThread))
  /\ UNCHANGED <<flags, pendingFunctors, functors, wakeupFd, activeChannels, loopPc,
                 callerPc>>

\* quit called on the loop's thread.
QuitHere ==
  /\ InUserCode
  /\ quit' = TRUE
  /\ UNCHANGED <<looping, callingPendingFunctors, queues, wakeupFd, activeChannels,
                 loopPc, callerPc>>

CallerGoes(c, from, to) ==
  /\ callerPc[c] = from
  /\ callerPc' = [callerPc EXCEPT ![c] = to]

\* queueInLoop, or runInLoop, called by another thread: the push.
QueueInLoop(c) ==
  /\ CallerGoes(c, "idle", "pushed")
  /\ Create(c)
  /\ pendingFunctors' = Append(pendingFunctors, NewFunctor(c))
  /\ UNCHANGED <<flags, functors, executed, wakeupFd, activeChannels, loopPc>>

\* quit called by another thread: the store to quit_.
Quit(c) ==
  /\ CallerGoes(c, "idle", "quitting")
  /\ quit' = TRUE
  /\ UNCHANGED <<looping, callingPendingFunctors, queues, wakeupFd, activeChannels,
                 loopPc>>

\* Mutant: quit() does not write to the eventfd.
WakeupOnlyAfterPush(c) ==
  /\ CallerGoes(c, callerPc[c], "idle")
  /\ callerPc[c] \in {"pushed", "quitting"}
  /\ wakeupFd' = (wakeupFd \/ callerPc[c] = "pushed")
  /\ UNCHANGED <<flags, queues, activeChannels, loopPc>>

\* wakeup(), the last statement of both.
Wakeup(c) ==
  /\ CallerGoes(c, callerPc[c], "idle")
  /\ callerPc[c] \in {"pushed", "quitting"}
  /\ wakeupFd' = TRUE
  /\ UNCHANGED <<flags, queues, activeChannels, loopPc>>
-----------------------------------------------------------------------------
LoopRuns ==
  \/ ClearQuit \/ TestQuit
  \/ HandleWakeup \/ HandleIo \/ HandlerReturns \/ DispatchDone
  \/ SwapFunctors \/ CallFunctor \/ FunctorReturns \/ BatchDone

Polls == \E ready \in SUBSET Channels : PollReturns(ready)

UserCode == QueueInLoopHere \/ RunInLoopHere \/ QuitHere

Next ==
  \/ EnterLoop
  \/ LoopRuns
  \/ Polls
  \/ UserCode
  \/ \E c \in Callers : QueueInLoop(c) \/ Quit(c) \/ Wakeup(c)

(***************************************************************************)
(* Every thread that is not blocked is scheduled, handlers and functors    *)
(* return, and epoll_wait returns when wakeupFd_ is readable.  Nothing is  *)
(* assumed of the poll timeout, of I/O events or of the callers' wish to   *)
(* call anything: what must happen has to happen without them.             *)
(***************************************************************************)
Fairness ==
  /\ WF_vars(LoopRuns)
  /\ WF_vars(wakeupFd /\ Polls)
  /\ \A c \in Callers : WF_vars(Wakeup(c))

Spec == Init /\ [][Next]_vars /\ Fairness
-----------------------------------------------------------------------------
(***************************************************************************)
(* Properties                                                              *)
(***************************************************************************)

\* Some thread has written to wakeupFd_ or is about to.
WakeupComing == wakeupFd \/ \E c \in Callers : callerPc[c] = "pushed"

\* A loop that blocks in poll is never left with a functor that nobody will
\* wake it up for, except one its own thread queued outside loop(): the flag
\* callingPendingFunctors_ and the unconditional wakeup of other threads cover
\* every interleaving of push, write, eventfd read and swap.
NoStrandedFunctor ==
  loopPc = "poll" /\ (\E f \in Range(pendingFunctors) : ~f.early) => WakeupComing

\* A loop that blocks in poll after quit() will be woken up to notice it.
NoMissedQuit ==
  loopPc = "poll" /\ quit => wakeupFd \/ \E c \in Callers : callerPc[c] = "quitting"

(***************************************************************************)
(* Why they hold.  The flag is up exactly while a batch is called; between  *)
(* two batches nothing is left of the last one; outside the stretch from   *)
(* the return of poll to the swap, a functor that is not early is covered  *)
(* by a wakeup; the numbers of the functors come from the counters.        *)
(***************************************************************************)
FlagMeaning == callingPendingFunctors <=> (loopPc \in {"run", "functor"})

BatchLocal == loopPc \notin {"run", "functor"} => functors = << >>

Covered ==
  /\ loopPc \notin {"dispatch", "handler", "swap"}
  /\ \E f \in Range(pendingFunctors) : ~f.early
  => WakeupComing

Numbered ==
  \A f \in Range(pendingFunctors) \cup Range(functors) \cup Range(executed) :
    f.n <= posts[f.by]

\* The inductive invariant of the loop and its callers.
LoopInvariant ==
  TypeOK /\ FlagMeaning /\ BatchLocal /\ Covered /\ NoMissedQuit /\ Numbered

\* The functors go through pendingFunctors_ and the swapped-out batch as
\* through one queue: in order, each at most once, none dropped.
Abstract == INSTANCE FunctorQueue
              WITH queue <- functors \o pendingFunctors, done <- executed
ImplementsFunctorQueue == Abstract!Spec

\* Under the loop's own steps alone (no timeout, no I/O) a functor queued to a
\* loop that runs is executed, unless the loop leaves loop() first.
QueuedFunctorsRun ==
  \A f \in Functor :
    (loopPc # "outside" /\ ~f.early /\ f \in Range(pendingFunctors))
      ~> (f \in Range(executed) \/ loopPc = "outside")

\* Once quit_ is set while the loop is past its first statements, it leaves.
QuitLeavesLoop ==
  (quit /\ loopPc \notin {"outside", "entered"}) ~> (loopPc = "outside")
=============================================================================
