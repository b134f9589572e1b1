--------------------------- MODULE EventLoopThread ---------------------------
(***************************************************************************)
(* EventLoopThread (src/EventLoopThread.cc) around an EventLoop: the       *)
(* thread that starts it and destroys it (the owner, for TcpServer the     *)
(* main thread, which also queues functors), and threadFunc on the new     *)
(* thread, which creates the loop on its stack, publishes a pointer to it, *)
(* runs it and destroys it.  Nobody but ~EventLoopThread calls quit() on   *)
(* the loop, as in src/.                                                   *)
(***************************************************************************)
EXTENDS EventLoop

CONSTANT Owner \* the thread that owns the EventLoopThread object
ASSUME OwnerAssumption == Owner \in Callers

VARIABLES loopPtr,  \* is loop_ not nullptr?
          ownerPc,  \* where the owner is in startLoop or ~EventLoopThread
          threadPc  \* where the new thread is in threadFunc

threadVars == <<loopPtr, ownerPc, threadPc>>
allVars == <<vars, threadVars>>

OwnerPcs == {"idle", "waiting", "asleep", "started", "deref", "quitting",
             "joining", "joined", "detached"}
ThreadPcs == {"unstarted", "callback", "published", "looping", "returned", "gone"}

ThreadTypeOK ==
  /\ TypeOK
  /\ loopPtr \in BOOLEAN
  /\ ownerPc \in OwnerPcs
  /\ threadPc \in ThreadPcs

ThreadInit ==
  /\ Init
  /\ loopPtr = FALSE
  /\ ownerPc = "idle"
  /\ threadPc = "unstarted"

OwnerGoes(from, to) == ownerPc = from /\ ownerPc' = to
ThreadGoes(from, to) == threadPc = from /\ threadPc' = to
-----------------------------------------------------------------------------
(***************************************************************************)
(* The owner                                                               *)
(***************************************************************************)

\* startLoop: Thread::start returns when the new thread has posted its tid;
\* threadFunc then constructs the EventLoop.
StartLoop ==
  /\ OwnerGoes("idle", "waiting")
  /\ ThreadGoes("unstarted", "callback")
  /\ UNCHANGED <<vars, loopPtr>>

\* cond_.wait(lock, loop_ != nullptr): test the predicate under the mutex,
\* return or go to sleep.
WaitForLoop ==
  /\ ownerPc = "waiting"
  /\ ownerPc' = IF loopPtr THEN "started" ELSE "asleep"
  /\ UNCHANGED <<vars, loopPtr, threadPc>>

\* Mutant: the destructor does not wait for the thread.
DestroyUnjoined ==
  /\ ownerPc = "started"
  /\ \A c \in Callers : callerPc[c] = "idle"
  /\ ownerPc' = "detached"
  /\ UNCHANGED <<vars, loopPtr, threadPc>>

\* ~EventLoopThread: exiting_ = true, then loop_ is tested without the mutex.
\* If it is nullptr the object is destroyed at once and ~Thread detaches the
\* thread.  No other thread is inside a call on the loop by then.
Destroy ==
  /\ ownerPc = "started"
  /\ \A c \in Callers : callerPc[c] = "idle"
  /\ ownerPc' = IF loopPtr THEN "deref" ELSE "detached"
  /\ UNCHANGED <<vars, loopPtr, threadPc>>

\* loop_->quit(), its store...
DestroyQuit ==
  /\ OwnerGoes("deref", "quitting")
  /\ Quit(Owner)
  /\ UNCHANGED <<loopPtr, threadPc>>

\* ...and its wakeup(); a loop that is gone has closed its eventfd.
DestroyWakeup ==
  /\ OwnerGoes("quitting", "joining")
  /\ IF threadPc # "gone"
       THEN Wakeup(Owner)
       ELSE /\ CallerGoes(Owner, "quitting", "idle")
            /\ UNCHANGED <<flags, queues, wakeupFd, activeChannels, loopPc>>
  /\ UNCHANGED <<loopPtr, threadPc>>

\* thread_.join()
Join ==
  /\ OwnerGoes("joining", "joined")
  /\ threadPc = "gone"
  /\ UNCHANGED <<vars, loopPtr, threadPc>>
-----------------------------------------------------------------------------
(***************************************************************************)
(* threadFunc                                                              *)
(***************************************************************************)

\* Mutant: the pointer is published without notifying.
PublishSilently ==
  /\ ThreadGoes("callback", "published")
  /\ loopPtr' = TRUE
  /\ UNCHANGED <<vars, ownerPc>>

\* callback_ has returned: loop_ = &loop and notify_one, under the mutex.
Publish ==
  /\ ThreadGoes("callback", "published")
  /\ loopPtr' = TRUE
  /\ ownerPc' = IF ownerPc = "asleep" THEN "waiting" ELSE ownerPc
  /\ UNCHANGED vars

CallLoop ==
  /\ ThreadGoes("published", "looping")
  /\ EnterLoop
  /\ UNCHANGED <<loopPtr, ownerPc>>

\* Mutant: loop_ keeps pointing at the loop on the thread's stack.
ClearPointerForgotten ==
  /\ ThreadGoes("looping", "returned")
  /\ loopPc = "outside"
  /\ UNCHANGED <<vars, loopPtr, ownerPc>>

\* loop() has returned: loop_ = nullptr under the mutex...
ClearPointer ==
  /\ ThreadGoes("looping", "returned")
  /\ loopPc = "outside"
  /\ loopPtr' = FALSE
  /\ UNCHANGED <<vars, ownerPc>>

\* ...the mutex is released, ~EventLoop, and the thread ends.
ThreadEnds ==
  /\ ThreadGoes("returned", "gone")
  /\ UNCHANGED <<vars, loopPtr, ownerPc>>
-----------------------------------------------------------------------------
(***************************************************************************)
(* The loop's own steps and the calls on it, in their place                *)
(***************************************************************************)

LoopThreadSteps ==
  /\ threadPc = "looping" /\ loopPc # "outside"
  /\ LoopRuns
  /\ UNCHANGED threadVars

LoopThreadPolls ==
  /\ threadPc = "looping"
  /\ Polls
  /\ UNCHANGED threadVars

\* User code on the new thread: callback_, event handlers and functors.
LoopThreadCalls ==
  /\ threadPc = "callback" \/ loopPc # "outside"
  /\ QueueInLoopHere \/ RunInLoopHere
  /\ UNCHANGED threadVars

\* startLoop has returned the pointer: the owner gives it to others.
CallerPosts(c) ==
  /\ ownerPc = "started"
  /\ QueueInLoop(c)
  /\ UNCHANGED threadVars

CallerWakes(c) ==
  /\ callerPc[c] = "pushed"
  /\ Wakeup(c)
  /\ UNCHANGED threadVars

OwnerSteps == WaitForLoop \/ DestroyQuit \/ DestroyWakeup \/ Join
ThreadSteps == Publish \/ CallLoop \/ LoopThreadSteps \/ ClearPointer \/ ThreadEnds

\* The object is destroyed and its thread has ended.
Over == ownerPc = "joined" /\ UNCHANGED allVars

ThreadNext ==
  \/ StartLoop \/ Destroy \/ OwnerSteps
  \/ ThreadSteps \/ LoopThreadPolls \/ LoopThreadCalls
  \/ \E c \in Callers : CallerPosts(c) \/ CallerWakes(c)
  \/ Over

\* As in EventLoop; the owner calls startLoop and the destructor if it wants.
ThreadFairness ==
  /\ WF_allVars(OwnerSteps)
  /\ WF_allVars(ThreadSteps)
  /\ WF_allVars(wakeupFd /\ LoopThreadPolls)
  /\ \A c \in Callers : WF_allVars(CallerWakes(c))

ThreadSpec == ThreadInit /\ [][ThreadNext]_allVars /\ ThreadFairness
-----------------------------------------------------------------------------
\* startLoop returns: the notification cannot slip between the owner's test of
\* loop_ and its sleep.
StartLoopReturns == (ownerPc = "waiting") ~> (ownerPc = "started")

\* threadFunc locks mutex_ and writes loop_, members of the EventLoopThread:
\* the destructor never finishes before it has done so for the last time.
ThreadOutlivedByObject ==
  ownerPc \in {"joined", "detached"} => threadPc \in {"unstarted", "gone"}

(***************************************************************************)
(* Why it holds.  loop_ is set exactly while the loop is published or      *)
(* runs; only the destructor asks the loop to quit, and the loop leaves    *)
(* loop() only when asked; so the pointer that startLoop has returned      *)
(* stays valid until the destructor has stored quit_.                      *)
(***************************************************************************)
PointerValid == loopPtr <=> threadPc \in {"published", "looping"}

OwnerEnds == ownerPc \in {"quitting", "joining", "joined"}

LeavesWhenAsked ==
  /\ quit => OwnerEnds
  /\ threadPc = "looping" /\ loopPc = "outside" => quit
  /\ threadPc \in {"returned", "gone"} => OwnerEnds

Lifetimes ==
  /\ threadPc \in {"unstarted", "callback", "published"} => loopPc = "outside"
  /\ ownerPc \in {"started", "deref"} => loopPtr
  /\ ownerPc = "joined" => threadPc = "gone"
  /\ ownerPc # "detached"

\* The inductive invariant of the thread and its owner: loop_ never dangles, and
\* the loop outlives every use that the owner makes of it before quit().
ThreadInvariant == ThreadTypeOK /\ PointerValid /\ LeavesWhenAsked /\ Lifetimes

\* When the destructor's quit() comes after the loop's first statements, the
\* loop leaves, the thread ends and the destructor returns.
LateQuitJoins ==
  (ownerPc \in {"quitting", "joining"} /\ quit /\ loopPc \notin {"outside", "entered"})
    ~> (ownerPc = "joined")

\* Not true of the code: the destructor always returns. EventLoop.cc says that
\* quit() from another thread makes the loop finish loop(); loop() clears quit_
\* on entry, so a quit() that comes between the publication of loop_ and that
\* store is lost and join() waits for ever.
DestructorReturns == (ownerPc = "joining") ~> (ownerPc = "joined")
=============================================================================
