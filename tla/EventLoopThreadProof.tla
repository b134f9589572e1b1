------------------------ MODULE EventLoopThreadProof ------------------------
(***************************************************************************)
(* Theorems about EventLoopThread, for any number of threads and functors. *)
(***************************************************************************)
EXTENDS EventLoopThread, EventLoopProof

\* What the steps of the EventLoop do to its program counter and to quit_.
LEMMA LoopStepEffects ==
  ASSUME LoopRuns
  PROVE  /\ loopPc' = "outside" => quit /\ quit' = quit
         /\ quit' => quit
         /\ loopPc # "outside"
BY DEF LoopRuns, LoopGoes, flags, queues, ClearQuit, TestQuit, HandleWakeup, HandleIo,
   HandlerReturns, DispatchDone, SwapFunctors, CallFunctor, FunctorReturns, BatchDone

\* A call on the loop other than quit() leaves both alone.
LEMMA CallEffects ==
  /\ QueueInLoopHere \/ RunInLoopHere => UNCHANGED <<loopPc, quit>>
  /\ \A c \in Callers : QueueInLoop(c) \/ Wakeup(c) => UNCHANGED <<loopPc, quit>>
BY DEF QueueInLoopHere, RunInLoopHere, QueueInLoop, Wakeup, flags

\* The state before startLoop satisfies the invariant.
LEMMA ThreadInvariantInit == ThreadInit => ThreadInvariant
<1> SUFFICES ASSUME ThreadInit PROVE ThreadInvariant
  OBVIOUS
<1>1. ThreadTypeOK
  BY TypeInit DEF ThreadInit, ThreadTypeOK, OwnerPcs, ThreadPcs
<1>2. PointerValid /\ LeavesWhenAsked /\ Lifetimes
  BY DEF ThreadInit, Init, PointerValid, LeavesWhenAsked, Lifetimes, OwnerEnds
<1> QED BY <1>1, <1>2 DEF ThreadInvariant

\* Every step keeps the types: it is a step of the EventLoop or leaves it alone,
\* except a wakeup() that finds the loop gone.
LEMMA ThreadTypeStep == ThreadTypeOK /\ [ThreadNext]_allVars => ThreadTypeOK'
<1> SUFFICES ASSUME ThreadTypeOK, [ThreadNext]_allVars PROVE ThreadTypeOK'
  OBVIOUS
<1>1. TypeOK
  BY DEF ThreadTypeOK
<1>2. TypeOK'
  <2>1. CASE [Next]_vars
    BY <1>1, <2>1, TypeStep
  <2>2. CASE /\ CallerGoes(Owner, "quitting", "idle")
             /\ UNCHANGED <<flags, queues, wakeupFd, activeChannels, loopPc>>
    BY <1>1, <2>2 DEF TypeOK, CallerGoes, CallerPcs, flags, queues
  <2>3. CASE StartLoop \/ Destroy \/ WaitForLoop \/ Join \/ Publish \/ ClearPointer
             \/ ThreadEnds \/ Over \/ UNCHANGED allVars
    <3>1. UNCHANGED vars
      BY <2>3 DEF StartLoop, Destroy, WaitForLoop, Join, Publish, ClearPointer,
                  ThreadEnds, Over, allVars
    <3> QED BY <2>1, <3>1
  <2>4. CASE DestroyQuit \/ CallLoop \/ LoopThreadSteps \/ LoopThreadPolls
             \/ LoopThreadCalls \/ \E c \in Callers : CallerPosts(c) \/ CallerWakes(c)
    <3>1. Next
      BY <2>4, OwnerAssumption
      DEF Next, UserCode, DestroyQuit, CallLoop, LoopThreadSteps, LoopThreadPolls,
          LoopThreadCalls, CallerPosts, CallerWakes
    <3> QED BY <2>1, <3>1
  <2>5. CASE DestroyWakeup
    BY <2>1, <2>2, <2>5, OwnerAssumption DEF DestroyWakeup, Next
  <2> QED BY <2>3, <2>4, <2>5 DEF ThreadNext, OwnerSteps, ThreadSteps
<1>3. loopPtr' \in BOOLEAN /\ ownerPc' \in OwnerPcs /\ threadPc' \in ThreadPcs
  <2> USE DEF ThreadTypeOK, OwnerPcs, ThreadPcs, OwnerGoes, ThreadGoes, threadVars
  <2>1. CASE StartLoop \/ Destroy \/ OwnerSteps
    BY <2>1 DEF StartLoop, Destroy, OwnerSteps, WaitForLoop, DestroyQuit, DestroyWakeup, Join
  <2>2. CASE ThreadSteps
    BY <2>2 DEF ThreadSteps, Publish, CallLoop, LoopThreadSteps, ClearPointer, ThreadEnds
  <2>3. CASE LoopThreadPolls \/ LoopThreadCalls \/ Over \/ UNCHANGED allVars
             \/ \E c \in Callers : CallerPosts(c) \/ CallerWakes(c)
    BY <2>3 DEF LoopThreadPolls, LoopThreadCalls, Over, allVars, CallerPosts, CallerWakes
  <2> QED BY <2>1, <2>2, <2>3 DEF ThreadNext
<1> QED BY <1>2, <1>3 DEF ThreadTypeOK

\* Every step keeps the rest of the invariant.
LEMMA ThreadInvariantStep ==
  ASSUME ThreadInvariant, [ThreadNext]_allVars
  PROVE  (PointerValid /\ LeavesWhenAsked /\ Lifetimes)'
<1> USE DEF ThreadInvariant, PointerValid, LeavesWhenAsked, Lifetimes, OwnerEnds,
            OwnerGoes, ThreadGoes, threadVars
<1>1. CASE StartLoop \/ Destroy \/ WaitForLoop \/ Join
  BY <1>1 DEF StartLoop, Destroy, WaitForLoop, Join, vars, flags
<1>2. CASE DestroyQuit
  BY <1>2 DEF DestroyQuit, Quit
<1>3. CASE DestroyWakeup
  <2>1. UNCHANGED <<loopPc, quit>>
    BY <1>3 DEF DestroyWakeup, Wakeup, flags
  <2> QED BY <1>3, <2>1 DEF DestroyWakeup
<1>4. CASE Publish \/ ClearPointer \/ ThreadEnds
  BY <1>4 DEF Publish, ClearPointer, ThreadEnds, vars, flags
<1>5. CASE CallLoop
  BY <1>5 DEF CallLoop, EnterLoop, LoopGoes
<1>6. CASE LoopThreadSteps
  BY <1>6, LoopStepEffects DEF LoopThreadSteps
<1>7. CASE LoopThreadPolls
  BY <1>7 DEF LoopThreadPolls, Polls, PollReturns, LoopGoes, flags
<1>8. CASE LoopThreadCalls \/ \E c \in Callers : CallerPosts(c) \/ CallerWakes(c)
  BY <1>8, CallEffects DEF LoopThreadCalls, CallerPosts, CallerWakes
<1>9. CASE Over \/ UNCHANGED allVars
  BY <1>9 DEF Over, allVars, vars, flags
<1> QED
  BY <1>1, <1>2, <1>3, <1>4, <1>5, <1>6, <1>7, <1>8, <1>9
  DEF ThreadNext, OwnerSteps, ThreadSteps

\* The inductive invariant holds in every reachable state: loop_ is set exactly
\* while it points at a loop that is published or runs.
THEOREM ThreadInvariantHolds == ThreadSpec => []ThreadInvariant
<1>1. ThreadInvariant /\ [ThreadNext]_allVars => ThreadInvariant'
  BY ThreadTypeStep, ThreadInvariantStep DEF ThreadInvariant
<1> QED BY <1>1, ThreadInvariantInit, PTL DEF ThreadSpec

\* ~EventLoopThread never ends while threadFunc still has its mutex and its
\* pointer to use, although it tests loop_ without the mutex: it cannot find
\* nullptr there before the thread has ended.
THEOREM ObjectOutlivesThread == ThreadSpec => []ThreadOutlivedByObject
<1>1. ThreadInvariant => ThreadOutlivedByObject
  BY DEF ThreadInvariant, Lifetimes, ThreadOutlivedByObject
<1> QED BY <1>1, ThreadInvariantHolds, PTL
=============================================================================
