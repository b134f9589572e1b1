--------------------------- MODULE EventLoopProof ---------------------------
(***************************************************************************)
(* Theorems about EventLoop, for any set of calling threads and any number *)
(* of functors.                                                            *)
(***************************************************************************)
EXTENDS EventLoop, SequenceTheorems, TLAPS

\* The functors of a queue after a push.
LEMMA RangeOfAppend ==
  ASSUME NEW S, NEW s \in Seq(S), NEW e \in S
  PROVE  Range(Append(s, e)) = Range(s) \cup {e}
<1>1. Append(s, e) = s \o <<e>> /\ <<e>> \in Seq(S)
  BY AppendIsConcat
<1>2. Range(<<e>>) = {e}
  BY DEF Range
<1>3. Range(s \o <<e>>) = Range(s) \cup Range(<<e>>)
  BY <1>1, RangeConcatenation, ZenonT(60)
<1> QED BY <1>1, <1>2, <1>3

\* The functors of a batch after one is called.
LEMMA RangeOfTail ==
  ASSUME NEW S, NEW s \in Seq(S), s # << >>
  PROVE  Range(Tail(s)) \subseteq Range(s) /\ Head(s) \in Range(s)
<1>1. /\ Tail(s) \in Seq(S)
      /\ Len(Tail(s)) = Len(s) - 1
      /\ \A i \in 1..Len(Tail(s)) : Tail(s)[i] = s[i + 1]
      /\ Len(s) \in Nat \ {0}
  BY HeadTailProperties, EmptySeq
<1>2. /\ Range(Tail(s)) = {Tail(s)[i] : i \in 1..Len(Tail(s))}
      /\ Range(s) = {s[i] : i \in 1..Len(s)}
  BY <1>1, RangeEquality
<1>3. Head(s) = s[1]
  OBVIOUS
<1> QED BY <1>1, <1>2, <1>3

\* An empty queue holds no functor.
LEMMA EmptyRange == Range(<< >>) = {}
  BY DEF Range
-----------------------------------------------------------------------------
\* What NewFunctor hands over is a functor.
LEMMA NewFunctorType ==
  ASSUME TypeOK, NEW t \in Threads, Create(t)
  PROVE  NewFunctor(t) \in Functor /\ posts' \in [Threads -> 0..MaxPosts]
  BY BoundAssumption DEF TypeOK, Create, NewFunctor, Functor

\* A new loop is well typed.
LEMMA TypeInit == Init => TypeOK
<1> SUFFICES ASSUME Init PROVE TypeOK
  OBVIOUS
<1>1. << >> \in Seq(Functor)
  OBVIOUS
<1>2. posts \in [Threads -> 0..MaxPosts]
  BY BoundAssumption DEF Init
<1>3. callerPc \in [Callers -> CallerPcs]
  BY DEF Init, CallerPcs
<1> QED BY <1>1, <1>2, <1>3 DEF Init, TypeOK, Channels, LoopPcs

\* Every step keeps the types.
LEMMA TypeStep == TypeOK /\ [Next]_vars => TypeOK'
<1> SUFFICES ASSUME TypeOK, [Next]_vars PROVE TypeOK'
  OBVIOUS
<1> USE DEF LoopGoes, LoopPcs, flags, queues
<1>1. CASE EnterLoop
  BY <1>1 DEF EnterLoop, TypeOK
<1>2. CASE ClearQuit
  BY <1>2 DEF ClearQuit, TypeOK
<1>3. CASE TestQuit
  BY <1>3 DEF TestQuit, TypeOK
<1>4. CASE Polls
  BY <1>4 DEF Polls, PollReturns, TypeOK
<1>5. CASE HandleWakeup
  BY <1>5 DEF HandleWakeup, TypeOK
<1>6. CASE HandleIo
  BY <1>6 DEF HandleIo, TypeOK
<1>7. CASE HandlerReturns
  BY <1>7 DEF HandlerReturns, TypeOK
<1>8. CASE DispatchDone
  BY <1>8 DEF DispatchDone, TypeOK
<1>9. CASE SwapFunctors
  BY <1>9 DEF SwapFunctors, TypeOK
<1>10. CASE CallFunctor
  <2>1. Head(functors) \in Functor /\ Tail(functors) \in Seq(Functor)
    BY <1>10, HeadTailProperties DEF CallFunctor, TypeOK
  <2>2. functors' \in Seq(Functor) /\ executed' \in Seq(Functor)
    BY <1>10, <2>1, AppendProperties DEF CallFunctor, TypeOK
  <2> QED BY <1>10, <2>2 DEF CallFunctor, TypeOK
<1>11. CASE FunctorReturns
  BY <1>11 DEF FunctorReturns, TypeOK
<1>12. CASE BatchDone
  BY <1>12 DEF BatchDone, TypeOK
<1>13. CASE QueueInLoopHere
  <2>1. /\ NewFunctor(LoopThread) \in Functor
        /\ posts' \in [Threads -> 0..MaxPosts]
    BY <1>13, NewFunctorType DEF QueueInLoopHere, Threads
  <2>2. pendingFunctors' \in Seq(Functor)
    BY <1>13, <2>1, AppendProperties DEF QueueInLoopHere, TypeOK
  <2> QED BY <1>13, <2>1, <2>2 DEF QueueInLoopHere, TypeOK
<1>14. CASE RunInLoopHere
  <2>1. /\ NewFunctor(LoopThread) \in Functor
        /\ posts' \in [Threads -> 0..MaxPosts]
    BY <1>14, NewFunctorType DEF RunInLoopHere, Threads
  <2>2. executed' \in Seq(Functor)
    BY <1>14, <2>1, AppendProperties DEF RunInLoopHere, TypeOK
  <2> QED BY <1>14, <2>1, <2>2 DEF RunInLoopHere, TypeOK
<1>15. CASE QuitHere
  BY <1>15 DEF QuitHere, TypeOK
<1>16. ASSUME NEW c \in Callers, QueueInLoop(c)
       PROVE  TypeOK'
  <2>1. NewFunctor(c) \in Functor /\ posts' \in [Threads -> 0..MaxPosts]
    BY <1>16, NewFunctorType DEF QueueInLoop, Threads
  <2>2. pendingFunctors' \in Seq(Functor)
    BY <1>16, <2>1, AppendProperties DEF QueueInLoop, TypeOK
  <2>3. callerPc' \in [Callers -> CallerPcs]
    BY <1>16 DEF QueueInLoop, CallerGoes, CallerPcs, TypeOK
  <2> QED BY <1>16, <2>1, <2>2, <2>3 DEF QueueInLoop, TypeOK
<1>17. ASSUME NEW c \in Callers, Quit(c)
       PROVE  TypeOK'
  BY <1>17 DEF Quit, CallerGoes, CallerPcs, TypeOK
<1>18. ASSUME NEW c \in Callers, Wakeup(c)
       PROVE  TypeOK'
  BY <1>18 DEF Wakeup, CallerGoes, CallerPcs, TypeOK
<1>19. CASE UNCHANGED vars
  BY <1>19 DEF vars, TypeOK
<1> QED
  BY <1>1, <1>2, <1>3, <1>4, <1>5, <1>6, <1>7, <1>8, <1>9, <1>10, <1>11, <1>12,
     <1>13, <1>14, <1>15, <1>16, <1>17, <1>18, <1>19
  DEF Next, LoopRuns, UserCode

\* The variables keep their types: for every number of callers and functors.
THEOREM TypeCorrect == Spec => []TypeOK
  BY TypeInit, TypeStep, PTL DEF Spec
-----------------------------------------------------------------------------
\* A new loop satisfies the invariant.
LEMMA InvariantInit == Init => LoopInvariant
<1> SUFFICES ASSUME Init PROVE LoopInvariant
  OBVIOUS
<1>1. TypeOK
  BY TypeInit
<1>2. FlagMeaning /\ BatchLocal /\ NoMissedQuit
  BY DEF Init, FlagMeaning, BatchLocal, NoMissedQuit
<1>3. Covered /\ Numbered
  BY EmptyRange DEF Init, Covered, Numbered
<1> QED BY <1>1, <1>2, <1>3 DEF LoopInvariant

\* The flag and the batch follow the loop's thread.
LEMMA BatchStep ==
  ASSUME TypeOK, FlagMeaning, BatchLocal, [Next]_vars
  PROVE  FlagMeaning' /\ BatchLocal'
<1> USE DEF LoopGoes, flags, queues, FlagMeaning, BatchLocal
<1>1. CASE EnterLoop \/ LoopRuns \/ Polls
  BY <1>1 DEF EnterLoop, LoopRuns, ClearQuit, TestQuit, Polls, PollReturns,
              HandleWakeup, HandleIo, HandlerReturns, DispatchDone, SwapFunctors,
              CallFunctor, FunctorReturns, BatchDone
<1>2. CASE UserCode
  BY <1>2 DEF UserCode, QueueInLoopHere, RunInLoopHere, QuitHere
<1>3. CASE \E c \in Callers : QueueInLoop(c) \/ Quit(c) \/ Wakeup(c)
  BY <1>3 DEF QueueInLoop, Quit, Wakeup
<1>4. CASE UNCHANGED vars
  BY <1>4 DEF vars
<1> QED BY <1>1, <1>2, <1>3, <1>4 DEF Next

\* A poll begins only when quit_ was seen to be false; a quit() of another
\* thread that comes later is on its way to wakeup().
LEMMA QuitStep ==
  ASSUME TypeOK, NoMissedQuit, [Next]_vars
  PROVE  NoMissedQuit'
<1> USE DEF LoopGoes, flags, queues, NoMissedQuit
<1>1. CASE EnterLoop \/ LoopRuns \/ Polls
  BY <1>1 DEF EnterLoop, LoopRuns, ClearQuit, TestQuit, Polls, PollReturns,
              HandleWakeup, HandleIo, HandlerReturns, DispatchDone, SwapFunctors,
              CallFunctor, FunctorReturns, BatchDone
<1>2. CASE UserCode
  BY <1>2 DEF UserCode, QueueInLoopHere, RunInLoopHere, QuitHere, InUserCode
<1>3. ASSUME NEW c \in Callers, QueueInLoop(c) \/ Quit(c) \/ Wakeup(c)
      PROVE  NoMissedQuit'
  BY <1>3 DEF QueueInLoop, Quit, Wakeup, CallerGoes, TypeOK
<1>4. CASE UNCHANGED vars
  BY <1>4 DEF vars
<1> QED BY <1>1, <1>2, <1>3, <1>4 DEF Next

\* Once a thread has pushed, or wakeupFd_ is readable, that stays so until the
\* loop reads wakeupFd_.
LEMMA WakeupStays ==
  ASSUME TypeOK, [Next]_vars, WakeupComing, loopPc # "dispatch"
  PROVE  WakeupComing'
<1> USE DEF LoopGoes, flags, queues, WakeupComing
<1>1. CASE EnterLoop \/ LoopRuns \/ Polls
  BY <1>1 DEF EnterLoop, LoopRuns, ClearQuit, TestQuit, Polls, PollReturns,
              HandleWakeup, HandleIo, HandlerReturns, DispatchDone, SwapFunctors,
              CallFunctor, FunctorReturns, BatchDone
<1>2. CASE UserCode
  BY <1>2 DEF UserCode, QueueInLoopHere, RunInLoopHere, QuitHere, TypeOK
<1>3. ASSUME NEW c \in Callers, QueueInLoop(c) \/ Quit(c) \/ Wakeup(c)
      PROVE  WakeupComing'
  BY <1>3 DEF QueueInLoop, Quit, Wakeup, CallerGoes, TypeOK
<1>4. CASE UNCHANGED vars
  BY <1>4 DEF vars
<1> QED BY <1>1, <1>2, <1>3, <1>4 DEF Next

\* Nobody but SwapFunctors takes a functor out of pendingFunctors_, and who
\* adds one has made it early, or is about to write to wakeupFd_.
LEMMA CoveredStep ==
  ASSUME TypeOK, FlagMeaning, Covered, [Next]_vars
  PROVE  Covered'
<1> USE DEF LoopGoes, flags, queues
<1>1. CASE EnterLoop
  BY <1>1, WakeupStays DEF EnterLoop, Covered
<1>2. CASE ClearQuit \/ TestQuit \/ CallFunctor \/ FunctorReturns \/ BatchDone
  BY <1>2, WakeupStays
  DEF ClearQuit, TestQuit, CallFunctor, FunctorReturns, BatchDone, Covered
<1>3. CASE HandleWakeup \/ HandleIo \/ HandlerReturns \/ DispatchDone \/ Polls
  BY <1>3
  DEF HandleWakeup, HandleIo, HandlerReturns, DispatchDone, Polls, PollReturns, Covered
<1>4. CASE SwapFunctors
  BY <1>4, EmptyRange DEF SwapFunctors, Covered
<1>5. CASE QueueInLoopHere
  <2> DEFINE new == NewFunctor(LoopThread)
  <2>1. new \in Functor
    BY <1>5, NewFunctorType DEF QueueInLoopHere, Threads
  <2>2. Range(pendingFunctors') = Range(pendingFunctors) \cup {new}
    BY <1>5, <2>1, RangeOfAppend DEF QueueInLoopHere, TypeOK
  <2>3. CASE loopPc = "outside"
    <3>1. new.early
      BY <2>3 DEF NewFunctor
    <3> QED BY <1>5, <2>2, <2>3, <3>1, WakeupStays DEF QueueInLoopHere, Covered
  <2>4. CASE loopPc = "handler"
    BY <1>5, <2>4 DEF QueueInLoopHere, Covered
  <2>5. CASE loopPc = "functor"
    BY <1>5, <2>5 DEF QueueInLoopHere, FlagMeaning, Covered, WakeupComing
  <2> QED BY <1>5, <2>3, <2>4, <2>5 DEF QueueInLoopHere, InUserCode
<1>6. CASE RunInLoopHere \/ QuitHere
  BY <1>6, WakeupStays DEF RunInLoopHere, QuitHere, Covered, InUserCode
<1>7. ASSUME NEW c \in Callers, QueueInLoop(c)
      PROVE  Covered'
  <2>1. callerPc'[c] = "pushed"
    BY <1>7 DEF QueueInLoop, CallerGoes, TypeOK
  <2> QED BY <2>1 DEF Covered, WakeupComing
<1>8. ASSUME NEW c \in Callers, Quit(c)
      PROVE  Covered'
  BY <1>8, WakeupStays DEF Quit, Covered
<1>9. ASSUME NEW c \in Callers, Wakeup(c)
      PROVE  Covered'
  BY <1>9 DEF Wakeup, Covered, WakeupComing
<1>10. CASE UNCHANGED vars
  BY <1>10, WakeupStays DEF vars, Covered
<1> QED
  BY <1>1, <1>2, <1>3, <1>4, <1>5, <1>6, <1>7, <1>8, <1>9, <1>10
  DEF Next, LoopRuns, UserCode

\* A functor gets the next number of the thread that creates it.
LEMMA NewFunctorNumber ==
  ASSUME TypeOK, Numbered, NEW t \in Threads, Create(t)
  PROVE  /\ \A f \in Range(pendingFunctors) \cup Range(functors) \cup Range(executed) :
              f.n <= posts'[f.by] /\ f # NewFunctor(t)
         /\ NewFunctor(t).n <= posts'[NewFunctor(t).by]
<1>1. \A f \in Range(pendingFunctors) \cup Range(functors) \cup Range(executed) :
        f \in Functor
  BY RangeOfSeq DEF TypeOK
<1>2. /\ posts'[t] = posts[t] + 1
      /\ \A u \in Threads : posts[u] \in Nat /\ posts'[u] \in Nat /\ posts[u] <= posts'[u]
  BY BoundAssumption DEF Create, TypeOK
<1>3. NewFunctor(t).by = t /\ NewFunctor(t).n = posts[t] + 1
  BY DEF NewFunctor
<1>4. ASSUME NEW f \in Range(pendingFunctors) \cup Range(functors) \cup Range(executed)
      PROVE  f.n <= posts'[f.by] /\ f # NewFunctor(t)
  <2>1. f.by \in Threads /\ f.n \in Nat /\ f.n <= posts[f.by]
    BY <1>1, <1>4, BoundAssumption DEF Functor, Numbered
  <2>2. f.n <= posts'[f.by]
    BY <1>2, <2>1
  <2>3. f # NewFunctor(t)
    BY <1>2, <1>3, <2>1
  <2> QED BY <2>2, <2>3
<1> QED BY <1>2, <1>3, <1>4

\* The functors' numbers stay below the counters.
LEMMA NumberedStep ==
  ASSUME TypeOK, Numbered, [Next]_vars
  PROVE  Numbered'
<1> USE DEF flags, queues
<1>1. CASE UNCHANGED queues
  BY <1>1 DEF Numbered
<1>2. CASE SwapFunctors
  BY <1>2, EmptyRange DEF SwapFunctors, Numbered
<1>3. CASE CallFunctor
  <2>1. Range(functors') \subseteq Range(functors) /\ Head(functors) \in Range(functors)
    BY <1>3, RangeOfTail DEF CallFunctor, TypeOK
  <2>2. Head(functors) \in Functor
    BY <1>3, HeadTailProperties DEF CallFunctor, TypeOK
  <2>3. Range(executed') = Range(executed) \cup {Head(functors)}
    BY <1>3, <2>2, RangeOfAppend DEF CallFunctor, TypeOK
  <2> QED BY <1>3, <2>1, <2>3 DEF CallFunctor, Numbered
<1>4. ASSUME NEW t \in Threads, Create(t), UNCHANGED <<functors, executed>>,
             pendingFunctors' = Append(pendingFunctors, NewFunctor(t))
      PROVE  Numbered'
  <2>1. Range(pendingFunctors') = Range(pendingFunctors) \cup {NewFunctor(t)}
    BY <1>4, NewFunctorType, RangeOfAppend DEF TypeOK
  <2> QED BY <1>4, <2>1, NewFunctorNumber DEF Numbered
<1>5. CASE RunInLoopHere
  <2>1. LoopThread \in Threads /\ Create(LoopThread)
    BY <1>5 DEF RunInLoopHere, Threads
  <2>2. Range(executed') = Range(executed) \cup {NewFunctor(LoopThread)}
    BY <1>5, <2>1, NewFunctorType, RangeOfAppend DEF RunInLoopHere, TypeOK
  <2> QED BY <1>5, <2>1, <2>2, NewFunctorNumber DEF RunInLoopHere, Numbered
<1>6. CASE QueueInLoopHere
  BY <1>4, <1>6 DEF QueueInLoopHere, Threads
<1>7. CASE \E c \in Callers : QueueInLoop(c)
  BY <1>4, <1>7 DEF QueueInLoop, Threads
<1>8. CASE \/ EnterLoop \/ ClearQuit \/ TestQuit \/ HandleWakeup \/ HandleIo
           \/ HandlerReturns \/ DispatchDone \/ FunctorReturns \/ BatchDone \/ Polls
           \/ QuitHere \/ UNCHANGED vars
           \/ \E c \in Callers : Quit(c) \/ Wakeup(c)
  BY <1>1, <1>8
  DEF EnterLoop, ClearQuit, TestQuit, HandleWakeup, HandleIo, HandlerReturns,
      DispatchDone, FunctorReturns, BatchDone, Polls, PollReturns, QuitHere, vars,
      Quit, Wakeup
<1> QED
  BY <1>2, <1>3, <1>5, <1>6, <1>7, <1>8 DEF Next, LoopRuns, UserCode

\* Every step keeps the invariant.
LEMMA InvariantStep == LoopInvariant /\ [Next]_vars => LoopInvariant'
  BY TypeStep, BatchStep, QuitStep, CoveredStep, NumberedStep DEF LoopInvariant

\* The inductive invariant holds in every reachable state.
THEOREM InvariantHolds == Spec => []LoopInvariant
  BY InvariantInit, InvariantStep, PTL DEF Spec

\* No functor is stranded: however pushes, writes to wakeupFd_, the loop's read
\* of it and the swap interleave, a loop that blocks in poll with a functor
\* queued by another thread, a handler or a functor is going to be woken up.
THEOREM FunctorsNotStranded == Spec => []NoStrandedFunctor
<1>1. LoopInvariant => NoStrandedFunctor
  BY DEF LoopInvariant, Covered, NoStrandedFunctor
<1> QED BY <1>1, InvariantHolds, PTL

\* No quit() is missed by a loop that is already polling.
THEOREM QuitNotMissed == Spec => []NoMissedQuit
<1>1. LoopInvariant => NoMissedQuit
  BY DEF LoopInvariant
<1> QED BY <1>1, InvariantHolds, PTL
-----------------------------------------------------------------------------
(***************************************************************************)
(* The loop implements the abstract queue of FunctorQueue                  *)
(***************************************************************************)

\* A push on pendingFunctors_ is a push on the whole queue.
LEMMA ConcatAppend ==
  ASSUME NEW S, NEW s \in Seq(S), NEW t \in Seq(S), NEW e \in S
  PROVE  s \o Append(t, e) = Append(s \o t, e)
<1>1. <<e>> \in Seq(S) /\ s \o t \in Seq(S)
  BY ConcatProperties
<1>2. Append(t, e) = t \o <<e>> /\ Append(s \o t, e) = (s \o t) \o <<e>>
  BY <1>1, AppendIsConcat
<1> QED BY <1>1, <1>2, ConcatAssociative

\* The batch's head is the whole queue's head.
LEMMA ConcatHeadTail ==
  ASSUME NEW S, NEW s \in Seq(S), NEW t \in Seq(S), s # << >>
  PROVE  /\ s \o t # << >>
         /\ Head(s \o t) = Head(s)
         /\ Tail(s \o t) = Tail(s) \o t
<1>1. /\ s \o t \in Seq(S)
      /\ Len(s \o t) = Len(s) + Len(t)
      /\ \A i \in 1..Len(s) + Len(t) :
           (s \o t)[i] = IF i <= Len(s) THEN s[i] ELSE t[i - Len(s)]
  BY ConcatProperties
<1>2. Len(s) \in Nat \ {0} /\ Len(t) \in Nat
  BY EmptySeq, LenProperties
<1>3. s \o t # << >>
  BY <1>1, ConcatEqualIffEmpty
<1>4. /\ Tail(s) \in Seq(S)
      /\ Len(Tail(s)) = Len(s) - 1
      /\ \A i \in 1..Len(Tail(s)) : Tail(s)[i] = s[i + 1]
  BY HeadTailProperties
<1>5. /\ Tail(s \o t) \in Seq(S)
      /\ Len(Tail(s \o t)) = Len(s \o t) - 1
      /\ \A i \in 1..Len(Tail(s \o t)) : Tail(s \o t)[i] = (s \o t)[i + 1]
  BY <1>1, <1>3, HeadTailProperties
<1>6. /\ Tail(s) \o t \in Seq(S)
      /\ Len(Tail(s) \o t) = Len(Tail(s)) + Len(t)
      /\ \A i \in 1..Len(Tail(s)) + Len(t) :
           (Tail(s) \o t)[i]
             = IF i <= Len(Tail(s)) THEN Tail(s)[i] ELSE t[i - Len(Tail(s))]
  BY <1>4, ConcatProperties
<1>7. Head(s \o t) = Head(s)
  BY <1>1, <1>2
<1>8. Len(Tail(s \o t)) = Len(Tail(s) \o t)
  BY <1>1, <1>2, <1>4, <1>5, <1>6
<1>9. ASSUME NEW i \in 1..Len(Tail(s \o t))
      PROVE  Tail(s \o t)[i] = (Tail(s) \o t)[i]
  BY <1>1, <1>2, <1>4, <1>5, <1>6, <1>9
<1>10. Tail(s \o t) = Tail(s) \o t
  BY <1>5, <1>6, <1>8, <1>9, SeqEqual
<1> QED BY <1>3, <1>7, <1>10

\* A new loop is an empty functor queue.
LEMMA RefinesInit == Init => Abstract!Init
<1> SUFFICES ASSUME Init PROVE Abstract!Init
  OBVIOUS
<1>1. << >> \o << >> = << >>
  BY ConcatEmptySeq, EmptySeq
<1> QED BY <1>1 DEF Init, Abstract!Init

\* A functor that is created is new to the abstract queue.
LEMMA CreatesFresh ==
  ASSUME TypeOK, Numbered, NEW t \in Threads, Create(t)
  PROVE  Abstract!Fresh(NewFunctor(t))
<1>1. Range(functors \o pendingFunctors) = Range(functors) \cup Range(pendingFunctors)
  BY RangeConcatenation DEF TypeOK
<1> QED BY <1>1, NewFunctorNumber DEF Abstract!Fresh, Abstract!Range, Range

\* Every step is a step of the functor queue or leaves it alone.
LEMMA RefinesStep ==
  ASSUME LoopInvariant, [Next]_vars
  PROVE  [Abstract!Next]_(Abstract!vars)
<1> USE DEF flags, queues, LoopInvariant
<1>1. CASE UNCHANGED queues
  BY <1>1 DEF Abstract!vars
<1>2. CASE SwapFunctors
  <2>1. functors = << >>
    BY <1>2 DEF SwapFunctors, LoopGoes, BatchLocal
  <2>2. functors \o pendingFunctors = pendingFunctors
    BY <2>1, ConcatEmptySeq DEF TypeOK
  <2>3. functors' \o pendingFunctors' = pendingFunctors
    BY <1>2, ConcatEmptySeq DEF SwapFunctors, TypeOK
  <2> QED BY <1>2, <2>2, <2>3 DEF SwapFunctors, Abstract!vars
<1>3. CASE CallFunctor
  <2>1. /\ functors \o pendingFunctors # << >>
        /\ Head(functors \o pendingFunctors) = Head(functors)
        /\ Tail(functors \o pendingFunctors) = Tail(functors) \o pendingFunctors
    BY <1>3, ConcatHeadTail DEF CallFunctor, TypeOK
  <2>2. Abstract!RunNext
    BY <1>3, <2>1 DEF CallFunctor, Abstract!RunNext
  <2> QED BY <2>2 DEF Abstract!Next
<1>4. ASSUME NEW t \in Threads, Create(t), UNCHANGED <<functors, executed>>,
             pendingFunctors' = Append(pendingFunctors, NewFunctor(t))
      PROVE  Abstract!Next
  <2>1. NewFunctor(t) \in Functor
    BY <1>4, NewFunctorType
  <2>2. functors' \o pendingFunctors'
          = Append(functors \o pendingFunctors, NewFunctor(t))
    BY <1>4, <2>1, ConcatAppend DEF TypeOK
  <2>3. Abstract!Post(NewFunctor(t))
    BY <1>4, <2>2, CreatesFresh DEF Abstract!Post
  <2> QED BY <2>1, <2>3 DEF Abstract!Next
<1>5. CASE RunInLoopHere
  <2>1. LoopThread \in Threads /\ Create(LoopThread)
    BY <1>5 DEF RunInLoopHere, Threads
  <2>2. NewFunctor(LoopThread) \in Functor
    BY <2>1, NewFunctorType
  <2>3. Abstract!RunNow(NewFunctor(LoopThread))
    BY <1>5, <2>1, CreatesFresh DEF RunInLoopHere, Abstract!RunNow
  <2> QED BY <2>2, <2>3 DEF Abstract!Next
<1>6. CASE QueueInLoopHere
  BY <1>4, <1>6 DEF QueueInLoopHere, Threads
<1>7. CASE \E c \in Callers : QueueInLoop(c)
  BY <1>4, <1>7 DEF QueueInLoop, Threads
<1>8. CASE \/ EnterLoop \/ ClearQuit \/ TestQuit \/ HandleWakeup \/ HandleIo
           \/ HandlerReturns \/ DispatchDone \/ FunctorReturns \/ BatchDone \/ Polls
           \/ QuitHere \/ UNCHANGED vars
           \/ \E c \in Callers : Quit(c) \/ Wakeup(c)
  BY <1>1, <1>8
  DEF EnterLoop, ClearQuit, TestQuit, HandleWakeup, HandleIo, HandlerReturns,
      DispatchDone, FunctorReturns, BatchDone, Polls, PollReturns, QuitHere, vars,
      Quit, Wakeup
<1> QED
  BY <1>2, <1>3, <1>5, <1>6, <1>7, <1>8 DEF Next, LoopRuns, UserCode

\* pendingFunctors_ and the swapped-out batch together are one first-in
\* first-out queue: no interleaving reorders, repeats or drops a functor.
THEOREM LoopImplementsFunctorQueue == Spec => ImplementsFunctorQueue
  BY RefinesInit, RefinesStep, InvariantHolds, PTL
  DEF Spec, ImplementsFunctorQueue, Abstract!Spec
=============================================================================
