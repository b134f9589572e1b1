--------------------------- MODULE TimerQueueProof ---------------------------
(***************************************************************************)
(* Theorems about TimerQueue, for any timers, users and clocks: its        *)
(* inductive invariant, and with it who owns a Timer, what a cancel does,  *)
(* and that the timerfd is armed.                                          *)
(***************************************************************************)
EXTENDS TimerQueue, TLAPS

\* The books agree, said of each pointer: p is in timers_ under the expiration of
\* its Timer if and only if it is in activeTimers_ with the sequence of its Timer.
ScheduledAt(T, A, o) ==
  \A p \in Pointers :
    /\ \A n \in Nat : <<n, p>> \in T <=> <<p, o[p].sequence>> \in A /\ n = o[p].expiration
    /\ \A s \in Nat : <<p, s>> \in A => s = o[p].sequence /\ s # 0

\* The two ways to say that the books agree are the same.
LEMMA BooksPointwise ==
  \A T \in SUBSET (Nat \X Pointers), A \in SUBSET (Pointers \X Nat), o \in [Pointers -> Timer] :
    (/\ T = {<<o[a[1]].expiration, a[1]>> : a \in A}
     /\ \A a \in A : a = <<a[1], o[a[1]].sequence>> /\ o[a[1]].sequence # 0)
      <=> ScheduledAt(T, A, o)
<1> SUFFICES ASSUME NEW T \in SUBSET (Nat \X Pointers), NEW A \in SUBSET (Pointers \X Nat),
                    NEW o \in [Pointers -> Timer]
             PROVE  (/\ T = {<<o[a[1]].expiration, a[1]>> : a \in A}
                     /\ \A a \in A : a = <<a[1], o[a[1]].sequence>> /\ o[a[1]].sequence # 0)
                      <=> ScheduledAt(T, A, o)
  OBVIOUS
<1>0. \A p \in Pointers : o[p].sequence \in Nat /\ o[p].expiration \in Nat
  BY DEF Timer
<1>1. ASSUME T = {<<o[a[1]].expiration, a[1]>> : a \in A},
             \A a \in A : a = <<a[1], o[a[1]].sequence>> /\ o[a[1]].sequence # 0
      PROVE  ScheduledAt(T, A, o)
  BY <1>0, <1>1 DEF ScheduledAt
<1>2. ASSUME ScheduledAt(T, A, o)
      PROVE  /\ T = {<<o[a[1]].expiration, a[1]>> : a \in A}
             /\ \A a \in A : a = <<a[1], o[a[1]].sequence>> /\ o[a[1]].sequence # 0
  <2>0. \A a \in A : a = <<a[1], a[2]>> /\ a[1] \in Pointers /\ a[2] \in Nat
    OBVIOUS
  <2>1. \A a \in A : /\ a = <<a[1], a[2]>> /\ a[1] \in Pointers /\ a[2] \in Nat
                     /\ a[2] = o[a[1]].sequence /\ a[2] # 0
    <3> SUFFICES ASSUME NEW a \in A PROVE a[2] = o[a[1]].sequence /\ a[2] # 0
      BY <2>0
    <3>1. <<a[1], a[2]>> \in A
      BY <2>0
    <3> QED BY <2>0, <3>1, <1>2 DEF ScheduledAt
  <2>2. \A e \in T : e = <<e[1], e[2]>> /\ e[2] \in Pointers /\ e[1] \in Nat
    OBVIOUS
  <2>3. ASSUME NEW e \in T PROVE e \in {<<o[a[1]].expiration, a[1]>> : a \in A}
    <3>1. <<e[2], o[e[2]].sequence>> \in A /\ e[1] = o[e[2]].expiration
      BY <2>2, <1>2 DEF ScheduledAt
    <3> QED BY <3>1, <2>2
  <2>4. ASSUME NEW a \in A PROVE <<o[a[1]].expiration, a[1]>> \in T
    BY <2>1, <1>2, <1>0 DEF ScheduledAt
  <2> QED BY <2>1, <2>3, <2>4
<1> QED BY <1>1, <1>2

\* The states of a user are different from each other.
LEMMA IdleIsNoPointer == \A p : <<"idle">> # <<"new", p>> /\ <<"idle">> # <<"pushed", p>>
  OBVIOUS

LEMMA NewIsNotPushed == \A p, q : /\ <<"new", p>> # <<"pushed", q>>
                                  /\ <<"new", p>> = <<"new", q>> => p = q
  OBVIOUS

\* In a state of the right type: find in activeTimers_ finds what is in timers_.
LEMMA Books ==
  ASSUME TypeOK
  PROVE  /\ BooksAgree <=> ScheduledAt(timers, activeTimers, object)
         /\ BooksAgree => \A p \in Pointers : Scheduled(p) <=> Id(p) \in activeTimers
<1>1. /\ timers \in SUBSET (Nat \X Pointers)
      /\ activeTimers \in SUBSET (Pointers \X Nat)
      /\ object \in [Pointers -> Timer]
  BY DEF TypeOK
<1>2. BooksAgree <=> ScheduledAt(timers, activeTimers, object)
  BY <1>1, BooksPointwise DEF BooksAgree, Id, Live
<1>3. ASSUME ScheduledAt(timers, activeTimers, object), NEW p \in Pointers
      PROVE  Scheduled(p) <=> Id(p) \in activeTimers
  <2>1. object[p].expiration \in Nat
    BY <1>1 DEF Timer
  <2>2. \A e \in timers : e = <<e[1], e[2]>> /\ e[1] \in Nat /\ e[2] \in Pointers
    BY <1>1
  <2>3. Scheduled(p) => Id(p) \in activeTimers
    BY <1>3, <2>2 DEF Scheduled, Id, ScheduledAt
  <2>4. Id(p) \in activeTimers => <<object[p].expiration, p>> \in timers
    BY <1>3, <2>1 DEF Id, ScheduledAt
  <2> QED BY <2>3, <2>4 DEF Scheduled
<1> QED BY <1>2, <1>3

\* The same of the next state.
LEMMA BooksNext ==
  ASSUME TypeOK'
  PROVE  /\ BooksAgree' <=> ScheduledAt(timers', activeTimers', object')
         /\ BooksAgree' => \A p \in Pointers : Scheduled(p)' <=> Id(p)' \in activeTimers'
<1>1. /\ timers' \in SUBSET (Nat \X Pointers)
      /\ activeTimers' \in SUBSET (Pointers \X Nat)
      /\ object' \in [Pointers -> Timer]
  BY DEF TypeOK
<1>2. BooksAgree' <=> ScheduledAt(timers', activeTimers', object')
  BY <1>1, BooksPointwise DEF BooksAgree, Id, Live
<1>3. ASSUME ScheduledAt(timers', activeTimers', object'), NEW p \in Pointers
      PROVE  Scheduled(p)' <=> Id(p)' \in activeTimers'
  <2>1. object'[p].expiration \in Nat
    BY <1>1 DEF Timer
  <2>2. \A e \in timers' : e = <<e[1], e[2]>> /\ e[1] \in Nat /\ e[2] \in Pointers
    BY <1>1
  <2>3. Scheduled(p)' => Id(p)' \in activeTimers'
    BY <1>3, <2>2 DEF Scheduled, Id, ScheduledAt
  <2>4. Id(p)' \in activeTimers' => <<object'[p].expiration, p>> \in timers'
    BY <1>3, <2>1 DEF Id, ScheduledAt
  <2> QED BY <2>3, <2>4 DEF Scheduled
<1> QED BY <1>2, <1>3
-----------------------------------------------------------------------------
\* resetTimerfd leaves a timerfd.
LEMMA ResetTimerfdType ==
  ASSUME TypeOK, NEW when \in Nat, ResetTimerfd(when)
  PROVE  timerfd' \in [left: Nat, readable: BOOLEAN]
<1> DEFINE ticks == IF when > clock + MinDelay THEN when - clock ELSE MinDelay
<1>1. ticks \in Nat
  BY TimerBoundsAssumption DEF TypeOK
<1>2. timerfd' = [left |-> ticks, readable |-> FALSE]
  BY DEF ResetTimerfd
<1> HIDE DEF ticks
<1> QED BY <1>1, <1>2

\* addTimerInLoop: if the new timer is not the earliest, the one before it has armed
\* the timerfd; inside a batch this is needed of invalid expirations only.
LEMMA AddKeepsArmed ==
  ASSUME TypeOK, EarliestIsArmed, InvalidIsArmed,
         NEW p \in Pointers, NEW timer \in Timer, AddTimerInLoop(p, timer),
         UNCHANGED <<clock, jumps, loopPc>>
  PROVE  EarliestIsArmed' /\ InvalidIsArmed'
<1>1. /\ timer.expiration \in Nat /\ clock \in Nat /\ MinDelay \in Nat /\ MinDelay > 0
      /\ timerfd.left \in Nat
      /\ \A e \in timers : e[1] \in Nat
  BY TimerBoundsAssumption DEF TypeOK, Timer
<1>2. /\ timers' = timers \cup {<<timer.expiration, p>>}
      /\ <<timer.expiration, p>>[1] = timer.expiration
  BY DEF AddTimerInLoop, Insert
<1>3. CASE \A e \in timers : timer.expiration < e[1]
  <2>1. timerfd' = [left |-> IF timer.expiration > clock + MinDelay
                               THEN timer.expiration - clock ELSE MinDelay,
                    readable |-> FALSE]
    BY <1>3 DEF AddTimerInLoop, Insert, ResetTimerfd
  <2>2. /\ timerfd'.left > 0
        /\ timerfd'.left = IF timer.expiration > clock + MinDelay
                             THEN timer.expiration - clock ELSE MinDelay
    BY <1>1, <2>1
  <2>3. \A e \in timers' : e[1] \in Nat /\ timer.expiration <= e[1]
    BY <1>1, <1>2, <1>3
  <2>4. EarliestIsArmed'
    BY <1>1, <2>2, <2>3 DEF EarliestIsArmed, WakesWithin
  <2>5. InvalidIsArmed'
    BY <1>1, <2>2, <2>3 DEF InvalidIsArmed, WakesWithin, InHandleRead
  <2> QED BY <2>4, <2>5
<1>4. CASE \E e \in timers : e[1] <= timer.expiration
  <2>1. PICK f \in timers : f[1] <= timer.expiration
    BY <1>4
  <2>2. timerfd' = timerfd
    BY <1>1, <2>1 DEF AddTimerInLoop, Insert
  <2>3. EarliestIsArmed'
    BY <1>1, <1>2, <2>1, <2>2 DEF EarliestIsArmed, WakesWithin
  <2>4. InvalidIsArmed'
    BY <1>1, <1>2, <2>1, <2>2 DEF InvalidIsArmed, WakesWithin, InHandleRead
  <2> QED BY <2>3, <2>4
<1> QED BY <1>1, <1>3, <1>4

\* Removing timers, or touching nothing, leaves the timerfd early enough.
LEMMA FewerStayArmed ==
  ASSUME EarliestIsArmed, InvalidIsArmed, timers' \subseteq timers,
         UNCHANGED <<timerfd, clock, jumps, loopPc>>
  PROVE  EarliestIsArmed' /\ InvalidIsArmed'
BY DEF EarliestIsArmed, InvalidIsArmed, WakesWithin, InHandleRead

\* The part of the invariant about Timers and who has them.
Owners == Numbered /\ BooksAgree /\ OwnedOnce /\ CanceledIsGone

\* A step that moves no Timer keeps all of that.
LEMMA OwnersStay ==
  ASSUME TypeOK, Owners,
         UNCHANGED <<object, numCreated, sets, expired, cancelingTimers, canceled>>,
         loopPc' = "gone" <=> loopPc = "gone",
         UNCHANGED pending,
         \A u \in Users, p \in Pointers : WithUser(u, p)' <=> WithUser(u, p)
  PROVE  Owners'
<1>1. Numbered'
  BY DEF Owners, Numbered, Live
<1>2. BooksAgree'
  BY DEF Owners, BooksAgree, Live, Id, sets
<1>3. CanceledIsGone'
  BY DEF Owners, CanceledIsGone, InBatch, Live, Id
<1>4. \A p \in Pointers : /\ Live(p)' <=> Live(p)
                          /\ Scheduled(p)' <=> Scheduled(p)
                          /\ InBatch(p)' <=> InBatch(p)
                          /\ \A i \in DOMAIN pending : Queued(i, p)' <=> Queued(i, p)
  BY DEF Live, Scheduled, InBatch, Queued, sets
<1>5. OwnedOnce'
  BY <1>4 DEF Owners, OwnedOnce
<1> QED BY <1>1, <1>2, <1>3, <1>5 DEF Owners
-----------------------------------------------------------------------------
\* The constructor establishes the invariant.
LEMMA InitHolds ==
  ASSUME Init PROVE TimerInvariant
<1>1. EnableReading(NewChannel) \in ChannelRecord
  BY DEF EnableReading, NewChannel, UpdateChannel, EpollAdd, ChannelRecord, Events
<1>2. TypeOK
  <2>1. object \in [Pointers -> Timer]
    BY DEF Init, Timer, Free
  <2>2. userPc \in [Users -> {<<"idle">>} \cup ({"new", "pushed"} \X Pointers)]
    BY DEF Init
  <2>3. timerfdChannel \in ChannelRecord
    BY <1>1 DEF Init
  <2>4. /\ pending \in Seq([op: {"add"}, pointer: Pointers] \cup
                           [op: {"cancel"}, pointer: Pointers, sequence: Nat])
        /\ timerfd \in [left: Nat, readable: BOOLEAN]
    BY DEF Init
  <2>5. /\ timers \subseteq Nat \X Pointers /\ activeTimers \subseteq Pointers \X Nat
        /\ cancelingTimers \subseteq Pointers \X Nat /\ expired \subseteq Nat \X Pointers
        /\ toRun \subseteq expired /\ ids \subseteq Pointers \X Nat /\ canceled \subseteq Nat
    BY DEF Init
  <2>6. /\ numCreated \in Nat /\ now \in Nat /\ clock \in Nat /\ jumps \in Nat
        /\ callingExpiredTimers \in BOOLEAN
        /\ loopPc \in {"idle", "reported", "batch", "user", "gone"}
    BY DEF Init
  <2> QED BY <2>1, <2>2, <2>3, <2>4, <2>5, <2>6 DEF TypeOK
<1>3. Phases /\ Numbered /\ InvalidIsArmed /\ EarliestIsArmed
  BY DEF Init, Phases, Numbered, InvalidIsArmed, EarliestIsArmed, InHandleRead, Live, Free
<1>4. BooksAgree
  BY DEF Init, BooksAgree
<1>5. \A p \in Pointers : ~Live(p) /\ ~Scheduled(p) /\ ~InBatch(p)
  BY DEF Init, Live, Scheduled, InBatch, Free
<1>6. \A u \in Users, p \in Pointers : ~WithUser(u, p)
  BY IdleIsNoPointer DEF Init, WithUser
<1>7. DOMAIN pending = {}
  BY DEF Init
<1>8. OwnedOnce
  BY <1>5, <1>6, <1>7 DEF OwnedOnce
<1>9. CanceledIsGone
  BY <1>5 DEF CanceledIsGone
<1> QED BY <1>2, <1>3, <1>4, <1>8, <1>9 DEF TimerInvariant

\* Each action keeps it: first the steps that move no Timer, in the loop,
LEMMA PollReportsStep ==
  ASSUME TimerInvariant, PollReports PROVE TimerInvariant'
<1>1. TypeOK' /\ Phases'
  BY DEF PollReports, TimerInvariant, TypeOK, Phases, sets, batchVars, timeVars, userVars,
         InHandleRead
<1>2. Owners'
  BY OwnersStay DEF PollReports, TimerInvariant, Owners, sets, batchVars, userVars, WithUser
<1>3. EarliestIsArmed' /\ InvalidIsArmed'
  BY DEF PollReports, TimerInvariant, EarliestIsArmed, InvalidIsArmed, sets, batchVars,
         timeVars, InHandleRead, WakesWithin
<1> QED BY <1>1, <1>2, <1>3 DEF TimerInvariant, Owners

LEMMA RunTimerStep ==
  ASSUME TimerInvariant, RunTimer PROVE TimerInvariant'
<1>1. TypeOK' /\ Phases'
  BY DEF RunTimer, TimerInvariant, TypeOK, Phases, sets, timeVars, userVars, InHandleRead
<1>2. Owners'
  BY OwnersStay DEF RunTimer, TimerInvariant, Owners, sets, userVars, WithUser
<1>3. EarliestIsArmed' /\ InvalidIsArmed'
  BY DEF RunTimer, TimerInvariant, EarliestIsArmed, InvalidIsArmed, sets, timeVars,
         InHandleRead, WakesWithin
<1> QED BY <1>1, <1>2, <1>3 DEF TimerInvariant, Owners

LEMMA CallbackReturnsStep ==
  ASSUME TimerInvariant, CallbackReturns PROVE TimerInvariant'
<1>1. TypeOK' /\ Phases'
  BY DEF CallbackReturns, TimerInvariant, TypeOK, Phases, sets, batchVars, timeVars, userVars,
         InHandleRead
<1>2. Owners'
  BY OwnersStay DEF CallbackReturns, TimerInvariant, Owners, sets, batchVars, userVars,
                    WithUser
<1>3. EarliestIsArmed' /\ InvalidIsArmed'
  BY DEF CallbackReturns, TimerInvariant, EarliestIsArmed, InvalidIsArmed, sets, batchVars,
         timeVars, InHandleRead, WakesWithin
<1> QED BY <1>1, <1>2, <1>3 DEF TimerInvariant, Owners

\* as time goes by,
LEMMA TickStep ==
  ASSUME TimerInvariant, Tick PROVE TimerInvariant'
<1>0. clock \in Nat /\ timerfd.left \in Nat /\ timerfd.readable \in BOOLEAN /\ MaxTime \in Nat
  BY TimerBoundsAssumption DEF TimerInvariant, TypeOK
<1>1. TypeOK'
  BY <1>0 DEF Tick, TimerInvariant, TypeOK, sets, batchVars, userVars
<1>2. Phases'
  BY DEF Tick, TimerInvariant, Phases, sets, batchVars, userVars, InHandleRead
<1>3. Owners'
  BY OwnersStay DEF Tick, TimerInvariant, Owners, sets, batchVars, userVars, WithUser
<1>4. MinDelay \in Nat /\ \A e \in timers : e[1] \in Nat
  BY TimerBoundsAssumption DEF TimerInvariant, TypeOK
<1>5. /\ timerfd'.left = IF timerfd.left > 0 THEN timerfd.left - 1 ELSE 0
      /\ timerfd'.readable <=> timerfd.readable \/ timerfd.left = 1
      /\ clock' \in {clock, clock + 1}
      /\ UNCHANGED <<timers, jumps, loopPc>>
  BY <1>0 DEF Tick, sets
<1>6. EarliestIsArmed' /\ InvalidIsArmed'
  BY <1>0, <1>4, <1>5 DEF TimerInvariant, EarliestIsArmed, InvalidIsArmed, InHandleRead,
                          WakesWithin
<1> QED BY <1>1, <1>2, <1>3, <1>6 DEF TimerInvariant, Owners

LEMMA ClockJumpsStep ==
  ASSUME TimerInvariant, NEW t \in 1..MaxTime, ClockJumps(t) PROVE TimerInvariant'
<1>1. TypeOK' /\ Phases'
  BY DEF ClockJumps, TimerInvariant, TypeOK, Phases, sets, batchVars, userVars, InHandleRead
<1>2. Owners'
  BY OwnersStay DEF ClockJumps, TimerInvariant, Owners, sets, batchVars, userVars, WithUser
<1>3. jumps \in Nat /\ jumps' = jumps + 1
  BY DEF ClockJumps, TimerInvariant, TypeOK
<1>4. EarliestIsArmed' /\ InvalidIsArmed'
  BY <1>3 DEF ClockJumps, TimerInvariant, EarliestIsArmed, InvalidIsArmed, sets, batchVars,
         InHandleRead, WakesWithin
<1> QED BY <1>1, <1>2, <1>4 DEF TimerInvariant, Owners

\* and of the other threads.
LEMMA UserGetsIdStep ==
  ASSUME TimerInvariant, NEW u \in Users, NEW p \in Pointers, UserGetsId(u, p)
  PROVE  TimerInvariant'
<1>0. PICK s \in IF Live(p) THEN {object[p].sequence} ELSE 0..MaxTimers :
        ids' = ids \cup {<<p, s>>}
  BY DEF UserGetsId
<1>1. s \in Nat
  BY TimerBoundsAssumption DEF TimerInvariant, TypeOK, Timer
<1>2. TypeOK'
  BY <1>0, <1>1 DEF UserGetsId, TimerInvariant, TypeOK, sets, batchVars, timeVars
<1>3. Phases'
  BY DEF UserGetsId, TimerInvariant, TypeOK, Phases, sets, batchVars, InHandleRead
<1>4. \A v \in Users, q \in Pointers : WithUser(v, q)' <=> WithUser(v, q)
  BY IdleIsNoPointer, NewIsNotPushed DEF UserGetsId, TimerInvariant, TypeOK, WithUser
<1>5. Owners'
  BY <1>4, OwnersStay DEF UserGetsId, TimerInvariant, Owners, sets, batchVars
<1>6. EarliestIsArmed' /\ InvalidIsArmed'
  BY FewerStayArmed DEF UserGetsId, TimerInvariant, sets, timeVars
<1> QED BY <1>2, <1>3, <1>5, <1>6 DEF TimerInvariant, Owners

\* The functor that a user queues is a cancel: no Timer waits in it.
LEMMA UserCancelsStep ==
  ASSUME TimerInvariant, NEW u \in Users, NEW id \in ids, UserCancels(u, id)
  PROVE  TimerInvariant'
<1> DEFINE f == [op |-> "cancel", pointer |-> id[1], sequence |-> id[2]]
<1>0. /\ f \in [op: {"cancel"}, pointer: Pointers, sequence: Nat]
      /\ \A p \in Pointers : f # [op |-> "add", pointer |-> p]
  BY DEF TimerInvariant, TypeOK
<1>1. pending' = Append(pending, f)
  BY DEF UserCancels
<1> HIDE DEF f
<1>2. TypeOK'
  BY <1>0, <1>1 DEF UserCancels, TimerInvariant, TypeOK, sets, batchVars, timeVars, userVars
<1>3. Phases'
  BY DEF UserCancels, TimerInvariant, Phases, sets, batchVars, userVars, InHandleRead
<1>4. /\ DOMAIN pending = 1..Len(pending) /\ DOMAIN pending' = 1..Len(pending) + 1
      /\ Len(pending) \in Nat
      /\ \A i \in DOMAIN pending : pending'[i] = pending[i]
      /\ pending'[Len(pending) + 1] = f
  BY <1>1 DEF TimerInvariant, TypeOK
<1>5. \A p \in Pointers, i \in DOMAIN pending' :
        Queued(i, p)' <=> i \in DOMAIN pending /\ Queued(i, p)
  BY <1>0, <1>4 DEF Queued
<1>6. \A p \in Pointers : /\ Live(p)' <=> Live(p)
                          /\ Scheduled(p)' <=> Scheduled(p)
                          /\ InBatch(p)' <=> InBatch(p)
                          /\ \A v \in Users : WithUser(v, p)' <=> WithUser(v, p)
  BY DEF UserCancels, Live, Scheduled, InBatch, WithUser, sets, batchVars, userVars
<1>7. DOMAIN pending \subseteq DOMAIN pending' /\ loopPc' = loopPc
  BY <1>4 DEF UserCancels
<1>8. OwnedOnce'
  BY <1>5, <1>6, <1>7 DEF TimerInvariant, OwnedOnce
<1>9. Numbered' /\ BooksAgree' /\ CanceledIsGone'
  BY DEF UserCancels, TimerInvariant, Numbered, BooksAgree, CanceledIsGone, Live, Id, InBatch,
         sets, batchVars
<1>10. EarliestIsArmed' /\ InvalidIsArmed'
  BY FewerStayArmed DEF UserCancels, TimerInvariant, sets, timeVars
<1> QED BY <1>2, <1>3, <1>8, <1>9, <1>10 DEF TimerInvariant

\* A new Timer goes from its user to the queue.
LEMMA UserAddsStep ==
  ASSUME TimerInvariant, NEW u \in Users, NEW p \in Pointers, UserAdds(u, p)
  PROVE  TimerInvariant'
<1> DEFINE f == [op |-> "add", pointer |-> p]
<1>0. /\ f \in [op: {"add"}, pointer: Pointers]
      /\ \A q \in Pointers : f = [op |-> "add", pointer |-> q] <=> q = p
  OBVIOUS
<1>1. pending' = Append(pending, f)
  BY DEF UserAdds
<1> HIDE DEF f
<1>2. TypeOK'
  BY <1>0, <1>1 DEF UserAdds, TimerInvariant, TypeOK, sets, batchVars, timeVars
<1>3. Phases'
  <2>1. userPc[u] # <<"idle">>
    BY IdleIsNoPointer DEF UserAdds
  <2> QED BY <2>1 DEF UserAdds, TimerInvariant, Phases, sets, batchVars, InHandleRead
<1>4. /\ DOMAIN pending = 1..Len(pending) /\ DOMAIN pending' = 1..Len(pending) + 1
      /\ Len(pending) \in Nat
      /\ \A i \in DOMAIN pending : pending'[i] = pending[i]
      /\ pending'[Len(pending) + 1] = f
  BY <1>1 DEF TimerInvariant, TypeOK
<1> DEFINE last == Len(pending) + 1
<1>5. \A q \in Pointers, i \in DOMAIN pending' :
        Queued(i, q)' <=> (i \in DOMAIN pending /\ Queued(i, q)) \/ (i = last /\ q = p)
  BY <1>0, <1>4 DEF Queued
<1>6. \A q \in Pointers : /\ Live(q)' <=> Live(q)
                          /\ Scheduled(q)' <=> Scheduled(q)
                          /\ InBatch(q)' <=> InBatch(q)
  BY DEF UserAdds, Live, Scheduled, InBatch, sets, batchVars
<1>7. WithUser(u, p) /\ \A v \in Users, q \in Pointers :
                          WithUser(v, q)' <=> WithUser(v, q) /\ ~(v = u /\ q = p)
  BY NewIsNotPushed DEF UserAdds, WithUser, TimerInvariant, TypeOK
<1>8. /\ DOMAIN pending \subseteq DOMAIN pending' /\ loopPc' = loopPc
      /\ last \in DOMAIN pending' /\ last \notin DOMAIN pending
  BY <1>4 DEF UserAdds
<1> HIDE DEF last
<1>9. OwnedOnce'
  BY <1>5, <1>6, <1>7, <1>8 DEF TimerInvariant, OwnedOnce
<1>10. Numbered' /\ BooksAgree' /\ CanceledIsGone'
  BY DEF UserAdds, TimerInvariant, Numbered, BooksAgree, CanceledIsGone, Live, Id, InBatch,
         sets, batchVars
<1>11. EarliestIsArmed' /\ InvalidIsArmed'
  BY FewerStayArmed DEF UserAdds, TimerInvariant, sets, timeVars
<1> QED BY <1>2, <1>3, <1>9, <1>10, <1>11 DEF TimerInvariant

\* A new Timer has a new sequence, and nobody has it yet.
LEMMA CreateIsNew ==
  ASSUME TimerInvariant, NEW p \in Pointers, NEW when \in Whens, NEW interval \in Intervals,
         Create(p, when, interval), canceled' = canceled, expired' = expired,
         cancelingTimers' = cancelingTimers
  PROVE  /\ object' \in [Pointers -> Timer] /\ numCreated' \in Nat
         /\ ~Live(p) /\ Live(p)' /\ ~Scheduled(p) /\ ~InBatch(p)
         /\ object'[p] = [sequence |-> numCreated + 1, expiration |-> when,
                          interval |-> interval]
         /\ \A q \in Pointers \ {p} : object'[q] = object[q]
         /\ Numbered' /\ CanceledIsGone'
<1>1. /\ numCreated \in Nat /\ object \in [Pointers -> Timer] /\ when \in Nat
      /\ interval \in Nat /\ canceled \subseteq Nat
      /\ \A q \in Pointers : object[q].sequence \in Nat
  BY TimesAssumption DEF TimerInvariant, TypeOK, Timer
<1> DEFINE new == [sequence |-> numCreated + 1, expiration |-> when, interval |-> interval]
<1>2. new \in Timer /\ new.sequence = numCreated + 1
  BY <1>1 DEF Timer
<1>3. object' = [object EXCEPT ![p] = new] /\ numCreated' = numCreated + 1 /\ ~Live(p)
  BY DEF Create
<1> HIDE DEF new
<1>4. /\ object' \in [Pointers -> Timer] /\ object'[p] = new
      /\ \A q \in Pointers \ {p} : object'[q] = object[q]
  BY <1>1, <1>2, <1>3
<1>5. Live(p)' /\ \A q \in Pointers \ {p} : Live(q)' <=> Live(q)
  BY <1>1, <1>2, <1>4 DEF Live
<1>6. Numbered'
  BY <1>1, <1>2, <1>3, <1>4 DEF TimerInvariant, Numbered, Live
<1>7. CanceledIsGone'
  BY <1>1, <1>2, <1>4, <1>5 DEF TimerInvariant, CanceledIsGone, Numbered, InBatch, Id
<1>8. ~Scheduled(p) /\ ~InBatch(p)
  BY <1>3 DEF TimerInvariant, OwnedOnce
<1> QED BY <1>1, <1>3, <1>4, <1>5, <1>6, <1>7, <1>8 DEF new

\* new Timer on another thread.
LEMMA UserCreatesStep ==
  ASSUME TimerInvariant, NEW u \in Users, NEW p \in Pointers, NEW when \in Whens,
         NEW interval \in Intervals, UserCreates(u, p, when, interval)
  PROVE  TimerInvariant'
<1>0. /\ object' \in [Pointers -> Timer] /\ numCreated' \in Nat
      /\ ~Live(p) /\ Live(p)' /\ ~Scheduled(p) /\ ~InBatch(p)
      /\ \A q \in Pointers \ {p} : object'[q] = object[q]
      /\ Numbered' /\ CanceledIsGone'
  BY CreateIsNew DEF UserCreates, batchVars
<1>1. UNCHANGED <<timers, activeTimers, batchVars, timerfd, timerfdChannel, clock, jumps,
                  loopPc, pending, ids, canceled>>
  BY DEF UserCreates, sets, timeVars
<1>2. TypeOK'
  BY <1>0, <1>1 DEF UserCreates, TimerInvariant, TypeOK, batchVars
<1>3. Phases'
  BY <1>1 DEF UserCreates, TimerInvariant, Phases, batchVars, InHandleRead
<1>4. ScheduledAt(timers', activeTimers', object')
  <2>1. ScheduledAt(timers, activeTimers, object) /\ Id(p) \notin activeTimers
    BY <1>0, Books DEF TimerInvariant
  <2>2. \A s \in Nat : <<p, s>> \notin activeTimers
    BY <2>1 DEF ScheduledAt, Id
  <2>3. \A n \in Nat : <<n, p>> \notin timers
    BY <2>1 DEF ScheduledAt, Id
  <2>4. object'[p].sequence \in Nat
    BY <1>0 DEF Timer
  <2> QED BY <1>0, <1>1, <2>1, <2>2, <2>3, <2>4 DEF ScheduledAt
<1>5. BooksAgree'
  BY <1>2, <1>4, BooksNext
<1>6. \A q \in Pointers : /\ Live(q)' <=> Live(q) \/ q = p
                          /\ Scheduled(q)' <=> Scheduled(q)
                          /\ InBatch(q)' <=> InBatch(q)
                          /\ \A i \in DOMAIN pending : Queued(i, q)' <=> Queued(i, q)
  BY <1>0, <1>1 DEF Live, Scheduled, InBatch, Queued, batchVars
<1>7. \A v \in Users, q \in Pointers : WithUser(v, q)' <=> WithUser(v, q) \/ (v = u /\ q = p)
  BY IdleIsNoPointer, NewIsNotPushed DEF UserCreates, WithUser, TimerInvariant, TypeOK
<1>8. OwnedOnce'
  BY <1>0, <1>1, <1>6, <1>7 DEF TimerInvariant, OwnedOnce
<1>9. EarliestIsArmed' /\ InvalidIsArmed'
  BY <1>1, FewerStayArmed DEF TimerInvariant
<1> QED BY <1>0, <1>2, <1>3, <1>5, <1>8, <1>9 DEF TimerInvariant

\* insert, of a Timer that is nowhere else: the books go on to agree.
LEMMA InsertKeepsBooks ==
  ASSUME NEW T \in SUBSET (Nat \X Pointers), NEW A \in SUBSET (Pointers \X Nat),
         NEW o \in [Pointers -> Timer], NEW o2 \in [Pointers -> Timer], NEW p \in Pointers,
         ScheduledAt(T, A, o), <<p, o[p].sequence>> \notin A, o2[p].sequence # 0,
         \A q \in Pointers \ {p} : o2[q] = o[q]
  PROVE  ScheduledAt(T \cup {<<o2[p].expiration, p>>}, A \cup {<<p, o2[p].sequence>>}, o2)
<1>1. \A q \in Pointers : /\ o[q].sequence \in Nat /\ o[q].expiration \in Nat
                          /\ o2[q].sequence \in Nat /\ o2[q].expiration \in Nat
  BY DEF Timer
<1>2. (\A s \in Nat : <<p, s>> \notin A) /\ (\A n \in Nat : <<n, p>> \notin T)
  BY DEF ScheduledAt
<1> DEFINE T2 == T \cup {<<o2[p].expiration, p>>}
           A2 == A \cup {<<p, o2[p].sequence>>}
<1>3. \A n \in Nat : <<n, p>> \in T2 <=> n = o2[p].expiration
  BY <1>2
<1>4. \A s \in Nat : <<p, s>> \in A2 <=> s = o2[p].sequence
  BY <1>2
<1>5. \A q \in Pointers \ {p} : /\ \A n \in Nat : <<n, q>> \in T2 <=> <<n, q>> \in T
                                /\ \A s \in Nat : <<q, s>> \in A2 <=> <<q, s>> \in A
  OBVIOUS
<1> HIDE DEF T2, A2
<1>6. ScheduledAt(T2, A2, o2)
  BY <1>1, <1>3, <1>4, <1>5 DEF ScheduledAt
<1> QED BY <1>6 DEF T2, A2

\* insert, seen from each pointer.
LEMMA InsertSchedules ==
  ASSUME NEW p, NEW n, timers' = timers \cup {<<n, p>>}
  PROVE  \A q : Scheduled(q)' <=> Scheduled(q) \/ q = p
<1>1. <<n, p>> \in timers' /\ <<n, p>>[2] = p
  OBVIOUS
<1>2. \A e \in timers' : e \in timers \/ e = <<n, p>>
  OBVIOUS
<1>3. \A q : Scheduled(q)' => Scheduled(q) \/ q = p
  BY <1>1, <1>2 DEF Scheduled
<1>4. Scheduled(p)'
  BY <1>1 DEF Scheduled
<1>5. \A q : Scheduled(q) => Scheduled(q)'
  BY DEF Scheduled
<1> QED BY <1>3, <1>4, <1>5

\* addTimer on the loop's thread: created and inserted in one step.
LEMMA AddTimerHereStep ==
  ASSUME TimerInvariant, NEW p \in Pointers, NEW when \in Whens, NEW interval \in Intervals,
         AddTimerHere(p, when, interval)
  PROVE  TimerInvariant'
<1> DEFINE new == [sequence |-> numCreated + 1, expiration |-> when, interval |-> interval]
<1>0. /\ object' \in [Pointers -> Timer] /\ numCreated' \in Nat
      /\ ~Live(p) /\ Live(p)' /\ ~Scheduled(p) /\ ~InBatch(p)
      /\ object'[p] = new
      /\ \A q \in Pointers \ {p} : object'[q] = object[q]
      /\ Numbered' /\ CanceledIsGone'
  BY CreateIsNew DEF AddTimerHere, batchVars
<1>1. new \in Timer /\ new.sequence = numCreated + 1 /\ new.expiration = when
  BY TimesAssumption DEF TimerInvariant, TypeOK, Timer
<1>2. AddTimerInLoop(p, new)
  BY DEF AddTimerHere
<1> HIDE DEF new
<1>3. UNCHANGED <<batchVars, timerfdChannel, clock, jumps, loopPc, pending, userPc, canceled>>
  BY DEF AddTimerHere, timeVars
<1>4. EarliestIsArmed' /\ InvalidIsArmed'
  BY <1>1, <1>2, <1>3, AddKeepsArmed DEF TimerInvariant
<1>5. /\ timers' = timers \cup {<<new.expiration, p>>}
      /\ activeTimers' = activeTimers \cup {<<p, new.sequence>>}
      /\ new.expiration \in Nat /\ new.sequence \in Nat
  BY <1>1, <1>2 DEF AddTimerInLoop, Insert, Timer
<1>6. timerfd' \in [left: Nat, readable: BOOLEAN]
  <2>1. TypeOK /\ timerfd \in [left: Nat, readable: BOOLEAN]
    BY DEF TimerInvariant, TypeOK
  <2>2. ResetTimerfd(new.expiration) \/ timerfd' = timerfd
    BY <1>2 DEF AddTimerInLoop, Insert
  <2> QED BY <1>5, <2>1, <2>2, ResetTimerfdType
<1>7. TypeOK'
  <2>1. ids' = ids \cup {<<p, new.sequence>>}
    BY <1>1 DEF AddTimerHere
  <2>2. timers' \subseteq Nat \X Pointers /\ activeTimers' \subseteq Pointers \X Nat
        /\ ids' \subseteq Pointers \X Nat
    BY <1>5, <2>1 DEF TimerInvariant, TypeOK
  <2> QED BY <1>0, <1>3, <1>6, <2>2 DEF TimerInvariant, TypeOK, batchVars
<1>8. Phases'
  BY <1>3 DEF AddTimerHere, TimerInvariant, Phases, batchVars, InHandleRead, InUserCode
<1>9. BooksAgree'
  <2>1. ScheduledAt(timers, activeTimers, object) /\ <<p, object[p].sequence>> \notin activeTimers
    BY <1>0, Books DEF TimerInvariant, Id
  <2>2. object'[p].sequence # 0
    BY <1>0 DEF Live
  <2>3. ScheduledAt(timers', activeTimers', object')
    BY <1>0, <1>5, <2>1, <2>2, InsertKeepsBooks DEF TimerInvariant, TypeOK
  <2> QED BY <1>7, <2>3, BooksNext
<1>10. \A q \in Pointers : /\ Live(q)' <=> Live(q) \/ q = p
                           /\ Scheduled(q)' <=> Scheduled(q) \/ q = p
                           /\ InBatch(q)' <=> InBatch(q)
                           /\ \A i \in DOMAIN pending : Queued(i, q)' <=> Queued(i, q)
                           /\ \A v \in Users : WithUser(v, q)' <=> WithUser(v, q)
  <2>1. \A q \in Pointers : Live(q)' <=> Live(q) \/ q = p
    BY <1>0 DEF Live
  <2>2. \A q \in Pointers : Scheduled(q)' <=> Scheduled(q) \/ q = p
    BY <1>5, InsertSchedules
  <2>3. \A q \in Pointers : InBatch(q)' <=> InBatch(q)
    BY <1>3 DEF InBatch, batchVars
  <2>4. \A q \in Pointers : \A i \in DOMAIN pending : Queued(i, q)' <=> Queued(i, q)
    BY <1>3 DEF Queued
  <2>5. \A q \in Pointers : \A v \in Users : WithUser(v, q)' <=> WithUser(v, q)
    BY <1>3 DEF WithUser
  <2> QED BY <2>1, <2>2, <2>3, <2>4, <2>5
<1>11. OwnedOnce'
  BY <1>0, <1>3, <1>10 DEF TimerInvariant, OwnedOnce
<1> QED BY <1>0, <1>4, <1>7, <1>8, <1>9, <1>11 DEF TimerInvariant

\* What a cancelInLoop does to one Timer and leaves to the others.
LEMMA CancelEffect ==
  ASSUME TimerInvariant, NEW id \in Pointers \X Nat, CancelInLoop(id),
         UNCHANGED <<expired, numCreated, clock, jumps, loopPc, callingExpiredTimers>>
  PROVE  /\ object' \in [Pointers -> Timer]
         /\ timers' \subseteq timers /\ activeTimers' \subseteq activeTimers
         /\ cancelingTimers' \subseteq Pointers \X Nat /\ canceled' \subseteq Nat
         /\ ScheduledAt(timers', activeTimers', object')
         /\ Numbered' /\ CanceledIsGone' /\ EarliestIsArmed' /\ InvalidIsArmed'
         /\ timerfd' = timerfd
         /\ \/ /\ Scheduled(id[1])
               /\ \A q \in Pointers : /\ Live(q)' <=> Live(q) /\ q # id[1]
                                      /\ Scheduled(q)' <=> Scheduled(q) /\ q # id[1]
            \/ UNCHANGED <<object, timers>>
<1> DEFINE p == id[1]
<1>0. /\ p \in Pointers /\ id = <<p, id[2]>> /\ id[2] \in Nat
      /\ object \in [Pointers -> Timer]
      /\ timers \in SUBSET (Nat \X Pointers) /\ activeTimers \in SUBSET (Pointers \X Nat)
      /\ \A q \in Pointers : object[q].sequence \in Nat /\ object[q].expiration \in Nat
      /\ ScheduledAt(timers, activeTimers, object)
  <2>1. /\ p \in Pointers /\ id = <<p, id[2]>> /\ id[2] \in Nat
    OBVIOUS
  <2>2. /\ object \in [Pointers -> Timer]
        /\ timers \in SUBSET (Nat \X Pointers) /\ activeTimers \in SUBSET (Pointers \X Nat)
    BY DEF TimerInvariant, TypeOK
  <2>3. \A q \in Pointers : object[q].sequence \in Nat /\ object[q].expiration \in Nat
    BY <2>2 DEF Timer
  <2>4. ScheduledAt(timers, activeTimers, object)
    BY Books DEF TimerInvariant
  <2> QED BY <2>1, <2>2, <2>3, <2>4
<1>1. CASE id \in activeTimers
  <2>1. /\ timers' = timers \ {<<object[p].expiration, p>>}
        /\ activeTimers' = activeTimers \ {id}
        /\ object' = [object EXCEPT ![p] = Free]
        /\ canceled' = canceled \cup {id[2]}
        /\ UNCHANGED <<cancelingTimers, timerfd>>
    BY <1>1 DEF CancelInLoop
  <2>2. id[2] = object[p].sequence /\ id[2] # 0 /\ Live(p) /\ id = Id(p)
    <3>1. <<p, id[2]>> \in activeTimers
      BY <1>0, <1>1
    <3>2. id[2] = object[p].sequence /\ id[2] # 0
      BY <1>0, <3>1 DEF ScheduledAt
    <3> QED BY <1>0, <3>2 DEF Live, Id
  <2>3. Scheduled(p)
    BY <1>0, <1>1, <2>2, Books DEF TimerInvariant
  <2>4. /\ object' \in [Pointers -> Timer] /\ object'[p] = Free
        /\ \A q \in Pointers \ {p} : object'[q] = object[q]
    BY <1>0, <2>1 DEF Free, Timer
  <2>5. /\ \A n \in Nat : <<n, p>> \notin timers'
        /\ \A s \in Nat : <<p, s>> \notin activeTimers'
    BY <1>0, <2>1, <2>2 DEF ScheduledAt
  <2>6. \A q \in Pointers \ {p} :
          /\ \A n \in Nat : <<n, q>> \in timers' <=> <<n, q>> \in timers
          /\ \A s \in Nat : <<q, s>> \in activeTimers' <=> <<q, s>> \in activeTimers
    BY <1>0, <2>1
  <2>7. ScheduledAt(timers', activeTimers', object')
    BY <1>0, <2>4, <2>5, <2>6 DEF ScheduledAt, Free
  <2>8. \A q \in Pointers : Live(q)' <=> Live(q) /\ q # p
    BY <2>4 DEF Live, Free
  <2>9. \A q \in Pointers : Scheduled(q)' <=> Scheduled(q) /\ q # p
    <3>1. \A e \in timers : e = <<e[1], e[2]>> /\ e[1] \in Nat /\ e[2] \in Pointers
      BY <1>0
    <3>2. \A e \in timers : e \in timers' <=> e[2] # p
      BY <1>0, <2>5, <2>6, <3>1
    <3> QED BY <2>1, <3>2 DEF Scheduled
  <2>10. Numbered'
    <3>1. numCreated \in Nat /\ numCreated' = numCreated /\ Numbered
      BY DEF TimerInvariant, TypeOK
    <3>2. \A q \in Pointers : object'[q].sequence <= numCreated'
      BY <1>0, <2>4, <3>1 DEF Numbered, Free
    <3>3. \A s \in canceled' : s <= numCreated'
      BY <1>0, <2>1, <2>2, <3>1 DEF Numbered
    <3>4. \A q, r \in Pointers : Live(q)' /\ object'[q].sequence = object'[r].sequence => q = r
      BY <2>4, <2>8, <3>1 DEF Numbered, Live, Free
    <3> QED BY <3>2, <3>3, <3>4 DEF Numbered
  <2>11. CanceledIsGone'
    <3> SUFFICES ASSUME NEW q \in Pointers, Live(q)', object'[q].sequence \in canceled'
                 PROVE  InBatch(q)' /\ Id(q)' \in cancelingTimers'
      BY DEF CanceledIsGone
    <3>1. q # p /\ Live(q) /\ object'[q] = object[q]
      BY <2>4, <2>8
    <3>2. object[q].sequence # id[2]
      BY <1>0, <2>2, <3>1 DEF TimerInvariant, Numbered
    <3>3. InBatch(q) /\ Id(q) \in cancelingTimers
      BY <2>1, <3>1, <3>2 DEF TimerInvariant, CanceledIsGone
    <3> QED BY <2>1, <3>1, <3>3 DEF InBatch, Id
  <2>12. EarliestIsArmed' /\ InvalidIsArmed'
    BY <2>1, FewerStayArmed DEF TimerInvariant
  <2>13. cancelingTimers' \subseteq Pointers \X Nat /\ canceled' \subseteq Nat
    BY <1>0, <2>1 DEF TimerInvariant, TypeOK
  <2> QED BY <2>1, <2>3, <2>4, <2>7, <2>8, <2>9, <2>10, <2>11, <2>12, <2>13
<1>2. CASE id \notin activeTimers
  <2>1. /\ cancelingTimers' = IF callingExpiredTimers THEN cancelingTimers \cup {id}
                                                      ELSE cancelingTimers
        /\ canceled' = IF id \in {Id(e[2]) : e \in expired} THEN canceled \cup {id[2]}
                                                            ELSE canceled
        /\ UNCHANGED <<object, timers, activeTimers, timerfd>>
    BY <1>2 DEF CancelInLoop, sets
  <2>2. \A e \in expired : e[2] \in Pointers
    BY DEF TimerInvariant, TypeOK
  <2>3. ASSUME id \in {Id(e[2]) : e \in expired}
        PROVE  /\ callingExpiredTimers /\ id = Id(p) /\ InBatch(p)
               /\ id[2] = object[p].sequence
    BY <2>2, <2>3 DEF TimerInvariant, Phases, Id, InBatch
  <2>4. Numbered'
    BY <1>0, <2>1, <2>3 DEF TimerInvariant, Numbered, Live
  <2>5. CanceledIsGone'
    <3> SUFFICES ASSUME NEW q \in Pointers, Live(q), object[q].sequence \in canceled'
                 PROVE  InBatch(q) /\ Id(q) \in cancelingTimers'
      BY <2>1 DEF CanceledIsGone, Live, InBatch, Id
    <3>1. CASE object[q].sequence \in canceled
      BY <2>1, <3>1 DEF TimerInvariant, CanceledIsGone
    <3>2. CASE object[q].sequence \notin canceled
      <4>1. id \in {Id(e[2]) : e \in expired} /\ object[q].sequence = id[2]
        BY <2>1, <3>2
      <4>2. q = p
        BY <1>0, <2>3, <4>1 DEF TimerInvariant, Numbered
      <4> QED BY <2>1, <2>3, <4>1, <4>2
    <3> QED BY <3>1, <3>2
  <2>6. EarliestIsArmed' /\ InvalidIsArmed'
    BY <2>1, FewerStayArmed DEF TimerInvariant
  <2>7. cancelingTimers' \subseteq Pointers \X Nat /\ canceled' \subseteq Nat
    BY <1>0, <2>1 DEF TimerInvariant, TypeOK
  <2> QED BY <1>0, <2>1, <2>4, <2>5, <2>6, <2>7
<1> QED BY <1>1, <1>2

\* cancel on the loop's thread.
LEMMA CancelHereStep ==
  ASSUME TimerInvariant, NEW id \in ids, CancelHere(id) PROVE TimerInvariant'
<1>1. UNCHANGED <<numCreated, callingExpiredTimers, expired, toRun, now, timerfdChannel, clock,
                  jumps, loopPc, pending, userPc, ids>> /\ CancelInLoop(id)
  BY DEF CancelHere, timeVars, userVars
<1>2. id \in Pointers \X Nat
  BY DEF TimerInvariant, TypeOK
<1>3. /\ object' \in [Pointers -> Timer]
      /\ timers' \subseteq timers /\ activeTimers' \subseteq activeTimers
      /\ cancelingTimers' \subseteq Pointers \X Nat /\ canceled' \subseteq Nat
      /\ ScheduledAt(timers', activeTimers', object')
      /\ Numbered' /\ CanceledIsGone' /\ EarliestIsArmed' /\ InvalidIsArmed'
      /\ timerfd' = timerfd
  BY <1>1, <1>2, CancelEffect
<1>4. \/ /\ Scheduled(id[1])
         /\ \A q \in Pointers : /\ Live(q)' <=> Live(q) /\ q # id[1]
                                /\ Scheduled(q)' <=> Scheduled(q) /\ q # id[1]
      \/ UNCHANGED <<object, timers>>
  BY <1>1, <1>2, CancelEffect
<1>5. TypeOK'
  BY <1>1, <1>3 DEF TimerInvariant, TypeOK
<1>6. Phases'
  BY <1>1, <1>3 DEF TimerInvariant, Phases, InHandleRead
<1>7. BooksAgree'
  BY <1>3, <1>5, BooksNext
<1>8. \A q \in Pointers : /\ InBatch(q)' <=> InBatch(q)
                          /\ \A i \in DOMAIN pending : Queued(i, q)' <=> Queued(i, q)
                          /\ \A v \in Users : WithUser(v, q)' <=> WithUser(v, q)
  BY <1>1 DEF InBatch, Queued, WithUser
<1>9. OwnedOnce'
  <2>1. CASE UNCHANGED <<object, timers>>
    <3>1. \A q \in Pointers : /\ Live(q)' <=> Live(q)
                              /\ Scheduled(q)' <=> Scheduled(q)
      BY <2>1 DEF Live, Scheduled
    <3> QED BY <1>1, <1>8, <3>1 DEF TimerInvariant, OwnedOnce
  <2>2. CASE /\ Scheduled(id[1])
             /\ \A q \in Pointers : /\ Live(q)' <=> Live(q) /\ q # id[1]
                                    /\ Scheduled(q)' <=> Scheduled(q) /\ q # id[1]
    BY <1>1, <1>8, <2>2 DEF TimerInvariant, OwnedOnce
  <2> QED BY <1>4, <2>1, <2>2
<1> QED BY <1>3, <1>5, <1>6, <1>7, <1>9 DEF TimerInvariant

\* The functor that is run leaves the queue; the others move up.
LEMMA TailOfPending ==
  ASSUME TypeOK, pending # << >>, pending' = Tail(pending)
  PROVE  /\ 1 \in DOMAIN pending
         /\ \A i \in DOMAIN pending' : i + 1 \in DOMAIN pending /\ i + 1 # 1
         /\ \A i \in DOMAIN pending : i # 1 => \E j \in DOMAIN pending' : i = j + 1
         /\ \A i, j \in DOMAIN pending' : i + 1 = j + 1 => i = j
         /\ \A p \in Pointers, i \in DOMAIN pending' : Queued(i, p)' <=> Queued(i + 1, p)
         /\ Head(pending) = pending[1]
         /\ Head(pending) \in [op: {"add"}, pointer: Pointers] \cup
                              [op: {"cancel"}, pointer: Pointers, sequence: Nat]
         /\ pending' \in Seq([op: {"add"}, pointer: Pointers] \cup
                             [op: {"cancel"}, pointer: Pointers, sequence: Nat])
<1> DEFINE F == [op: {"add"}, pointer: Pointers] \cup
                [op: {"cancel"}, pointer: Pointers, sequence: Nat]
<1>1. pending \in Seq(F)
  BY DEF TypeOK
<1> HIDE DEF F
<1>2. /\ Len(pending) \in Nat /\ Len(pending) > 0 /\ DOMAIN pending = 1..Len(pending)
      /\ pending' \in Seq(F) /\ DOMAIN pending' = 1..(Len(pending) - 1)
      /\ \A i \in DOMAIN pending' : pending'[i] = pending[i + 1]
      /\ Head(pending) = pending[1] /\ Head(pending) \in F
  BY <1>1
<1>3. \A i \in DOMAIN pending : i # 1 => i - 1 \in DOMAIN pending' /\ i = (i - 1) + 1
  BY <1>2
<1>4. /\ 1 \in DOMAIN pending
      /\ \A i \in DOMAIN pending' : i + 1 \in DOMAIN pending /\ i + 1 # 1
      /\ \A i, j \in DOMAIN pending' : i + 1 = j + 1 => i = j
  BY <1>2
<1>5. \A p \in Pointers, i \in DOMAIN pending' : Queued(i, p)' <=> Queued(i + 1, p)
  BY <1>2 DEF Queued
<1> QED BY <1>2, <1>3, <1>4, <1>5 DEF F

\* addTimerInLoop moves a Timer from the queue to the sets; cancelInLoop as above.
LEMMA RunFunctorStep ==
  ASSUME TimerInvariant, RunFunctor PROVE TimerInvariant'
<1> DEFINE f == Head(pending)
           p == f.pointer
<1>1. /\ loopPc = "idle" /\ pending # << >> /\ pending' = Tail(pending)
      /\ UNCHANGED <<numCreated, callingExpiredTimers, expired, toRun, now, timerfdChannel,
                     clock, jumps, loopPc, userPc, ids>>
  BY DEF RunFunctor, timeVars, userVars
<1>2. /\ 1 \in DOMAIN pending
      /\ \A i \in DOMAIN pending' : i + 1 \in DOMAIN pending /\ i + 1 # 1
      /\ \A i \in DOMAIN pending : i # 1 => \E j \in DOMAIN pending' : i = j + 1
      /\ \A i, j \in DOMAIN pending' : i + 1 = j + 1 => i = j
      /\ \A q \in Pointers, i \in DOMAIN pending' : Queued(i, q)' <=> Queued(i + 1, q)
  BY <1>1, TailOfPending DEF TimerInvariant
<1>3. /\ f = pending[1]
      /\ f \in [op: {"add"}, pointer: Pointers] \cup
               [op: {"cancel"}, pointer: Pointers, sequence: Nat]
      /\ pending' \in Seq([op: {"add"}, pointer: Pointers] \cup
                          [op: {"cancel"}, pointer: Pointers, sequence: Nat])
  BY <1>1, TailOfPending DEF TimerInvariant
<1>4. p \in Pointers
  BY <1>3
<1>5. \A q \in Pointers : /\ InBatch(q)' <=> InBatch(q)
                          /\ \A v \in Users : WithUser(v, q)' <=> WithUser(v, q)
  BY <1>1 DEF InBatch, WithUser
<1>6. CASE f.op = "add" /\ AddTimerInLoop(p, object[p]) /\ UNCHANGED <<object, cancelingTimers, canceled>>
  <2>1. f = [op |-> "add", pointer |-> p]
    BY <1>3, <1>6
  <2>2. /\ Queued(1, p)
        /\ \A q \in Pointers : Queued(1, q) => q = p
    BY <1>3, <2>1 DEF Queued
  <2> HIDE DEF f, p
  <2>3. Live(p) /\ ~Scheduled(p) /\ ~InBatch(p)
    BY <1>2, <1>4, <2>2 DEF TimerInvariant, OwnedOnce
  <2>4. object[p] \in Timer /\ object[p].expiration \in Nat /\ object[p].sequence \in Nat
    BY <1>4 DEF TimerInvariant, TypeOK, Timer
  <2>5. EarliestIsArmed' /\ InvalidIsArmed'
    BY <1>1, <1>4, <1>6, <2>4, AddKeepsArmed DEF TimerInvariant
  <2>6. /\ timers' = timers \cup {<<object[p].expiration, p>>}
        /\ activeTimers' = activeTimers \cup {<<p, object[p].sequence>>}
        /\ ResetTimerfd(object[p].expiration) \/ timerfd' = timerfd
    BY <1>6 DEF AddTimerInLoop, Insert
  <2>7. timerfd' \in [left: Nat, readable: BOOLEAN]
    BY <2>4, <2>6, ResetTimerfdType DEF TimerInvariant, TypeOK
  <2>8. TypeOK'
    <3>1. timers' \subseteq Nat \X Pointers /\ activeTimers' \subseteq Pointers \X Nat
      BY <1>4, <2>4, <2>6 DEF TimerInvariant, TypeOK
    <3> QED BY <1>1, <1>3, <1>6, <2>7, <3>1 DEF TimerInvariant, TypeOK
  <2>9. Phases'
    BY <1>1 DEF TimerInvariant, Phases, InHandleRead
  <2>10. BooksAgree'
    <3>1. ScheduledAt(timers, activeTimers, object) /\ <<p, object[p].sequence>> \notin activeTimers
      BY <1>4, <2>3, Books DEF TimerInvariant, Id
    <3>2. ScheduledAt(timers', activeTimers', object')
      BY <1>4, <1>6, <2>3, <2>6, <3>1, InsertKeepsBooks DEF TimerInvariant, TypeOK, Live
    <3> QED BY <2>8, <3>2, BooksNext
  <2>11. Numbered' /\ CanceledIsGone'
    BY <1>1, <1>6 DEF TimerInvariant, Numbered, CanceledIsGone, Live, Id, InBatch
  <2>12. \A q \in Pointers : Live(q)' <=> Live(q)
    BY <1>6 DEF Live
  <2>13. \A q \in Pointers : Scheduled(q)' <=> Scheduled(q) \/ q = p
    BY <2>6, InsertSchedules
  <2>14. OwnedOnce'
    BY <1>1, <1>2, <1>5, <2>2, <2>3, <2>12, <2>13 DEF TimerInvariant, OwnedOnce
  <2> QED BY <2>5, <2>8, <2>9, <2>10, <2>11, <2>14 DEF TimerInvariant
<1>7. CASE f.op = "cancel" /\ CancelInLoop(<<p, f.sequence>>)
  <2> DEFINE id == <<p, f.sequence>>
  <2>1. id \in Pointers \X Nat /\ id[1] = p
    BY <1>3, <1>7
  <2>2. \A q \in Pointers : ~Queued(1, q)
    BY <1>3, <1>7 DEF Queued
  <2>3. CancelInLoop(id)
    BY <1>7
  <2> HIDE DEF f, p, id
  <2>4. /\ object' \in [Pointers -> Timer]
        /\ timers' \subseteq timers /\ activeTimers' \subseteq activeTimers
        /\ cancelingTimers' \subseteq Pointers \X Nat /\ canceled' \subseteq Nat
        /\ ScheduledAt(timers', activeTimers', object')
        /\ Numbered' /\ CanceledIsGone' /\ EarliestIsArmed' /\ InvalidIsArmed'
        /\ timerfd' = timerfd
    BY <1>1, <2>1, <2>3, CancelEffect
  <2>5. \/ /\ Scheduled(id[1])
           /\ \A q \in Pointers : /\ Live(q)' <=> Live(q) /\ q # id[1]
                                  /\ Scheduled(q)' <=> Scheduled(q) /\ q # id[1]
        \/ UNCHANGED <<object, timers>>
    BY <1>1, <2>1, <2>3, CancelEffect
  <2>6. TypeOK'
    BY <1>1, <1>3, <2>4 DEF TimerInvariant, TypeOK
  <2>7. Phases'
    BY <1>1, <2>4 DEF TimerInvariant, Phases, InHandleRead
  <2>8. BooksAgree'
    BY <2>4, <2>6, BooksNext
  <2>9. OwnedOnce'
    <3>1. CASE UNCHANGED <<object, timers>>
      <4>1. \A q \in Pointers : /\ Live(q)' <=> Live(q)
                                /\ Scheduled(q)' <=> Scheduled(q)
        BY <3>1 DEF Live, Scheduled
      <4> QED BY <1>1, <1>2, <1>5, <2>2, <4>1 DEF TimerInvariant, OwnedOnce
    <3>2. CASE /\ Scheduled(id[1])
               /\ \A q \in Pointers : /\ Live(q)' <=> Live(q) /\ q # id[1]
                                      /\ Scheduled(q)' <=> Scheduled(q) /\ q # id[1]
      BY <1>1, <1>2, <1>5, <2>1, <2>2, <3>2 DEF TimerInvariant, OwnedOnce
    <3> QED BY <2>5, <3>1, <3>2
  <2> QED BY <2>4, <2>6, <2>7, <2>8, <2>9 DEF TimerInvariant
<1> QED BY <1>6, <1>7 DEF RunFunctor

\* handleRead moves what is due from the sets to the batch.
LEMMA HandleReadStep ==
  ASSUME TimerInvariant, HandleRead PROVE TimerInvariant'
<1> DEFINE due == {e \in timers : e[1] <= clock}
<1>1. /\ loopPc = "reported" /\ loopPc' = "batch" /\ now' = clock
      /\ timers' = timers \ due
      /\ activeTimers' = activeTimers \ {Id(e[2]) : e \in due}
      /\ expired' = due /\ toRun' = due
      /\ callingExpiredTimers' = TRUE /\ cancelingTimers' = {}
      /\ timerfd' = [timerfd EXCEPT !.readable = FALSE]
      /\ UNCHANGED <<object, numCreated, timerfdChannel, clock, jumps, pending, userPc, ids,
                     canceled>>
  BY DEF HandleRead, timeVars, userVars
<1>2. /\ \A e \in timers : e = <<e[1], e[2]>> /\ e[1] \in Nat /\ e[2] \in Pointers
      /\ clock \in Nat
  BY DEF TimerInvariant, TypeOK
<1>3. due \subseteq timers /\ \A e \in timers : e \in due <=> e[1] <= clock
  OBVIOUS
<1>4. ScheduledAt(timers, activeTimers, object)
  BY Books DEF TimerInvariant
<1>5. \A e \in timers : Id(e[2]) \in activeTimers /\ e[1] = object[e[2]].expiration
  BY <1>2, <1>4 DEF ScheduledAt, Id
<1> HIDE DEF due
<1>6. TypeOK'
  BY <1>1, <1>2, <1>3 DEF TimerInvariant, TypeOK
<1>7. Phases'
  BY <1>1 DEF TimerInvariant, Phases, InHandleRead
<1>8. Numbered'
  BY <1>1 DEF TimerInvariant, Numbered, Live
<1>9. ScheduledAt(timers', activeTimers', object')
  <2> SUFFICES ASSUME NEW p \in Pointers
               PROVE  /\ \A n \in Nat : <<n, p>> \in timers' <=>
                           <<p, object[p].sequence>> \in activeTimers' /\ n = object[p].expiration
                      /\ \A s \in Nat : <<p, s>> \in activeTimers' => s = object[p].sequence /\ s # 0
    BY <1>1 DEF ScheduledAt
  <2>1. \A s \in Nat : <<p, s>> \in activeTimers' => s = object[p].sequence /\ s # 0
    BY <1>1, <1>4 DEF ScheduledAt
  <2>2. Id(p) \in {Id(e[2]) : e \in due} <=> \E e \in due : e[2] = p
    BY DEF Id
  <2>3. object[p].expiration \in Nat
    BY DEF TimerInvariant, TypeOK, Timer
  <2>4. ASSUME NEW n \in Nat, <<n, p>> \in timers'
        PROVE  <<p, object[p].sequence>> \in activeTimers' /\ n = object[p].expiration
    <3>1. <<n, p>> \in timers /\ <<n, p>> \notin due
      BY <1>1, <2>4
    <3>2. n = object[p].expiration /\ Id(p) \in activeTimers
      BY <1>4, <3>1 DEF ScheduledAt, Id
    <3>3. ~ \E e \in due : e[2] = p
      BY <1>2, <1>3, <1>5, <3>1, <3>2
    <3> QED BY <1>1, <2>2, <3>2, <3>3 DEF Id
  <2>5. ASSUME <<p, object[p].sequence>> \in activeTimers'
        PROVE  <<object[p].expiration, p>> \in timers'
    <3>1. Id(p) \in activeTimers /\ ~ \E e \in due : e[2] = p
      BY <1>1, <2>2, <2>5 DEF Id
    <3>2. <<object[p].expiration, p>> \in timers /\ <<object[p].expiration, p>>[2] = p
      BY <1>4, <2>3, <3>1 DEF ScheduledAt, Id
    <3> QED BY <1>1, <3>1, <3>2
  <2> QED BY <2>1, <2>4, <2>5
<1>10. BooksAgree'
  BY <1>6, <1>9, BooksNext
<1>11. \A p \in Pointers : ~InBatch(p)
  BY <1>1 DEF TimerInvariant, Phases, InHandleRead, InBatch
<1>12. CanceledIsGone'
  BY <1>1, <1>11 DEF TimerInvariant, CanceledIsGone, Live
<1>13. \A p \in Pointers : /\ InBatch(p)' => Scheduled(p) /\ ~Scheduled(p)'
                           /\ Scheduled(p)' => Scheduled(p)
                           /\ Scheduled(p) => Scheduled(p)' \/ InBatch(p)'
  BY <1>1, <1>2, <1>3, <1>5 DEF InBatch, Scheduled
<1>14. \A p \in Pointers : /\ Live(p)' <=> Live(p)
                           /\ \A i \in DOMAIN pending : Queued(i, p)' <=> Queued(i, p)
                           /\ \A u \in Users : WithUser(u, p)' <=> WithUser(u, p)
  BY <1>1 DEF Live, Queued, WithUser
<1>15. OwnedOnce'
  BY <1>1, <1>11, <1>13, <1>14 DEF TimerInvariant, OwnedOnce
<1>16. EarliestIsArmed'
  BY <1>1 DEF EarliestIsArmed
<1>17. InvalidIsArmed'
  BY <1>1, <1>2, <1>3 DEF InvalidIsArmed
<1> QED BY <1>6, <1>7, <1>8, <1>10, <1>12, <1>15, <1>16, <1>17 DEF TimerInvariant

\* The destructor deletes what is in timers_.
LEMMA DestroyStep ==
  ASSUME TimerInvariant, Destroy PROVE TimerInvariant'
<1>1. /\ loopPc = "idle" /\ loopPc' = "gone" /\ \A u \in Users : userPc[u] = <<"idle">>
      /\ timerfd' = [left |-> 0, readable |-> FALSE]
      /\ object' = [p \in Pointers |-> IF Scheduled(p) THEN Free ELSE object[p]]
      /\ timers' = {} /\ activeTimers' = {}
      /\ timerfdChannel' = RemoveChannel(DisableAll(timerfdChannel))
      /\ UNCHANGED <<numCreated, batchVars, clock, jumps, pending, userPc, ids, canceled>>
  BY DEF Destroy, timeVars, userVars, Scheduled
<1>2. timerfdChannel' \in ChannelRecord
  <2>1. timerfdChannel \in ChannelRecord
    BY DEF TimerInvariant, TypeOK
  <2>2. DisableAll(timerfdChannel) \in ChannelRecord
    BY <2>1 DEF DisableAll, UpdateChannel, EpollAdd, EpollDel, EpollMod, ChannelRecord
  <2> QED BY <1>1, <2>2 DEF RemoveChannel, EpollDel, ChannelRecord
<1>3. Free \in Timer /\ Free.sequence = 0
  BY DEF Free, Timer
<1>4. object' \in [Pointers -> Timer]
  BY <1>1, <1>3 DEF TimerInvariant, TypeOK
<1>5. TypeOK'
  BY <1>1, <1>2, <1>4 DEF TimerInvariant, TypeOK, batchVars
<1>6. Phases'
  BY <1>1 DEF TimerInvariant, Phases, InHandleRead, batchVars
<1>7. \A p \in Pointers : object'[p].sequence \in {0, object[p].sequence}
  BY <1>1, <1>3
<1>8. Numbered'
  BY <1>1, <1>7 DEF TimerInvariant, TypeOK, Numbered, Live
<1>9. BooksAgree' /\ EarliestIsArmed' /\ InvalidIsArmed'
  BY <1>1 DEF BooksAgree, EarliestIsArmed, InvalidIsArmed
<1>10. \A p \in Pointers : /\ Live(p)' <=> Live(p) /\ ~Scheduled(p)
                           /\ ~Scheduled(p)'
                           /\ ~InBatch(p) /\ ~InBatch(p)'
                           /\ \A i \in DOMAIN pending : Queued(i, p)' <=> Queued(i, p)
                           /\ \A u \in Users : ~WithUser(u, p)'
  <2>1. expired = {} /\ expired' = {}
    BY <1>1 DEF TimerInvariant, Phases, InHandleRead, batchVars
  <2>2. \A p \in Pointers : Live(p)' <=> Live(p) /\ ~Scheduled(p)
    BY <1>1, <1>3 DEF Live
  <2>3. \A p \in Pointers : ~Scheduled(p)' /\ ~InBatch(p) /\ ~InBatch(p)'
    BY <1>1, <2>1 DEF Scheduled, InBatch
  <2>4. \A p \in Pointers : \A u \in Users : ~WithUser(u, p)'
    BY <1>1, IdleIsNoPointer DEF WithUser
  <2>5. \A p \in Pointers : \A i \in DOMAIN pending : Queued(i, p)' <=> Queued(i, p)
    BY <1>1 DEF Queued
  <2> QED BY <2>2, <2>3, <2>4, <2>5
<1>11. CanceledIsGone'
  BY <1>1, <1>10 DEF TimerInvariant, CanceledIsGone, Live
<1>12. OwnedOnce'
  BY <1>1, <1>10 DEF TimerInvariant, OwnedOnce
<1> QED BY <1>5, <1>6, <1>8, <1>9, <1>11, <1>12 DEF TimerInvariant

\* reset moves repeating timers back to the sets and deletes the others; a timer
\* cancelled in the batch is among the deleted.
LEMMA ResetStep ==
  ASSUME TimerInvariant, Reset PROVE TimerInvariant'
<1>1. /\ loopPc = "batch" /\ loopPc' = "idle" /\ toRun = {} /\ toRun' = {}
      /\ object' = [p \in Pointers |->
                      IF p \in Again THEN [object[p] EXCEPT !.expiration = NextExpiration(p)]
                      ELSE IF InBatch(p) THEN Free ELSE object[p]]
      /\ timers' = timers \cup {<<NextExpiration(p), p>> : p \in Again}
      /\ activeTimers' = activeTimers \cup {Id(p) : p \in Again}
      /\ callingExpiredTimers' = FALSE /\ expired' = {} /\ now' = 0
      /\ UNCHANGED <<numCreated, cancelingTimers, timerfdChannel, clock, jumps, pending,
                     userPc, ids, canceled>>
  BY DEF Reset, timeVars, userVars, InBatch
<1>2. \/ timers' = {} /\ UNCHANGED timerfd
      \/ \E e \in timers' :
           /\ \A f \in timers' : e[1] <= f[1]
           /\ IF e[1] > 0 THEN ResetTimerfd(e[1]) ELSE UNCHANGED timerfd
  BY DEF Reset
<1>3. /\ object \in [Pointers -> Timer] /\ now \in Nat /\ clock \in Nat
      /\ timers \in SUBSET (Nat \X Pointers) /\ activeTimers \in SUBSET (Pointers \X Nat)
      /\ \A e \in expired : e[2] \in Pointers
      /\ \A p \in Pointers : object[p].sequence \in Nat /\ object[p].interval \in Nat
      /\ ScheduledAt(timers, activeTimers, object)
  BY Books DEF TimerInvariant, TypeOK, Timer
<1>4. Again \subseteq Pointers /\ \A p \in Again : /\ InBatch(p) /\ Id(p) \notin cancelingTimers
                                                  /\ object[p].interval > 0
  BY <1>3 DEF Again, InBatch
<1>5. \A p \in Again : NextExpiration(p) \in Nat /\ NextExpiration(p) > 0
  BY <1>3, <1>4 DEF NextExpiration
<1>6. /\ \A p \in Again : /\ object'[p] \in Timer
                          /\ object'[p].sequence = object[p].sequence
                          /\ object'[p].expiration = NextExpiration(p)
      /\ \A p \in Pointers : p \notin Again /\ InBatch(p) => object'[p] = Free
      /\ \A p \in Pointers : ~InBatch(p) => object'[p] = object[p]
  BY <1>1, <1>3, <1>4, <1>5 DEF Timer
<1>7. object' \in [Pointers -> Timer]
  <2>1. \A p \in Pointers : object'[p] \in Timer
    BY <1>3, <1>6 DEF Timer, Free
  <2>2. object' = [p \in Pointers |-> object'[p]]
    BY <1>1
  <2> QED BY <2>1, <2>2
<1>8. \A p \in Pointers : /\ Live(p)' <=> Live(p) /\ (InBatch(p) => p \in Again)
                          /\ Live(p)' => object'[p].sequence = object[p].sequence
  BY <1>6 DEF Live, Free
<1>9. \A p \in Pointers : InBatch(p) => Live(p) /\ ~Scheduled(p)
  BY DEF TimerInvariant, OwnedOnce
<1>10. \A p \in Pointers : InBatch(p) =>
         /\ \A n \in Nat : <<n, p>> \notin timers
         /\ \A s \in Nat : <<p, s>> \notin activeTimers
  <2>1. \A p \in Pointers : ~Scheduled(p) => Id(p) \notin activeTimers
    BY Books DEF TimerInvariant
  <2> QED BY <1>3, <1>9, <2>1 DEF ScheduledAt, Id
<1>11. /\ timers' \in SUBSET (Nat \X Pointers) /\ activeTimers' \in SUBSET (Pointers \X Nat)
       /\ \A e \in timers' : e \in timers \/ e[1] > 0
  BY <1>1, <1>3, <1>4, <1>5 DEF Id
<1>12. timerfd' \in [left: Nat, readable: BOOLEAN]
  <2>1. TypeOK /\ timerfd \in [left: Nat, readable: BOOLEAN]
    BY DEF TimerInvariant, TypeOK
  <2>2. timerfd' = timerfd \/ \E e \in timers' : ResetTimerfd(e[1])
    BY <1>2
  <2> QED BY <1>11, <2>1, <2>2, ResetTimerfdType
<1>13. TypeOK'
  BY <1>1, <1>7, <1>11, <1>12 DEF TimerInvariant, TypeOK
<1>14. Phases'
  BY <1>1 DEF TimerInvariant, Phases, InHandleRead
<1>15. Numbered'
  <2>1. numCreated \in Nat /\ Numbered
    BY DEF TimerInvariant, TypeOK
  <2>2. \A p \in Pointers : object'[p].sequence <= numCreated
    BY <1>3, <1>6, <2>1 DEF Numbered, Free
  <2>3. \A p, q \in Pointers : Live(p)' /\ object'[p].sequence = object'[q].sequence => p = q
    <3> SUFFICES ASSUME NEW p \in Pointers, NEW q \in Pointers, Live(p)',
                        object'[p].sequence = object'[q].sequence
                 PROVE  p = q
      OBVIOUS
    <3>1. Live(q)'
      BY DEF Live
    <3> QED BY <1>8, <2>1, <3>1 DEF Numbered
  <2> QED BY <1>1, <2>1, <2>2, <2>3 DEF Numbered
<1>16. ScheduledAt(timers', activeTimers', object')
  <2> SUFFICES ASSUME NEW p \in Pointers
               PROVE  /\ \A n \in Nat : <<n, p>> \in timers' <=>
                           <<p, object'[p].sequence>> \in activeTimers' /\ n = object'[p].expiration
                      /\ \A s \in Nat : <<p, s>> \in activeTimers' => s = object'[p].sequence /\ s # 0
    BY DEF ScheduledAt
  <2>1. CASE ~InBatch(p)
    <3>1. p \notin Again /\ object'[p] = object[p]
      BY <1>4, <1>6, <2>1
    <3>2. \A n \in Nat : <<n, p>> \in timers' <=> <<n, p>> \in timers
      BY <1>1, <3>1
    <3>3. \A s \in Nat : <<p, s>> \in activeTimers' <=> <<p, s>> \in activeTimers
      BY <1>1, <3>1 DEF Id
    <3> QED BY <1>3, <3>1, <3>2, <3>3 DEF ScheduledAt
  <2>2. CASE p \in Again
    <3>1. \A n \in Nat : <<n, p>> \in timers' <=> n = NextExpiration(p)
      BY <1>1, <1>4, <1>10, <2>2
    <3>2. \A s \in Nat : <<p, s>> \in activeTimers' <=> s = object[p].sequence
      BY <1>1, <1>4, <1>10, <2>2 DEF Id
    <3>3. object[p].sequence # 0
      BY <1>4, <1>9, <2>2 DEF Live
    <3> QED BY <1>3, <1>6, <2>2, <3>1, <3>2, <3>3
  <2>3. CASE InBatch(p) /\ p \notin Again
    <3>1. \A n \in Nat : <<n, p>> \notin timers'
      BY <1>1, <1>10, <2>3
    <3>2. \A s \in Nat : <<p, s>> \notin activeTimers'
      BY <1>1, <1>10, <2>3 DEF Id
    <3>3. object'[p].sequence \in Nat
      BY <1>7 DEF Timer
    <3> QED BY <3>1, <3>2, <3>3
  <2> QED BY <2>1, <2>2, <2>3
<1>17. BooksAgree'
  BY <1>13, <1>16, BooksNext
<1>18. \A p \in Pointers : ~InBatch(p)'
  BY <1>1 DEF InBatch
<1>19. \A p \in Pointers : Scheduled(p)' <=> Scheduled(p) \/ p \in Again
  <2>1. \A p \in Again : <<NextExpiration(p), p>> \in timers' /\ <<NextExpiration(p), p>>[2] = p
    BY <1>1
  <2>2. \A p \in Again : Scheduled(p)'
    BY <2>1 DEF Scheduled
  <2>3. \A e \in timers' : e \in timers \/ e[2] \in Again
    BY <1>1
  <2>4. \A p \in Pointers : Scheduled(p) => Scheduled(p)'
    BY <1>1 DEF Scheduled
  <2>5. \A p \in Pointers : Scheduled(p)' => Scheduled(p) \/ p \in Again
    BY <2>3 DEF Scheduled
  <2> QED BY <2>2, <2>4, <2>5
<1>20. \A p \in Pointers : /\ \A i \in DOMAIN pending : Queued(i, p)' <=> Queued(i, p)
                           /\ \A u \in Users : WithUser(u, p)' <=> WithUser(u, p)
  BY <1>1 DEF Queued, WithUser
<1>21. OwnedOnce'
  BY <1>1, <1>4, <1>8, <1>9, <1>18, <1>19, <1>20 DEF TimerInvariant, OwnedOnce
<1>22. CanceledIsGone'
  BY <1>1, <1>4, <1>8 DEF TimerInvariant, CanceledIsGone
<1>23. EarliestIsArmed'
  <2>1. CASE timers' = {}
    BY <2>1 DEF EarliestIsArmed
  <2>2. ASSUME NEW e \in timers', \A f \in timers' : e[1] <= f[1], e[1] > 0, ResetTimerfd(e[1])
        PROVE  EarliestIsArmed'
    <3>1. e[1] \in Nat /\ MinDelay \in Nat /\ MinDelay > 0 /\ \A f \in timers' : f[1] \in Nat
      BY <1>11, TimerBoundsAssumption
    <3>2. /\ timerfd'.left = IF e[1] > clock + MinDelay THEN e[1] - clock ELSE MinDelay
          /\ timerfd'.left > 0
      BY <1>3, <2>2, <3>1 DEF ResetTimerfd
    <3> QED BY <1>1, <1>3, <2>2, <3>1, <3>2 DEF EarliestIsArmed, WakesWithin
  <2>3. ASSUME NEW e \in timers', ~(e[1] > 0), timerfd' = timerfd
        PROVE  EarliestIsArmed'
    <3>1. e \in timers /\ e[1] \in Nat /\ \A f \in timers' : f[1] \in Nat
      BY <1>11, <2>3
    <3>2. WakesWithin(MinDelay)
      BY <1>1, <2>3, <3>1 DEF TimerInvariant, InvalidIsArmed, InHandleRead
    <3>3. MinDelay \in Nat /\ MinDelay > 0 /\ timerfd.left \in Nat
      BY TimerBoundsAssumption DEF TimerInvariant, TypeOK
    <3> QED BY <1>1, <1>3, <2>3, <3>1, <3>2, <3>3 DEF EarliestIsArmed, WakesWithin
  <2> QED BY <1>2, <2>1, <2>2, <2>3
<1>24. InvalidIsArmed'
  BY <1>1 DEF InvalidIsArmed, InHandleRead
<1> QED BY <1>13, <1>14, <1>15, <1>17, <1>21, <1>22, <1>23, <1>24 DEF TimerInvariant
-----------------------------------------------------------------------------
\* TimerInvariant is inductive: the books of TimerQueue agree with the Timers, with
\* their owners and with the timerfd after every handler, callback and functor.
THEOREM TimerInvariantHolds == Spec => []TimerInvariant
<1>1. TimerInvariant /\ [Next]_vars => TimerInvariant'
  <2> SUFFICES ASSUME TimerInvariant, [Next]_vars PROVE TimerInvariant'
    OBVIOUS
  <2>1. CASE LoopSteps
    BY <2>1, PollReportsStep, HandleReadStep, RunTimerStep, CallbackReturnsStep, ResetStep
       DEF LoopSteps
  <2>2. CASE RunFunctor \/ Destroy \/ Tick
    BY <2>2, RunFunctorStep, DestroyStep, TickStep
  <2>3. CASE LoopUser
    BY <2>3, AddTimerHereStep, CancelHereStep DEF LoopUser
  <2>4. CASE \E u \in Users : OtherThread(u)
    BY <2>4, UserCreatesStep, UserAddsStep, UserGetsIdStep, UserCancelsStep DEF OtherThread
  <2>5. CASE \E t \in 1..MaxTime : ClockJumps(t)
    BY <2>5, ClockJumpsStep
  <2>6. CASE UNCHANGED vars
    <3>1. TypeOK' /\ Phases' /\ EarliestIsArmed' /\ InvalidIsArmed'
      BY <2>6 DEF vars, sets, batchVars, timeVars, userVars, TimerInvariant, TypeOK, Phases,
                  EarliestIsArmed, InvalidIsArmed, InHandleRead, WakesWithin
    <3>2. Owners'
      BY <2>6, OwnersStay DEF vars, sets, batchVars, timeVars, userVars, TimerInvariant, Owners,
                              WithUser
    <3> QED BY <3>1, <3>2 DEF TimerInvariant, Owners
  <2> QED BY <2>1, <2>2, <2>3, <2>4, <2>5, <2>6 DEF Next
<1> QED BY <1>1, InitHolds, PTL DEF Spec

\* Every Timer has one owner: addTimer, cancel, getExpired, reset and the destructor
\* never delete one twice, use a deleted one or lose one.
THEOREM OwnedOnceHolds == Spec => []OwnedOnce
<1>1. TimerInvariant => OwnedOnce
  BY DEF TimerInvariant
<1> QED BY <1>1, TimerInvariantHolds, PTL

\* A timer that cancelInLoop has found, in activeTimers_ or in the batch that is
\* being called, is deleted and never inserted again.
THEOREM CanceledIsGoneHolds == Spec => []CanceledIsGone
<1>1. TimerInvariant => CanceledIsGone
  BY DEF TimerInvariant
<1> QED BY <1>1, TimerInvariantHolds, PTL

\* When the loop may block and timers_ is not empty, the timerfd is armed, and in
\* time for the earliest timer as long as the system clock is not set.
THEOREM EarliestIsArmedHolds == Spec => []EarliestIsArmed
<1>1. TimerInvariant => EarliestIsArmed
  BY DEF TimerInvariant
<1> QED BY <1>1, TimerInvariantHolds, PTL
=============================================================================
