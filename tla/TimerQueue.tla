----------------------------- MODULE TimerQueue -----------------------------
(***************************************************************************)
(* A TimerQueue (src/TimerQueue.cc, with Timer, TimerId and Timestamp) on  *)
(* its loop: timers added and cancelled by other threads, by handlers of   *)
(* the loop and by the timers' own callbacks, and the timerfd that wakes   *)
(* the loop for the earliest of them.                                      *)
(*                                                                         *)
(* Timer objects live at addresses that the allocator uses again.  Only    *)
(* the loop's thread touches the sets of timers, so a handler is one step  *)
(* up to a callback; other threads allocate a Timer, push the functor and  *)
(* read the Timer's sequence in three steps.  Timestamp::now() is the      *)
(* system clock, which may be set; the timerfd counts down on the          *)
(* monotonic clock.  A Timestamp of 0 is the invalid one.                  *)
(***************************************************************************)
EXTENDS Naturals, Sequences, Functions, Channel

CONSTANTS Pointers,   \* addresses of Timer objects
          Users,      \* the other threads
          Whens,      \* expirations that users ask for
          Intervals,  \* intervals that users ask for; 0: one shot
          MinDelay,   \* the 100 microseconds of howMuchTimeFromNow
          MaxTimers,  \* bound: timers created
          MaxTime,    \* bound: the system clock stops here
          MaxPending, \* bound: functors waiting
          MaxJumps    \* bound: how often the system clock is set

ASSUME PointersAssumption == Pointers \subseteq Nat
ASSUME TimesAssumption == Whens \subseteq Nat /\ Intervals \subseteq Nat
ASSUME TimerBoundsAssumption ==
  /\ MinDelay \in Nat \ {0} /\ MaxTime \in Nat \ {0}
  /\ MaxTimers \in Nat /\ MaxPending \in Nat /\ MaxJumps \in Nat

VARIABLES object,               \* the Timer at each address, or Free
          numCreated,           \* Timer::s_numCreated_
          timers,               \* timers_: <<expiration, pointer>>
          activeTimers,         \* activeTimers_: <<pointer, sequence>>
          cancelingTimers,      \* cancelingTimers_
          callingExpiredTimers, \* callingExpiredTimers_
          expired,              \* local of handleRead: the batch,
          toRun,                \*   what of it has not been run yet,
          now,                  \*   and when it was taken
          timerfd,              \* ticks left (0: disarmed), and readable?
          timerfdChannel,       \* timerfdChannel_ (a ChannelRecord)
          clock,                \* the system clock
          jumps,                \* how often it has been set
          loopPc,               \* where the loop's thread is
          pending,              \* functors of this queue in pendingFunctors_
          userPc,               \* where each user is, and its new Timer
          ids,                  \* TimerIds that users have got
          canceled              \* history: sequences that cancelInLoop has found

sets == <<timers, activeTimers>>
batchVars == <<cancelingTimers, callingExpiredTimers, expired, toRun, now>>
timeVars == <<clock, jumps>>
userVars == <<userPc, ids>>
vars == <<object, numCreated, sets, batchVars, timerfd, timerfdChannel, timeVars, loopPc,
          pending, userVars, canceled>>

\* sequence, expiration_ and interval_; repeat_ is interval > 0.
Timer == [sequence: Nat, expiration: Nat, interval: Nat]
Free == [sequence |-> 0, expiration |-> 0, interval |-> 0]
Live(p) == object[p].sequence # 0
Id(p) == <<p, object[p].sequence>>

TypeOK ==
  /\ object \in [Pointers -> Timer]
  /\ numCreated \in Nat
  /\ timers \subseteq Nat \X Pointers
  /\ activeTimers \subseteq Pointers \X Nat
  /\ cancelingTimers \subseteq Pointers \X Nat
  /\ callingExpiredTimers \in BOOLEAN
  /\ expired \subseteq Nat \X Pointers
  /\ toRun \subseteq expired
  /\ now \in Nat
  /\ timerfd \in [left: Nat, readable: BOOLEAN]
  /\ timerfdChannel \in ChannelRecord
  /\ clock \in Nat
  /\ jumps \in Nat
  /\ loopPc \in {"idle", "reported", "batch", "user", "gone"}
  /\ pending \in Seq([op: {"add"}, pointer: Pointers] \cup
                     [op: {"cancel"}, pointer: Pointers, sequence: Nat])
  /\ userPc \in [Users -> {<<"idle">>} \cup ({"new", "pushed"} \X Pointers)]
  /\ ids \subseteq Pointers \X Nat
  /\ canceled \subseteq Nat

\* The constructor has made the timerfd and registered its channel.
Init ==
  /\ object = [p \in Pointers |-> Free]
  /\ numCreated = 0
  /\ timers = {} /\ activeTimers = {}
  /\ cancelingTimers = {} /\ callingExpiredTimers = FALSE
  /\ expired = {} /\ toRun = {} /\ now = 0
  /\ timerfd = [left |-> 0, readable |-> FALSE]
  /\ timerfdChannel = EnableReading(NewChannel)
  /\ clock = 1 /\ jumps = 0
  /\ loopPc = "idle"
  /\ pending = << >>
  /\ userPc = [u \in Users |-> <<"idle">>]
  /\ ids = {}
  /\ canceled = {}
-----------------------------------------------------------------------------
(***************************************************************************)
(* What runs inside a step of the loop's thread                            *)
(***************************************************************************)

\* resetTimerfd: timerfd_settime also clears what has not been read.
ResetTimerfd(when) ==
  timerfd' = [left |-> IF when > clock + MinDelay THEN when - clock ELSE MinDelay,
              readable |-> FALSE]

\* new Timer at a free address.
Create(p, when, interval) ==
  /\ ~Live(p) /\ numCreated < MaxTimers
  /\ numCreated' = numCreated + 1
  /\ object' = [object EXCEPT ![p] = [sequence |-> numCreated + 1, expiration |-> when,
                                      interval |-> interval]]

\* insert: into both sets.
Insert(p, timer) ==
  /\ timers' = timers \cup {<<timer.expiration, p>>}
  /\ activeTimers' = activeTimers \cup {<<p, timer.sequence>>}

\* Mutant: the timerfd is armed for the first timer only.
AddTimerInLoopArmsFirst(p, timer) ==
  /\ Insert(p, timer)
  /\ IF timers = {} THEN ResetTimerfd(timer.expiration) ELSE UNCHANGED timerfd

\* addTimerInLoop: re-arm when the timer is the earliest now, as insert reports.
AddTimerInLoop(p, timer) ==
  /\ Insert(p, timer)
  /\ IF \A e \in timers : timer.expiration < e[1]
       THEN ResetTimerfd(timer.expiration)
       ELSE UNCHANGED timerfd

\* Mutant: what is not active is forgotten.
CancelInLoopActiveOnly(id) ==
  /\ canceled' = IF id \in activeTimers \cup {Id(e[2]) : e \in expired}
                   THEN canceled \cup {id[2]} ELSE canceled
  /\ timers' = timers \ {<<object[id[1]].expiration, id[1]>> : i \in {id} \cap activeTimers}
  /\ activeTimers' = activeTimers \ {id}
  /\ object' = IF id \in activeTimers THEN [object EXCEPT ![id[1]] = Free] ELSE object
  /\ UNCHANGED <<cancelingTimers, timerfd>>

\* Mutant: a timer of the batch is deleted at once.
CancelInLoopDeletes(id) ==
  LET found == id = Id(id[1]) IN
  /\ canceled' = IF found THEN canceled \cup {id[2]} ELSE canceled
  /\ timers' = IF found THEN timers \ {<<object[id[1]].expiration, id[1]>>} ELSE timers
  /\ activeTimers' = activeTimers \ {id}
  /\ object' = IF found THEN [object EXCEPT ![id[1]] = Free] ELSE object
  /\ cancelingTimers' = IF callingExpiredTimers THEN cancelingTimers \cup {id}
                                                ELSE cancelingTimers
  /\ UNCHANGED timerfd

\* cancelInLoop. The timerfd stays armed for a timer that is gone.
CancelInLoop(id) ==
  \/ /\ id \in activeTimers
     /\ timers' = timers \ {<<object[id[1]].expiration, id[1]>>}
     /\ activeTimers' = activeTimers \ {id}
     /\ object' = [object EXCEPT ![id[1]] = Free]
     /\ canceled' = canceled \cup {id[2]}
     /\ UNCHANGED <<cancelingTimers, timerfd>>
  \/ /\ id \notin activeTimers
     /\ cancelingTimers' = IF callingExpiredTimers THEN cancelingTimers \cup {id}
                                                   ELSE cancelingTimers
     /\ canceled' = IF id \in {Id(e[2]) : e \in expired} THEN canceled \cup {id[2]}
                                                         ELSE canceled
     /\ UNCHANGED <<object, sets, timerfd>>
-----------------------------------------------------------------------------
(***************************************************************************)
(* The loop: handleRead, the callbacks of the batch, reset                 *)
(***************************************************************************)

\* epoll_wait reports the timerfd; handlers of other channels may come first,
\* and may set the timerfd again.
PollReports ==
  /\ loopPc = "idle" /\ timerfd.readable
  /\ loopPc' = "reported"
  /\ UNCHANGED <<object, numCreated, sets, batchVars, timerfd, timerfdChannel, timeVars,
                 pending, userVars, canceled>>

\* Mutant: the expired timers stay in activeTimers_.
HandleReadKeepsActive ==
  LET due == {e \in timers : e[1] <= clock} IN
  /\ loopPc = "reported" /\ loopPc' = "batch"
  /\ now' = clock
  /\ timerfd' = [timerfd EXCEPT !.readable = FALSE]
  /\ timers' = timers \ due
  /\ expired' = due /\ toRun' = due
  /\ callingExpiredTimers' = TRUE /\ cancelingTimers' = {}
  /\ UNCHANGED <<object, numCreated, activeTimers, timerfdChannel, timeVars, pending,
                 userVars, canceled>>

\* handleRead with readTimerfd and getExpired, up to the loop over the batch.
HandleRead ==
  LET due == {e \in timers : e[1] <= clock} IN
  /\ loopPc = "reported" /\ loopPc' = "batch"
  /\ now' = clock
  /\ timerfd' = [timerfd EXCEPT !.readable = FALSE]
  /\ timers' = timers \ due
  /\ activeTimers' = activeTimers \ {Id(e[2]) : e \in due}
  /\ expired' = due /\ toRun' = due
  /\ callingExpiredTimers' = TRUE /\ cancelingTimers' = {}
  /\ UNCHANGED <<object, numCreated, timerfdChannel, timeVars, pending, userVars, canceled>>

\* The vector is in the order of the set: by expiration, then by address.
Before(e, f) == e[1] < f[1] \/ (e[1] = f[1] /\ e[2] < f[2])

\* Timer::run: the callback is user code until CallbackReturns.
RunTimer ==
  /\ loopPc = "batch" /\ loopPc' = "user"
  /\ \E e \in toRun :
       /\ \A f \in toRun \ {e} : Before(e, f)
       /\ toRun' = toRun \ {e}
  /\ UNCHANGED <<object, numCreated, sets, cancelingTimers, callingExpiredTimers, expired,
                 now, timerfd, timerfdChannel, timeVars, pending, userVars, canceled>>

CallbackReturns ==
  /\ loopPc = "user" /\ loopPc' = "batch"
  /\ UNCHANGED <<object, numCreated, sets, batchVars, timerfd, timerfdChannel, timeVars,
                 pending, userVars, canceled>>

\* The timers of the batch that go on: Timer::restart sets their next expiration.
Again == {e[2] : e \in {f \in expired : /\ object[f[2]].interval > 0
                                         /\ Id(f[2]) \notin cancelingTimers}}
NextExpiration(p) == now + object[p].interval

\* Mutant: the timerfd is set again only for timers of this batch.
ResetArmsRepeated ==
  /\ loopPc = "batch" /\ toRun = {} /\ loopPc' = "idle"
  /\ object' = [p \in Pointers |->
                  IF p \in Again THEN [object[p] EXCEPT !.expiration = NextExpiration(p)]
                  ELSE IF \E e \in expired : e[2] = p THEN Free ELSE object[p]]
  /\ timers' = timers \cup {<<NextExpiration(p), p>> : p \in Again}
  /\ activeTimers' = activeTimers \cup {Id(p) : p \in Again}
  /\ \/ Again = {} /\ UNCHANGED timerfd
     \/ \E e \in timers' : /\ Again # {}
                           /\ \A f \in timers' : e[1] <= f[1]
                           /\ ResetTimerfd(e[1])
  /\ callingExpiredTimers' = FALSE /\ expired' = {} /\ now' = 0
  /\ UNCHANGED <<numCreated, cancelingTimers, toRun, timerfdChannel, timeVars, pending,
                 userVars, canceled>>

\* The end of handleRead: repeating timers that nobody cancelled are inserted
\* again, the others deleted; the timerfd is set for the earliest, if its
\* expiration is valid.
Reset ==
  /\ loopPc = "batch" /\ toRun = {} /\ loopPc' = "idle"
  /\ object' = [p \in Pointers |->
                  IF p \in Again THEN [object[p] EXCEPT !.expiration = NextExpiration(p)]
                  ELSE IF \E e \in expired : e[2] = p THEN Free ELSE object[p]]
  /\ timers' = timers \cup {<<NextExpiration(p), p>> : p \in Again}
  /\ activeTimers' = activeTimers \cup {Id(p) : p \in Again}
  /\ \/ timers' = {} /\ UNCHANGED timerfd
     \/ \E e \in timers' :
          /\ \A f \in timers' : e[1] <= f[1]
          /\ IF e[1] > 0 THEN ResetTimerfd(e[1]) ELSE UNCHANGED timerfd
  /\ callingExpiredTimers' = FALSE /\ expired' = {} /\ now' = 0
  /\ UNCHANGED <<numCreated, cancelingTimers, toRun, timerfdChannel, timeVars, pending,
                 userVars, canceled>>

\* A functor that another thread queued: doPendingFunctors comes after the handlers.
RunFunctor ==
  /\ loopPc = "idle" /\ pending # << >>
  /\ pending' = Tail(pending)
  /\ LET f == Head(pending) IN
     \/ /\ f.op = "add"
        /\ AddTimerInLoop(f.pointer, object[f.pointer])
        /\ UNCHANGED <<object, cancelingTimers, canceled>>
     \/ f.op = "cancel" /\ CancelInLoop(<<f.pointer, f.sequence>>)
  /\ UNCHANGED <<numCreated, callingExpiredTimers, expired, toRun, now, timerfdChannel,
                 timeVars, loopPc, userVars>>

\* The destructor, once the loop has ended and nobody is inside a call; what is
\* still queued is not run.
Destroy ==
  /\ loopPc = "idle" /\ loopPc' = "gone"
  /\ \A u \in Users : userPc[u] = <<"idle">>
  /\ timerfdChannel' = RemoveChannel(DisableAll(timerfdChannel))
  /\ timerfd' = [left |-> 0, readable |-> FALSE]
  /\ object' = [p \in Pointers |-> IF \E e \in timers : e[2] = p THEN Free ELSE object[p]]
  /\ timers' = {} /\ activeTimers' = {}
  /\ UNCHANGED <<numCreated, batchVars, timeVars, pending, userVars, canceled>>
-----------------------------------------------------------------------------
(***************************************************************************)
(* Calls of addTimer and cancel                                            *)
(***************************************************************************)

\* On the loop's thread: in a timer's callback, or in a handler or functor.
InUserCode == loopPc \in {"idle", "reported", "user"}

AddTimerHere(p, when, interval) ==
  /\ InUserCode
  /\ Create(p, when, interval)
  /\ AddTimerInLoop(p, [sequence |-> numCreated + 1, expiration |-> when,
                        interval |-> interval])
  /\ ids' = ids \cup {<<p, numCreated + 1>>}
  /\ UNCHANGED <<batchVars, timerfdChannel, timeVars, loopPc, pending, userPc, canceled>>

CancelHere(id) ==
  /\ InUserCode
  /\ CancelInLoop(id)
  /\ UNCHANGED <<numCreated, callingExpiredTimers, expired, toRun, now, timerfdChannel,
                 timeVars, loopPc, pending, userVars>>

\* On another thread: new Timer,
UserCreates(u, p, when, interval) ==
  /\ loopPc # "gone" /\ userPc[u] = <<"idle">>
  /\ userPc' = [userPc EXCEPT ![u] = <<"new", p>>]
  /\ Create(p, when, interval)
  /\ UNCHANGED <<sets, batchVars, timerfd, timerfdChannel, timeVars, loopPc, pending, ids,
                 canceled>>

\* the push of addTimerInLoop,
UserAdds(u, p) ==
  /\ userPc[u] = <<"new", p>> /\ Len(pending) < MaxPending
  /\ userPc' = [userPc EXCEPT ![u] = <<"pushed", p>>]
  /\ pending' = Append(pending, [op |-> "add", pointer |-> p])
  /\ UNCHANGED <<object, numCreated, sets, batchVars, timerfd, timerfdChannel, timeVars,
                 loopPc, ids, canceled>>

\* and timer->sequence(), of whatever is at that address by then: the Timer, a
\* younger Timer, or freed memory, which may hold anything.
UserGetsId(u, p) ==
  /\ userPc[u] = <<"pushed", p>>
  /\ userPc' = [userPc EXCEPT ![u] = <<"idle">>]
  /\ \E s \in IF Live(p) THEN {object[p].sequence} ELSE 0..MaxTimers :
       ids' = ids \cup {<<p, s>>}
  /\ UNCHANGED <<object, numCreated, sets, batchVars, timerfd, timerfdChannel, timeVars,
                 loopPc, pending, canceled>>

UserCancels(u, id) ==
  /\ loopPc # "gone" /\ userPc[u] = <<"idle">> /\ Len(pending) < MaxPending
  /\ pending' = Append(pending, [op |-> "cancel", pointer |-> id[1], sequence |-> id[2]])
  /\ UNCHANGED <<object, numCreated, sets, batchVars, timerfd, timerfdChannel, timeVars,
                 loopPc, userVars, canceled>>
-----------------------------------------------------------------------------
(***************************************************************************)
(* Time (external)                                                         *)
(***************************************************************************)

\* The monotonic clock goes on; the timerfd becomes readable when nothing is left.
Tick ==
  /\ clock < MaxTime \/ timerfd.left > 0
  /\ clock' = IF clock < MaxTime THEN clock + 1 ELSE clock
  /\ timerfd' = [left |-> IF timerfd.left > 0 THEN timerfd.left - 1 ELSE 0,
                 readable |-> timerfd.readable \/ timerfd.left = 1]
  /\ UNCHANGED <<object, numCreated, sets, batchVars, timerfdChannel, jumps, loopPc, pending,
                 userVars, canceled>>

\* Somebody sets the system clock.
ClockJumps(t) ==
  /\ jumps < MaxJumps
  /\ jumps' = jumps + 1
  /\ clock' = t
  /\ UNCHANGED <<object, numCreated, sets, batchVars, timerfd, timerfdChannel, loopPc, pending,
                 userVars, canceled>>
-----------------------------------------------------------------------------
LoopSteps == PollReports \/ HandleRead \/ RunTimer \/ CallbackReturns \/ Reset

LoopUser ==
  \/ \E p \in Pointers, w \in Whens, i \in Intervals : AddTimerHere(p, w, i)
  \/ \E id \in ids : CancelHere(id)

OtherThread(u) ==
  \/ \E p \in Pointers :
       \/ \E w \in Whens, i \in Intervals : UserCreates(u, p, w, i)
       \/ UserAdds(u, p) \/ UserGetsId(u, p)
  \/ \E id \in ids : UserCancels(u, id)

Next ==
  \/ LoopSteps \/ RunFunctor \/ Destroy
  \/ LoopUser
  \/ \E u \in Users : OtherThread(u)
  \/ Tick \/ \E t \in 1..MaxTime : ClockJumps(t)

(***************************************************************************)
(* Time goes on, the loop polls, handlers and callbacks return, and a      *)
(* thread inside addTimer goes on.  After every poll the loop calls the    *)
(* functors, so that they cannot be put off by the timerfd for ever.       *)
(***************************************************************************)
Fairness ==
  /\ WF_vars(Tick)
  /\ WF_vars(LoopSteps)
  /\ SF_vars(RunFunctor)
  /\ \A u \in Users, p \in Pointers : WF_vars(UserAdds(u, p))

Spec == Init /\ [][Next]_vars /\ Fairness
-----------------------------------------------------------------------------
(***************************************************************************)
(* Properties                                                              *)
(***************************************************************************)

\* timers_ and activeTimers_ hold the same Timers, and an entry's key is the
\* expiration of its Timer, so that find, erase and the asserts on sizes and on
\* n == 1 hold whatever callbacks add and cancel.
BooksAgree ==
  /\ timers = {<<object[a[1]].expiration, a[1]>> : a \in activeTimers}
  /\ \A a \in activeTimers : a = Id(a[1]) /\ Live(a[1])

\* Where a Timer is: with its user, in a queued functor, in timers_, in the batch.
WithUser(u, p) == userPc[u] = <<"new", p>>
Queued(i, p) == pending[i] = [op |-> "add", pointer |-> p]
Scheduled(p) == \E e \in timers : e[2] = p
InBatch(p) == \E e \in expired : e[2] = p

\* A Timer is in one place at a time, so it is inserted, run and deleted by one
\* owner: nothing is deleted twice, no deleted Timer is run, restarted or
\* inserted, and while the queue exists none is leaked.
OwnedOnce ==
  \A p \in Pointers :
    /\ Live(p) /\ loopPc # "gone" =>
         \/ Scheduled(p) \/ InBatch(p)
         \/ \E u \in Users : WithUser(u, p)
         \/ \E i \in DOMAIN pending : Queued(i, p)
    /\ Scheduled(p) => Live(p) /\ ~InBatch(p)
    /\ InBatch(p) => Live(p)
    /\ \A i \in DOMAIN pending :
         Queued(i, p) => /\ Live(p) /\ ~Scheduled(p) /\ ~InBatch(p)
                         /\ \A j \in DOMAIN pending : Queued(j, p) => i = j
    /\ \A u \in Users :
         WithUser(u, p) => /\ Live(p) /\ ~Scheduled(p) /\ ~InBatch(p)
                           /\ \A i \in DOMAIN pending : ~Queued(i, p)
                           /\ \A v \in Users : WithUser(v, p) => u = v

\* A cancel that finds its timer ends it: it is deleted at once, or, when it is
\* in the batch that is being called (its own callback may be the one that
\* cancels), at the end of that batch, repeating or not.
CanceledIsGone ==
  \A p \in Pointers :
    Live(p) /\ object[p].sequence \in canceled => InBatch(p) /\ Id(p) \in cancelingTimers

\* The timerfd will be readable in d ticks at the latest.
WakesWithin(d) == timerfd.readable \/ (timerfd.left > 0 /\ timerfd.left <= d)

\* Whenever timers wait and the loop may block, the timerfd is armed, after any
\* series of insertions, cancellations and batches; as long as nobody sets the
\* system clock it fires no later than the earliest timer, or MinDelay.
EarliestIsArmed ==
  loopPc \in {"idle", "reported"} =>
    \A e \in timers :
      /\ timerfd.readable \/ timerfd.left > 0
      /\ jumps = 0 => WakesWithin(IF e[1] > clock + MinDelay THEN e[1] - clock ELSE MinDelay)

(***************************************************************************)
(* Why they hold: the batch exists between handleRead and reset, while     *)
(* callingExpiredTimers_ is up; sequences are not used again; and a timer  *)
(* with an invalid expiration, for which reset does not arm the timerfd,   *)
(* was added in this batch and has armed it.                               *)
(***************************************************************************)
InHandleRead == loopPc \in {"batch", "user"}

Phases ==
  /\ callingExpiredTimers <=> InHandleRead
  /\ ~InHandleRead => expired = {} /\ toRun = {}
  /\ loopPc = "gone" => timers = {} /\ \A u \in Users : userPc[u] = <<"idle">>

Numbered ==
  /\ \A p \in Pointers : object[p].sequence <= numCreated
  /\ \A s \in canceled : s <= numCreated
  /\ \A p, q \in Pointers : Live(p) /\ object[p].sequence = object[q].sequence => p = q

InvalidIsArmed ==
  InHandleRead => \A e \in timers : e[1] = 0 => WakesWithin(MinDelay)

\* The inductive invariant of the queue, its loop and its users.
TimerInvariant ==
  /\ TypeOK /\ Phases /\ Numbered /\ BooksAgree /\ OwnedOnce /\ CanceledIsGone
  /\ EarliestIsArmed /\ InvalidIsArmed

\* The Timer at p is due.
Due(p) == Live(p) /\ object[p].expiration <= clock

\* A Timer that is due, added by whichever thread, is deleted or restarted in the
\* end, unless the clock is set back or the queue destroyed.
DueTimersAreServed ==
  \A p \in Pointers : Due(p) ~> (~Due(p) \/ loopPc = "gone")

\* Not true of the code: addTimer returns a unique TimerId, as its comment says.
\* Another thread reads the sequence after it has handed the Timer over: the loop
\* may have run and deleted it, and a younger Timer, whose TimerId somebody else
\* has, may have taken its address.
IdsAreUnique ==
  [][\A u \in Users, p \in Pointers : UserGetsId(u, p) /\ Live(p) => ids' # ids]_vars
=============================================================================
