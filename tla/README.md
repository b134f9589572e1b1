# MuduoLite in TLA+

MuduoLite is a small C++ network library in the style of muduo: a `TcpServer`
accepts connections on a main event loop and hands each one to one of several io
threads, every one of which runs an `EventLoop` over epoll. This directory holds
TLA+ models of its core, the TLC configurations that check them on small
instances, and TLAPS proofs of what matters most for every instance. Paths below
are relative to the repository's root, whose sources are in `src/` and `include/`.

## 1. The system

| Component | State | Operations | Interacts with |
|---|---|---|---|
| `EventLoop` | `looping_`, `quit_`, `callingPendingFunctors_`, `pendingFunctors_` (mutex), `wakeupFd_`, `activeChannels_` | `loop`, `quit`, `runInLoop`, `queueInLoop`, `wakeup`, `handleRead`, `doPendingFunctors` | called by any thread; owns a `Poller`; calls channels and functors |
| `EPollPoller` | `channels_`, the kernel's interest list, `events_` | `poll`, `updateChannel`, `removeChannel` | one loop's thread only |
| `Channel` | `events_`, `revents_`, `index_`, `tie_` | enable/disable, `remove`, `handleEvent` | `EventLoop`, `EPollPoller`; calls its owner's handlers |
| `EventLoopThread`, `Thread` | `loop_` (mutex, condition), `exiting_`, the thread | `startLoop`, destructor, `threadFunc` | owner's thread and new thread |
| `TcpConnection` | `state_` (atomic), `channel_`, `socket_`, two `Buffer`s | `send`, `shutdown`, `sendFile` (any thread), `handleRead/Write/Close/Error`, `connectEstablished`, `connectDestroyed` | its io loop, `TcpServer`, user callbacks, the peer |
| `Buffer` | `buffer_`, `readerIndex_`, `writerIndex_` | `append`, `retrieve`, `retrieveAsString`, `readFd`, `writeFd` | `TcpConnection` |
| `TcpServer` | `connections_`, `started_`, `nextConnId_` | `start`, `newConnection`, `removeConnection(InLoop)`, destructor | main loop, thread pool, connections |
| `Acceptor` | listening socket and channel | `listen`, `handleRead` | main loop, `TcpServer` |
| `EventLoopThreadPool`, `ConsistentHash` | threads, hash ring | `start`, `getNextLoop`; `addNode`, `removeNode`, `getNode` | `TcpServer` |
| `TimerQueue` | `timers_`, `activeTimers_`, `cancelingTimers_`, timerfd | `addTimer`, `cancel`, `handleRead` | one loop; nothing creates one yet |
| `Socket`, `InetAddress`, `Logger`, `Timestamp`, `CurrentThread` | descriptors, addresses, clocks | system calls, formatting | everyone |

What is hard here is concurrency and order. Threads meet in `pendingFunctors_`
(under a mutex), in three atomic flags and in `state_`; the wakeup of a loop is a
write that follows the push in a step of its own; functors run long after the
state in which they were queued; the kernel reports events that a handler of the
same round may have made stale; and two loops and the server's destructor take a
connection apart together. What makes the components correct:

- **EventLoop** - no functor and no `quit()` is lost between a push, the write to
  the eventfd, its read and the swap; functors run in order, once.
- **EventLoopThread** - the start handshake and the destructor terminate; nobody
  uses the loop or the object after its end.
- **Channel and EPollPoller** - the library's idea of what is registered is the
  kernel's, or `epoll_ctl` fails and `LOG_FATAL` ends the process.
- **TcpConnection** - the byte stream is intact through partial writes; EPOLLOUT
  is on exactly while there is output; shutdown waits for the output; the
  connection ends, once, whoever ends it.
- **Buffer** - it is a byte queue, inside its vector, of bounded size.
- **TcpServer, Acceptor, EventLoopThreadPool** - a descriptor is not given to a new
  connection while a poller still knows the old one; a connection ends once,
  whether its peer or the destructor ends it; the threads end before what they call
  back into does; clients of one address meet one loop.
- **ConsistentHash** - `getNode` is the next node on the circle, and keys move only
  to a node that is added or away from one that is removed.
- **TimerQueue** - a `Timer` has one owner; a cancelled timer does not come back; the
  timerfd is armed for the earliest timer whatever callbacks add and cancel.

`PROJECT.json` lists the hazards line by line with the properties that watch them.

## 2. Modules

| Module | What it is |
|---|---|
| `FunctorQueue` | abstract: what `runInLoop` and `queueInLoop` promise |
| `EventLoop` | one loop, its thread and any number of calling threads |
| `EventLoopProof` | type correctness, the inductive invariant, refinement of `FunctorQueue` |
| `EventLoopThread` | `EventLoop` inside the thread that creates, publishes, runs and destroys it, with the owner's `startLoop` and destructor |
| `EventLoopThreadProof` | its inductive invariant and the lifetime of the object |
| `Channel` | pure operators: a channel with its registration, and what the setters, `updateChannel`, `removeChannel` and `handleEventWithGuard` make of it |
| `TcpConnection` | one connection with its loop, users, server, kernel and peer; uses `Channel` |
| `CommonLemmas` | lemmas about channels and queues of functors, for the proofs of `TcpConnection` and `TcpServer` |
| `TcpConnectionProof` | registration, byte stream, types, the end of a connection, output and FIN |
| `ByteQueue` | abstract: what a `Buffer` promises |
| `Buffer` | the vector and its two indices, byte by byte |
| `BufferProof` | indices, refinement of `ByteQueue`, bounded size |
| `ConsistentHash` | the ring, for any hash function |
| `ConsistentHashProof` | what the ring's operations compute, its invariant, and that keys stay |
| `TcpServer` | server, acceptor, pool, loops and several connections over reused descriptors; uses `Channel` and the ring of `ConsistentHash` |
| `TcpServerProof` | its inductive invariant and every safety property; uses the lemmas of `ConsistentHashProof` |
| `TimerQueue` | timers, the timerfd and both clocks, with the loop and other threads; uses `Channel` |
| `TimerQueueProof` | its inductive invariant and the properties that follow from it |
| `MC*` | one per specification, for TLC |

An operator under the comment "Mutant" is a plausible wrong version of the
definition that follows it. It is used nowhere in the specification; TLC is run
with it in place of the original to see that a property notices.

### EventLoop

Every member is a variable of the same name; `functors` is the local vector of
`doPendingFunctors`, `loopPc` and `callerPc` say where the threads are. The push
under the mutex and the swap under the mutex are atomic; the store to `quit_`, the
write to `wakeupFd_`, each handler, each functor and each test are steps of their
own. The eventfd is a Boolean (its counter is zero or not; a read zeroes it).
`PollReturns(ready)` returns any set of channels, and wakeupFd_ only if it is
readable; it may leave it out even then, as a full event list would. User code on
the loop's thread (`InUserCode`) is a handler, a functor, or code outside `loop()`,
and may call `queueInLoop`, `runInLoop` and `quit`.

### EventLoopThread

`StartLoop` and `WaitForLoop` are `startLoop`; the condition variable is the pair
"waiting" (holds the mutex and tests) and "asleep" (until `Publish` notifies).
`Destroy`, `DestroyQuit`, `DestroyWakeup` and `Join` are the destructor, each a step
because it does not hold the mutex. The destructor is called when no other thread is
inside a call on the loop and after `startLoop` returned; only the destructor quits
the loop, as in the repository.

### Channel and TcpConnection

A channel is a record of `events_`, `index_`, its presence in `channels_`, and the
kernel's interest list entry. `EpollAdd` and `EpollMod` set `fatal` where
`epoll_ctl` would fail.

In `TcpConnection` a handler is one step up to the user callback that it makes;
`loopPc = "user"` is the time inside the callback, in which user code calls `send`,
`shutdown` and `sendFile`, and `CallbackReturns` is the rest of the handler
(`closeCallback_`, or the removal at the end of `connectDestroyed`). `todo` holds
the callbacks of `handleEventWithGuard` still to be made, so that one poll may
report hang-up, error, input and output at once. Calls from other threads
are the test of `state_`, the store (in `shutdown`), and the push, as separate
steps. The kernel's socket is external: data unread, FIN or RST received,
a pending `SO_ERROR`, the write end; `write` and `sendfile` take any part of
the data, or fail once the write end is shut or an RST was received. The server
is the record of whether it exists, whether it holds the connection, how many
`removeConnectionInLoop` are queued on the main loop, and whether it has told the io
loop to quit. The server's end is two steps, `DestroyServer` (the body of
`~TcpServer`) and `QuitLoop` (`~EventLoopThread`, when `threadPool_` is destroyed);
the loop tests `quit_` after a batch (`BatchDone`) and leaves, with what was queued
since the swap dropped, `connectDestroyed` included. `Init` is the state after
`newConnection`. The io loop is never the main loop: with no io threads the
consistent hash throws (`pool_without_threads`), so `runInLoop` from
`newConnection` always queues.

Abstractions: a message is `MsgLen` units and a file `FileLen` units, the input is
"some unread data"; EPOLLPRI, `SO_ERROR`'s value, names and addresses are left out;
both optional callbacks are set (an empty one differs by a functor that does
nothing). User threads keep the `TcpConnectionPtr` and the string that they pass to
`send` until its functor has run, and make no step of a call after the io loop is
gone (`loop_` would dangle). The io loop is inside `loop()` when the connection is
made; a `quit()` before that is the subject of `EventLoopThread`. The steps of
`quit()` itself (store and wakeup) are in `EventLoop`. A stopped connection is
the end of its behaviours, so its configurations do not check for deadlock.

### Buffer

`bytes[i + 1]` is `buffer_[i]`. Each method is an operator on the record of vector
and indices; `Overwrite` and `Resize` are `std::copy` and `vector::resize`. The step
`DoReadFd` is `readv` into the writable bytes and, when they are fewer than
`extrabuf`, into that, followed by `append`. `retrieve` may be called with more than
there is (it empties the buffer); `retrieveAsString` with at most what is readable.

### ConsistentHash

`circle` is the map, `sortedHashes` the sorted vector. `AddNode` and `RemoveNode` go
through the replicas in order, inserting at `lower_bound` and erasing one occurrence
of the hash; `GetNode` is `upper_bound` with the wrap, and looks the hash up in
`circle` with `operator[]`'s empty name where there is none. A string is the hash it
has; the hash function is any function, chosen in `RingInit`, so collisions occur.

### TcpServer

The loops are numbered: `Main` is 0 and the threads of the pool are 1 to
`NumThreads`, and all of them take the same steps (`EnterLoop`, `Polls`, `Handles`,
`SwapFunctors`, `Calls`, `LeavesLoop`), with a queue of functors each. A functor is an
operation and a connection. `Start` is called by the main thread before `loop()` or
by another thread; it starts the threads one at a time, adds each to the ring and
has the main loop listen; `started_` keeps later calls out.
A connection is a shared object: `Alive(c)` says that `connections_` or a queued
functor holds it, and `accept` returns the lowest descriptor that no living
connection has. `accept` may fail at any time, and then either the peer is gone or
it waits on, because the process has no descriptor left for it. The server is destroyed after the main loop has
left `loop()` and before that loop is destroyed; the destructor's body, the threads
in order (quit, then join), the acceptor and the main loop are separate
steps, with the io loops running in between. A functor that is still queued when
a loop is destroyed is dropped and lets go of its connection (`dropped` remembers
a lost `connectDestroyed`).

A connection is reduced to what the server sees: established, shut down by a user
(`Shutdown`, kDisconnecting), closed by its peer, destroyed. As in the code,
`connectDestroyed` calls back and disables the channel only in kConnected. `Shutdown`
is the store to `state_`, at any time after the connection was established: in a
callback, or late, on a thread that had tested `state_` before the close. The functor
that it queues touches the socket only. `send` is in `TcpConnection` only. The
weak pointer of `tie` is left out: `PollersHoldTheLiving` shows that a channel in a
poller always belongs to a living connection.

### TimerQueue

`object` maps addresses to `Timer` objects and `Free`, since the sets of the queue
are ordered and compared by address and the allocator uses addresses again.
`addTimer` on another thread is three steps: the `Timer` is made, its functor is
pushed, and its sequence is read for the `TimerId`, by which time the loop may have
deleted it. `HandleRead` reads the timerfd and takes the batch, `RunTimer` calls
one callback, `CallbackReturns` ends it, `Reset` restarts or deletes; inside a
callback, and in other handlers, user code adds and cancels (`AddTimerHere`,
`CancelHere`). The timerfd counts ticks of the monotonic clock, and `clock` is the
system clock that `Timestamp::now()` reads, which may be set forwards or back
(`ClockJumps`). `MinDelay` is the 100 microseconds of `howMuchTimeFromNow`. The
queue is destroyed on its loop's thread outside callbacks.

## 3. Runs

| Run | Shows | Distinct states |
|---|---|---|
| `loop` | `LoopInvariant`, `NoStrandedFunctor`, `NoMissedQuit`, `ImplementsFunctorQueue`, `QueuedFunctorsRun`, `QuitLeavesLoop` with two callers | 25 thousand |
| `thread_lifetime` | `ThreadInvariant`, `ThreadOutlivedByObject`, `StartLoopReturns`, `LateQuitJoins` | 9 thousand |
| `connection_loop` | `ClosedIsUnregistered`, `WritingIffBuffered`, `StreamIntact`, `EndsOnce`, `DisconnectedIsFinal`, `FinAfterData`, for users on the loop's thread only | 112 thousand |
| `connection_liveness` | `ConnectionEnds`, `ShutdownSendsFin`, with `sendFile` and another thread's `shutdown` | 261 thousand |
| `connection_threads` | `TypeOK`, `RegistrationAgrees`, `StreamIntact` with another thread calling everything | 1.3 million |
| `buffer` | `IndicesInOrder`, `SizeBounded`, `ImplementsByteQueue` | 103 thousand |
| `timers` | `TimerInvariant`, `OwnedOnce`, `CanceledIsGone`, `EarliestIsArmed`, `DueTimersAreServed` | 259 thousand |
| `server` | `PollersHoldTheLiving`, `RegistrationsAgree`, `SamePeerSameLoop`, `EachEndsOnce`, `NothingOutlives`, `ClosedAreReleased`, `DestructorEnds` and types | 303 thousand |
| `ring` | `RingBooksAgree`, `GetNodeIsNext`, `KeysStay` for every hash function | 210 thousand |

Runs that end in a counterexample, because the code does not do what a comment of
its own says (`PROJECT.json`, findings):

| Run | Property | Behaviour |
|---|---|---|
| `thread_destructor_hangs` | `DestructorReturns` | `quit()` before `loop()` is overwritten, `join()` waits for ever |
| `timer_id_reused` | `IdsAreUnique` | a `Timer` is run and deleted, and its address used again, before `addTimer` reads its sequence |
| `pool_without_threads` | `PoolServes` | with no io threads `getNode` throws when the first peer connects |

Other limits of the code have no run of their own. Where a property would meet one,
it is written into the property:

- An early functor (queued by the loop's thread before `loop()`) does not wake the
  first poll, so `NoStrandedFunctor` leaves it out; a functor queued after the last
  swap is dropped when the loop quits, so `QueuedFunctorsRun` stops at the loop's
  end, and `EachEndsOnce` asks for a balance of callbacks only where
  `connectDestroyed` was not dropped. For the same reason `ConnectionEnds` asks for
  the removal of the channel only while the server lives, and after its end for the
  end of the io loop.
- `connectDestroyed` of a connection in kDisconnecting calls back nobody
  (`src/TcpConnection.cc:179`): a connection that was shut down and is then destroyed
  with the server is never reported down. `EachEndsOnce` names this case beside the
  dropped functor, and `EndsOnce` states the balance while the server lives.
- `~EventLoopThread` uses `loop_` without the mutex: the loop may end, and be
  destroyed, between its store to `quit_` and its `wakeup()`
  (`src/EventLoopThread.cc:20`). `ThreadOutlivedByObject` and `ThreadInvariant` are
  about the thread, the object and the value of `loop_`; this last use of the loop is
  outside the models. A `quit()` before `loop()` is
  overwritten, so `LateQuitJoins` and `DestructorEnds` start from loops that run.
- `shutdown()` on another thread may store kDisconnecting over kDisconnected, and a
  shutdown on the loop's thread overtakes another thread's queued send, so
  `DisconnectedIsFinal` and `FinAfterData` are checked for users on the loop's
  thread; `connection_liveness` shows that the connection is removed in spite of
  the former race.
- `sendInLoop` on a kDisconnected connection logs "give up writing" and goes on
  (`src/TcpConnection.cc:89`): the bytes count as handed over in `StreamIntact`, and it
  may register the channel again, so `EndsOnce` and `ClosedIsUnregistered` are about
  connections to which no other thread sends.
- `shutdownInLoop` waits for `outputBuffer_` only, so it cuts off a file that
  `sendFile` is still sending, and `sendFileInLoop` tests for kDisconnecting and
  queues itself again, until the loop ends, on a connection that is closed with a file
  unsent (`src/TcpConnection.cc:292`): `FinAfterData` is about `send`, and
  `ConnectionEnds` shows that connection and loop end in spite of it.
- A write to a socket that the peer has reset fails with an error in the model; the
  repository does not handle SIGPIPE, which ends the process unless the application
  ignores it.
- `Timer` objects in functors that never run are leaked with the queue, so
  `OwnedOnce` asks for an owner only while the queue exists. After the system clock
  was set, the timerfd may be late by the difference: `EarliestIsArmed` then says
  only that it is armed.
- `removeNode` of a node whose hash collides takes the other node's entry out of
  `circle_`; `KeysStay`, `GetNodeIsNext` and `RingBooksAgree` ask for distinct
  hashes where a removal or an exact lookup is concerned. Nothing in the repository
  calls `removeNode`.

Bounds. `MaxPosts` (functors per thread) is 1: two callers and the loop's thread
give three functors, so that one can be pushed while another is in the batch and a
third is between push and write. `MaxSends` is 3 with `MsgLen` 2
where only the loop sends (a partial write, a buffered rest and a later message), 1
where other threads and files add their interleavings. `HighWaterMark` 3 is crossed
by the second message. `FileLen` is 2, so that a file is sent in parts, and 1 in
`connection_liveness`, where what matters is that its functor fails and is queued
again. The small buffer has one prepend byte, three initial bytes,
a stack block of two and up to five waiting bytes: both branches of `makeSpace`,
full and empty boundaries and the stack block all occur. Two addresses and two timers, one-shot or
repeating, with expirations 0 and 3 on a clock that runs from 1 to 3 and is set once, give
batches of two, callbacks that cancel themselves and each other, and an address
used again. Two threads, two descriptors and two connections let a connection be
accepted before or after the descriptor of a closed one is free again, and the
destructor meet both, in any phase, on different loops; the two peers hash to different
threads, and users call `shutdown` on the connections of one of them, so that the
destructor meets connections with and without it. Three nodes with two replicas on six hashes give full rings,
wraps and collisions; symmetry of the nodes is used there only, in a run without
liveness properties.

Fairness. Threads that are not blocked are scheduled, handlers and functors return,
and `epoll_wait` returns when the eventfd is readable (weak fairness). The
`EventLoop` models assume nothing of the poll timeout and of other I/O, so what they
show does not wait for the 10 s. In `TcpConnection`, `epoll_wait` returns
sooner or later, a channel that is ready again and again is reported in the end
(epoll rotates its ready list, and the event list doubles when it is full), and a
peer that stays makes the socket writable again and again (strong fairness). No
fairness is assumed of users, of the peer's sends or of its close, and none of the
server's end; once `~TcpServer` has begun it goes on to quit the io loop (weak fairness
of `QuitLoop`).
In `TimerQueue` time goes on, the loop polls and its handlers return (weak
fairness), and since every poll is followed by the functors, a timerfd that is
always readable does not keep them away (strong fairness of `RunFunctor`). In
`TcpServer` every loop and the thread in the destructor go on (weak), and a poll
that reports all that is ready happens again and again (strong: with more ready
than the list holds, epoll rotates). Nothing is assumed of peers, of those who
call `start()` or `shutdown()` and of the end of the main loop.

## 4. Proofs

All for any number of threads, functors, messages, and any sizes.

- `EventLoopProof`. `NoStrandedFunctor` is not inductive: whether a functor that is
  queued now will be noticed depends on where the loop is. `LoopInvariant`
  strengthens it: the flag `callingPendingFunctors_` is up exactly while a batch is
  called (`FlagMeaning`), a batch is empty outside (`BatchLocal`), and everywhere
  except between the return of poll and the swap a functor that is not early has a
  wakeup coming (`Covered`). `Numbered` (functors are distinct) is what the
  refinement needs. Results: `TypeCorrect`, `InvariantHolds`,
  `FunctorsNotStranded`, `QuitNotMissed`, `LoopImplementsFunctorQueue`.
- `EventLoopThreadProof`. `ThreadOutlivedByObject` needs that the destructor never
  finds `loop_` null while the thread runs: the pointer is set exactly while the loop
  is published or runs, the loop leaves only when `quit_` is set, and only the
  destructor sets it (`PointerValid`, `LeavesWhenAsked`, `Lifetimes`). Results:
  `ThreadInvariantHolds`, `ObjectOutlivesThread`.
- `TcpConnectionProof`, without a hypothesis on the users: `RegistrationCorrect`
  (`updateChannel` and `removeChannel` keep a channel's registration in order from
  any state that is in order, and every step changes the channel through them only),
  `StreamCorrect` (what the kernel has taken followed by `outputBuffer_` is what was
  handed over; data is written directly only when nothing waits, and what is written
  leaves the front of the buffer) and `TypeCorrect`.
  The other properties are false for some users (section 3), and each theorem leaves
  out only calls that break it: for every one of them TLC finds a counterexample.
  - `EndsOnceCorrect` and `ClosedCorrect` ask for no `send` from other threads
    (`shutdown` and `sendFile` may come from anywhere): a queued `sendInLoop` enables
    writing on a closed channel again, so that the connection ends a second time. `FrontInv`
    says that `connectEstablished` is the first functor and that nothing happens to the
    connection before it. `LifeInv` adds how far the connection has come (`Ended`) and
    that there is one right to end it (`Tokens`): its place in `connections_`, then one
    queued `connectDestroyed`, then the one that runs; or none any more, when the loop has
    ended with it.
  - `WritingCorrect` and `FinalCorrect` ask for no `shutdown` from other threads, whose
    store of kDisconnecting may come after the close (`WriteInv`); `send` may come from
    anywhere.
  - `FinCorrect` asks for users on the loop's thread that do not send files (`FinInv`): the
    FIN overtakes a queued half of `send` or `sendFile`, and another thread's
    `shutdownInLoop` sends it on a connection that was closed with output waiting.

  No theorem has a hypothesis that the runs do not meet: `connection_loop` has all of them,
  and `connection_liveness` and `connection_threads` show the steps of other threads.
- `ConsistentHashProof`. The loops of `addNode` and `removeNode` are recursive functions
  over the replicas. The library's induction theorems cannot be used here, so
  `LeastNumber` and `UpTo` restate induction for a *set* of numbers; `Iteration` shows
  that such a function exists, and `InsertAllEffect` and `EraseAllEffect` what it
  computes: a sorted list with one more, or one less, occurrence of each hash.
  `FoundIsNearest` is the binary search with its wrap. `RingInv` then says that the list
  is sorted and covers `circle_`, and that without collisions it holds every hash of a
  member once (`Owned`), which `RingBooksAgree` alone does not say of `circle_`.
  Results: `RingBooksCorrect`, `GetNodeCorrect`, `KeysStayCorrect`.
- `TcpServerProof`. None of the server's properties is inductive: whether
  `connectDestroyed` can run twice depends on what waits in the queues of two loops, on
  who still holds the connection, and on how far the destructor has come. `ServerInv`
  says all of it: the ring is that of the threads started so far, and not empty when
  there is one (`Pool`); threads, main loop and destructor are in phases that go
  together (`Phases`, `Stages`); a functor
  waits only at the loop it is for (`Places`), at most once and with `connectEstablished`
  before `connectDestroyed` (`Orders`); nobody is accepted before the pool is complete,
  and the loop of a connection is the one that the ring gives for its peer (`Served`);
  a connection's state tells which callbacks were made and whether it is registered
  (`StateOf`), and its end is with `connections_`, with a functor, done, or dropped with
  the loop (`TokenOf`); a channel to be handled is that of a connection of this
  loop that is registered, in kDisconnecting too (`Actives`); channels agree with the kernel (`Channels`); and connections
  that exist have different descriptors (`Descriptors`). The frame lemmas
  (`RingFrame` ... `PcFrame`) say which steps can change a variable, so that each
  conjunct is argued over those steps only. TLC finds every conjunct to hold on the
  instance of run `server`. Results: `ServerInvCorrect`, `TypeCorrect`,
  `RegistrationsCorrect`, `SamePeerCorrect`, `EachEndsOnceCorrect`,
  `NothingOutlivesCorrect`, `PollersCorrect`, for any number of threads (none
  included), any hash function, peers, descriptors and connections.
- `BufferProof`. Each operator is shown to keep the order of the indices and to
  change the readable bytes as the queue does (`GrowCorrect`, `CompactCorrect`,
  `StoreCorrect`, `AppendCorrect`, `ReceiveCorrect`, `RetrieveCorrect`). Results:
  `IndicesCorrect`, `BufferImplementsByteQueue`, `SizeStaysBounded`.
- `TimerQueueProof`. `EarliestIsArmed` and `OwnedOnce` hold between callbacks only
  because of what the batch is in the meantime. `TimerInvariant` adds: the batch
  exists exactly while `callingExpiredTimers_` is up (`Phases`); sequences are not
  used again, so a TimerId of an old timer never finds a new one at its address
  (`Numbered`); both sets hold the same timers under their own expirations
  (`BooksAgree`); and, because `reset` does not arm for an earliest expiration of 0,
  that such a timer was added in this batch and armed the timerfd then
  (`InvalidIsArmed`; a restarted timer's expiration is positive). Results:
  `TimerInvariantHolds`, `OwnedOnceHolds`, `CanceledIsGoneHolds`,
  `EarliestIsArmedHolds`.

The assumptions are those named in the modules: the loop's thread is not one of the
callers, the owner is one of them, bounds and sizes are natural numbers, messages
and files are not empty, byte 0 exists and data are sequences of bytes; addresses,
expirations and intervals are natural numbers, and the minimal delay and the end of
time are positive; the hash functions give numbers up to `MaxHash`, there is at least
one replica, and the empty name is that of no node.

Only model-checked: the properties under fairness (`QueuedFunctorsRun`,
`QuitLeavesLoop`, `StartLoopReturns`, `LateQuitJoins`, `ConnectionEnds`,
`ShutdownSendsFin`, `DueTimersAreServed`, `ClosedAreReleased`, `DestructorEnds`), which
are out of the prover's reach. Every invariant, action property and refinement that a
run checks is stated by a theorem.

## 5. Not modelled, and what is left

Left to prove: that a connection of `TcpServer` is an abstraction of the one in
`TcpConnection`, which are two readings of the same code so far; and the safety
half of the liveness properties, such as that a step that has to happen is never
disabled for good.

Not modelled, with the reason:

- `Logger`, `InetAddress`, `Callbacks.h`, the class traits, `Timestamp::toString`:
  formatting, conversions and declarations without state. That `LOG_FATAL` ends the
  process is in `Channel`.
- Socket options, `bind`, the constructor's descriptors: system calls whose results
  the program does not keep.
- The raw pointers that cross-thread functors bind (the connection in `send`, the
  caller's string): lifetimes that the abstraction of the data does not carry; they
  are listed as hazards.
- A server that is destroyed inside a callback of one of its loops, or while its
  main loop runs: nothing in the repository does either, and the first would make
  a thread join itself.
- `sendfile` of a file that is shorter than the requested count, and the doubling of
  `EPollPoller`'s event list (`poll` may report any part of what is ready).
