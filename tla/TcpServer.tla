------------------------------ MODULE TcpServer ------------------------------
(***************************************************************************)
(* A TcpServer (src/TcpServer.cc) with its Acceptor, its thread pool and   *)
(* its connections: start() on any thread, the main loop that accepts and  *)
(* removes connections, the io loops that establish, close and destroy     *)
(* them, and the destructor, which ends connections, threads and acceptor  *)
(* in the order of the members.                                            *)
(*                                                                         *)
(* A connection is what the server sees of it: it is established, a user   *)
(* may call shutdown(), its peer closes it, it is destroyed (what it sends *)
(* and receives is the subject of TcpConnection).  It is a shared object:  *)
(* it exists as long as connections_ or a functor holds it, and its        *)
(* descriptor is closed, and may be given to the next connection, when the *)
(* last of them lets go.                                                   *)
(* The server is destroyed after its main loop has left loop(), and before *)
(* that loop is destroyed.                                                 *)
(***************************************************************************)
EXTENDS Naturals, Sequences, FiniteSets, Functions, Channel

CONSTANTS NumThreads,    \* numThreads_ of the pool
          Replicas,      \* virtual nodes of a thread (3 in the pool's constructor)
          MaxHash,       \* hashes are 0..MaxHash
          NodeHash,      \* the hash function on virtual nodes,
          PeerHash,      \*   and on the addresses of peers
          Peers,         \* addresses of peers,
          ShutdownPeers, \* and those on whose connections users call shutdown()
          Fds,           \* descriptors that accept may return
          MaxConns       \* bound: peers that connect

Main == 0 \* the main loop; the others are the loops of the pool's threads
Threads == 1..NumThreads
Loops == {Main} \cup Threads
Conns == 1..MaxConns

ASSUME ServerAssumption ==
  /\ NumThreads \in Nat /\ MaxConns \in Nat
  /\ Replicas \in Nat \ {0} /\ MaxHash \in Nat
  /\ NodeHash \in [Threads \X (1..Replicas) -> 0..MaxHash]
  /\ PeerHash \in [Peers -> 0..MaxHash]
  /\ ShutdownPeers \subseteq Peers

VARIABLES started,        \* has start() been called? (is started_ positive?)
          startPc,        \* the thread whose start() is starting the pool, or "idle"
          loops,          \* loops_, threadNameToLoop_: the threads started so far
          circle,         \* hash_ of the pool: circle_
          sortedHashes,   \*   and sortedHashes_
          acceptChannel,  \* acceptChannel_ of the Acceptor (a ChannelRecord)
          backlog,        \* peers that wait in the listening socket
          arrived,        \* how many peers have connected
          connections,    \* connections_
          conn,           \* the connections made so far (see ConnRecord)
          pc,             \* where each loop's thread is
          queue,          \* pendingFunctors_ of each loop
          batch,          \* functors of doPendingFunctors,
          called,         \*   and how many of them have been called
          active,         \* activeChannels_ not yet dispatched; 0: acceptChannel_
          quit,           \* quit_ of each loop
          serverPc,       \* how far the destructor is
          joining,        \* the thread whose EventLoopThread is being destroyed
          dropped         \* history: connections whose connectDestroyed was not called

poolVars == <<started, startPc, loops, circle, sortedHashes>>
netVars == <<acceptChannel, backlog, arrived>>
connVars == <<connections, conn>>
loopVars == <<pc, queue, batch, called, active, quit>>
endVars == <<serverPc, joining, dropped>>
vars == <<poolVars, netVars, connVars, loopVars, endVars>>

hash_ == INSTANCE ConsistentHash
           WITH Nodes <- Threads, NoNode <- Main, hashFunction <- NodeHash, members <- loops

ConnRecord ==
  [state: {"kConnecting", "kConnected", "kDisconnecting", "kDisconnected"},
   peer: Peers, loop: Threads, fd: Fds,
   closed: BOOLEAN,          \* has the peer closed it?
   channel: ChannelRecord,
   ups: 0..1, downs: 0..1,   \* history: calls of connectionCallback_
   destroyed: BOOLEAN]       \* history: has connectDestroyed run?

\* nextConnId_ - 1 connections have been made.
Made == DOMAIN conn
\* The thread that calls start(): that of the main loop, or another.
Starters == {"main", "other"}
Functors == {"listen", "established", "remove", "destroyed"} \X (0..MaxConns)
LoopPcs == {"none", "published", "test", "poll", "dispatch", "batch", "left", "threw",
            "destroyed"}

TypeOK ==
  /\ started \in BOOLEAN
  /\ startPc \in {"idle"} \cup Starters
  /\ loops \subseteq Threads
  /\ acceptChannel \in ChannelRecord
  /\ backlog \in Seq(Peers) /\ arrived \in 0..MaxConns
  /\ connections \subseteq Made
  /\ conn \in Seq(ConnRecord)
  /\ pc \in [Loops -> LoopPcs]
  /\ queue \in [Loops -> Seq(Functors)]
  /\ batch \in [Loops -> Seq(Functors)]
  /\ called \in [Loops -> Nat]
  /\ active \in [Loops -> SUBSET (0..MaxConns)]
  /\ quit \in [Loops -> BOOLEAN]
  /\ serverPc \in {"alive", "connections", "threads", "join", "gone"}
  /\ joining \in 1..NumThreads + 1
  /\ dropped \subseteq Made

Init ==
  /\ started = FALSE /\ startPc = "idle"
  /\ loops = {} /\ circle = << >> /\ sortedHashes = << >>
  /\ acceptChannel = NewChannel /\ backlog = << >> /\ arrived = 0
  /\ connections = {} /\ conn = << >>
  /\ pc = [l \in Loops |-> IF l = Main THEN "published" ELSE "none"]
  /\ queue = [l \in Loops |-> << >>]
  /\ batch = [l \in Loops |-> << >>] /\ called = [l \in Loops |-> 0]
  /\ active = [l \in Loops |-> {}]
  /\ quit = [l \in Loops |-> FALSE]
  /\ serverPc = "alive" /\ joining = 1 /\ dropped = {}
-----------------------------------------------------------------------------
(***************************************************************************)
(* Who holds a connection                                                  *)
(***************************************************************************)

\* The shared pointers to c: while there is one, c exists and its fd is open. The
\* vector of doPendingFunctors holds its functors until all of them are called.
Alive(c) ==
  \/ c \in connections
  \/ \E l \in Loops : \E f \in Range(queue[l] \o batch[l]) : f[2] = c

FdsInUse == {conn[c].fd : c \in {d \in Made : Alive(d)}}

\* queueInLoop, or runInLoop from another thread.
Push(l, op, c) == queue' = [queue EXCEPT ![l] = Append(@, <<op, c>>)]
-----------------------------------------------------------------------------
(***************************************************************************)
(* TcpServer::start and EventLoopThreadPool::start                         *)
(***************************************************************************)

\* Mutant: the acceptor listens before the pool has been started.
StartListens(who) ==
  /\ serverPc = "alive"
  /\ who = "main" => pc[Main] = "published" /\ startPc # "main"
  /\ started' = TRUE
  /\ startPc' = IF started THEN startPc ELSE who
  /\ IF started THEN UNCHANGED queue ELSE Push(Main, "listen", 0)
  /\ UNCHANGED <<loops, circle, sortedHashes, netVars, connVars, pc, batch, called, active,
                 quit, endVars>>

\* The main thread calls it before loop(), the others at any time: only the first
\* call goes on.
Start(who) ==
  /\ serverPc = "alive"
  /\ who = "main" => pc[Main] = "published" /\ startPc # "main"
  /\ started' = TRUE
  /\ startPc' = IF started THEN startPc ELSE who
  /\ UNCHANGED <<loops, circle, sortedHashes, netVars, connVars, loopVars, endVars>>

\* One round of the loop in the pool's start: the thread has published its loop.
StartThread ==
  /\ startPc # "idle" /\ Cardinality(loops) < NumThreads
  /\ LET t == Cardinality(loops) + 1 IN
     /\ pc' = [pc EXCEPT ![t] = "published"]
     /\ hash_!AddNode(t)
  /\ UNCHANGED <<started, startPc, netVars, connVars, queue, batch, called, active, quit,
                 endVars>>

\* The pool is complete: runInLoop(listen), which the main thread runs at once.
StartListen ==
  /\ startPc # "idle" /\ Cardinality(loops) = NumThreads
  /\ startPc' = "idle"
  /\ IF startPc = "main"
       THEN acceptChannel' = EnableReading(acceptChannel) /\ UNCHANGED queue
       ELSE Push(Main, "listen", 0) /\ UNCHANGED acceptChannel
  /\ UNCHANGED <<started, loops, circle, sortedHashes, backlog, arrived, connVars, pc, batch,
                 called, active, quit, endVars>>
-----------------------------------------------------------------------------
(***************************************************************************)
(* Peers (external)                                                        *)
(***************************************************************************)

Listening == acceptChannel.registered

PeerConnects(peer) ==
  /\ Listening /\ arrived < MaxConns
  /\ arrived' = arrived + 1
  /\ backlog' = Append(backlog, peer)
  /\ UNCHANGED <<poolVars, acceptChannel, connVars, loopVars, endVars>>

PeerCloses(c) ==
  /\ Alive(c) /\ ~conn[c].closed
  /\ conn' = [conn EXCEPT ![c].closed = TRUE]
  /\ UNCHANGED <<poolVars, netVars, connections, loopVars, endVars>>
-----------------------------------------------------------------------------
(***************************************************************************)
(* Every loop                                                              *)
(***************************************************************************)

LoopGoes(l, from, to) == pc[l] = from /\ pc' = [pc EXCEPT ![l] = to]

\* loop() begins with quit_ = false; the main thread is done with its start() by then.
EnterLoop(l) ==
  /\ LoopGoes(l, "published", "test")
  /\ l = Main => startPc # "main"
  /\ quit' = [quit EXCEPT ![l] = FALSE]
  /\ UNCHANGED <<poolVars, netVars, connVars, queue, batch, called, active, endVars>>

\* Not yet asked to quit,
GoesOn(l) ==
  /\ LoopGoes(l, "test", "poll") /\ ~quit[l]
  /\ UNCHANGED <<poolVars, netVars, connVars, queue, batch, called, active, quit, endVars>>

\* or asked to. The loop of a thread ends with its function, and so do the functors
\* that it has not swapped out; the main loop goes on to exist.
LeavesLoop(l) ==
  /\ LoopGoes(l, "test", "left") /\ quit[l]
  /\ queue' = IF l = Main THEN queue ELSE [queue EXCEPT ![l] = << >>]
  /\ dropped' = dropped \cup {c \in Made : l # Main /\ <<"destroyed", c>> \in Range(queue[l])}
  /\ UNCHANGED <<poolVars, netVars, connVars, batch, called, active, quit, serverPc, joining>>

\* What has something to read: connections whose peer has closed, the acceptor.
Ready(l) ==
  {c \in Made : conn[c].loop = l /\ conn[c].channel.registered /\ conn[c].closed}
  \cup {c \in {0} : l = Main /\ Listening /\ backlog # << >>}

\* epoll_wait reports some of it.
Polls(l, ready) ==
  /\ LoopGoes(l, "poll", "dispatch")
  /\ active' = [active EXCEPT ![l] = ready]
  /\ UNCHANGED <<poolVars, netVars, connVars, queue, batch, called, quit, endVars>>

Handles(l, c) ==
  /\ pc[l] = "dispatch" /\ c \in active[l]
  /\ active' = [active EXCEPT ![l] = @ \ {c}]

SwapFunctors(l) ==
  /\ LoopGoes(l, "dispatch", "batch") /\ active[l] = {}
  /\ batch' = [batch EXCEPT ![l] = queue[l]]
  /\ queue' = [queue EXCEPT ![l] = << >>]
  /\ UNCHANGED <<poolVars, netVars, connVars, called, active, quit, endVars>>

\* The functor that the loop calls next is op of c.
Calls(l, op, c) ==
  /\ pc[l] = "batch" /\ called[l] < Len(batch[l]) /\ batch[l][called[l] + 1] = <<op, c>>
  /\ called' = [called EXCEPT ![l] = @ + 1]

BatchDone(l) ==
  /\ LoopGoes(l, "batch", "test") /\ called[l] = Len(batch[l])
  /\ batch' = [batch EXCEPT ![l] = << >>]
  /\ called' = [called EXCEPT ![l] = 0]
  /\ UNCHANGED <<poolVars, netVars, connVars, queue, active, quit, endVars>>
-----------------------------------------------------------------------------
(***************************************************************************)
(* The main loop                                                           *)
(***************************************************************************)

\* Acceptor::listen
Listen ==
  /\ Calls(Main, "listen", 0)
  /\ acceptChannel' = EnableReading(acceptChannel)
  /\ UNCHANGED <<poolVars, backlog, arrived, connVars, pc, queue, batch, active, quit,
                 endVars>>

\* Acceptor::handleRead, accept fails: the peer is gone; or the process has no
\* descriptor left (other parts of it have descriptors, too), and the peer waits on.
AcceptFails ==
  /\ Handles(Main, 0)
  /\ \/ backlog' = Tail(backlog)
     \/ UNCHANGED backlog
  /\ UNCHANGED <<poolVars, acceptChannel, arrived, connVars, pc, queue, batch, called, quit,
                 endVars>>

Connection(peer, l, fd) ==
  [state |-> "kConnecting", peer |-> peer, loop |-> l, fd |-> fd, closed |-> FALSE,
   channel |-> NewChannel, ups |-> 0, downs |-> 0, destroyed |-> FALSE]

\* Acceptor::handleRead and TcpServer::newConnection with getNextLoop. accept takes
\* the lowest descriptor that is free. If getNode throws, it is out of handleRead
\* and out of loop(): the process ends.
NewConnection(fd) ==
  /\ Handles(Main, 0)
  /\ fd \in Fds \ FdsInUse /\ \A other \in Fds \ FdsInUse : fd <= other
  /\ backlog' = Tail(backlog)
  /\ IF hash_!Throws
       THEN /\ pc' = [pc EXCEPT ![Main] = "threw"]
            /\ UNCHANGED <<loops, circle, sortedHashes, connVars, queue>>
       ELSE LET peer == Head(backlog)
                l == hash_!GetNode(PeerHash[peer])
                c == Len(conn) + 1
            IN /\ conn' = Append(conn, Connection(peer, l, fd))
               /\ connections' = connections \cup {c}
               /\ Push(l, "established", c)
               /\ hash_!Lookup(PeerHash[peer])
               /\ UNCHANGED pc
  /\ UNCHANGED <<started, startPc, acceptChannel, arrived, batch, called, quit, endVars>>

\* Mutant: the server does not let go of the connection.
RemoveConnectionKeeps(c) ==
  /\ Calls(Main, "remove", c)
  /\ Push(conn[c].loop, "destroyed", c)
  /\ UNCHANGED <<poolVars, netVars, connVars, pc, batch, active, quit, endVars>>

RemoveConnectionInLoop(c) ==
  /\ Calls(Main, "remove", c)
  /\ connections' = connections \ {c}
  /\ Push(conn[c].loop, "destroyed", c)
  /\ UNCHANGED <<poolVars, netVars, conn, pc, batch, active, quit, endVars>>

\* Somebody quits the main loop.
QuitMain ==
  /\ ~quit[Main] /\ serverPc = "alive"
  /\ quit' = [quit EXCEPT ![Main] = TRUE]
  /\ UNCHANGED <<poolVars, netVars, connVars, pc, queue, batch, called, active, endVars>>
-----------------------------------------------------------------------------
(***************************************************************************)
(* Connections on their io loops                                           *)
(***************************************************************************)

\* The connection's handleRead finds the end of the stream: handleClose, whose
\* closeCallback_ is removeConnection.
HandleClose(l, c) ==
  /\ Handles(l, c) /\ c # 0
  /\ conn' = [conn EXCEPT ![c].state = "kDisconnected",
                          ![c].channel = DisableAll(@),
                          ![c].downs = @ + 1]
  /\ Push(Main, "remove", c)
  /\ UNCHANGED <<poolVars, netVars, connections, pc, batch, called, quit, endVars>>

ConnectEstablished(l, c) ==
  /\ Calls(l, "established", c)
  /\ conn' = [conn EXCEPT ![c].state = "kConnected",
                          ![c].channel = EnableReading(@),
                          ![c].ups = @ + 1]
  /\ UNCHANGED <<poolVars, netVars, connections, pc, queue, batch, active, quit, endVars>>

\* TcpConnection::shutdown in a user callback, or on another thread, which may have
\* found kConnected long before it stores kDisconnecting. (The functor that it queues
\* touches the socket only, and holds no shared pointer.)
Shutdown(c) ==
  /\ conn[c].peer \in ShutdownPeers
  /\ conn[c].ups = 1 /\ conn[c].state # "kDisconnecting"
  /\ Alive(c) /\ pc[conn[c].loop] # "left"
  /\ conn' = [conn EXCEPT ![c].state = "kDisconnecting"]
  /\ UNCHANGED <<poolVars, netVars, connections, loopVars, endVars>>

\* Mutant: a connection that is closed already is not removed from the poller.
ConnectDestroyedKeeps(l, c) ==
  /\ Calls(l, "destroyed", c)
  /\ LET up == conn[c].state = "kConnected" IN
     conn' = [conn EXCEPT
       ![c].state = IF up THEN "kDisconnected" ELSE @,
       ![c].downs = IF up THEN @ + 1 ELSE @,
       ![c].channel = IF up THEN RemoveChannel(DisableAll(@)) ELSE @,
       ![c].destroyed = TRUE]
  /\ UNCHANGED <<poolVars, netVars, connections, pc, queue, batch, active, quit, endVars>>

\* Mutant: the callback comes whatever the state is.
ConnectDestroyedTwice(l, c) ==
  /\ Calls(l, "destroyed", c)
  /\ conn' = [conn EXCEPT
       ![c].state = "kDisconnected",
       ![c].downs = @ + 1,
       ![c].channel = RemoveChannel(@),
       ![c].destroyed = TRUE]
  /\ UNCHANGED <<poolVars, netVars, connections, pc, queue, batch, active, quit, endVars>>

\* connectDestroyed: in kConnected (the server is destroyed) with a callback; in
\* kDisconnecting without one, and without disableAll.
ConnectDestroyed(l, c) ==
  /\ Calls(l, "destroyed", c)
  /\ LET up == conn[c].state = "kConnected" IN
     conn' = [conn EXCEPT
       ![c].state = IF up THEN "kDisconnected" ELSE @,
       ![c].downs = IF up THEN @ + 1 ELSE @,
       ![c].channel = RemoveChannel(IF up THEN DisableAll(@) ELSE @),
       ![c].destroyed = TRUE]
  /\ UNCHANGED <<poolVars, netVars, connections, pc, queue, batch, active, quit, endVars>>
-----------------------------------------------------------------------------
(***************************************************************************)
(* The destructor, on the main thread                                      *)
(***************************************************************************)

Destroy ==
  /\ pc[Main] = "left" /\ serverPc = "alive" /\ startPc = "idle"
  /\ serverPc' = "connections"
  /\ UNCHANGED <<poolVars, netVars, connVars, loopVars, joining, dropped>>

\* One round of the loop in ~TcpServer.
DestroyConnection(c) ==
  /\ serverPc = "connections" /\ c \in connections
  /\ connections' = connections \ {c}
  /\ Push(conn[c].loop, "destroyed", c)
  /\ UNCHANGED <<poolVars, netVars, conn, pc, batch, called, active, quit, endVars>>

BodyDone == (serverPc = "connections" /\ connections = {}) \/ serverPc = "threads"

\* Mutant: the thread is joined without being told to quit.
QuitThreadNot ==
  /\ BodyDone /\ joining \in loops
  /\ serverPc' = "join"
  /\ UNCHANGED <<poolVars, netVars, connVars, loopVars, joining, dropped>>

\* threadPool_: one EventLoopThread after the other is told to quit and joined.
QuitThread ==
  /\ BodyDone /\ joining \in loops
  /\ quit' = [quit EXCEPT ![joining] = TRUE]
  /\ serverPc' = "join"
  /\ UNCHANGED <<poolVars, netVars, connVars, pc, queue, batch, called, active, joining,
                 dropped>>

\* Mutant: the thread is not waited for.
JoinNot ==
  /\ serverPc = "join"
  /\ joining' = joining + 1
  /\ serverPc' = "threads"
  /\ UNCHANGED <<poolVars, netVars, connVars, loopVars, dropped>>

Join ==
  /\ serverPc = "join" /\ pc[joining] = "left"
  /\ joining' = joining + 1
  /\ serverPc' = "threads"
  /\ UNCHANGED <<poolVars, netVars, connVars, loopVars, dropped>>

\* Mutant: the channel is not removed.
DestroyAcceptorListed ==
  /\ BodyDone /\ joining \notin loops
  /\ acceptChannel' = [acceptChannel EXCEPT !.registered = FALSE]
  /\ backlog' = << >>
  /\ serverPc' = "gone"
  /\ UNCHANGED <<poolVars, arrived, connVars, loopVars, joining, dropped>>

\* acceptor_: ~Acceptor takes its channel out of the poller and closes the socket.
DestroyAcceptor ==
  /\ BodyDone /\ joining \notin loops
  /\ acceptChannel' = RemoveChannel(DisableAll(acceptChannel))
  /\ backlog' = << >>
  /\ serverPc' = "gone"
  /\ UNCHANGED <<poolVars, arrived, connVars, loopVars, joining, dropped>>

\* The main EventLoop is destroyed, with the functors in its queue.
DestroyMainLoop ==
  /\ serverPc = "gone" /\ LoopGoes(Main, "left", "destroyed")
  /\ queue' = [queue EXCEPT ![Main] = << >>]
  /\ UNCHANGED <<poolVars, netVars, connVars, batch, called, active, quit, endVars>>
-----------------------------------------------------------------------------
StartSteps == StartThread \/ StartListen

LoopSteps(l) == EnterLoop(l) \/ GoesOn(l) \/ LeavesLoop(l) \/ SwapFunctors(l) \/ BatchDone(l)

MainSteps ==
  \/ LoopSteps(Main)
  \/ Listen \/ AcceptFails
  \/ \E fd \in Fds : NewConnection(fd)
  \/ \E c \in Made : RemoveConnectionInLoop(c)

IoSteps(t) ==
  \/ LoopSteps(t)
  \/ \E c \in Made : HandleClose(t, c) \/ ConnectEstablished(t, c) \/ ConnectDestroyed(t, c)

EndSteps ==
  \/ \E c \in Made : DestroyConnection(c)
  \/ QuitThread \/ Join \/ DestroyAcceptor \/ DestroyMainLoop

Next ==
  /\ pc[Main] # "threw"
  /\ \/ \E who \in Starters : Start(who)
     \/ StartSteps
     \/ \E peer \in Peers : PeerConnects(peer)
     \/ \E c \in Made : PeerCloses(c) \/ Shutdown(c)
     \/ MainSteps \/ QuitMain
     \/ \E t \in Threads : IoSteps(t)
     \/ \E l \in Loops : \E ready \in SUBSET Ready(l) : Polls(l, ready)
     \/ Destroy \/ EndSteps

(***************************************************************************)
(* Every thread is scheduled, and epoll_wait returns (a wakeup, an event   *)
(* or its timeout) and again and again reports all that stays ready.       *)
(* Nothing is assumed of peers, of the users who call start and shutdown,  *)
(* and of the end of the main loop.                                        *)
(***************************************************************************)
Fairness ==
  /\ WF_vars(MainSteps)
  /\ WF_vars(EndSteps)
  /\ \A t \in Threads : WF_vars(IoSteps(t))
  /\ \A l \in Loops : SF_vars(Polls(l, Ready(l)))

Spec == Init /\ [][Next]_vars /\ Fairness
-----------------------------------------------------------------------------
(***************************************************************************)
(* Properties                                                              *)
(***************************************************************************)

\* The pollers hold no channel of a connection that is gone, neither in channels_
\* nor in activeChannels_, and no two channels under one descriptor, although
\* descriptors are used again: a connection's fd is closed only after its channel
\* was removed, or with its loop.
PollersHoldTheLiving ==
  /\ \A l \in Loops : \A c \in active[l] \ {0} : Alive(c)
  /\ \A c \in Made :
       conn[c].channel.listed /\ pc[conn[c].loop] # "left" =>
         /\ Alive(c)
         /\ \A d \in Made :
              conn[d].channel.listed /\ conn[d].fd = conn[c].fd /\ conn[d].loop = conn[c].loop
                => d = c

\* For every channel, the connections' and the acceptor's, the poller's books and
\* the kernel agree, whichever of loops and destructor gets there first; and also
\* when ~Acceptor disables a channel that never listened. The acceptor's channel
\* is out of the poller when its socket is closed.
RegistrationsAgree ==
  /\ Agrees(acceptChannel) /\ \A c \in Made : Agrees(conn[c].channel)
  /\ serverPc = "gone" => acceptChannel.index = "kNew"

\* The acceptor listens only when the ring is complete: peers with the same address
\* are served by the same loop, and a pool with threads has one for every peer.
SamePeerSameLoop ==
  /\ \A c, d \in Made : conn[c].peer = conn[d].peer => conn[c].loop = conn[d].loop
  /\ NumThreads > 0 => pc[Main] # "threw"

\* getNode finds a node whenever a peer is accepted. True of a pool with threads;
\* not true of one without, for which the comments promise the base loop.
PoolServes == pc[Main] # "threw"

\* The functors that a loop has yet to call, in order.
Waiting(l) == SubSeq(batch[l], called[l] + 1, Len(batch[l])) \o queue[l]

\* Where connectDestroyed of c is waiting.
Destructions(c) ==
  LET waiting == Waiting(conn[c].loop) IN
  {i \in DOMAIN waiting : waiting[i] = <<"destroyed", c>>}

\* The peer, the main loop and the destructor end a connection once between them,
\* and a connection that was reported up is reported down by the end of the
\* server, unless its io loop quit with connectDestroyed still in the queue, or
\* connectDestroyed found it in kDisconnecting, where it calls back nobody.
EachEndsOnce ==
  \A c \in Made :
    /\ \A i, j \in Destructions(c) : i = j
    /\ c \in connections \/ conn[c].destroyed => Destructions(c) = {}
    /\ ~(c \in connections /\ conn[c].destroyed)
    /\ conn[c].downs <= conn[c].ups /\ conn[c].ups <= 1
    /\ serverPc = "gone" /\ c \notin dropped =>
         conn[c].downs = conn[c].ups \/ conn[c].state = "kDisconnecting"

\* Nobody queues to an io loop that is gone; when the server is gone no io thread is
\* left to call back into it; when the main loop is gone too, every connection is,
\* and with it every descriptor.
NothingOutlives ==
  /\ \A t \in Threads : pc[t] = "left" => queue[t] = << >> /\ batch[t] = << >>
  /\ serverPc = "gone" => \A t \in Threads : pc[t] \in {"none", "left"}
  /\ pc[Main] = "destroyed" => \A c \in Made : ~Alive(c)

\* What a peer closes is let go, and its descriptor can be used again, as long as
\* the main loop runs: again and again, nothing is left of all that peers have
\* closed. (What is let go does not come back, and peers do not close for ever.)
ClosedAreReleased ==
  []<>(quit[Main] \/ \A c \in Made : conn[c].closed => ~Alive(c))

\* The destructor returns, if every io thread is inside loop() when it is called
\* (a quit() before loop() is overwritten, see EventLoopThread).
DestructorEnds ==
  (serverPc = "connections" /\ \A t \in loops : pc[t] # "published")
    ~> (pc[Main] = "destroyed")
=============================================================================
