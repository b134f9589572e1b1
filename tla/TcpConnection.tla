---------------------------- MODULE TcpConnection ----------------------------
(***************************************************************************)
(* One TcpConnection (src/TcpConnection.cc) from TcpServer::newConnection  *)
(* to its end: the loop thread that owns it, the user code that calls it   *)
(* in callbacks on that thread or from other threads, the main loop's      *)
(* removeConnectionInLoop, ~TcpServer, which also quits and joins the      *)
(* loop's thread, and the kernel's socket with the peer behind it.         *)
(*                                                                         *)
(* A handler is one step up to the user callback it makes; the callback is *)
(* a stretch of steps in which the user calls send, shutdown or sendFile,  *)
(* and the handler's remaining statement is the step that ends it.  Other  *)
(* threads share only state_ and the loop's queue of functors with the     *)
(* loop thread: between their test of state_ and their push anything may   *)
(* happen.                                                                 *)
(*                                                                         *)
(* Data is a sequence of units: message m is MsgLen units, a file is       *)
(* FileLen units.  User threads keep their TcpConnectionPtr until the      *)
(* functors that they queued have run, and make no step of a call after    *)
(* the loop's thread has ended, because loop_ points to a local of it.     *)
(* The loop is inside loop() when the connection is made (quit() before    *)
(* that is the subject of EventLoopThread).                                *)
(***************************************************************************)
EXTENDS Naturals, Sequences, Functions, Channel

CONSTANTS MaxSends,      \* bound: messages sent
          MsgLen,        \* units in a message
          FileLen,       \* units in the file of sendFile
          HighWaterMark, \* highWaterMark_, in units
          LoopOps,       \* what user code calls on the loop's thread
          UserOps,       \* what user code calls on other threads
          Users          \* the other threads

Ops == {"send", "shutdown", "sendFile"}

ASSUME SizeAssumption ==
  MaxSends \in Nat /\ MsgLen \in Nat \ {0} /\ FileLen \in Nat \ {0} /\ HighWaterMark \in Nat
ASSUME OpsAssumption == LoopOps \subseteq Ops /\ UserOps \subseteq Ops

VARIABLES state,        \* state_
          channel,      \* channel_, with its registration (a ChannelRecord)
          outputBuffer, \* outputBuffer_, units
          socket,       \* the kernel's side, a record (see TypeOK)
          wire,         \* units the kernel has taken, in order
          accepted,     \* history: units sendInLoop has taken over, in order
          loopPc,       \* where the loop's thread is
          then,         \* what follows when the user callback returns
          revents,      \* revents_ of the channel, while it is in activeChannels_
          todo,         \* callbacks that handleEventWithGuard still has to make
          pending,      \* pendingFunctors_ of the loop
          batch,        \* functors of doPendingFunctors still to call
          server,       \* TcpServer's side, a record (see TypeOK)
          userPc,       \* where each user thread is
          sends,        \* messages created so far
          files,        \* sendFile calls so far (at most one)
          ups, downs,   \* history: calls of connectionCallback_
          removed       \* has connectDestroyed finished?

connVars == <<state, channel, outputBuffer>>
netVars == <<socket, wire, accepted>>
loopVars == <<loopPc, then, revents, todo, batch>>
userVars == <<userPc, sends, files>>
histVars == <<ups, downs, removed>>
vars == <<connVars, netVars, loopVars, pending, server, userVars, histVars>>

States == {"kConnecting", "kConnected", "kDisconnecting", "kDisconnected"}
Units == ((1..MaxSends) \X (1..MsgLen)) \cup ({0} \X (1..FileLen))
Functor == {"connectEstablished", "connectDestroyed", "shutdownInLoop",
            "writeCompleteCallback", "highWaterMarkCallback"} \X {0}
           \cup {"sendInLoop"} \X (1..MaxSends)
           \cup {"sendFileInLoop"} \X (1..FileLen)

TypeOK ==
  /\ state \in States
  /\ channel \in ChannelRecord
  /\ outputBuffer \in Seq(Units)
  /\ socket \in [peer: {"open", "fin", "rst"}, \* FIN or RST received?
                 unread: BOOLEAN,              \* received data not yet read?
                 soError: BOOLEAN,             \* SO_ERROR pending?
                 fin: BOOLEAN]                 \* write end shut down?
  /\ wire \in Seq(Units)
  /\ accepted \in Seq(Units)
  /\ loopPc \in {"poll", "dispatch", "event", "user", "batch", "left"}
  /\ then \in {"dispatch", "event", "close", "batch", "remove"}
  /\ revents \subseteq {"in", "out", "hup", "err"}
  /\ todo \subseteq {"close", "error", "read", "write"}
  /\ pending \in Seq(Functor)
  /\ batch \in Seq(Functor)
  /\ server \in [up: BOOLEAN,       \* not yet destroyed?
                 quit: BOOLEAN,     \* has ~EventLoopThread called quit() of the loop?
                 inMap: BOOLEAN,    \* is the connection in connections_?
                 removals: Nat]     \* removeConnectionInLoop queued on the main loop
  /\ userPc \in [Users -> {"idle", "send", "sendFile", "checked", "shutdown"}]
  /\ sends \in 0..MaxSends
  /\ files \in 0..1
  /\ ups \in Nat /\ downs \in Nat
  /\ removed \in BOOLEAN

\* TcpServer::newConnection has constructed the connection, put it into
\* connections_ and handed connectEstablished to the chosen loop.
Init ==
  /\ state = "kConnecting"
  /\ channel = NewChannel
  /\ outputBuffer = << >>
  /\ socket = [peer |-> "open", unread |-> FALSE, soError |-> FALSE, fin |-> FALSE]
  /\ wire = << >> /\ accepted = << >>
  /\ loopPc = "poll" /\ then = "batch"
  /\ revents = {} /\ todo = {}
  /\ pending = <<<<"connectEstablished", 0>>>> /\ batch = << >>
  /\ server = [up |-> TRUE, quit |-> FALSE, inMap |-> TRUE, removals |-> 0]
  /\ userPc = [u \in Users |-> "idle"]
  /\ sends = 0 /\ files = 0
  /\ ups = 0 /\ downs = 0 /\ removed = FALSE
-----------------------------------------------------------------------------
(***************************************************************************)
(* The kernel and the peer (external)                                      *)
(***************************************************************************)

PeerSends ==
  /\ socket.peer = "open" /\ ~socket.unread
  /\ socket' = [socket EXCEPT !.unread = TRUE]
  /\ UNCHANGED <<connVars, wire, accepted, loopVars, pending, server, userVars, histVars>>

PeerCloses ==
  /\ socket.peer = "open"
  /\ socket' = [socket EXCEPT !.peer = "fin"]
  /\ UNCHANGED <<connVars, wire, accepted, loopVars, pending, server, userVars, histVars>>

PeerResets ==
  /\ socket.peer # "rst"
  /\ socket' = [socket EXCEPT !.peer = "rst", !.soError = TRUE]
  /\ UNCHANGED <<connVars, wire, accepted, loopVars, pending, server, userVars, histVars>>

\* write and sendfile fail with EPIPE or ECONNRESET, which consumes SO_ERROR.
WriteFails == socket.fin \/ socket.peer = "rst"

\* What epoll reports of the socket; hup and err are not subject to the mask.
Revents(writable) ==
  {e \in {"in", "out", "hup", "err"} :
     \/ e = "in" /\ "in" \in channel.mask /\ (socket.unread \/ socket.peer # "open")
     \/ e = "out" /\ "out" \in channel.mask /\ (writable \/ WriteFails)
     \/ e = "hup" /\ (socket.peer = "rst" \/ (socket.peer = "fin" /\ socket.fin))
     \/ e = "err" /\ socket.soError}

\* Message m, and the last left units of the file.
Message(m) == [i \in 1..MsgLen |-> <<m, i>>]

\* Mutant: the offset is one too far.
FileTailSkips(left) == [i \in 1..left |-> <<0, FileLen - left + i + 1>>]

FileTail(left) == [i \in 1..left |-> <<0, FileLen - left + i>>]

First(s, n) == SubSeq(s, 1, n)
Drop(s, n) == SubSeq(s, n + 1, Len(s))
-----------------------------------------------------------------------------
(***************************************************************************)
(* What runs inside a step of the loop's thread                            *)
(***************************************************************************)

Writing == IsWriting(channel)

\* Nothing is waiting: sendInLoop and sendFileInLoop may write at once.
WriteAtOnce == ~Writing /\ outputBuffer = << >>

\* sendInLoop, write() has failed: the data is given up.
SendFaults ==
  /\ WriteAtOnce /\ WriteFails
  /\ socket' = [socket EXCEPT !.soError = FALSE]
  /\ UNCHANGED <<connVars, wire, accepted, pending>>

\* sendInLoop, all of the data is written.
SendAll(data) ==
  /\ WriteAtOnce /\ ~WriteFails
  /\ wire' = wire \o data
  /\ accepted' = accepted \o data
  /\ pending' = Append(pending, <<"writeCompleteCallback", 0>>)
  /\ UNCHANGED <<connVars, socket>>

\* Mutant: the rest is appended only, EPOLLOUT is not asked for.
KeepRestUnregistered(rest) ==
  /\ outputBuffer' = outputBuffer \o rest
  /\ UNCHANGED <<channel, pending>>

\* The statements after write(): what is left goes to outputBuffer_.
KeepRest(rest) ==
  LET total == Len(outputBuffer) + Len(rest) IN
  /\ outputBuffer' = outputBuffer \o rest
  /\ channel' = IF Writing THEN channel ELSE EnableWriting(channel)
  /\ pending' = IF total >= HighWaterMark /\ Len(outputBuffer) < HighWaterMark
                  THEN Append(pending, <<"highWaterMarkCallback", 0>>)
                  ELSE pending

\* Mutant: the rest starts at the beginning of the data again.
SendSomeRepeats(data) ==
  \E n \in 0..Len(data) - 1 :
    /\ IF WriteAtOnce THEN ~WriteFails ELSE n = 0
    /\ wire' = wire \o First(data, n)
    /\ accepted' = accepted \o data
    /\ KeepRest(data)
    /\ UNCHANGED <<state, socket>>

\* sendInLoop, some or none of the data is written (none: EWOULDBLOCK).
SendSome(data) ==
  \E n \in 0..Len(data) - 1 :
    /\ IF WriteAtOnce THEN ~WriteFails ELSE n = 0
    /\ wire' = wire \o First(data, n)
    /\ accepted' = accepted \o data
    /\ KeepRest(Drop(data, n))
    /\ UNCHANGED <<state, socket>>

\* The test of kDisconnected only logs: there is no return.
SendInLoop(data) == SendFaults \/ SendAll(data) \/ SendSome(data)

ShutdownInLoop ==
  /\ socket' = [socket EXCEPT !.fin = @ \/ ~Writing]
  /\ UNCHANGED <<connVars, wire, accepted, pending>>

\* sendFileInLoop with left units to go. A rest is queued again; the test is for
\* kDisconnecting, so a connection that is kDisconnected goes on.
SendFileInLoop(left) ==
  \/ /\ state = "kDisconnecting"
     /\ UNCHANGED <<connVars, netVars, pending>>
  \/ /\ state # "kDisconnecting" /\ WriteAtOnce /\ WriteFails
     /\ socket' = [socket EXCEPT !.soError = FALSE]
     /\ UNCHANGED <<connVars, wire, accepted, pending>>
  \/ \E n \in 0..left :
       /\ state # "kDisconnecting"
       /\ IF WriteAtOnce THEN ~WriteFails ELSE n = 0
       /\ wire' = wire \o First(FileTail(left), n)
       /\ accepted' = accepted \o First(FileTail(left), n)
       /\ pending' = Append(pending, IF n = left THEN <<"writeCompleteCallback", 0>>
                                                 ELSE <<"sendFileInLoop", left - n>>)
       /\ UNCHANGED <<connVars, socket>>

\* The user callback begins; next says what follows it.
CallUser(next) == loopPc' = "user" /\ then' = next
-----------------------------------------------------------------------------
(***************************************************************************)
(* The loop: poll, dispatch                                                *)
(***************************************************************************)

\* epoll_wait returns, with or without events of this channel (a full event list
\* leaves a channel out). Handlers of other channels may come before this one's.
Poll(re) ==
  /\ loopPc = "poll"
  /\ revents' = re
  /\ \/ loopPc' = "dispatch" /\ UNCHANGED then
     \/ CallUser("dispatch")
  /\ UNCHANGED <<connVars, netVars, todo, batch, pending, server, userVars, histVars>>

PollReady == \E re \in {Revents(TRUE), Revents(FALSE)} :
               channel.registered /\ re # {} /\ Poll(re)
PollOther == Poll({})

\* Channel::handleEvent
HandleEvent ==
  /\ loopPc = "dispatch" /\ revents # {}
  /\ loopPc' = "event"
  /\ todo' = Callbacks(revents)
  /\ revents' = {}
  /\ UNCHANGED <<connVars, netVars, then, batch, pending, server, userVars, histVars>>

\* The other channels are done: doPendingFunctors swaps the queue out.
SwapFunctors ==
  /\ loopPc = "dispatch" /\ revents = {}
  /\ loopPc' = "batch"
  /\ batch' = pending
  /\ pending' = << >>
  /\ UNCHANGED <<connVars, netVars, then, revents, todo, server, userVars, histVars>>

\* Mutant: the events stay enabled.
CloseEnabled ==
  /\ state' = "kDisconnected"
  /\ downs' = downs + 1
  /\ CallUser("close")
  /\ UNCHANGED <<channel, outputBuffer, netVars, ups, removed>>

\* handleClose up to connectionCallback_; closeCallback_ follows.
Close ==
  /\ state' = "kDisconnected"
  /\ channel' = DisableAll(channel)
  /\ downs' = downs + 1
  /\ CallUser("close")
  /\ UNCHANGED <<outputBuffer, netVars, ups, removed>>

HandleClose ==
  /\ loopPc = "event" /\ "close" \in todo
  /\ todo' = todo \ {"close"}
  /\ Close
  /\ UNCHANGED <<revents, batch, pending, server, userVars>>

HandleError ==
  /\ loopPc = "event" /\ "close" \notin todo /\ "error" \in todo
  /\ todo' = todo \ {"error"}
  /\ socket' = [socket EXCEPT !.soError = FALSE]
  /\ UNCHANGED <<connVars, wire, accepted, loopPc, then, revents, batch, pending, server,
                 userVars, histVars>>

\* readFd finds data, a pending error or the end of the stream: poll said so, and
\* only this thread reads.
HandleRead ==
  /\ loopPc = "event" /\ todo \cap {"close", "error"} = {} /\ "read" \in todo
  /\ todo' = todo \ {"read"}
  /\ \/ /\ socket.unread
        /\ socket' = [socket EXCEPT !.unread = FALSE]
        /\ CallUser("event")
        /\ UNCHANGED <<connVars, wire, accepted, histVars>>
     \/ /\ ~socket.unread /\ socket.soError
        /\ socket' = [socket EXCEPT !.soError = FALSE]
        /\ UNCHANGED <<connVars, wire, accepted, loopPc, then, histVars>>
     \/ /\ ~socket.unread /\ ~socket.soError /\ socket.peer # "open"
        /\ Close
  /\ UNCHANGED <<revents, batch, pending, server, userVars>>

\* Mutant: nobody completes the shutdown that waited for the buffer.
FlushOnly(n) ==
  LET drained == n = Len(outputBuffer) IN
  /\ ~WriteFails
  /\ wire' = wire \o First(outputBuffer, n)
  /\ outputBuffer' = Drop(outputBuffer, n)
  /\ channel' = IF drained THEN DisableWriting(channel) ELSE channel
  /\ UNCHANGED <<state, accepted, pending, socket>>

\* outputBuffer_ is written; once it is empty, a shutdown that waited is done.
Flush(n) ==
  LET drained == n = Len(outputBuffer) IN
  /\ ~WriteFails
  /\ wire' = wire \o First(outputBuffer, n)
  /\ outputBuffer' = Drop(outputBuffer, n)
  /\ channel' = IF drained THEN DisableWriting(channel) ELSE channel
  /\ pending' = IF drained THEN Append(pending, <<"writeCompleteCallback", 0>>)
                           ELSE pending
  /\ socket' = [socket EXCEPT !.fin = @ \/ (drained /\ state = "kDisconnecting")]
  /\ UNCHANGED <<state, accepted>>

HandleWrite ==
  /\ loopPc = "event" /\ todo = {"write"}
  /\ todo' = {}
  /\ \/ Writing /\ \E n \in 1..Len(outputBuffer) : Flush(n)
     \/ /\ Writing /\ WriteFails
        /\ socket' = [socket EXCEPT !.soError = FALSE]
        /\ UNCHANGED <<connVars, wire, accepted, pending>>
     \/ ~Writing /\ UNCHANGED <<connVars, netVars, pending>>
  /\ UNCHANGED <<loopPc, then, revents, batch, server, userVars, histVars>>

EventDone ==
  /\ loopPc = "event" /\ todo = {}
  /\ loopPc' = "dispatch"
  /\ UNCHANGED <<connVars, netVars, then, revents, todo, batch, pending, server, userVars,
                 histVars>>
-----------------------------------------------------------------------------
(***************************************************************************)
(* The loop: functors, and what follows user callbacks                     *)
(***************************************************************************)

\* The functor that the batch calls next is op, with argument arg.
Calls(op, arg) ==
  /\ loopPc = "batch" /\ batch # << >>
  /\ Head(batch) = <<op, arg>>
  /\ batch' = Tail(batch)

ConnectEstablished ==
  /\ Calls("connectEstablished", 0)
  /\ state' = "kConnected"
  /\ channel' = EnableReading(channel)
  /\ ups' = ups + 1
  /\ CallUser("batch")
  /\ UNCHANGED <<outputBuffer, netVars, revents, todo, pending, server, userVars, downs,
                 removed>>

\* connectDestroyed: in kConnected (the server is destroyed) with a callback.
ConnectDestroyed ==
  /\ Calls("connectDestroyed", 0)
  /\ \/ /\ state = "kConnected"
        /\ state' = "kDisconnected"
        /\ channel' = DisableAll(channel)
        /\ downs' = downs + 1
        /\ CallUser("remove")
        /\ UNCHANGED removed
     \/ /\ state # "kConnected"
        /\ channel' = RemoveChannel(channel)
        /\ removed' = TRUE
        /\ UNCHANGED <<state, loopPc, then, downs>>
  /\ UNCHANGED <<outputBuffer, netVars, revents, todo, pending, server, userVars, ups>>

QueuedSend ==
  /\ \E m \in 1..MaxSends : Calls("sendInLoop", m) /\ SendInLoop(Message(m))
  /\ UNCHANGED <<loopPc, then, revents, todo, server, userVars, histVars>>

QueuedShutdown ==
  /\ Calls("shutdownInLoop", 0)
  /\ ShutdownInLoop
  /\ UNCHANGED <<loopPc, then, revents, todo, server, userVars, histVars>>

QueuedSendFile ==
  /\ \E left \in 1..FileLen : Calls("sendFileInLoop", left) /\ SendFileInLoop(left)
  /\ UNCHANGED <<loopPc, then, revents, todo, server, userVars, histVars>>

\* writeCompleteCallback_ and highWaterMarkCallback_ are user code.
QueuedCallback ==
  /\ Calls("writeCompleteCallback", 0) \/ Calls("highWaterMarkCallback", 0)
  /\ CallUser("batch")
  /\ UNCHANGED <<connVars, netVars, revents, todo, pending, server, userVars, histVars>>

\* The batch is done and loop() tests quit_. If it is set, threadFunc returns and its
\* EventLoop is destroyed, with what has been queued since the swap: connectDestroyed,
\* too. (A quit() after the test is seen in the next round.)
BatchDone ==
  /\ loopPc = "batch" /\ batch = << >>
  /\ loopPc' = IF server.quit THEN "left" ELSE "poll"
  /\ pending' = IF server.quit THEN << >> ELSE pending
  /\ UNCHANGED <<connVars, netVars, then, revents, todo, batch, server, userVars, histVars>>

\* A callback returns: closeCallback_ queues removeConnectionInLoop on the main
\* loop, connectDestroyed removes the channel, other handlers are done.
CallbackReturns ==
  /\ loopPc = "user"
  /\ loopPc' = CASE then = "close" -> "event" [] then = "remove" -> "batch"
                 [] OTHER -> then
  /\ IF then = "close"
       THEN server' = [server EXCEPT !.removals = @ + 1]
       ELSE UNCHANGED server
  /\ IF then = "remove"
       THEN channel' = RemoveChannel(channel) /\ removed' = TRUE
       ELSE UNCHANGED <<channel, removed>>
  /\ UNCHANGED <<state, outputBuffer, netVars, then, revents, todo, batch, pending, userVars,
                 ups, downs>>
-----------------------------------------------------------------------------
(***************************************************************************)
(* User code on the loop's thread: calls that find kConnected              *)
(***************************************************************************)

\* Mutant: shutdown and send do not test state_.
MayCallAlways(op) == loopPc = "user" /\ op \in LoopOps /\ ups = 1

MayCall(op) == loopPc = "user" /\ op \in LoopOps /\ state = "kConnected"

Send ==
  /\ MayCall("send") /\ sends < MaxSends
  /\ sends' = sends + 1
  /\ SendInLoop(Message(sends + 1))
  /\ UNCHANGED <<loopVars, server, userPc, files, histVars>>

\* Mutant: the write end is closed whatever the buffer holds.
ShutdownAtOnce ==
  /\ MayCall("shutdown")
  /\ state' = "kDisconnecting"
  /\ socket' = [socket EXCEPT !.fin = TRUE]
  /\ UNCHANGED <<channel, outputBuffer, wire, accepted, loopVars, pending, server, userVars,
                 histVars>>

Shutdown ==
  /\ MayCall("shutdown")
  /\ state' = "kDisconnecting"
  /\ socket' = [socket EXCEPT !.fin = @ \/ ~Writing]
  /\ UNCHANGED <<channel, outputBuffer, wire, accepted, loopVars, pending, server, userVars,
                 histVars>>

SendFile ==
  /\ MayCall("sendFile") /\ files = 0
  /\ files' = 1
  /\ SendFileInLoop(FileLen)
  /\ UNCHANGED <<loopVars, server, userPc, sends, histVars>>
-----------------------------------------------------------------------------
(***************************************************************************)
(* User code on other threads                                              *)
(***************************************************************************)

UserGoes(u, from, to) ==
  /\ userPc[u] = from
  /\ userPc' = [userPc EXCEPT ![u] = to]

Push(f) == pending' = Append(pending, f)

\* send, shutdown and sendFile test state_ ...
UserTests(u) ==
  /\ state = "kConnected" /\ loopPc # "left"
  /\ \/ "send" \in UserOps /\ UserGoes(u, "idle", "send")
     \/ "sendFile" \in UserOps /\ UserGoes(u, "idle", "sendFile")
     \/ "shutdown" \in UserOps /\ UserGoes(u, "idle", "checked")
  /\ UNCHANGED <<connVars, netVars, loopVars, pending, server, sends, files, histVars>>

\* ... send and sendFile then hand over their InLoop half,
UserSends(u) ==
  /\ UserGoes(u, "send", "idle") /\ sends < MaxSends
  /\ sends' = sends + 1
  /\ Push(<<"sendInLoop", sends + 1>>)
  /\ UNCHANGED <<connVars, netVars, loopVars, server, files, histVars>>

UserSendsFile(u) ==
  /\ UserGoes(u, "sendFile", "idle") /\ files = 0
  /\ files' = 1
  /\ Push(<<"sendFileInLoop", FileLen>>)
  /\ UNCHANGED <<connVars, netVars, loopVars, server, sends, histVars>>

\* ... and shutdown stores kDisconnecting first.
UserSetsState(u) ==
  /\ UserGoes(u, "checked", "shutdown")
  /\ state' = "kDisconnecting"
  /\ UNCHANGED <<channel, outputBuffer, netVars, loopVars, pending, server, sends, files,
                 histVars>>

UserShutsDown(u) ==
  /\ UserGoes(u, "shutdown", "idle")
  /\ Push(<<"shutdownInLoop", 0>>)
  /\ UNCHANGED <<connVars, netVars, loopVars, server, sends, files, histVars>>
-----------------------------------------------------------------------------
(***************************************************************************)
(* The main loop                                                           *)
(***************************************************************************)

\* Mutant: the connection leaves connections_ but is not told.
RemoveConnectionSilently ==
  /\ server.up /\ server.removals > 0
  /\ server' = [server EXCEPT !.inMap = FALSE, !.removals = @ - 1]
  /\ UNCHANGED <<connVars, netVars, loopVars, pending, userVars, histVars>>

\* TcpServer::removeConnectionInLoop
RemoveConnectionInLoop ==
  /\ server.up /\ server.removals > 0
  /\ server' = [server EXCEPT !.inMap = FALSE, !.removals = @ - 1]
  /\ Push(<<"connectDestroyed", 0>>)
  /\ UNCHANGED <<connVars, netVars, loopVars, userVars, histVars>>

\* The body of ~TcpServer, after the main loop has left loop().
DestroyServer ==
  /\ server.up
  /\ server' = [server EXCEPT !.up = FALSE, !.inMap = FALSE]
  /\ IF server.inMap THEN Push(<<"connectDestroyed", 0>>) ELSE UNCHANGED pending
  /\ UNCHANGED <<connVars, netVars, loopVars, userVars, histVars>>

\* Then threadPool_ is destroyed: ~EventLoopThread quits the loop (and waits for its
\* thread).
QuitLoop ==
  /\ ~server.up /\ ~server.quit
  /\ server' = [server EXCEPT !.quit = TRUE]
  /\ UNCHANGED <<connVars, netVars, loopVars, pending, userVars, histVars>>
-----------------------------------------------------------------------------
LoopSteps ==
  \/ HandleEvent \/ SwapFunctors
  \/ HandleClose \/ HandleError \/ HandleRead \/ HandleWrite \/ EventDone
  \/ ConnectEstablished \/ ConnectDestroyed \/ QueuedSend \/ QueuedShutdown
  \/ QueuedSendFile \/ QueuedCallback \/ BatchDone \/ CallbackReturns

Kernel == PeerSends \/ PeerCloses \/ PeerResets
LoopUser == Send \/ Shutdown \/ SendFile
UserSteps(u) ==
  /\ loopPc # "left"
  /\ UserSends(u) \/ UserSendsFile(u) \/ UserSetsState(u) \/ UserShutsDown(u)

Next ==
  \/ PollReady \/ PollOther \/ LoopSteps
  \/ Kernel \/ LoopUser
  \/ \E u \in Users : UserTests(u) \/ UserSteps(u)
  \/ RemoveConnectionInLoop \/ DestroyServer \/ QuitLoop

(***************************************************************************)
(* The loop's thread and the main loop run, a callback returns, a user     *)
(* thread inside a call goes on, and so does the destructor of the server, *)
(* once it runs.  epoll_wait returns sooner or later (it has a timeout); a *)
(* channel that is ready again and again is reported in the end, whatever  *)
(* else is ready, because epoll rotates its ready list; and a peer that    *)
(* reads makes the socket writable again and again, for EPOLLOUT and for   *)
(* sendfile.                                                               *)
(***************************************************************************)
Fairness ==
  /\ WF_vars(LoopSteps)
  /\ WF_vars(PollReady \/ PollOther)
  /\ SF_vars(PollReady)
  /\ SF_vars(channel.registered /\ "out" \in Revents(TRUE) /\ Poll(Revents(TRUE)))
  /\ SF_vars(QueuedSendFile /\ wire' # wire)
  /\ WF_vars(RemoveConnectionInLoop)
  /\ WF_vars(QuitLoop)
  /\ \A u \in Users : WF_vars(UserSteps(u))

Spec == Init /\ [][Next]_vars /\ Fairness
-----------------------------------------------------------------------------
(***************************************************************************)
(* Properties                                                              *)
(***************************************************************************)

\* The poller's book-keeping (index_, channels_) and the kernel's interest list
\* agree, so that epoll_ctl never fails; a channel is registered for exactly the
\* events it enables.
RegistrationAgrees == Agrees(channel)

\* A closed connection is out of the epoll set (disableAll deletes, it does not
\* leave an entry without events that would report EPOLLHUP for ever), and a
\* removed one is unknown to the poller when ~Socket closes its descriptor.
ClosedIsUnregistered ==
  /\ state = "kDisconnected" => ~channel.registered
  /\ removed => channel.index = "kNew" /\ ~channel.registered

\* EPOLLOUT is asked for exactly while there is something to write: a missing one
\* stalls the output, a spare one makes the loop spin.
WritingIffBuffered ==
  state \in {"kConnected", "kDisconnecting"} => (Writing <=> outputBuffer # << >>)

\* Through partial writes at once and later, the kernel gets the data of all
\* sendInLoop calls in their order, without gap or repetition.
StreamIntact ==
  socket.peer # "rst" /\ ~socket.fin => wire \o outputBuffer = accepted

\* The places of connectDestroyed in the loop's queue.
Destructions ==
  {i \in DOMAIN (pending \o batch) : (pending \o batch)[i] = <<"connectDestroyed", 0>>}

\* A connection ends once: one connectDestroyed, queued, running or done, one callback
\* up, one down.
EndsOnce ==
  /\ \A i, j \in Destructions : i = j
  /\ removed \/ (loopPc = "user" /\ then = "remove") => Destructions = {}
  /\ downs <= ups /\ ups <= 1
  /\ (removed /\ server.up) => downs = ups

\* kDisconnected is final as long as the users stay on the loop's thread: nobody
\* brings the connection back. (shutdown() of another thread may: it tests state_
\* and stores kDisconnecting in two steps.)
DisconnectedIsFinal ==
  [][state = "kDisconnected" => state' = "kDisconnected"]_vars

\* Data handed over and not yet taken by the kernel.
DataWaits ==
  \/ outputBuffer # << >>
  \/ \E f \in Range(pending \o batch) : f[1] \in {"sendInLoop", "sendFileInLoop"}

\* The write end is closed only when all data has been sent, as the comment in
\* shutdownInLoop says: true of send and shutdown on the loop's thread, not true of
\* the code when sendFile is in use, whose rest waits without EPOLLOUT.
FinAfterData == [][~socket.fin /\ socket'.fin => ~DataWaits']_vars

\* A connection whose peer has closed or reset it leaves connections_, and its channel
\* is removed unless the server's end comes in between; and when the server ends, the
\* io loop ends too, so that ~TcpServer returns. Neither is kept up by data that waits
\* or by a sendFile whose functor queues itself again and again.
ConnectionEnds ==
  /\ (socket.peer # "open") ~> (~server.inMap /\ (removed \/ ~server.up))
  /\ (~server.up) ~> (loopPc = "left")

\* A shutdown is carried out: the FIN is sent once the peer has taken the rest,
\* unless the connection, or the server with the io loop, ends first.
ShutdownSendsFin ==
  (state = "kDisconnecting") ~>
    (socket.fin \/ state = "kDisconnected" \/ removed \/ loopPc = "left")
=============================================================================
