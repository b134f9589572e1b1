------------------------- MODULE TcpConnectionProof -------------------------
(***************************************************************************)
(* Theorems about TcpConnection, for any messages, users and operations.   *)
(***************************************************************************)
EXTENDS TcpConnection, CommonLemmas

\* A new channel is known to nobody.
LEMMA SoundInit == Init => Sound(channel)
  BY DEF Init, NewChannel, Sound, Agrees, ChannelRecord

\* Every step leaves the channel alone, calls one of its setters, or removes it.
LEMMA SoundStep ==
  ASSUME Sound(channel), [Next]_vars
  PROVE  Sound(channel')
<1> USE DEF connVars
<1>1. CASE UNCHANGED channel
  BY <1>1
<1>2. ASSUME NEW data, SendInLoop(data)
      PROVE  Sound(channel')
  BY <1>1, <1>2, SettersSound
  DEF SendInLoop, SendFaults, SendAll, SendSome, KeepRest
<1>3. ASSUME NEW left, SendFileInLoop(left)
      PROVE  UNCHANGED channel
  BY <1>3 DEF SendFileInLoop
<1>4. CASE PollReady \/ PollOther \/ HandleEvent \/ SwapFunctors \/ HandleError \/ EventDone
  BY <1>1, <1>4
  DEF PollReady, PollOther, Poll, HandleEvent, SwapFunctors, HandleError, EventDone
<1>5. CASE HandleClose \/ HandleRead
  BY <1>1, <1>5, SettersSound DEF HandleClose, HandleRead, Close
<1>6. CASE HandleWrite
  BY <1>1, <1>6, SettersSound DEF HandleWrite, Flush
<1>7. CASE ConnectEstablished \/ ConnectDestroyed
  BY <1>7, SettersSound, RemoveSound DEF ConnectEstablished, ConnectDestroyed
<1>8. CASE CallbackReturns
  BY <1>1, <1>8, RemoveSound DEF CallbackReturns
<1>9. CASE QueuedSend \/ Send
  BY <1>2, <1>9 DEF QueuedSend, Send
<1>10. CASE QueuedSendFile \/ SendFile
  BY <1>1, <1>3, <1>10 DEF QueuedSendFile, SendFile
<1>11. CASE QueuedShutdown \/ QueuedCallback \/ BatchDone \/ Shutdown
  BY <1>1, <1>11
  DEF QueuedShutdown, ShutdownInLoop, QueuedCallback, BatchDone, Shutdown
<1>12. CASE Kernel
  BY <1>1, <1>12 DEF Kernel, PeerSends, PeerCloses, PeerResets
<1>13. CASE \E u \in Users : UserTests(u) \/ UserSteps(u)
  BY <1>1, <1>13
  DEF UserTests, UserSteps, UserSends, UserSendsFile, UserSetsState, UserShutsDown
<1>14. CASE RemoveConnectionInLoop \/ DestroyServer \/ QuitLoop
  BY <1>1, <1>14 DEF RemoveConnectionInLoop, DestroyServer, QuitLoop
<1>15. CASE UNCHANGED vars
  BY <1>1, <1>15 DEF vars
<1> QED
  BY <1>4, <1>5, <1>6, <1>7, <1>8, <1>9, <1>10, <1>11, <1>12, <1>13, <1>14, <1>15
  DEF Next, LoopSteps, LoopUser

\* Whatever users, peer and server do and in whatever order, the poller's
\* book-keeping agrees with the kernel's, and no epoll_ctl call fails.
THEOREM RegistrationCorrect == Spec => []RegistrationAgrees
<1>1. Init => Sound(channel)
  BY SoundInit
<1>2. Sound(channel) /\ [Next]_vars => Sound(channel)'
  BY SoundStep
<1>3. Sound(channel) => RegistrationAgrees
  BY DEF Sound, RegistrationAgrees
<1> QED BY <1>1, <1>2, <1>3, PTL DEF Spec
-----------------------------------------------------------------------------
(***************************************************************************)
(* The output stream                                                       *)
(***************************************************************************)

\* The types that the data path needs, a part of TypeOK.
DataOK ==
  /\ outputBuffer \in Seq(Units) /\ wire \in Seq(Units) /\ accepted \in Seq(Units)
  /\ socket \in [peer: {"open", "fin", "rst"}, unread: BOOLEAN, soError: BOOLEAN,
                 fin: BOOLEAN]

\* The inductive invariant of the data path.
StreamInv == DataOK /\ sends \in 0..MaxSends /\ StreamIntact

\* A message, and the tail of a file, are units.
LEMMA PayloadTypes ==
  /\ \A m \in 1..MaxSends : Message(m) \in Seq(Units)
  /\ \A left \in 1..FileLen : FileTail(left) \in Seq(Units) /\ Len(FileTail(left)) = left
<1>1. ASSUME NEW m \in 1..MaxSends
      PROVE  Message(m) \in Seq(Units)
  <2>1. \A i \in 1..MsgLen : <<m, i>> \in Units
    BY DEF Units
  <2> QED BY <2>1, SizeAssumption DEF Message
<1>2. ASSUME NEW left \in 1..FileLen
      PROVE  FileTail(left) \in Seq(Units) /\ Len(FileTail(left)) = left
  <2>1. \A i \in 1..left : FileLen - left + i \in 1..FileLen
    BY SizeAssumption
  <2>2. \A j \in 1..FileLen : <<0, j>> \in Units
    BY DEF Units
  <2>3. \A i \in 1..left : <<0, FileLen - left + i>> \in Units
    BY <2>1, <2>2
  <2>4. left \in Nat
    BY SizeAssumption
  <2> QED BY <2>3, <2>4 DEF FileTail
<1> QED BY <1>1, <1>2

\* First and Drop cut a sequence in two.
LEMMA Cut ==
  ASSUME NEW s \in Seq(Units), NEW n \in 0..Len(s)
  PROVE  /\ First(s, n) \in Seq(Units) /\ Drop(s, n) \in Seq(Units)
         /\ First(s, n) \o Drop(s, n) = s
         /\ n = 0 => First(s, n) = << >>
         /\ n = Len(s) => Drop(s, n) = << >>
<1>1. Len(s) \in Nat /\ n \in Nat /\ n <= Len(s)
  BY LenProperties
<1>2. (\A i \in 1..n : s[i] \in Units) /\ \A i \in n + 1..Len(s) : s[i] \in Units
  BY <1>1, ElementOfSeq
<1>3. First(s, n) \in Seq(Units)
  BY <1>1, <1>2, SubSeqProperties DEF First
<1>4. Drop(s, n) \in Seq(Units)
  BY <1>1, <1>2, SubSeqProperties DEF Drop
<1>5. SubSeq(s, 1, n) \o SubSeq(s, n + 1, Len(s)) = SubSeq(s, 1, Len(s))
  <2>1. 1 \in 1..Len(s) + 1 /\ n \in 1 - 1..Len(s) /\ Len(s) \in n..Len(s)
    BY <1>1
  <2> QED BY <2>1, ConcatAdjacentSubSeq
<1>6. SubSeq(s, 1, Len(s)) = s
  BY SubSeqFull
<1>7. n = 0 => SubSeq(s, 1, n) = << >>
  BY <1>1, SubSeqEmpty
<1>8. n = Len(s) => SubSeq(s, n + 1, Len(s)) = << >>
  BY <1>1, SubSeqEmpty
<1> QED BY <1>3, <1>4, <1>5, <1>6, <1>7, <1>8 DEF First, Drop

\* Concatenation of units is associative.
LEMMA UnitsAssociative ==
  ASSUME NEW s \in Seq(Units), NEW t \in Seq(Units), NEW u \in Seq(Units)
  PROVE  (s \o t) \o u = s \o (t \o u)
  BY ConcatAssociative

\* Of two sequences, one of which is empty, either may come first.
LEMMA EmptyMoves ==
  ASSUME NEW w \in Seq(Units), NEW o \in Seq(Units), NEW f \in Seq(Units),
         NEW r \in Seq(Units), f = << >> \/ o = << >>
  PROVE  (w \o f) \o (o \o r) = (w \o o) \o (f \o r)
<1>1. CASE o = << >>
  <2>1. o \o r = r /\ w \o o = w
    BY <1>1, ConcatEmptySeq
  <2>2. (w \o f) \o r = w \o (f \o r)
    BY UnitsAssociative, ZenonT(60)
  <2> QED BY <2>1, <2>2, ZenonT(60)
<1>2. CASE f = << >>
  <2>1. w \o f = w /\ f \o r = r
    BY <1>2, ConcatEmptySeq
  <2>2. (w \o o) \o r = w \o (o \o r)
    BY UnitsAssociative, ZenonT(60)
  <2> QED BY <2>1, <2>2, ZenonT(60)
<1> QED BY <1>1, <1>2

\* Writing the first n of the data at once and buffering the rest is right when
\* nothing was written or nothing was waiting.
LEMMA SplitWrite ==
  ASSUME NEW w \in Seq(Units), NEW o \in Seq(Units), NEW d \in Seq(Units),
         NEW n \in 0..Len(d), n = 0 \/ o = << >>
  PROVE  (w \o First(d, n)) \o (o \o Drop(d, n)) = (w \o o) \o d
<1> DEFINE f == First(d, n)
           r == Drop(d, n)
<1>1. f \in Seq(Units) /\ r \in Seq(Units) /\ f \o r = d /\ (n = 0 => f = << >>)
  BY Cut
<1> HIDE DEF f, r
<1>2. f \in Seq(Units) /\ r \in Seq(Units) /\ (f = << >> \/ o = << >>)
  BY <1>1
<1>3. (w \o f) \o (o \o r) = (w \o o) \o (f \o r)
  <2>1. \A x, y \in Seq(Units) : x = << >> \/ o = << >> =>
          (w \o x) \o (o \o y) = (w \o o) \o (x \o y)
    BY EmptyMoves
  <2> QED BY <1>2, <2>1
<1>4. f \o r = d
  BY <1>1
<1> QED BY <1>3, <1>4, ZenonT(60) DEF f, r

\* sendInLoop: what write() took, what is buffered and what was waiting.
LEMMA SendStream ==
  ASSUME StreamInv, NEW data \in Seq(Units), SendInLoop(data)
  PROVE  DataOK' /\ StreamIntact'
<1> USE DEF StreamInv, DataOK, connVars
<1>1. CASE SendFaults
  <2>1. WriteFails /\ socket' = [socket EXCEPT !.soError = FALSE]
        /\ UNCHANGED <<wire, outputBuffer, accepted>>
    BY <1>1 DEF SendFaults
  <2>2. socket'.peer = "rst" \/ socket'.fin
    BY <2>1 DEF WriteFails
  <2> QED BY <2>1, <2>2 DEF StreamIntact
<1>2. CASE SendAll(data)
  <2>1. /\ outputBuffer = << >> /\ UNCHANGED <<outputBuffer, socket>>
        /\ wire' = wire \o data /\ accepted' = accepted \o data
    BY <1>2 DEF SendAll, WriteAtOnce
  <2>2. wire \o << >> = wire /\ wire' \o << >> = wire'
        /\ wire \o data \in Seq(Units) /\ accepted \o data \in Seq(Units)
    BY <2>1, ConcatProperties, ConcatEmptySeq
  <2> QED BY <2>1, <2>2 DEF StreamIntact
<1>3. CASE SendSome(data)
  <2>1. PICK n \in 0..Len(data) - 1 :
          /\ IF WriteAtOnce THEN ~WriteFails ELSE n = 0
          /\ wire' = wire \o First(data, n)
          /\ accepted' = accepted \o data
          /\ KeepRest(Drop(data, n))
          /\ UNCHANGED <<state, socket>>
    BY <1>3 DEF SendSome
  <2>2. n \in 0..Len(data)
    BY LenProperties
  <2>3. First(data, n) \in Seq(Units) /\ Drop(data, n) \in Seq(Units)
    BY <2>2, Cut
  <2>4. outputBuffer' = outputBuffer \o Drop(data, n)
    BY <2>1 DEF KeepRest
  <2>5. /\ wire \o First(data, n) \in Seq(Units)
        /\ outputBuffer \o Drop(data, n) \in Seq(Units)
        /\ accepted \o data \in Seq(Units)
    BY <2>3, ConcatProperties
  <2>6. n = 0 \/ outputBuffer = << >>
    BY <2>1 DEF WriteAtOnce
  <2>7. (wire \o First(data, n)) \o (outputBuffer \o Drop(data, n))
          = (wire \o outputBuffer) \o data
    <3>1. wire \in Seq(Units) /\ outputBuffer \in Seq(Units)
      OBVIOUS
    <3> HIDE DEF StreamInv, DataOK, connVars
    <3> QED BY <2>2, <2>6, <3>1, SplitWrite, ZenonT(60)
  <2> QED BY <2>1, <2>4, <2>5, <2>7 DEF StreamIntact
<1> QED BY <1>1, <1>2, <1>3 DEF SendInLoop

\* sendFileInLoop: sendfile() takes units only when nothing is waiting.
LEMMA SendFileStream ==
  ASSUME StreamInv, NEW left \in 1..FileLen, SendFileInLoop(left)
  PROVE  DataOK' /\ StreamIntact'
<1> USE DEF StreamInv, DataOK, connVars
<1>1. CASE UNCHANGED netVars /\ UNCHANGED connVars
  BY <1>1 DEF netVars, StreamIntact
<1>2. CASE /\ WriteFails
           /\ socket' = [socket EXCEPT !.soError = FALSE]
           /\ UNCHANGED <<connVars, wire, accepted>>
  <2>1. socket'.peer = "rst" \/ socket'.fin
    BY <1>2 DEF WriteFails
  <2> QED BY <1>2, <2>1 DEF StreamIntact
<1>3. CASE \E n \in 0..left :
             /\ IF WriteAtOnce THEN ~WriteFails ELSE n = 0
             /\ wire' = wire \o First(FileTail(left), n)
             /\ accepted' = accepted \o First(FileTail(left), n)
             /\ UNCHANGED <<connVars, socket>>
  <2>1. PICK n \in 0..left :
          /\ IF WriteAtOnce THEN ~WriteFails ELSE n = 0
          /\ wire' = wire \o First(FileTail(left), n)
          /\ accepted' = accepted \o First(FileTail(left), n)
          /\ UNCHANGED <<connVars, socket>>
    BY <1>3
  <2> DEFINE f == First(FileTail(left), n)
  <2>2. f \in Seq(Units) /\ (n = 0 => f = << >>)
    BY PayloadTypes, Cut
  <2> HIDE DEF f
  <2>3. wire' = wire \o f /\ accepted' = accepted \o f
    BY <2>1 DEF f
  <2>4. wire \o f \in Seq(Units) /\ accepted \o f \in Seq(Units)
    BY <2>2, ConcatProperties
  <2>5. f = << >> \/ outputBuffer = << >>
    BY <2>1, <2>2 DEF WriteAtOnce
  <2>6. (wire \o f) \o outputBuffer = (wire \o outputBuffer) \o f
    <3>1. CASE f = << >>
      <4>1. wire \o f = wire
        BY <3>1, ConcatEmptySeq
      <4>2. wire \o outputBuffer \in Seq(Units)
        BY ConcatProperties
      <4>3. (wire \o outputBuffer) \o f = wire \o outputBuffer
        BY <3>1, <4>2, ConcatEmptySeq
      <4> QED BY <4>1, <4>3
    <3>2. CASE outputBuffer = << >>
      <4>1. wire \o outputBuffer = wire
        BY <3>2, ConcatEmptySeq
      <4>2. (wire \o f) \o outputBuffer = wire \o f
        BY <2>4, <3>2, ConcatEmptySeq
      <4> QED BY <4>1, <4>2
    <3> QED BY <2>5, <3>1, <3>2
  <2> QED BY <2>1, <2>3, <2>4, <2>6 DEF StreamIntact
<1> QED BY <1>1, <1>2, <1>3 DEF SendFileInLoop

\* handleWrite: what is written leaves the front of the buffer.
LEMMA FlushStream ==
  ASSUME StreamInv, NEW n \in 1..Len(outputBuffer), Flush(n)
  PROVE  DataOK' /\ StreamIntact'
<1> USE DEF StreamInv, DataOK
<1> DEFINE f == First(outputBuffer, n)
           r == Drop(outputBuffer, n)
           drained == n = Len(outputBuffer)
<1>1. n \in 0..Len(outputBuffer)
  BY LenProperties
<1>2. f \in Seq(Units) /\ r \in Seq(Units) /\ f \o r = outputBuffer
  BY <1>1, Cut
<1>3. /\ wire' = wire \o f /\ outputBuffer' = r /\ accepted' = accepted
      /\ socket' = [socket EXCEPT !.fin = @ \/ (drained /\ state = "kDisconnecting")]
  BY DEF Flush
<1> HIDE DEF f, r, drained
<1>4. wire \o f \in Seq(Units)
  BY <1>2, ConcatProperties
<1>5. (wire \o f) \o r = wire \o (f \o r)
  <2>1. \A x, y, z \in Seq(Units) : (x \o y) \o z = x \o (y \o z)
    BY UnitsAssociative
  <2>2. wire \in Seq(Units) /\ f \in Seq(Units) /\ r \in Seq(Units)
    BY <1>2
  <2> HIDE DEF StreamInv, DataOK
  <2> QED BY <2>1, <2>2, ZenonT(60)
<1>6. /\ socket'.peer = socket.peer /\ (socket.fin => socket'.fin)
      /\ socket' \in [peer: {"open", "fin", "rst"}, unread: BOOLEAN, soError: BOOLEAN,
                      fin: BOOLEAN]
  BY <1>3
<1> QED BY <1>2, <1>3, <1>4, <1>5, <1>6 DEF StreamIntact

\* A step that leaves the data alone may only end the stream.
LEMMA SocketOnly ==
  ASSUME StreamInv, UNCHANGED <<outputBuffer, wire, accepted>>,
         \/ UNCHANGED socket
         \/ \E fin \in BOOLEAN : socket' = [socket EXCEPT !.fin = @ \/ fin]
         \/ socket' = [socket EXCEPT !.soError = FALSE]
         \/ \E unread \in BOOLEAN : socket' = [socket EXCEPT !.unread = unread]
         \/ socket.peer = "open" /\ socket' = [socket EXCEPT !.peer = "fin"]
         \/ socket' = [socket EXCEPT !.peer = "rst", !.soError = TRUE]
  PROVE  DataOK' /\ StreamIntact'
<1> USE DEF StreamInv, DataOK
<1>1. /\ socket' \in [peer: {"open", "fin", "rst"}, unread: BOOLEAN, soError: BOOLEAN,
                      fin: BOOLEAN]
      /\ socket.fin => socket'.fin
      /\ socket.peer = "rst" => socket'.peer = "rst"
  OBVIOUS
<1> QED BY <1>1 DEF StreamIntact

\* Every step keeps the stream.
LEMMA StreamStep == StreamInv /\ [Next]_vars => StreamInv'
<1> SUFFICES ASSUME StreamInv, [Next]_vars PROVE StreamInv'
  OBVIOUS
<1> USE DEF connVars, netVars, userVars
<1>1. ASSUME UNCHANGED sends, DataOK', StreamIntact'
      PROVE  StreamInv'
  BY <1>1 DEF StreamInv
<1>2. CASE UNCHANGED <<outputBuffer, netVars, sends>>
  BY <1>1, <1>2, SocketOnly
<1>3. CASE PollReady \/ PollOther \/ HandleEvent \/ SwapFunctors \/ EventDone
  BY <1>2, <1>3
  DEF PollReady, PollOther, Poll, HandleEvent, SwapFunctors, EventDone
<1>4. CASE HandleClose \/ HandleError
  BY <1>1, <1>4, SocketOnly DEF HandleClose, Close, HandleError
<1>5. CASE HandleRead
  BY <1>1, <1>5, SocketOnly DEF HandleRead, Close
<1>6. CASE HandleWrite
  BY <1>1, <1>2, <1>6, SocketOnly, FlushStream DEF HandleWrite
<1>7. CASE ConnectEstablished \/ ConnectDestroyed \/ QueuedCallback \/ BatchDone
           \/ CallbackReturns
  BY <1>2, <1>7
  DEF ConnectEstablished, ConnectDestroyed, QueuedCallback, BatchDone, CallbackReturns
<1>8. CASE QueuedShutdown \/ Shutdown
  <2>1. (~Writing) \in BOOLEAN
    BY DEF Writing, IsWriting
  <2> QED BY <1>1, <1>8, <2>1, SocketOnly DEF QueuedShutdown, ShutdownInLoop, Shutdown
<1>9. CASE QueuedSend
  <2>1. PICK m \in 1..MaxSends : SendInLoop(Message(m))
    BY <1>9 DEF QueuedSend
  <2>2. Message(m) \in Seq(Units)
    BY PayloadTypes
  <2> QED BY <1>1, <1>9, <2>1, <2>2, SendStream DEF QueuedSend
<1>10. CASE Send
  <2>1. sends + 1 \in 1..MaxSends /\ sends' \in 0..MaxSends
    BY <1>10, SizeAssumption DEF Send, StreamInv
  <2>2. Message(sends + 1) \in Seq(Units) /\ SendInLoop(Message(sends + 1))
    BY <1>10, <2>1, PayloadTypes DEF Send
  <2>3. DataOK' /\ StreamIntact'
    BY <2>2, SendStream
  <2> QED BY <2>1, <2>3 DEF StreamInv
<1>11. CASE QueuedSendFile
  <2>1. PICK left \in 1..FileLen : SendFileInLoop(left)
    BY <1>11 DEF QueuedSendFile
  <2> QED BY <1>1, <1>11, <2>1, SendFileStream DEF QueuedSendFile
<1>12. CASE SendFile
  <2>1. FileLen \in 1..FileLen
    BY SizeAssumption
  <2> QED BY <1>1, <1>12, <2>1, SendFileStream DEF SendFile
<1>13. CASE Kernel
  BY <1>1, <1>13, SocketOnly DEF Kernel, PeerSends, PeerCloses, PeerResets
<1>14. CASE \E u \in Users : UserTests(u) \/ UserSendsFile(u) \/ UserSetsState(u)
                             \/ UserShutsDown(u)
  BY <1>2, <1>14 DEF UserTests, UserSendsFile, UserSetsState, UserShutsDown
<1>15. CASE \E u \in Users : UserSends(u)
  <2>1. sends' \in 0..MaxSends
    BY <1>15, SizeAssumption DEF UserSends, StreamInv
  <2>2. DataOK' /\ StreamIntact'
    BY <1>15, SocketOnly DEF UserSends
  <2> QED BY <2>1, <2>2 DEF StreamInv
<1>16. CASE RemoveConnectionInLoop \/ DestroyServer \/ QuitLoop \/ UNCHANGED vars
  BY <1>2, <1>16 DEF RemoveConnectionInLoop, DestroyServer, QuitLoop, vars
<1> QED
  BY <1>3, <1>4, <1>5, <1>6, <1>7, <1>8, <1>9, <1>10, <1>11, <1>12, <1>13, <1>14, <1>15,
     <1>16
  DEF Next, LoopSteps, LoopUser, UserSteps

\* Nothing has been sent to a new connection.
LEMMA StreamInit == Init => StreamInv
<1> SUFFICES ASSUME Init PROVE StreamInv
  OBVIOUS
<1>1. << >> \in Seq(Units) /\ << >> \o << >> = << >>
  BY EmptySeq, ConcatEmptySeq
<1> QED BY <1>1, SizeAssumption DEF Init, StreamInv, DataOK, StreamIntact

\* For messages and files of any length, any users on any thread and any partial
\* writes: until the stream ends, what the kernel has taken followed by what
\* outputBuffer_ holds is the data of all sends, in order, each unit once.
THEOREM StreamCorrect == Spec => []StreamIntact
<1>1. StreamInv => StreamIntact
  BY DEF StreamInv
<1> QED BY <1>1, StreamInit, StreamStep, PTL DEF Spec
-----------------------------------------------------------------------------
(***************************************************************************)
(* Types                                                                   *)
(***************************************************************************)

\* The part of TypeOK that is about control: all but the channel, the data and removed.
ControlOK ==
  /\ state \in States
  /\ loopPc \in {"poll", "dispatch", "event", "user", "batch", "left"}
  /\ then \in {"dispatch", "event", "close", "batch", "remove"}
  /\ revents \subseteq {"in", "out", "hup", "err"}
  /\ todo \subseteq {"close", "error", "read", "write"}
  /\ pending \in Seq(Functor) /\ batch \in Seq(Functor)
  /\ server \in [up: BOOLEAN, quit: BOOLEAN, inMap: BOOLEAN, removals: Nat]
  /\ userPc \in [Users -> {"idle", "send", "sendFile", "checked", "shutdown"}]
  /\ files \in 0..1
  /\ ups \in Nat /\ downs \in Nat

\* The functors that are queued.
LEMMA FunctorMembers ==
  /\ <<"connectEstablished", 0>> \in Functor /\ <<"connectDestroyed", 0>> \in Functor
  /\ <<"shutdownInLoop", 0>> \in Functor
  /\ <<"writeCompleteCallback", 0>> \in Functor /\ <<"highWaterMarkCallback", 0>> \in Functor
  /\ \A m \in 1..MaxSends : <<"sendInLoop", m>> \in Functor
  /\ \A left \in 1..FileLen : <<"sendFileInLoop", left>> \in Functor
  BY DEF Functor

\* What sendInLoop queues: nothing, or one of the two callbacks.
LEMMA SendQueues ==
  ASSUME NEW data, SendInLoop(data)
  PROVE  /\ state' = state
         /\ \/ pending' = pending
            \/ pending' = Append(pending, <<"writeCompleteCallback", 0>>)
            \/ pending' = Append(pending, <<"highWaterMarkCallback", 0>>)
  BY DEF SendInLoop, SendFaults, SendAll, SendSome, KeepRest, connVars

\* What sendFileInLoop queues: nothing, a callback, or itself for the rest.
LEMMA SendFileQueues ==
  ASSUME NEW left \in 1..FileLen, SendFileInLoop(left)
  PROVE  /\ UNCHANGED connVars
         /\ \/ pending' = pending
            \/ pending' = Append(pending, <<"writeCompleteCallback", 0>>)
            \/ \E rest \in 1..FileLen : pending' = Append(pending, <<"sendFileInLoop", rest>>)
<1>1. ASSUME NEW n \in 0..left,
             pending' = Append(pending, IF n = left THEN <<"writeCompleteCallback", 0>>
                                                   ELSE <<"sendFileInLoop", left - n>>)
      PROVE  \/ pending' = Append(pending, <<"writeCompleteCallback", 0>>)
             \/ \E rest \in 1..FileLen :
                  pending' = Append(pending, <<"sendFileInLoop", rest>>)
  <2>1. CASE n = left
    BY <1>1, <2>1
  <2>2. CASE n # left
    <3>1. left - n \in 1..FileLen
      BY <2>2, SizeAssumption
    <3> QED BY <1>1, <2>2, <3>1
  <2> QED BY <2>1, <2>2
<1> QED BY <1>1 DEF SendFileInLoop

\* Appending a functor, and taking the first away, gives a queue.
LEMMA QueueTypes ==
  ASSUME NEW q \in Seq(Functor)
  PROVE  /\ \A f \in Functor : Append(q, f) \in Seq(Functor)
         /\ q # << >> => Tail(q) \in Seq(Functor)
  BY AppendProperties, HeadTailProperties

LEMMA PushTypes ==
  ASSUME NEW q \in Seq(Functor), NEW f \in Functor, NEW r, r = q \/ r = Append(q, f)
  PROVE  r \in Seq(Functor)
  BY AppendProperties

\* Control stays in its types.
LEMMA ControlStep == ControlOK /\ sends \in 0..MaxSends /\ [Next]_vars => ControlOK'
<1> SUFFICES ASSUME ControlOK, sends \in 0..MaxSends, [Next]_vars PROVE ControlOK'
  OBVIOUS
<1> USE DEF ControlOK
<1>1. CASE PollReady \/ PollOther
  <2>1. Revents(TRUE) \subseteq {"in", "out", "hup", "err"}
        /\ Revents(FALSE) \subseteq {"in", "out", "hup", "err"}
    BY DEF Revents
  <2> QED
    BY <1>1, <2>1
    DEF PollReady, PollOther, Poll, CallUser, connVars, netVars, userVars, histVars
<1>2. CASE HandleEvent
  <2>1. Callbacks(revents) \subseteq {"close", "error", "read", "write"}
    BY DEF Callbacks
  <2> QED BY <1>2, <2>1 DEF HandleEvent, connVars, netVars, userVars, histVars
<1>3. CASE SwapFunctors
  <2>1. << >> \in Seq(Functor)
    BY EmptySeq
  <2> QED BY <1>3, <2>1 DEF SwapFunctors, connVars, netVars, userVars, histVars
<1>4. CASE HandleClose \/ HandleError
  BY <1>4
  DEF HandleClose, Close, CallUser, HandleError, connVars, netVars, userVars, histVars, States
<1>5. CASE HandleRead
  BY <1>5
  DEF HandleRead, Close, CallUser, connVars, netVars, userVars, histVars, States
<1>6. CASE HandleWrite
  <2>1. pending' = pending \/ pending' = Append(pending, <<"writeCompleteCallback", 0>>)
    BY <1>6 DEF HandleWrite, Flush
  <2>2. pending' \in Seq(Functor)
    <3>1. <<"writeCompleteCallback", 0>> \in Functor
      BY FunctorMembers
    <3>2. pending \in Seq(Functor)
      OBVIOUS
    <3> HIDE DEF ControlOK
    <3> QED BY <2>1, <3>1, <3>2, PushTypes
  <2>3. UNCHANGED <<state, loopPc, then, revents, batch, server, userVars, histVars>>
        /\ todo' = {}
    BY <1>6 DEF HandleWrite, Flush, connVars
  <2> QED BY <2>2, <2>3 DEF userVars, histVars
<1>7. CASE EventDone \/ BatchDone
  <2>1. << >> \in Seq(Functor)
    BY EmptySeq
  <2> QED BY <1>7, <2>1 DEF EventDone, BatchDone, connVars, netVars, userVars, histVars
<1>8. CASE ConnectEstablished \/ ConnectDestroyed
  <2>1. batch' \in Seq(Functor)
    BY <1>8, QueueTypes DEF ConnectEstablished, ConnectDestroyed, Calls
  <2>2. CASE ConnectEstablished
    BY <2>1, <2>2 DEF ConnectEstablished, CallUser, userVars, States
  <2>3. CASE ConnectDestroyed
    BY <2>1, <2>3 DEF ConnectDestroyed, CallUser, userVars, States
  <2> QED BY <1>8, <2>2, <2>3
<1>9. CASE QueuedSend
  <2>1. PICK m \in 1..MaxSends : Calls("sendInLoop", m) /\ SendInLoop(Message(m))
    BY <1>9 DEF QueuedSend
  <2>2. state' = state /\ pending' \in Seq(Functor)
    BY <2>1, SendQueues, FunctorMembers, QueueTypes
  <2>3. batch' \in Seq(Functor)
    BY <2>1, QueueTypes DEF Calls
  <2> QED BY <1>9, <2>2, <2>3 DEF QueuedSend, userVars, histVars
<1>10. CASE QueuedSendFile
  <2>1. PICK left \in 1..FileLen : Calls("sendFileInLoop", left) /\ SendFileInLoop(left)
    BY <1>10 DEF QueuedSendFile
  <2>2. state' = state /\ pending' \in Seq(Functor)
    BY <2>1, SendFileQueues, FunctorMembers, QueueTypes DEF connVars
  <2>3. batch' \in Seq(Functor)
    BY <2>1, QueueTypes DEF Calls
  <2> QED BY <1>10, <2>2, <2>3 DEF QueuedSendFile, userVars, histVars
<1>11. CASE QueuedShutdown \/ QueuedCallback
  <2>1. batch' \in Seq(Functor)
    BY <1>11, QueueTypes DEF QueuedShutdown, QueuedCallback, Calls
  <2> QED
    BY <1>11, <2>1
    DEF QueuedShutdown, ShutdownInLoop, QueuedCallback, CallUser, connVars, netVars, userVars,
        histVars
<1>12. CASE CallbackReturns
  BY <1>12 DEF CallbackReturns, netVars, userVars
<1>13. CASE Send
  <2>1. state' = state /\ pending' \in Seq(Functor)
    BY <1>13, SendQueues, FunctorMembers, QueueTypes DEF Send
  <2> QED BY <1>13, <2>1 DEF Send, loopVars, histVars
<1>14. CASE SendFile
  <2>1. FileLen \in 1..FileLen
    BY SizeAssumption
  <2>2. state' = state /\ pending' \in Seq(Functor)
    BY <1>14, <2>1, SendFileQueues, FunctorMembers, QueueTypes DEF SendFile, connVars
  <2> QED BY <1>14, <2>2 DEF SendFile, loopVars, histVars
<1>15. CASE Shutdown \/ Kernel
  BY <1>15
  DEF Shutdown, Kernel, PeerSends, PeerCloses, PeerResets, connVars, loopVars, userVars,
      histVars, States
<1>16. ASSUME NEW u \in Users, UserTests(u) \/ UserSteps(u)
       PROVE  ControlOK'
  <2>1. userPc' \in [Users -> {"idle", "send", "sendFile", "checked", "shutdown"}]
    BY <1>16
    DEF UserTests, UserSteps, UserSends, UserSendsFile, UserSetsState, UserShutsDown, UserGoes
  <2>2. sends < MaxSends => sends + 1 \in 1..MaxSends
    BY SizeAssumption
  <2>3. pending' \in Seq(Functor)
    <3>1. CASE UserTests(u) \/ UserSetsState(u)
      BY <3>1 DEF UserTests, UserSetsState
    <3>2. CASE UserSends(u)
      BY <2>2, <3>2, FunctorMembers, QueueTypes DEF UserSends, Push
    <3>3. CASE UserSendsFile(u)
      <4>1. FileLen \in 1..FileLen
        BY SizeAssumption
      <4> QED BY <3>3, <4>1, FunctorMembers, QueueTypes DEF UserSendsFile, Push
    <3>4. CASE UserShutsDown(u)
      BY <3>4, FunctorMembers, QueueTypes DEF UserShutsDown, Push
    <3> QED BY <1>16, <3>1, <3>2, <3>3, <3>4 DEF UserSteps
  <2>4. state' = state \/ state' = "kDisconnecting"
    BY <1>16
    DEF UserTests, UserSteps, UserSends, UserSendsFile, UserSetsState, UserShutsDown, connVars
  <2>5. files' = files \/ files' = 1
    BY <1>16
    DEF UserTests, UserSteps, UserSends, UserSendsFile, UserSetsState, UserShutsDown
  <2>6. UNCHANGED <<loopVars, server, histVars>>
    BY <1>16
    DEF UserTests, UserSteps, UserSends, UserSendsFile, UserSetsState, UserShutsDown
  <2> QED
    BY <2>1, <2>3, <2>4, <2>5, <2>6 DEF loopVars, histVars, States
<1>17. CASE RemoveConnectionInLoop \/ DestroyServer \/ QuitLoop
  <2>1. pending' = pending \/ pending' = Append(pending, <<"connectDestroyed", 0>>)
    BY <1>17 DEF RemoveConnectionInLoop, DestroyServer, QuitLoop, Push
  <2>2. pending' \in Seq(Functor)
    <3>1. <<"connectDestroyed", 0>> \in Functor
      BY FunctorMembers
    <3>2. pending \in Seq(Functor)
      OBVIOUS
    <3> HIDE DEF ControlOK
    <3> QED BY <2>1, <3>1, <3>2, PushTypes
  <2>3. server' \in [up: BOOLEAN, quit: BOOLEAN, inMap: BOOLEAN, removals: Nat]
    <3>1. CASE RemoveConnectionInLoop
      <4>1. server.removals \in Nat /\ server.removals > 0
        BY <3>1 DEF RemoveConnectionInLoop
      <4>2. server.removals - 1 \in Nat
        BY <4>1
      <4> QED BY <3>1, <4>2 DEF RemoveConnectionInLoop
    <3>2. CASE DestroyServer \/ QuitLoop
      BY <3>2 DEF DestroyServer, QuitLoop
    <3> QED BY <1>17, <3>1, <3>2
  <2>4. UNCHANGED <<connVars, loopVars, userVars, histVars>>
    BY <1>17 DEF RemoveConnectionInLoop, DestroyServer, QuitLoop
  <2> QED BY <2>2, <2>3, <2>4 DEF connVars, loopVars, userVars, histVars
<1>18. CASE UNCHANGED vars
  BY <1>18 DEF vars, connVars, loopVars, userVars, histVars
<1> QED
  BY <1>1, <1>2, <1>3, <1>4, <1>5, <1>6, <1>7, <1>8, <1>9, <1>10, <1>11, <1>12, <1>13,
     <1>14, <1>15, <1>16, <1>17, <1>18
  DEF Next, LoopSteps, LoopUser

\* A new connection has its types.
LEMMA ControlInit == Init => ControlOK
<1> SUFFICES ASSUME Init PROVE ControlOK
  OBVIOUS
<1>1. << >> \in Seq(Functor) /\ <<<<"connectEstablished", 0>>>> \in Seq(Functor)
  BY FunctorMembers, EmptySeq
<1> QED BY <1>1 DEF Init, ControlOK, States

\* Nothing is removed at the start.
LEMMA RemovedInit == Init => removed \in BOOLEAN
  BY Zenon DEF Init

\* removed is set, never reset.
LEMMA RemovedStep == [Next]_vars => removed' = removed \/ removed' = TRUE
  BY DEF Next, vars, histVars, PollReady, PollOther, Poll, LoopSteps, HandleEvent,
         SwapFunctors, HandleClose, HandleError, HandleRead, HandleWrite, EventDone, Close,
         ConnectEstablished, ConnectDestroyed, QueuedSend, QueuedShutdown, QueuedSendFile,
         QueuedCallback, BatchDone, CallbackReturns, Kernel, PeerSends, PeerCloses,
         PeerResets, LoopUser, Send, Shutdown, SendFile, UserTests, UserSteps, UserSends,
         UserSendsFile, UserSetsState, UserShutsDown, RemoveConnectionInLoop, DestroyServer,
         QuitLoop

\* TypeOK is made of the parts that have an invariance proof each.
Typed == ControlOK /\ StreamInv /\ Sound(channel) /\ removed \in BOOLEAN

\* Typed gives the type invariant.
LEMMA TypedIsTypeOK == Typed => TypeOK
  BY DEF Typed, ControlOK, StreamInv, DataOK, Sound, TypeOK

\* Typed is inductive.
LEMMA TypedStep == Typed /\ [Next]_vars => Typed'
<1> SUFFICES ASSUME Typed, [Next]_vars PROVE Typed'
  OBVIOUS
<1>1. ControlOK' /\ StreamInv' /\ Sound(channel')
  BY ControlStep, StreamStep, SoundStep DEF Typed, StreamInv
<1>2. removed' \in BOOLEAN
  BY RemovedStep, Zenon DEF Typed
<1> QED BY <1>1, <1>2 DEF Typed

\* All variables stay in their types: functors are well formed, the counters of the
\* main loop's removals never negative, whatever users, peer and server do.
THEOREM TypeCorrect == Spec => []TypeOK
<1>1. Init => Typed
  BY ControlInit, StreamInit, SoundInit, RemovedInit DEF Typed
<1> QED BY <1>1, TypedStep, TypedIsTypeOK, PTL DEF Spec
-----------------------------------------------------------------------------
(***************************************************************************)
(* The order of functors                                                   *)
(***************************************************************************)

Est == <<"connectEstablished", 0>>
Des == <<"connectDestroyed", 0>>

\* Functors of different operations are different.
LEMMA FunctorsDiffer ==
  /\ Est # Des /\ \A op, arg : op # "connectEstablished" => <<op, arg>> # Est
  /\ \A op, arg : op # "connectDestroyed" => <<op, arg>> # Des
  /\ \A op, arg, m : op # "sendInLoop" => <<op, arg>> # <<"sendInLoop", m>>
  BY DEF Est, Des

\* What a step may append to the queue of functors, and which step it is: nobody
\* appends connectEstablished, only the main loop appends connectDestroyed. The queue
\* is thrown away when the loop ends.
Appends ==
  \/ pending' = pending
  \/ pending' = << >> /\ BatchDone
  \/ \E op \in {"writeCompleteCallback", "highWaterMarkCallback"} :
       pending' = Append(pending, <<op, 0>>)
  \/ /\ \E m \in 1..MaxSends : pending' = Append(pending, <<"sendInLoop", m>>)
     /\ \E u \in Users : UserSends(u)
  \/ /\ pending' = Append(pending, <<"shutdownInLoop", 0>>)
     /\ \E u \in Users : UserShutsDown(u)
  \/ /\ \E left \in 1..FileLen : pending' = Append(pending, <<"sendFileInLoop", left>>)
     /\ QueuedSendFile \/ SendFile \/ \E u \in Users : UserSendsFile(u)
  \/ /\ pending' = Append(pending, Des)
     /\ RemoveConnectionInLoop \/ DestroyServer

\* The loop's thread takes functors from the front of the batch only.
Takes == batch' = batch \/ (loopPc = "batch" /\ batch # << >> /\ batch' = Tail(batch))

\* A step swaps the queues, or takes and appends.
LEMMA QueuesMove ==
  ASSUME ControlOK, sends \in 0..MaxSends, [Next]_vars
  PROVE  SwapFunctors \/ (Takes /\ Appends)
<1> USE DEF Takes, Appends
<1>1. CASE \/ PollReady \/ PollOther \/ HandleEvent \/ HandleClose \/ HandleError \/ HandleRead
           \/ EventDone \/ BatchDone \/ CallbackReturns \/ Kernel \/ Shutdown
  BY <1>1
  DEF PollReady, PollOther, Poll, HandleEvent, HandleClose, HandleError, HandleRead, EventDone,
      BatchDone, CallbackReturns, Kernel, PeerSends, PeerCloses, PeerResets, Shutdown, loopVars
<1>2. CASE HandleWrite
  BY <1>2 DEF HandleWrite, Flush
<1>3. CASE \/ ConnectEstablished \/ ConnectDestroyed \/ QueuedShutdown \/ QueuedCallback
  BY <1>3
  DEF ConnectEstablished, ConnectDestroyed, QueuedShutdown, ShutdownInLoop, QueuedCallback, Calls
<1>4. CASE QueuedSend
  <2>1. PICK m \in 1..MaxSends : Calls("sendInLoop", m) /\ SendInLoop(Message(m))
    BY <1>4 DEF QueuedSend
  <2>2. Takes
    BY <2>1 DEF Calls
  <2>3. Appends
    BY <2>1, SendQueues
  <2> QED BY <2>2, <2>3
<1>5. CASE QueuedSendFile
  <2>1. PICK left \in 1..FileLen : Calls("sendFileInLoop", left) /\ SendFileInLoop(left)
    BY <1>5 DEF QueuedSendFile
  <2>2. Takes
    BY <2>1 DEF Calls
  <2>3. Appends
    BY <1>5, <2>1, SendFileQueues
  <2> QED BY <2>2, <2>3
<1>6. CASE Send
  <2>1. Appends
    BY <1>6, SendQueues DEF Send
  <2>2. Takes
    BY <1>6 DEF Send, loopVars
  <2> QED BY <2>1, <2>2
<1>7. CASE SendFile
  <2>1. FileLen \in 1..FileLen
    BY SizeAssumption
  <2>2. Appends
    BY <1>7, <2>1, SendFileQueues DEF SendFile
  <2>3. Takes
    BY <1>7 DEF SendFile, loopVars
  <2> QED BY <2>2, <2>3
<1>8. ASSUME NEW u \in Users, UserTests(u) \/ UserSteps(u)
      PROVE  Takes /\ Appends
  <2>1. Takes
    BY <1>8
    DEF UserTests, UserSteps, UserSends, UserSendsFile, UserSetsState, UserShutsDown, loopVars
  <2>2. sends < MaxSends => sends + 1 \in 1..MaxSends
    BY SizeAssumption
  <2>3. FileLen \in 1..FileLen
    BY SizeAssumption
  <2>4. CASE UserTests(u) \/ UserSetsState(u)
    BY <2>1, <2>4 DEF UserTests, UserSetsState
  <2>5. CASE UserSends(u)
    BY <2>1, <2>2, <2>5 DEF UserSends, Push
  <2>6. CASE UserSendsFile(u)
    BY <2>1, <2>3, <2>6 DEF UserSendsFile, Push
  <2>7. CASE UserShutsDown(u)
    BY <2>1, <2>7 DEF UserShutsDown, Push
  <2> QED BY <1>8, <2>4, <2>5, <2>6, <2>7 DEF UserSteps
<1>9. CASE RemoveConnectionInLoop \/ DestroyServer \/ QuitLoop
  BY <1>9 DEF RemoveConnectionInLoop, DestroyServer, QuitLoop, Push, Des, loopVars
<1>10. CASE UNCHANGED vars
  BY <1>10 DEF vars, loopVars
<1> QED
  BY <1>1, <1>2, <1>3, <1>4, <1>5, <1>6, <1>7, <1>8, <1>9, <1>10
  DEF Next, LoopSteps, LoopUser

\* Only the main loop appends connectDestroyed.
LEMMA AppendsOthers ==
  ASSUME Appends
  PROVE  \/ pending' = pending
         \/ pending' = << >> /\ BatchDone
         \/ \E g \in Functor \ {Est, Des} : pending' = Append(pending, g)
         \/ /\ pending' = Append(pending, Des) /\ Des \in Functor \ {Est}
            /\ RemoveConnectionInLoop \/ DestroyServer
<1>1. /\ <<"writeCompleteCallback", 0>> \in Functor \ {Est, Des}
      /\ <<"highWaterMarkCallback", 0>> \in Functor \ {Est, Des}
      /\ <<"shutdownInLoop", 0>> \in Functor \ {Est, Des}
      /\ \A m \in 1..MaxSends : <<"sendInLoop", m>> \in Functor \ {Est, Des}
      /\ \A left \in 1..FileLen : <<"sendFileInLoop", left>> \in Functor \ {Est, Des}
      /\ Des \in Functor \ {Est}
  BY FunctorMembers, FunctorsDiffer DEF Des
<1> QED BY <1>1 DEF Appends

\* What each place of the loop's thread may leave: a batch, callbacks and events are
\* there only while they are worked on.
Places ==
  /\ batch # << >> => loopPc = "batch" \/ (loopPc = "user" /\ then \in {"batch", "remove"})
  /\ todo # {} => loopPc = "event" \/ (loopPc = "user" /\ then \in {"event", "close"})
  /\ revents # {} => loopPc = "dispatch" \/ (loopPc = "user" /\ then = "dispatch")
  /\ ~({"close", "read"} \subseteq todo)

\* Places at the start.
LEMMA PlacesInit == Init => Places
  BY DEF Init, Places

\* Places is inductive.
LEMMA PlacesStep == ControlOK /\ Places /\ [Next]_vars => Places'
<1> SUFFICES ASSUME ControlOK, Places, [Next]_vars PROVE Places'
  OBVIOUS
<1>1. CASE PollReady \/ PollOther
  BY <1>1 DEF Places, PollReady, PollOther, Poll, CallUser
<1>2. CASE HandleEvent
  <2>1. ~({"close", "read"} \subseteq Callbacks(revents))
    BY DEF Callbacks
  <2> QED BY <1>2, <2>1 DEF Places, HandleEvent
<1>3. CASE SwapFunctors
  BY <1>3 DEF Places, SwapFunctors
<1>4. CASE HandleClose \/ HandleError
  BY <1>4 DEF Places, HandleClose, Close, CallUser, HandleError
<1>5. CASE HandleRead
  BY <1>5 DEF Places, HandleRead, Close, CallUser
<1>6. CASE HandleWrite \/ EventDone \/ BatchDone
  BY <1>6 DEF Places, HandleWrite, EventDone, BatchDone
<1>7. CASE \/ ConnectEstablished \/ ConnectDestroyed \/ QueuedCallback
  BY <1>7
  DEF Places, ConnectEstablished, ConnectDestroyed, QueuedCallback, Calls, CallUser
<1>8. CASE QueuedSend \/ QueuedShutdown \/ QueuedSendFile
  BY <1>8 DEF Places, QueuedSend, QueuedShutdown, QueuedSendFile, Calls
<1>9. CASE CallbackReturns
  BY <1>9 DEF Places, CallbackReturns, ControlOK
<1>10. CASE Kernel \/ LoopUser
  <2>1. UNCHANGED loopVars
    BY <1>10 DEF Kernel, PeerSends, PeerCloses, PeerResets, LoopUser, Send, Shutdown, SendFile
  <2> QED BY <2>1 DEF Places, loopVars
<1>11. CASE \/ \E u \in Users : UserTests(u) \/ UserSteps(u)
            \/ RemoveConnectionInLoop \/ DestroyServer \/ QuitLoop \/ UNCHANGED vars
  <2>1. UNCHANGED loopVars
    BY <1>11
    DEF UserTests, UserSteps, UserSends, UserSendsFile, UserSetsState, UserShutsDown,
        RemoveConnectionInLoop, DestroyServer, QuitLoop, vars
  <2> QED BY <2>1 DEF Places, loopVars
<1> QED
  BY <1>1, <1>2, <1>3, <1>4, <1>5, <1>6, <1>7, <1>8, <1>9, <1>10, <1>11 DEF Next, LoopSteps

\* Before connectEstablished has run it is the first functor there is, as long as there
\* is a loop, nothing is registered and no user has the connection.
Connecting ==
  /\ ups = 0 /\ downs = 0 /\ ~removed
  /\ IF batch = << >>
       THEN /\ loopPc # "left" => pending # << >> /\ Head(pending) = Est
            /\ Once(Est, pending)
       ELSE Head(batch) = Est /\ Once(Est, batch) /\ ~In(Est, pending)
  /\ channel.events = {} /\ ~channel.registered /\ channel.index = "kNew"
  /\ outputBuffer = << >>
  /\ revents = {} /\ todo = {}
  /\ \A u \in Users : userPc[u] = "idle"
  /\ ~(loopPc = "user" /\ then \in {"close", "remove"})

\* After it, it is in no queue.
Established == ups = 1 /\ ~In(Est, pending) /\ ~In(Est, batch)

Front == IF state = "kConnecting" THEN Connecting ELSE Established

\* At the start connectEstablished is the only functor.
LEMMA FrontInit == Init => Front
<1> SUFFICES ASSUME Init PROVE Front
  OBVIOUS
<1>1. pending # << >> /\ Head(pending) = Est /\ Once(Est, pending)
  BY DEF Init, Once, Est
<1> QED BY <1>1 DEF Init, Front, Connecting, NewChannel

\* An established connection stays established.
LEMMA EstablishedStep ==
  ASSUME ControlOK, sends \in 0..MaxSends, state # "kConnecting", Established, [Next]_vars
  PROVE  state' # "kConnecting" /\ Established'
<1>1. ~ConnectEstablished
  <2> SUFFICES ASSUME ConnectEstablished PROVE FALSE
    OBVIOUS
  <2>1. batch # << >> /\ Head(batch) = Est
    BY DEF ConnectEstablished, Calls, Est
  <2> QED BY <2>1, TailIn DEF Established, ControlOK
<1>2. ups' = ups /\ state' # "kConnecting"
  <2>1. CASE \/ QueuedSend \/ QueuedSendFile \/ Send \/ SendFile
    <3>1. FileLen \in 1..FileLen
      BY SizeAssumption
    <3>2. state' = state
      BY <2>1, <3>1, SendQueues, SendFileQueues
      DEF QueuedSend, QueuedSendFile, Send, SendFile, connVars
    <3> QED BY <2>1, <3>2 DEF QueuedSend, QueuedSendFile, Send, SendFile, histVars
  <2>2. CASE LoopSteps /\ ~(QueuedSend \/ QueuedSendFile)
    BY <1>1, <2>2
    DEF LoopSteps, HandleEvent, SwapFunctors, HandleClose, HandleError, HandleRead, HandleWrite,
        EventDone, Close, Flush, ConnectDestroyed, QueuedShutdown, ShutdownInLoop, QueuedCallback,
        BatchDone, CallbackReturns, connVars, histVars
  <2>3. CASE \/ PollReady \/ PollOther \/ Kernel \/ Shutdown
             \/ \E u \in Users : UserTests(u) \/ UserSteps(u)
             \/ RemoveConnectionInLoop \/ DestroyServer \/ QuitLoop \/ UNCHANGED vars
    BY <2>3
    DEF PollReady, PollOther, Poll, Kernel, PeerSends, PeerCloses, PeerResets, Shutdown,
        UserTests, UserSteps, UserSends, UserSendsFile, UserSetsState, UserShutsDown,
        RemoveConnectionInLoop, DestroyServer, QuitLoop, vars, connVars, histVars
  <2> QED BY <2>1, <2>2, <2>3 DEF Next, LoopUser
<1>3. CASE SwapFunctors
  <2>1. batch' = pending /\ pending' = << >>
    BY <1>3 DEF SwapFunctors
  <2> QED BY <1>2, <2>1, EmptyIn DEF Established
<1>4. CASE ~SwapFunctors
  <2>1. /\ batch' = batch \/ (batch # << >> /\ batch' = Tail(batch))
        /\ \/ pending' = pending \/ pending' = << >>
           \/ \E g \in Functor \ {Est} : pending' = Append(pending, g)
    BY <1>4, QueuesMove, AppendsOthers DEF Takes
  <2>2. pending \in Seq(Functor) /\ batch \in Seq(Functor)
    BY DEF ControlOK
  <2>3. ~In(Est, batch')
    BY <2>1, <2>2, TailIn DEF Established
  <2>4. ~In(Est, pending')
    <3>1. CASE pending' = << >>
      BY <3>1, EmptyIn
    <3>2. CASE pending' = pending \/ \E g \in Functor \ {Est} : pending' = Append(pending, g)
      BY <2>2, <3>2, AppendIn DEF Established
    <3> QED BY <2>1, <3>1, <3>2
  <2> QED BY <1>2, <2>3, <2>4 DEF Established
<1> QED BY <1>3, <1>4

\* The only step that ends the connecting phase is connectEstablished.
LEMMA ConnectingStep ==
  ASSUME Typed, Places, state = "kConnecting", Connecting, [Next]_vars
  PROVE  \/ ConnectEstablished /\ Established'
         \/ state' = "kConnecting" /\ Connecting'
<1>0. /\ pending \in Seq(Functor) /\ batch \in Seq(Functor)
      /\ sends \in 0..MaxSends /\ ControlOK
  BY DEF Typed, ControlOK, StreamInv
<1>1. CASE ConnectEstablished
  <2>1. /\ batch # << >> /\ Head(batch) = Est /\ batch' = Tail(batch)
        /\ pending' = pending /\ ups' = ups + 1
    BY <1>1 DEF ConnectEstablished, Calls, Est
  <2>2. ~In(Est, pending) /\ ~In(Est, Tail(batch))
    BY <1>0, <2>1, TailIn DEF Connecting
  <2> QED BY <1>1, <2>1, <2>2 DEF Established, Connecting
<1>2. CASE SwapFunctors
  <2>1. batch = << >> /\ loopPc' = "batch" /\ batch' = pending /\ pending' = << >>
    BY <1>2 DEF SwapFunctors, Places
  <2>2. /\ UNCHANGED <<state, channel, outputBuffer, revents, todo, userPc, ups, downs, removed>>
        /\ UNCHANGED then
    BY <1>2 DEF SwapFunctors, connVars, userVars, histVars
  <2>3. pending # << >> /\ Head(pending) = Est /\ Once(Est, pending)
    BY <1>2, <2>1 DEF Connecting, SwapFunctors
  <2> QED BY <2>1, <2>2, <2>3, EmptyIn DEF Connecting
<1>3. ASSUME UNCHANGED <<state, channel, outputBuffer, batch, revents, todo, userPc, ups, downs>>,
             UNCHANGED removed,
             ~(loopPc' = "user" /\ then' \in {"close", "remove"}),
             loopPc = "left" => loopPc' = "left",
             pending' = pending \/ \E g \in Functor \ {Est} : pending' = Append(pending, g)
      PROVE  state' = "kConnecting" /\ Connecting'
  <2>1. /\ pending # << >> => pending' # << >> /\ Head(pending') = Head(pending)
        /\ Once(Est, pending) => Once(Est, pending')
        /\ ~In(Est, pending) => ~In(Est, pending')
    BY <1>0, <1>3, AppendIn
  <2> QED BY <1>3, <2>1 DEF Connecting
<1>4. ~(PollReady \/ HandleEvent \/ HandleClose \/ HandleError \/ HandleRead \/ HandleWrite)
  BY DEF PollReady, HandleEvent, HandleClose, HandleError, HandleRead, HandleWrite, Connecting
<1>5. ~(\/ ConnectDestroyed \/ QueuedSend \/ QueuedShutdown \/ QueuedSendFile \/ QueuedCallback)
  <2>1. batch # << >> => Head(batch) = Est
    BY DEF Connecting
  <2> QED
    BY <2>1
    DEF ConnectDestroyed, QueuedSend, QueuedShutdown, QueuedSendFile, QueuedCallback, Calls, Est
<1>6. ~LoopUser
  BY DEF LoopUser, Send, Shutdown, SendFile, MayCall
<1>7. \A u \in Users : ~UserTests(u) /\ ~UserSteps(u)
  BY DEF UserTests, UserSteps, UserSends, UserSendsFile, UserSetsState, UserShutsDown, UserGoes,
         Connecting
<1>8. CASE PollOther \/ EventDone \/ BatchDone
  <2>1. CASE PollOther \/ EventDone \/ (BatchDone /\ ~server.quit)
    BY <1>3, <2>1
    DEF PollOther, Poll, CallUser, EventDone, BatchDone, Connecting, connVars, netVars, userVars,
        histVars
  <2>2. CASE BatchDone /\ server.quit
    <3>1. pending' = << >> /\ batch' = << >> /\ loopPc' = "left"
      BY <2>2 DEF BatchDone
    <3>2. Once(Est, << >>)
      BY EmptyIn
    <3> QED BY <2>2, <3>1, <3>2 DEF BatchDone, Connecting, connVars, userVars, histVars
  <2> QED BY <1>8, <2>1, <2>2
<1>9. CASE CallbackReturns
  <2>1. then \notin {"close", "remove"} /\ loopPc' # "user"
    BY <1>9 DEF CallbackReturns, Connecting, Typed, ControlOK
  <2> QED BY <1>3, <1>9, <2>1 DEF CallbackReturns, userVars
<1>10. CASE Kernel \/ UNCHANGED vars
  BY <1>3, <1>10
  DEF Kernel, PeerSends, PeerCloses, PeerResets, vars, Connecting, connVars, loopVars, userVars,
      histVars
<1>11. CASE RemoveConnectionInLoop \/ DestroyServer \/ QuitLoop
  <2>1. Des \in Functor \ {Est}
    BY FunctorMembers, FunctorsDiffer DEF Des
  <2>2. pending' = pending \/ pending' = Append(pending, Des)
    BY <1>11 DEF RemoveConnectionInLoop, DestroyServer, QuitLoop, Push, Des
  <2>3. UNCHANGED <<connVars, loopVars, userVars, histVars>>
    BY <1>11 DEF RemoveConnectionInLoop, DestroyServer, QuitLoop
  <2> QED BY <1>3, <2>1, <2>2, <2>3 DEF Connecting, connVars, loopVars, userVars, histVars
<1> QED
  BY <1>1, <1>2, <1>4, <1>5, <1>6, <1>7, <1>8, <1>9, <1>10, <1>11 DEF Next, LoopSteps

\* What holds of the loop's thread and its queues whoever uses the connection.
FrontInv == Typed /\ Places /\ Front

\* FrontInv is inductive.
LEMMA FrontStep == FrontInv /\ [Next]_vars => FrontInv'
<1> SUFFICES ASSUME FrontInv, [Next]_vars PROVE FrontInv'
  OBVIOUS
<1>1. Typed' /\ Places'
  BY TypedStep, PlacesStep DEF FrontInv, Typed
<1>2. CASE state = "kConnecting"
  <2>1. ConnectEstablished => state' # "kConnecting"
    BY DEF ConnectEstablished
  <2> QED BY <1>1, <1>2, <2>1, ConnectingStep DEF FrontInv, Front
<1>3. CASE state # "kConnecting"
  BY <1>1, <1>3, EstablishedStep DEF FrontInv, Front, Typed, StreamInv
<1> QED BY <1>2, <1>3

\* FrontInv at the start.
LEMMA FrontInvInit == Init => FrontInv
  BY ControlInit, StreamInit, SoundInit, RemovedInit, PlacesInit, FrontInit DEF FrontInv, Typed

\* Only the users move userPc.
LEMMA UsersMove ==
  ASSUME [Next]_vars
  PROVE  UNCHANGED userPc \/ \E u \in Users : UserTests(u) \/ UserSteps(u)
  BY DEF Next, LoopSteps, LoopUser, Kernel, PollReady, PollOther, Poll, HandleEvent,
         SwapFunctors, HandleClose, HandleError, HandleRead, HandleWrite, EventDone,
         ConnectEstablished, ConnectDestroyed, QueuedSend, QueuedShutdown, QueuedSendFile,
         QueuedCallback, BatchDone, CallbackReturns, PeerSends, PeerCloses, PeerResets, Send,
         Shutdown, SendFile, RemoveConnectionInLoop, DestroyServer, QuitLoop, vars, userVars
-----------------------------------------------------------------------------
(***************************************************************************)
(* The end of a connection                                                 *)
(***************************************************************************)

\* No sendInLoop waits in the queue: nobody sends from another thread.
SendFree ==
  /\ \A m \in 1..MaxSends : ~In(<<"sendInLoop", m>>, pending) /\ ~In(<<"sendInLoop", m>>, batch)
  /\ \A u \in Users : userPc[u] # "send"

\* connectDestroyed, handleClose wait for the user callback to return.
Removing == loopPc = "user" /\ then = "remove"
Closing == loopPc = "user" /\ then = "close"

\* How far the connection has come, and what that means for its channel.
Ended ==
  /\ downs <= 1
  /\ state = "kConnected" => downs = 0 /\ ~removed
  /\ state = "kDisconnected" => downs = 1
  /\ Removing => ~removed /\ downs = 1
  /\ ups = 1 /\ downs = 0 /\ ~removed => channel.registered /\ "in" \in channel.events
  /\ downs = 1 \/ removed => /\ ~channel.registered /\ revents = {}
                             /\ todo \subseteq {"error", "write"}
  /\ downs = 1 => channel.events = {}
  /\ removed => channel.index = "kNew" /\ todo = {}

NoDestruction == ~In(Des, pending) /\ ~In(Des, batch)

\* There is one right to end the connection: its place in connections_, then one
\* connectDestroyed in the queues, then a connectDestroyed that has run.
Tokens ==
  /\ Once(Des, pending) /\ Once(Des, batch) /\ ~(In(Des, pending) /\ In(Des, batch))
  /\ removed \/ Removing \/ server.inMap => NoDestruction
  /\ server.inMap => server.up /\ ~removed /\ ~Removing
  /\ server.up /\ ~server.inMap => downs = 1
  /\ server.removals <= 1 /\ (Closing => server.removals = 0)
  /\ server.removals > 0 \/ Closing => downs = 1 /\ (server.up => server.inMap)

LifeInv == FrontInv /\ SendFree /\ Ended /\ Tokens

\* SendFree is inductive when no other thread sends.
LEMMA SendFreeStep ==
  ASSUME "send" \notin UserOps, Typed, SendFree, [Next]_vars
  PROVE  SendFree'
<1>0. /\ pending \in Seq(Functor) /\ batch \in Seq(Functor) /\ ControlOK
      /\ sends \in 0..MaxSends
      /\ userPc \in [Users -> {"idle", "send", "sendFile", "checked", "shutdown"}]
  BY DEF Typed, ControlOK, StreamInv
<1>1. ASSUME NEW u \in Users PROVE userPc'[u] # "send"
  <2>2. CASE UNCHANGED userPc
    BY <2>2 DEF SendFree
  <2>3. ASSUME NEW v \in Users, UserTests(v) \/ UserSteps(v)
        PROVE  userPc'[u] # "send"
    BY <1>0, <2>3
    DEF UserTests, UserSteps, UserSends, UserSendsFile, UserSetsState, UserShutsDown, UserGoes,
        SendFree
  <2> QED BY <2>2, <2>3, UsersMove
<1>2. \A u \in Users : ~UserSends(u)
  BY DEF UserSends, UserGoes, SendFree
<1>3. ASSUME NEW m \in 1..MaxSends
      PROVE  ~In(<<"sendInLoop", m>>, pending') /\ ~In(<<"sendInLoop", m>>, batch')
  <2> DEFINE f == <<"sendInLoop", m>>
  <2>1. ~In(f, pending) /\ ~In(f, batch)
    BY DEF SendFree
  <2>2. /\ <<"writeCompleteCallback", 0>> \in Functor \ {f}
        /\ <<"highWaterMarkCallback", 0>> \in Functor \ {f}
        /\ <<"shutdownInLoop", 0>> \in Functor \ {f}
        /\ \A left \in 1..FileLen : <<"sendFileInLoop", left>> \in Functor \ {f}
        /\ Des \in Functor \ {f}
    BY FunctorMembers, FunctorsDiffer DEF Des
  <2> HIDE DEF f
  <2>3. CASE SwapFunctors
    <3>1. ~In(f, pending') /\ ~In(f, batch')
      BY <2>1, <2>3, EmptyIn DEF SwapFunctors
    <3> QED BY <3>1 DEF f
  <2>4. CASE Takes /\ Appends
    <3>1. \/ pending' = pending \/ pending' = << >>
          \/ \E g \in Functor \ {f} : pending' = Append(pending, g)
      BY <1>2, <2>2, <2>4 DEF Appends
    <3>2. ~In(f, batch')
      BY <1>0, <2>1, <2>4, TailIn DEF Takes
    <3>3. ASSUME NEW g \in Functor \ {f}
          PROVE  ~In(f, Append(pending, g))
      BY <1>0, <2>1, AppendIn
    <3>4. ~In(f, pending')
      BY <2>1, <3>1, <3>3, EmptyIn
    <3> QED BY <3>2, <3>4 DEF f
  <2> QED BY <1>0, <2>3, <2>4, QueuesMove
<1> QED BY <1>1, <1>3 DEF SendFree

\* An established connection that has not ended is registered for reading.
LEMMA AliveIsRegistered ==
  ASSUME FrontInv, Ended, state # "kConnecting", downs # 1, ~removed
  PROVE  ups = 1 /\ downs = 0 /\ channel.registered /\ "in" \in channel.events
<1>1. ups = 1
  BY DEF FrontInv, Front, Established
<1>2. downs = 0
  BY DEF Ended, FrontInv, Typed, ControlOK
<1> QED BY <1>1, <1>2 DEF Ended

\* handleClose in a connection that has not ended, in the step of either handler.
LEMMA CloseEnds ==
  ASSUME FrontInv, Ended, state # "kConnecting", downs # 1, ~removed, Close, revents' = {},
         todo' \subseteq {"error", "write"}
  PROVE  Ended'
<1>1. ~DisableAll(channel).registered /\ DisableAll(channel).events = {} /\ downs = 0
  BY AliveIsRegistered, ChannelEffects DEF FrontInv, Typed
<1> QED BY <1>1 DEF Close, CallUser, Ended, Removing

\* The events and callbacks on the loop's thread keep Ended.
LEMMA EndedEvents ==
  ASSUME FrontInv, Ended,
         PollReady \/ PollOther \/ HandleEvent \/ HandleClose \/ HandleError \/ HandleRead
  PROVE  Ended'
<1>0. todo # {} \/ revents # {} => state # "kConnecting"
  BY DEF FrontInv, Front, Connecting
<1>1. CASE PollReady \/ PollOther
  <2>1. UNCHANGED <<connVars, histVars, todo>> /\ ~Removing'
    BY <1>1 DEF PollReady, PollOther, Poll, CallUser, Removing
  <2>2. revents' = {} \/ channel.registered
    BY <1>1 DEF PollReady, PollOther, Poll
  <2> QED BY <2>1, <2>2 DEF Ended, connVars, histVars
<1>2. CASE HandleEvent
  BY <1>2 DEF HandleEvent, Ended, Removing, connVars, histVars
<1>3. CASE HandleError
  BY <1>3 DEF HandleError, Ended, Removing, connVars, histVars
<1>4. CASE HandleClose
  <2>1. downs # 1 /\ ~removed /\ state # "kConnecting"
    BY <1>0, <1>4 DEF HandleClose, Ended
  <2>2. todo \subseteq {"close", "error", "write"} /\ revents = {}
    BY <1>4 DEF HandleClose, FrontInv, Places, Typed, ControlOK
  <2>3. Close /\ revents' = {} /\ todo' \subseteq {"error", "write"}
    BY <1>4, <2>2 DEF HandleClose
  <2> QED BY <2>1, <2>3, CloseEnds
<1>5. CASE HandleRead
  <2>1. downs # 1 /\ ~removed /\ state # "kConnecting"
    BY <1>0, <1>5 DEF HandleRead, Ended
  <2>2. todo \subseteq {"read", "write"} /\ revents = {} /\ loopPc = "event"
    BY <1>5 DEF HandleRead, FrontInv, Places, Typed, ControlOK
  <2>3. revents' = {} /\ todo' \subseteq {"error", "write"}
    BY <1>5, <2>2 DEF HandleRead
  <2>4. CASE Close
    BY <2>1, <2>3, <2>4, CloseEnds
  <2>5. CASE UNCHANGED <<connVars, histVars>> /\ ~Removing'
    BY <2>1, <2>3, <2>5 DEF Ended, connVars, histVars
  <2>6. Close \/ (UNCHANGED <<connVars, histVars>> /\ ~Removing')
    BY <1>5, <2>2 DEF HandleRead, CallUser, Removing
  <2> QED BY <2>4, <2>5, <2>6
<1> QED BY <1>1, <1>2, <1>3, <1>4, <1>5

\* The channel keeps its registration through the steps that write.
LEMMA EndedWrites ==
  ASSUME FrontInv, Ended, UNCHANGED <<state, loopPc, then, histVars, revents>>,
         todo' \subseteq todo,
         \/ UNCHANGED channel
         \/ /\ state # "kConnecting" /\ downs # 1 /\ ~removed
            /\ channel' = EnableWriting(channel) \/ channel' = DisableWriting(channel)
  PROVE  Ended'
<1>1. CASE UNCHANGED channel
  BY <1>1 DEF Ended, Removing, histVars
<1>2. CASE ~UNCHANGED channel
  <2>1. state # "kConnecting" /\ downs # 1 /\ ~removed
    BY <1>2
  <2>2. ups = 1 /\ downs = 0 /\ channel.registered /\ "in" \in channel.events
    BY <2>1, AliveIsRegistered
  <2>3. channel'.registered /\ "in" \in channel'.events
    BY <1>2, <2>2, ChannelEffects DEF FrontInv, Typed
  <2> QED BY <2>1, <2>2, <2>3 DEF Ended, Removing, histVars
<1> QED BY <1>1, <1>2

\* Every step keeps Ended.
LEMMA EndedStep ==
  ASSUME FrontInv, SendFree, Ended, [Next]_vars
  PROVE  Ended'
<1>1. CASE PollReady \/ PollOther \/ HandleEvent \/ HandleClose \/ HandleError \/ HandleRead
  BY <1>1, EndedEvents
<1>2. CASE HandleWrite
  <2>1. UNCHANGED <<state, loopPc, then, histVars, revents>> /\ todo' \subseteq todo /\ todo # {}
    BY <1>2 DEF HandleWrite, Flush, connVars
  <2>2. UNCHANGED channel \/ (Writing /\ channel' = DisableWriting(channel))
    BY <1>2 DEF HandleWrite, Flush, connVars
  <2>3. Writing => downs # 1 /\ ~removed /\ state # "kConnecting"
    BY <2>1 DEF Writing, IsWriting, Ended, FrontInv, Front, Connecting
  <2> QED BY <2>1, <2>2, <2>3, EndedWrites
<1>3. CASE SwapFunctors \/ EventDone \/ BatchDone
  BY <1>3 DEF SwapFunctors, EventDone, BatchDone, Ended, Removing, connVars, histVars
<1>4. CASE ConnectEstablished
  <2>1. state = "kConnecting" /\ Connecting
    <3>1. batch # << >> /\ Head(batch) = Est
      BY <1>4 DEF ConnectEstablished, Calls, Est
    <3> QED BY <3>1, TailIn DEF FrontInv, Front, Established, Typed, ControlOK
  <2>2. EnableReading(channel).registered /\ "in" \in EnableReading(channel).events
    BY <2>1, ChannelEffects DEF Connecting, FrontInv, Typed
  <2> QED BY <1>4, <2>1, <2>2 DEF ConnectEstablished, CallUser, Connecting, Ended, Removing
<1>5. CASE ConnectDestroyed
  <2>1. todo = {} /\ revents = {} /\ todo' = {} /\ revents' = {} /\ ups' = ups
    BY <1>5 DEF ConnectDestroyed, Calls, FrontInv, Places
  <2>2. CASE state = "kConnected"
    <3>1. downs = 0 /\ ~removed /\ channel.registered
      BY <2>2, AliveIsRegistered DEF Ended
    <3>2. ~DisableAll(channel).registered /\ DisableAll(channel).events = {}
      BY <3>1, ChannelEffects DEF FrontInv, Typed
    <3> QED BY <1>5, <2>1, <2>2, <3>1, <3>2 DEF ConnectDestroyed, CallUser, Ended, Removing
  <2>3. CASE state # "kConnected"
    <3>1. /\ ~RemoveChannel(channel).registered /\ RemoveChannel(channel).index = "kNew"
          /\ RemoveChannel(channel).events = channel.events
      BY ChannelEffects DEF FrontInv, Typed
    <3>2. /\ channel' = RemoveChannel(channel) /\ removed' /\ loopPc' = "batch"
          /\ UNCHANGED <<state, downs>>
      BY <1>5, <2>3 DEF ConnectDestroyed, Calls
    <3> QED BY <2>1, <2>3, <3>1, <3>2 DEF Ended, Removing
  <2> QED BY <2>2, <2>3
<1>6. ~QueuedSend
  <2> SUFFICES ASSUME NEW m \in 1..MaxSends, Calls("sendInLoop", m) PROVE FALSE
    BY DEF QueuedSend
  <2>1. batch # << >> /\ Head(batch) = <<"sendInLoop", m>> /\ batch \in Seq(Functor)
    BY DEF Calls, FrontInv, Typed, ControlOK
  <2>2. In(<<"sendInLoop", m>>, batch)
    BY <2>1, TailIn
  <2> QED BY <2>2 DEF SendFree
<1>7. CASE QueuedShutdown \/ QueuedSendFile
  <2>1. UNCHANGED <<connVars, loopPc, then, revents, todo, histVars>>
    BY <1>7, SendFileQueues DEF QueuedShutdown, ShutdownInLoop, QueuedSendFile
  <2> QED BY <2>1, EndedWrites DEF connVars
<1>8. CASE QueuedCallback
  BY <1>8 DEF QueuedCallback, CallUser, Ended, Removing, connVars, histVars
<1>9. CASE CallbackReturns
  <2>1. CASE then = "remove"
    <3>1. /\ ~RemoveChannel(channel).registered /\ RemoveChannel(channel).index = "kNew"
          /\ RemoveChannel(channel).events = channel.events
      BY ChannelEffects DEF FrontInv, Typed
    <3>2. ~removed /\ downs = 1 /\ todo = {} /\ revents = {}
      BY <1>9, <2>1 DEF CallbackReturns, Ended, Removing, FrontInv, Places
    <3>3. /\ channel' = RemoveChannel(channel) /\ removed' /\ loopPc' = "batch"
          /\ UNCHANGED <<state, ups, downs, todo, revents>>
      BY <1>9, <2>1 DEF CallbackReturns
    <3> QED BY <3>1, <3>2, <3>3 DEF Ended, Removing
  <2>2. CASE then # "remove"
    <3>1. UNCHANGED <<state, channel, then, revents, todo, ups, downs>> /\ UNCHANGED removed
      BY <1>9, <2>2 DEF CallbackReturns
    <3> QED BY <2>2, <3>1 DEF Ended, Removing
  <2> QED BY <2>1, <2>2
<1>10. CASE Send
  <2>1. state = "kConnected" /\ UNCHANGED <<state, loopPc, then, histVars, revents, todo>>
    BY <1>10, SendQueues DEF Send, MayCall, loopVars
  <2>2. UNCHANGED channel \/ channel' = EnableWriting(channel)
    BY <1>10 DEF Send, SendInLoop, SendFaults, SendAll, SendSome, KeepRest, connVars
  <2>3. downs # 1 /\ ~removed
    BY <2>1 DEF Ended
  <2> QED BY <2>1, <2>2, <2>3, EndedWrites
<1>11. CASE SendFile
  <2>1. FileLen \in 1..FileLen
    BY SizeAssumption
  <2>2. UNCHANGED <<connVars, loopPc, then, revents, todo, histVars>>
    BY <1>11, <2>1, SendFileQueues DEF SendFile, loopVars
  <2> QED BY <2>2, EndedWrites DEF connVars
<1>12. CASE Shutdown
  BY <1>12 DEF Shutdown, MayCall, Ended, Removing, loopVars, histVars
<1>13. CASE \E u \in Users : UserTests(u) \/ UserSteps(u)
  <2>1. UNCHANGED <<channel, loopVars, histVars>> /\ (state' = state \/ state' = "kDisconnecting")
    BY <1>13
    DEF UserTests, UserSteps, UserSends, UserSendsFile, UserSetsState, UserShutsDown, connVars
  <2> QED BY <2>1 DEF Ended, Removing, loopVars, histVars
<1>14. CASE Kernel \/ RemoveConnectionInLoop \/ DestroyServer \/ QuitLoop \/ UNCHANGED vars
  <2>1. UNCHANGED <<connVars, loopVars, histVars>>
    BY <1>14
    DEF Kernel, PeerSends, PeerCloses, PeerResets, RemoveConnectionInLoop, DestroyServer,
        QuitLoop, vars
  <2> QED BY <2>1 DEF Ended, Removing, connVars, loopVars, histVars
<1> QED
  BY <1>1, <1>2, <1>3, <1>4, <1>5, <1>6, <1>7, <1>8, <1>9, <1>10, <1>11, <1>12, <1>13, <1>14
  DEF Next, LoopSteps, LoopUser

\* What a step that appends no connectDestroyed does to those that are queued.
LEMMA QueuesKeepDestructions ==
  ASSUME Typed, Takes, Appends, ~(RemoveConnectionInLoop \/ DestroyServer)
  PROVE  /\ In(Des, pending') => In(Des, pending)
         /\ Once(Des, pending) => Once(Des, pending')
         /\ In(Des, batch') => In(Des, batch)
         /\ Once(Des, batch) => Once(Des, batch')
<1>0. pending \in Seq(Functor) /\ batch \in Seq(Functor)
  BY DEF Typed, ControlOK
<1>1. \/ pending' = pending \/ pending' = << >>
      \/ \E g \in Functor \ {Est, Des} : pending' = Append(pending, g)
  BY AppendsOthers
<1>2. ASSUME NEW g \in Functor \ {Est, Des}
      PROVE  /\ In(Des, Append(pending, g)) <=> In(Des, pending)
             /\ Once(Des, pending) => Once(Des, Append(pending, g))
  BY <1>0, AppendIn
<1>3. (In(Des, batch') => In(Des, batch)) /\ (Once(Des, batch) => Once(Des, batch'))
  BY <1>0, TailIn DEF Takes
<1> QED BY <1>1, <1>2, <1>3, EmptyIn

\* A step in which nothing moves towards the end.
LEMMA TokensKept ==
  ASSUME Typed, Tokens, Takes, Appends, ~(RemoveConnectionInLoop \/ DestroyServer),
         UNCHANGED <<server, downs>>, UNCHANGED removed, Removing' => Removing,
         Closing' => Closing
  PROVE  Tokens'
  BY QueuesKeepDestructions DEF Tokens, NoDestruction

\* Every step keeps the right to end the connection single.
LEMMA TokensStep ==
  ASSUME FrontInv, SendFree, Ended, Tokens, [Next]_vars
  PROVE  Tokens'
<1>0. Typed /\ pending \in Seq(Functor) /\ batch \in Seq(Functor)
      /\ server \in [up: BOOLEAN, quit: BOOLEAN, inMap: BOOLEAN, removals: Nat]
      /\ ControlOK /\ sends \in 0..MaxSends
  BY DEF FrontInv, Typed, ControlOK, StreamInv
<1>1. CASE SwapFunctors
  <2>1. batch = << >> /\ batch' = pending /\ pending' = << >>
    BY <1>1 DEF SwapFunctors, FrontInv, Places
  <2>2. UNCHANGED <<server, downs>> /\ UNCHANGED removed /\ loopPc = "dispatch" /\ loopPc' = "batch"
    BY <1>1 DEF SwapFunctors, histVars
  <2> QED BY <2>1, <2>2, EmptyIn DEF Tokens, NoDestruction, Removing, Closing
<1>2. CASE RemoveConnectionInLoop
  <2>1. /\ server.up /\ server.removals = 1
        /\ server' = [server EXCEPT !.inMap = FALSE, !.removals = @ - 1]
        /\ pending' = Append(pending, Des)
        /\ UNCHANGED <<loopPc, then, batch, downs>> /\ UNCHANGED removed
    BY <1>0, <1>2 DEF RemoveConnectionInLoop, Tokens, Push, Des, loopVars, histVars
  <2>2. server'.up /\ ~server'.inMap /\ server'.removals = 0
    BY <1>0, <2>1
  <2>3. ~In(Des, pending) /\ ~In(Des, batch) /\ downs = 1 /\ ~removed /\ ~Removing /\ ~Closing
    BY <2>1 DEF Tokens, NoDestruction
  <2>4. Once(Des, Append(pending, Des))
    BY <1>0, <2>3, AppendIn, FunctorMembers DEF Des
  <2> QED BY <2>1, <2>2, <2>3, <2>4 DEF Tokens, NoDestruction, Removing, Closing
<1>3. CASE DestroyServer
  <2>1. /\ server' = [server EXCEPT !.up = FALSE, !.inMap = FALSE]
        /\ UNCHANGED <<loopPc, then, batch, downs>> /\ UNCHANGED removed
    BY <1>3 DEF DestroyServer, loopVars, histVars
  <2>2. ~server'.up /\ ~server'.inMap /\ server'.removals = server.removals
    BY <1>0, <2>1
  <2>3. CASE server.inMap
    <3>1. ~In(Des, pending) /\ ~In(Des, batch) /\ ~removed /\ ~Removing
      BY <2>3 DEF Tokens, NoDestruction
    <3>2. pending' = Append(pending, Des)
      BY <1>3, <2>3 DEF DestroyServer, Push, Des
    <3>3. Once(Des, Append(pending, Des))
      BY <1>0, <3>1, AppendIn, FunctorMembers DEF Des
    <3> QED BY <2>1, <2>2, <3>1, <3>2, <3>3 DEF Tokens, NoDestruction, Removing, Closing
  <2>4. CASE ~server.inMap
    <3>1. pending' = pending
      BY <1>3, <2>4 DEF DestroyServer
    <3> QED BY <2>1, <2>2, <2>4, <3>1 DEF Tokens, NoDestruction, Removing, Closing
  <2> QED BY <2>3, <2>4
<1>4. CASE Takes /\ Appends /\ ~(RemoveConnectionInLoop \/ DestroyServer)
  <2>0. /\ In(Des, pending') => In(Des, pending)
        /\ Once(Des, pending) => Once(Des, pending')
        /\ In(Des, batch') => In(Des, batch)
        /\ Once(Des, batch) => Once(Des, batch')
    BY <1>0, <1>4, QueuesKeepDestructions
  <2>1. ASSUME Close, UNCHANGED server, downs # 1
        PROVE  Tokens'
    <3>1. downs = 0 /\ downs' = 1 /\ loopPc' = "user" /\ then' = "close" /\ UNCHANGED removed
      BY <1>0, <2>1 DEF Close, CallUser, Ended, ControlOK
    <3> QED BY <1>0, <2>0, <2>1, <3>1 DEF Tokens, NoDestruction, Removing, Closing
  <2>2. CASE HandleClose
    BY <2>1, <2>2 DEF HandleClose, Ended
  <2>3. CASE HandleRead
    <3>1. downs # 1
      BY <2>3 DEF HandleRead, Ended
    <3>2. UNCHANGED server /\ (Close \/ (UNCHANGED histVars /\ ~Removing' /\ ~Closing'))
      BY <2>3 DEF HandleRead, CallUser, Removing, Closing
    <3> QED BY <1>0, <1>4, <2>1, <3>1, <3>2, TokensKept DEF histVars
  <2>4. CASE ConnectDestroyed
    <3>1. batch # << >> /\ Head(batch) = Des /\ batch' = Tail(batch) /\ UNCHANGED server
          /\ UNCHANGED pending
      BY <2>4 DEF ConnectDestroyed, Calls, Des
    <3>2. In(Des, batch) /\ ~In(Des, batch')
      BY <1>0, <3>1, TailIn DEF Tokens
    <3>3. ~In(Des, pending) /\ ~removed /\ ~server.inMap
      BY <3>2 DEF Tokens, NoDestruction
    <3>4. ~Closing
      BY <2>4 DEF ConnectDestroyed, Calls, Closing
    <3>5. CASE state = "kConnected"
      <4>1. downs = 0
        BY <3>5 DEF Ended
      <4>2. UNCHANGED removed /\ downs' = 1 /\ Removing' /\ ~Closing'
        BY <2>4, <3>5, <4>1 DEF ConnectDestroyed, CallUser, Removing, Closing
      <4> QED BY <2>0, <3>1, <3>2, <3>3, <4>1, <4>2 DEF Tokens, NoDestruction
    <3>6. CASE state # "kConnected"
      <4>1. UNCHANGED downs /\ ~Removing' /\ ~Closing'
        BY <2>4, <3>6 DEF ConnectDestroyed, Calls, Removing, Closing
      <4> QED BY <2>0, <3>1, <3>2, <3>3, <4>1 DEF Tokens, NoDestruction
    <3> QED BY <3>5, <3>6
  <2>5. CASE CallbackReturns
    <3>1. loopPc = "user" /\ UNCHANGED downs /\ ~Removing' /\ ~Closing'
      BY <1>0, <2>5 DEF CallbackReturns, Removing, Closing, ControlOK
    <3>2. CASE then = "close"
      <4>1. Closing /\ server' = [server EXCEPT !.removals = @ + 1] /\ UNCHANGED removed
        BY <2>5, <3>1, <3>2 DEF CallbackReturns, Closing
      <4>2. server.removals = 0 /\ downs = 1 /\ (server.up => server.inMap)
        BY <1>0, <4>1 DEF Tokens
      <4>3. server'.removals = 1 /\ server'.up = server.up /\ server'.inMap = server.inMap
        BY <1>0, <4>1, <4>2
      <4> QED BY <2>0, <3>1, <4>1, <4>2, <4>3 DEF Tokens, NoDestruction
    <3>3. CASE then = "remove"
      <4>1. Removing /\ UNCHANGED server /\ removed'
        BY <2>5, <3>1, <3>3 DEF CallbackReturns, Removing
      <4> QED BY <2>0, <3>1, <4>1 DEF Tokens, NoDestruction
    <3>4. CASE then \notin {"close", "remove"}
      BY <1>0, <1>4, <2>5, <3>1, <3>4, TokensKept DEF CallbackReturns
    <3> QED BY <3>2, <3>3, <3>4
  <2>6. CASE QuitLoop
    <3>1. /\ server' = [server EXCEPT !.quit = TRUE]
          /\ UNCHANGED <<pending, loopPc, then, batch, downs>> /\ UNCHANGED removed
      BY <2>6 DEF QuitLoop, loopVars, histVars
    <3>2. /\ server'.up = server.up /\ server'.inMap = server.inMap
          /\ server'.removals = server.removals
      BY <1>0, <3>1
    <3> QED BY <3>1, <3>2 DEF Tokens, NoDestruction, Removing, Closing
  <2>7. CASE \/ PollReady \/ PollOther \/ HandleEvent \/ HandleError \/ HandleWrite \/ EventDone
             \/ ConnectEstablished \/ QueuedCallback \/ BatchDone
    <3>1. UNCHANGED <<server, downs>> /\ UNCHANGED removed /\ ~Removing' /\ ~Closing'
      BY <2>7
      DEF PollReady, PollOther, Poll, HandleEvent, HandleError, HandleWrite, EventDone,
          ConnectEstablished, QueuedCallback, BatchDone, CallUser, Removing, Closing, histVars
    <3> QED BY <1>0, <1>4, <3>1, TokensKept
  <2>8. CASE \/ QueuedSend \/ QueuedShutdown \/ QueuedSendFile \/ Kernel \/ LoopUser
             \/ (\E u \in Users : UserTests(u) \/ UserSteps(u)) \/ UNCHANGED vars
    <3>1. UNCHANGED <<server, histVars, loopPc, then>>
      BY <2>8
      DEF QueuedSend, QueuedShutdown, QueuedSendFile, Kernel, PeerSends, PeerCloses, PeerResets,
          LoopUser, Send, Shutdown, SendFile, UserTests, UserSteps, UserSends, UserSendsFile,
          UserSetsState, UserShutsDown, vars, loopVars
    <3> QED BY <1>0, <1>4, <3>1, TokensKept DEF histVars, Removing, Closing
  <2> QED BY <1>1, <1>4, <2>2, <2>3, <2>4, <2>5, <2>6, <2>7, <2>8 DEF Next, LoopSteps
<1> QED BY <1>0, <1>1, <1>2, <1>3, <1>4, QueuesMove

\* LifeInv at the start.
LEMMA LifeInit == Init => LifeInv
<1> SUFFICES ASSUME Init PROVE LifeInv
  OBVIOUS
<1>1. batch = << >> /\ pending = <<Est>>
  BY DEF Init, Est
<1>2. \A f : f # Est => ~In(f, pending)
  BY <1>1 DEF In
<1>3. SendFree
  BY <1>1, <1>2, EmptyIn, FunctorsDiffer DEF Init, SendFree
<1>4. Once(Des, pending)
  BY <1>1 DEF Once
<1>5. Tokens
  BY <1>1, <1>2, <1>4, EmptyIn, FunctorsDiffer DEF Init, Tokens, NoDestruction, Removing, Closing
<1>6. Ended
  BY DEF Init, Ended, Removing
<1> QED BY <1>3, <1>5, <1>6, FrontInvInit DEF LifeInv

\* LifeInv is inductive when no other thread sends.
LEMMA LifeStep ==
  ASSUME "send" \notin UserOps, LifeInv, [Next]_vars
  PROVE  LifeInv'
  BY FrontStep, SendFreeStep, EndedStep, TokensStep DEF LifeInv, FrontInv

\* The queue as one sequence.
LEMMA DestructionsAre ==
  ASSUME Typed, Once(Des, pending), Once(Des, batch), ~(In(Des, pending) /\ In(Des, batch))
  PROVE  /\ \A i, j \in Destructions : i = j
         /\ NoDestruction => Destructions = {}
<1>1. pending \in Seq(Functor) /\ batch \in Seq(Functor)
  BY DEF Typed, ControlOK
<1> DEFINE q == pending \o batch
           n == Len(pending)
<1>2. /\ n \in Nat /\ DOMAIN pending = 1..n
      /\ Len(batch) \in Nat /\ DOMAIN batch = 1..Len(batch)
  BY <1>1, LenProperties
<1>3. /\ DOMAIN q = 1..n + Len(batch)
      /\ \A i \in 1..n : q[i] = pending[i]
      /\ \A i \in n + 1..n + Len(batch) : q[i] = batch[i - n]
  BY <1>1, <1>2, ConcatProperties
<1>4. ASSUME NEW i \in Destructions
      PROVE  \/ i \in DOMAIN pending /\ pending[i] = Des
             \/ i \in Nat /\ i - n \in DOMAIN batch /\ batch[i - n] = Des
  BY <1>2, <1>3, <1>4 DEF Destructions, Des
<1>5. NoDestruction => Destructions = {}
  BY <1>4 DEF NoDestruction, In
<1>6. \A i, j \in Destructions : i = j
  <2> SUFFICES ASSUME NEW i \in Destructions, NEW j \in Destructions PROVE i = j
    OBVIOUS
  <2>1. CASE In(Des, pending)
    BY <1>4, <2>1 DEF In, Once
  <2>2. CASE ~In(Des, pending)
    <3>1. /\ i \in Nat /\ i - n \in DOMAIN batch /\ batch[i - n] = Des
          /\ j \in Nat /\ j - n \in DOMAIN batch /\ batch[j - n] = Des
      BY <1>4, <2>2 DEF In
    <3>2. i - n = j - n
      BY <3>1 DEF Once
    <3> QED BY <1>2, <3>1, <3>2
  <2> QED BY <2>1, <2>2
<1> QED BY <1>5, <1>6

\* One connectDestroyed, one callback up and one down, for any users that leave
\* sending from other threads alone: the right to end passes from connections_
\* through the queue to connectDestroyed and is never duplicated.
THEOREM EndsOnceCorrect ==
  ASSUME "send" \notin UserOps
  PROVE  Spec => []EndsOnce
<1>1. LifeInv => EndsOnce
  <2> SUFFICES ASSUME LifeInv PROVE EndsOnce
    OBVIOUS
  <2>1. /\ \A i, j \in Destructions : i = j
        /\ NoDestruction => Destructions = {}
    BY DestructionsAre DEF LifeInv, Tokens, FrontInv
  <2>2. removed \/ (loopPc = "user" /\ then = "remove") => Destructions = {}
    BY <2>1 DEF LifeInv, Tokens, Removing
  <2>3. downs <= ups /\ ups <= 1
    BY DEF LifeInv, FrontInv, Front, Connecting, Established, Ended
  <2>4. removed /\ server.up => downs = ups
    BY DEF LifeInv, FrontInv, Front, Connecting, Established, Tokens
  <2> QED BY <2>1, <2>2, <2>3, <2>4 DEF EndsOnce
<1>2. LifeInv /\ [Next]_vars => LifeInv'
  BY LifeStep
<1> QED BY <1>1, <1>2, LifeInit, PTL DEF Spec

\* A closed connection is out of the epoll set and a removed one unknown to the
\* poller, under the same condition: a sendInLoop that waited in the queue would
\* enable writing on a closed channel again.
THEOREM ClosedCorrect ==
  ASSUME "send" \notin UserOps
  PROVE  Spec => []ClosedIsUnregistered
<1>1. LifeInv => ClosedIsUnregistered
  BY DEF LifeInv, Ended, ClosedIsUnregistered
<1>2. LifeInv /\ [Next]_vars => LifeInv'
  BY LifeStep
<1> QED BY <1>1, <1>2, LifeInit, PTL DEF Spec
-----------------------------------------------------------------------------
(***************************************************************************)
(* EPOLLOUT and the output buffer                                          *)
(***************************************************************************)

\* No other thread is inside shutdown().
ShutdownFree == \A u \in Users : userPc[u] \notin {"checked", "shutdown"}

WriteInv == FrontInv /\ ShutdownFree /\ WritingIffBuffered

\* ShutdownFree is inductive when no other thread shuts down.
LEMMA ShutdownFreeStep ==
  ASSUME "shutdown" \notin UserOps, ControlOK, ShutdownFree, [Next]_vars
  PROVE  ShutdownFree'
<1>1. CASE UNCHANGED userPc
  BY <1>1 DEF ShutdownFree
<1>2. ASSUME NEW v \in Users, UserTests(v) \/ UserSteps(v)
      PROVE  ShutdownFree'
  BY <1>2
  DEF UserTests, UserSteps, UserSends, UserSendsFile, UserSetsState, UserShutsDown, UserGoes,
      ShutdownFree, ControlOK
<1> QED BY <1>1, <1>2, UsersMove

\* state_ moves forward: only connectEstablished makes it kConnected, and only from
\* kConnected does it become kDisconnecting.
LEMMA StateMoves ==
  ASSUME FrontInv, ShutdownFree, [Next]_vars
  PROVE  \/ state' = state
         \/ ConnectEstablished /\ state = "kConnecting"
         \/ state' = "kDisconnected"
         \/ state = "kConnected" /\ Shutdown
<1>1. CASE ConnectEstablished
  <2>1. batch # << >> /\ Head(batch) = Est
    BY <1>1 DEF ConnectEstablished, Calls, Est
  <2> QED BY <1>1, <2>1, TailIn DEF FrontInv, Front, Established, Typed, ControlOK
<1>2. CASE \/ QueuedSend \/ QueuedSendFile \/ Send \/ SendFile
  <2>1. FileLen \in 1..FileLen
    BY SizeAssumption
  <2> QED
    BY <1>2, <2>1, SendQueues, SendFileQueues
    DEF QueuedSend, QueuedSendFile, Send, SendFile, connVars
<1>3. CASE LoopSteps /\ ~(QueuedSend \/ QueuedSendFile \/ ConnectEstablished)
  BY <1>3
  DEF LoopSteps, HandleEvent, SwapFunctors, HandleClose, HandleError, HandleRead, HandleWrite,
      EventDone, Close, Flush, ConnectDestroyed, QueuedShutdown, ShutdownInLoop, QueuedCallback,
      BatchDone, CallbackReturns, connVars
<1>4. CASE Shutdown
  BY <1>4 DEF Shutdown, MayCall
<1>5. CASE \E u \in Users : UserTests(u) \/ UserSteps(u)
  BY <1>5
  DEF UserTests, UserSteps, UserSends, UserSendsFile, UserSetsState, UserShutsDown, UserGoes,
      ShutdownFree, connVars
<1>6. CASE \/ PollReady \/ PollOther \/ Kernel \/ RemoveConnectionInLoop \/ DestroyServer
           \/ QuitLoop \/ UNCHANGED vars
  BY <1>6
  DEF PollReady, PollOther, Poll, Kernel, PeerSends, PeerCloses, PeerResets,
      RemoveConnectionInLoop, DestroyServer, QuitLoop, vars, connVars
<1> QED BY <1>1, <1>2, <1>3, <1>4, <1>5, <1>6 DEF Next, LoopUser

\* Data that sendInLoop could not write is in the buffer, and EPOLLOUT asked for.
LEMMA SendBuffers ==
  ASSUME Typed, NEW data \in Seq(Units), SendInLoop(data)
  PROVE  \/ UNCHANGED <<channel, outputBuffer>>
         \/ outputBuffer' # << >> /\ "out" \in channel'.events
<1>1. CASE SendFaults \/ SendAll(data)
  BY <1>1 DEF SendFaults, SendAll, connVars
<1>2. CASE SendSome(data)
  <2>1. PICK n \in 0..Len(data) - 1 : KeepRest(Drop(data, n))
    BY <1>2 DEF SendSome
  <2>2. Len(data) \in Nat /\ n \in 0..Len(data)
    BY LenProperties
  <2>3. Drop(data, n) \in Seq(Units) /\ Len(Drop(data, n)) = Len(data) - n
    <3>1. Drop(data, n) \in Seq(Units)
      BY <2>2, Cut
    <3>2. n + 1 \in 1..Len(data) + 1 /\ Len(data) \in n..Len(data)
      BY <2>2
    <3>3. Len(Drop(data, n)) = Len(data) - n
      BY <2>2, <3>2, SubSeqProperties DEF Drop
    <3> QED BY <3>1, <3>3
  <2>4. outputBuffer \in Seq(Units) /\ channel \in ChannelRecord
    BY DEF Typed, StreamInv, DataOK, Sound
  <2>5. outputBuffer' = outputBuffer \o Drop(data, n)
    BY <2>1 DEF KeepRest
  <2>6. Len(outputBuffer') = Len(outputBuffer) + (Len(data) - n)
    BY <2>3, <2>4, <2>5, ConcatProperties
  <2>7. Len(outputBuffer') > 0
    BY <2>1, <2>2, <2>4, <2>6, LenProperties
  <2>8. outputBuffer' # << >>
    BY <2>7
  <2>9. "out" \in channel'.events
    BY <2>1, <2>4, EventsSet DEF KeepRest, Writing, IsWriting
  <2> QED BY <2>8, <2>9
<1> QED BY <1>1, <1>2 DEF SendInLoop

\* handleWrite empties the buffer and takes EPOLLOUT away, or neither.
LEMMA FlushUnbuffers ==
  ASSUME Typed, NEW n \in 1..Len(outputBuffer), Flush(n), Writing
  PROVE  "out" \in channel'.events <=> outputBuffer' # << >>
<1>1. outputBuffer \in Seq(Units) /\ channel \in ChannelRecord /\ Len(outputBuffer) \in Nat
  BY LenProperties DEF Typed, StreamInv, DataOK, Sound
<1>2. n \in 0..Len(outputBuffer)
  BY <1>1
<1>3. outputBuffer' = Drop(outputBuffer, n)
  BY DEF Flush
<1>4. CASE n = Len(outputBuffer)
  <2>1. outputBuffer' = << >>
    BY <1>1, <1>2, <1>3, <1>4, Cut
  <2>2. "out" \notin channel'.events
    BY <1>1, <1>4, EventsSet DEF Flush
  <2> QED BY <2>1, <2>2
<1>5. CASE n # Len(outputBuffer)
  <2>1. Len(Drop(outputBuffer, n)) = Len(outputBuffer) - n
    BY <1>1, <1>2, SubSeqProperties DEF Drop
  <2>2. Len(outputBuffer') > 0
    BY <1>1, <1>2, <1>3, <1>5, <2>1
  <2>3. "out" \in channel'.events
    BY <1>5 DEF Flush, Writing, IsWriting
  <2> QED BY <2>2, <2>3
<1> QED BY <1>4, <1>5

\* WriteInv is inductive when no other thread shuts down.
LEMMA WriteStep ==
  ASSUME "shutdown" \notin UserOps, WriteInv, [Next]_vars
  PROVE  WriteInv'
<1>0. Typed /\ ControlOK /\ channel \in ChannelRecord /\ sends \in 0..MaxSends
  BY DEF WriteInv, FrontInv, Typed, Sound, StreamInv
<1>1. FrontInv' /\ ShutdownFree'
  BY <1>0, FrontStep, ShutdownFreeStep DEF WriteInv
<1> DEFINE Even == "out" \in channel.events <=> outputBuffer # << >>
           Live == {"kConnected", "kDisconnecting"}
<1>2. state \in Live => Even
  BY DEF WriteInv, WritingIffBuffered, Writing, IsWriting
<1>3. ASSUME state' \in Live => Even' PROVE WriteInv'
  BY <1>1, <1>3 DEF WriteInv, WritingIffBuffered, Writing, IsWriting
<1>4. CASE ConnectEstablished
  <2>2. CASE state = "kConnecting"
    <3>1. Connecting
      BY <2>2 DEF WriteInv, FrontInv, Front
    <3>2. EnableReading(channel).events = {"in"}
      BY <1>0, <3>1, ChannelEffects DEF Connecting, Typed
    <3> QED BY <1>3, <1>4, <3>1, <3>2 DEF ConnectEstablished, Connecting
  <2>3. CASE state # "kConnecting"
    <3>1. batch # << >> /\ Head(batch) = Est
      BY <1>4 DEF ConnectEstablished, Calls, Est
    <3> QED BY <1>0, <2>3, <3>1, TailIn DEF WriteInv, FrontInv, Front, Established, ControlOK
  <2> QED BY <2>2, <2>3
<1>5. CASE state' = "kDisconnected"
  BY <1>3, <1>5
<1>6. ASSUME state' \in Live, ~ConnectEstablished
      PROVE  state \in Live
  BY <1>6, StateMoves DEF WriteInv
<1>7. ASSUME ~ConnectEstablished, UNCHANGED <<channel, outputBuffer>>
      PROVE  WriteInv'
  BY <1>2, <1>3, <1>6, <1>7
<1>8. ASSUME ~ConnectEstablished, NEW data \in Seq(Units), SendInLoop(data)
      PROVE  WriteInv'
  BY <1>0, <1>3, <1>7, <1>8, SendBuffers
<1>9. CASE QueuedSend
  <2>1. PICK m \in 1..MaxSends : Calls("sendInLoop", m) /\ SendInLoop(Message(m))
    BY <1>9 DEF QueuedSend
  <2>2. ~ConnectEstablished
    BY <2>1 DEF ConnectEstablished, Calls
  <2> QED BY <1>8, <2>1, <2>2, PayloadTypes
<1>10. CASE Send
  <2>1. sends + 1 \in 1..MaxSends
    BY <1>0, <1>10, SizeAssumption DEF Send
  <2>2. ~ConnectEstablished
    BY <1>10 DEF Send, MayCall, ConnectEstablished, Calls
  <2> QED BY <1>8, <1>10, <2>1, <2>2, PayloadTypes DEF Send
<1>11. CASE HandleWrite
  <2>1. ~ConnectEstablished
    BY <1>11 DEF HandleWrite, ConnectEstablished, Calls
  <2>2. CASE UNCHANGED <<channel, outputBuffer>>
    BY <1>7, <2>1, <2>2
  <2>3. ASSUME NEW n \in 1..Len(outputBuffer), Flush(n), Writing
        PROVE  WriteInv'
    BY <1>0, <1>3, <2>3, FlushUnbuffers
  <2> QED BY <1>11, <2>2, <2>3 DEF HandleWrite, connVars
<1>12. ASSUME ~ConnectEstablished, channel' = RemoveChannel(channel), UNCHANGED outputBuffer
       PROVE  WriteInv'
  BY <1>0, <1>2, <1>3, <1>6, <1>12, EventsSet
<1>13. CASE ConnectDestroyed \/ CallbackReturns
  <2>1. ~ConnectEstablished
    BY <1>13 DEF ConnectDestroyed, CallbackReturns, ConnectEstablished, Calls
  <2> QED
    BY <1>5, <1>7, <1>12, <1>13, <2>1 DEF ConnectDestroyed, CallbackReturns
<1>14. CASE HandleClose \/ HandleRead
  <2>1. ~ConnectEstablished
    BY <1>14 DEF HandleClose, HandleRead, ConnectEstablished, Calls
  <2> QED BY <1>5, <1>7, <1>14, <2>1 DEF HandleClose, HandleRead, Close, connVars
<1>15. CASE QueuedSendFile \/ SendFile
  <2>1. FileLen \in 1..FileLen
    BY SizeAssumption
  <2>2. UNCHANGED connVars
    BY <1>15, <2>1, SendFileQueues DEF QueuedSendFile, SendFile
  <2> QED BY <1>4, <1>7, <2>2 DEF connVars
<1>16. CASE \/ PollReady \/ PollOther \/ HandleEvent \/ SwapFunctors \/ HandleError
            \/ EventDone \/ QueuedShutdown \/ QueuedCallback \/ BatchDone \/ Kernel
            \/ Shutdown \/ RemoveConnectionInLoop \/ DestroyServer \/ QuitLoop
            \/ UNCHANGED vars
            \/ \E u \in Users : UserTests(u) \/ UserSteps(u)
  <2>1. UNCHANGED <<channel, outputBuffer>>
    BY <1>16
    DEF PollReady, PollOther, Poll, HandleEvent, SwapFunctors, HandleError, EventDone,
        QueuedShutdown, ShutdownInLoop, QueuedCallback, BatchDone, Kernel, PeerSends,
        PeerCloses, PeerResets, Shutdown, RemoveConnectionInLoop, DestroyServer, QuitLoop,
        vars, UserTests, UserSteps, UserSends, UserSendsFile, UserSetsState, UserShutsDown, connVars
  <2> QED BY <1>4, <1>7, <2>1
<1> QED
  BY <1>4, <1>9, <1>10, <1>11, <1>13, <1>14, <1>15, <1>16 DEF Next, LoopSteps, LoopUser

\* WriteInv at the start.
LEMMA WriteInit == Init => WriteInv
<1>1. Init => ShutdownFree /\ WritingIffBuffered
  BY DEF Init, ShutdownFree, WritingIffBuffered
<1> QED BY <1>1, FrontInvInit DEF WriteInv

\* EPOLLOUT is asked for exactly while the buffer holds data, whatever is sent from
\* any thread, as long as no other thread calls shutdown(): its store of kDisconnecting
\* would bring a closed connection, whose buffer may be full, back to life.
THEOREM WritingCorrect ==
  ASSUME "shutdown" \notin UserOps
  PROVE  Spec => []WritingIffBuffered
<1>1. WriteInv => WritingIffBuffered
  BY DEF WriteInv
<1>2. WriteInv /\ [Next]_vars => WriteInv'
  BY WriteStep
<1> QED BY <1>1, <1>2, WriteInit, PTL DEF Spec

\* kDisconnected is final under the same condition.
THEOREM FinalCorrect ==
  ASSUME "shutdown" \notin UserOps
  PROVE  Spec => DisconnectedIsFinal
<1>1. WriteInv /\ [Next]_vars => [state = "kDisconnected" => state' = "kDisconnected"]_vars
  BY StateMoves DEF WriteInv
<1>2. WriteInv /\ [Next]_vars => WriteInv'
  BY WriteStep
<1> QED BY <1>1, <1>2, WriteInit, PTL DEF Spec, DisconnectedIsFinal

\* No half of send, sendFile or shutdown waits in the queue q.
Quiet(q) ==
  \A f \in Functor : f[1] \in {"sendInLoop", "sendFileInLoop", "shutdownInLoop"} => ~In(f, q)

FinInv == /\ WriteInv /\ Quiet(pending) /\ Quiet(batch)
          /\ \A u \in Users : userPc[u] = "idle"

\* A queue stays quiet when the loop's own functors are appended or called.
LEMMA QuietKept ==
  ASSUME NEW q \in Seq(Functor), Quiet(q)
  PROVE  /\ \A op \in {"writeCompleteCallback", "highWaterMarkCallback", "connectDestroyed"} :
              Quiet(Append(q, <<op, 0>>))
         /\ q # << >> => Quiet(Tail(q))
<1>1. ASSUME NEW g \in Functor,
             g[1] \notin {"sendInLoop", "sendFileInLoop", "shutdownInLoop"},
             NEW f \in Functor, f[1] \in {"sendInLoop", "sendFileInLoop", "shutdownInLoop"}
      PROVE  ~In(f, Append(q, g))
  <2>1. g # f
    BY <1>1
  <2>2. ~In(f, q)
    BY <1>1 DEF Quiet
  <2> QED BY <2>1, <2>2, AppendIn
<1>2. ASSUME NEW op \in {"writeCompleteCallback", "highWaterMarkCallback", "connectDestroyed"}
      PROVE  Quiet(Append(q, <<op, 0>>))
  <2>1. <<op, 0>> \in Functor /\ <<op, 0>>[1] = op
    BY FunctorMembers
  <2> QED BY <1>1, <2>1 DEF Quiet
<1>3. ASSUME q # << >> PROVE Quiet(Tail(q))
  BY <1>3, TailIn DEF Quiet
<1> QED BY <1>2, <1>3

\* FinInv is inductive when only the loop's thread uses the connection.
LEMMA FinInvStep ==
  ASSUME UserOps = {}, "sendFile" \notin LoopOps, FinInv, [Next]_vars
  PROVE  FinInv'
<1>0. /\ pending \in Seq(Functor) /\ batch \in Seq(Functor) /\ ControlOK
      /\ sends \in 0..MaxSends
  BY DEF FinInv, WriteInv, FrontInv, Typed, ControlOK, StreamInv
<1>1. \A u \in Users : ~UserTests(u) /\ ~UserSends(u) /\ ~UserSendsFile(u) /\ ~UserSetsState(u)
                        /\ ~UserShutsDown(u)
  BY DEF FinInv, UserTests, UserSends, UserSendsFile, UserSetsState, UserShutsDown, UserGoes
<1>2. UNCHANGED userPc
  BY <1>1, UsersMove DEF UserSteps
<1>3. ~QueuedSendFile /\ ~SendFile
  <2>1. ASSUME NEW left \in 1..FileLen, Calls("sendFileInLoop", left) PROVE FALSE
    <3>1. In(<<"sendFileInLoop", left>>, batch)
      BY <1>0, <2>1, TailIn DEF Calls
    <3>2. <<"sendFileInLoop", left>> \in Functor
      BY FunctorMembers
    <3> QED BY <3>1, <3>2 DEF FinInv, Quiet
  <2>2. ~SendFile
    BY DEF SendFile, MayCall
  <2> QED BY <2>1, <2>2 DEF QueuedSendFile
<1>4. Quiet(pending') /\ Quiet(batch')
  <2>1. CASE SwapFunctors
    BY <2>1, EmptyIn DEF SwapFunctors, Quiet, FinInv
  <2>2. CASE Takes /\ Appends
    <3>1. \/ pending' = pending \/ pending' = << >>
          \/ \E op \in {"writeCompleteCallback", "highWaterMarkCallback", "connectDestroyed"} :
               pending' = Append(pending, <<op, 0>>)
      BY <1>1, <1>3, <2>2 DEF Appends, Des
    <3>2. Quiet(pending')
      <4>1. Quiet(<< >>)
        BY EmptyIn DEF Quiet
      <4> QED BY <1>0, <3>1, <4>1, QuietKept DEF FinInv
    <3>3. Quiet(batch')
      BY <1>0, <2>2, QuietKept DEF FinInv, Takes
    <3> QED BY <3>2, <3>3
  <2> QED BY <1>0, <2>1, <2>2, QueuesMove
<1>5. WriteInv'
  BY WriteStep DEF FinInv
<1> QED BY <1>2, <1>4, <1>5 DEF FinInv

\* FinInv at the start.
LEMMA FinInvInit == Init => FinInv
<1> SUFFICES ASSUME Init PROVE FinInv
  OBVIOUS
<1>1. pending = <<Est>> /\ batch = << >>
  BY DEF Init, Est
<1>2. Quiet(pending)
  BY <1>1 DEF Quiet, In, Est
<1> QED BY <1>1, <1>2, EmptyIn, WriteInit DEF FinInv, Quiet, Init

\* The step that closes the write end finds nothing left to send.
LEMMA FinFindsNothing ==
  ASSUME UserOps = {}, "sendFile" \notin LoopOps, FinInv, FinInv', [Next]_vars,
         ~socket.fin, socket'.fin
  PROVE  ~DataWaits'
<1>0. /\ socket \in [peer: {"open", "fin", "rst"}, unread: BOOLEAN, soError: BOOLEAN,
                     fin: BOOLEAN]
      /\ pending \in Seq(Functor) /\ batch \in Seq(Functor)
      /\ outputBuffer \in Seq(Units)
  BY DEF FinInv, WriteInv, FrontInv, Typed, ControlOK, StreamInv, DataOK
<1>1. pending' \in Seq(Functor) /\ batch' \in Seq(Functor)
  BY DEF FinInv, WriteInv, FrontInv, Typed, ControlOK
<1>2. \A f \in Range(pending' \o batch') : f[1] \notin {"sendInLoop", "sendFileInLoop"}
  <2> DEFINE q == pending' \o batch'
             n == Len(pending')
  <2>1. /\ n \in Nat /\ DOMAIN pending' = 1..n
        /\ Len(batch') \in Nat /\ DOMAIN batch' = 1..Len(batch')
    BY <1>1, LenProperties
  <2>2. /\ DOMAIN q = 1..n + Len(batch')
        /\ \A i \in 1..n : q[i] = pending'[i]
        /\ \A i \in n + 1..n + Len(batch') : q[i] = batch'[i - n]
    BY <1>1, <2>1, ConcatProperties
  <2>3. ASSUME NEW i \in DOMAIN q
        PROVE  q[i] \in Functor /\ (In(q[i], pending') \/ In(q[i], batch'))
    BY <1>1, <2>1, <2>2 DEF In
  <2>4. \A i \in DOMAIN q : q[i][1] \notin {"sendInLoop", "sendFileInLoop"}
    BY <2>3 DEF FinInv, Quiet
  <2> QED BY <2>4 DEF Range
<1>3. \/ Shutdown \/ QueuedShutdown
      \/ \E n \in 1..Len(outputBuffer) : Flush(n) /\ n = Len(outputBuffer)
  <2>1. CASE HandleWrite
    <3>1. CASE UNCHANGED socket \/ socket' = [socket EXCEPT !.soError = FALSE]
      BY <1>0, <3>1
    <3>2. ASSUME NEW n \in 1..Len(outputBuffer), Flush(n), n # Len(outputBuffer)
          PROVE  FALSE
      BY <1>0, <3>2 DEF Flush
    <3> QED BY <2>1, <3>1, <3>2 DEF HandleWrite, netVars
  <2>2. CASE UNCHANGED socket
    BY <1>0, <2>2
  <2>3. ASSUME NEW data, SendInLoop(data) PROVE FALSE
    BY <1>0, <2>3 DEF SendInLoop, SendFaults, SendAll, SendSome
  <2>4. ASSUME NEW left, SendFileInLoop(left) PROVE FALSE
    BY <1>0, <2>4 DEF SendFileInLoop, netVars
  <2>5. CASE QueuedSend \/ Send \/ QueuedSendFile \/ SendFile
    BY <2>3, <2>4, <2>5 DEF QueuedSend, Send, QueuedSendFile, SendFile
  <2>6. CASE HandleError \/ HandleRead \/ Kernel
    <3>1. \/ UNCHANGED socket
          \/ socket' = [socket EXCEPT !.soError = FALSE]
          \/ socket' = [socket EXCEPT !.unread = FALSE]
          \/ socket' = [socket EXCEPT !.unread = TRUE]
          \/ socket' = [socket EXCEPT !.peer = "fin"]
          \/ socket' = [socket EXCEPT !.peer = "rst", !.soError = TRUE]
      BY <2>6
      DEF HandleError, HandleRead, Close, netVars, Kernel, PeerSends, PeerCloses, PeerResets
    <3> QED BY <1>0, <3>1
  <2>7. CASE \/ PollReady \/ PollOther \/ HandleEvent \/ SwapFunctors \/ HandleClose
             \/ EventDone \/ ConnectEstablished \/ ConnectDestroyed \/ QueuedCallback
             \/ BatchDone \/ CallbackReturns \/ RemoveConnectionInLoop \/ DestroyServer
             \/ QuitLoop \/ UNCHANGED vars \/ \E u \in Users : UserTests(u) \/ UserSteps(u)
    <3>1. UNCHANGED socket
      BY <2>7
      DEF PollReady, PollOther, Poll, HandleEvent, SwapFunctors, HandleClose, Close, EventDone,
          ConnectEstablished, ConnectDestroyed, QueuedCallback, BatchDone, CallbackReturns,
          RemoveConnectionInLoop, DestroyServer, QuitLoop, vars, UserTests, UserSteps, UserSends,
          UserSendsFile, UserSetsState, UserShutsDown, netVars
    <3> QED BY <2>2, <3>1
  <2> QED BY <2>1, <2>5, <2>6, <2>7 DEF Next, LoopSteps, LoopUser
<1>4. ~QueuedShutdown
  <2>1. <<"shutdownInLoop", 0>> \in Functor
    BY FunctorMembers
  <2> QED BY <1>0, <2>1, TailIn DEF QueuedShutdown, Calls, FinInv, Quiet
<1>5. CASE Shutdown
  <2>1. ~Writing /\ state = "kConnected" /\ UNCHANGED outputBuffer
    BY <1>0, <1>5 DEF Shutdown, MayCall
  <2>2. outputBuffer' = << >>
    BY <2>1 DEF FinInv, WriteInv, WritingIffBuffered
  <2> QED BY <1>2, <2>2 DEF DataWaits
<1>6. ASSUME NEW n \in 1..Len(outputBuffer), Flush(n), n = Len(outputBuffer)
      PROVE  ~DataWaits'
  <2>1. outputBuffer' = << >>
    BY <1>0, <1>6, LenProperties, Cut DEF Flush
  <2> QED BY <1>2, <2>1 DEF DataWaits
<1> QED BY <1>3, <1>4, <1>5, <1>6

\* The FIN follows the data, for users that send and shut down on the loop's thread
\* and leave sendFile alone (whose rest waits in the queue without EPOLLOUT).
THEOREM FinCorrect ==
  ASSUME UserOps = {}, "sendFile" \notin LoopOps
  PROVE  Spec => FinAfterData
<1>1. FinInv /\ [Next]_vars => FinInv'
  BY FinInvStep
<1>2. FinInv /\ FinInv' /\ [Next]_vars => [~socket.fin /\ socket'.fin => ~DataWaits']_vars
  BY FinFindsNothing
<1> QED BY <1>1, <1>2, FinInvInit, PTL DEF Spec, FinAfterData
=============================================================================
