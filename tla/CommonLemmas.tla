---------------------------- MODULE CommonLemmas ----------------------------
(***************************************************************************)
(* What the proofs of TcpConnection and TcpServer both need: lemmas about  *)
(* channels and about queues of functors.                                  *)
(***************************************************************************)
EXTENDS Naturals, Sequences, Channel, SequenceTheorems, TLAPS

\* A channel whose registration is in order.
Sound(ch) == ch \in ChannelRecord /\ Agrees(ch)

\* updateChannel repairs the only thing that a setter may have changed, events_,
\* and picks EPOLL_CTL_ADD, MOD or DEL so that epoll_ctl succeeds.
LEMMA UpdateRepairs ==
  ASSUME NEW c \in ChannelRecord,
         ~c.fatal,
         c.registered <=> c.index = "kAdded",
         c.listed <=> c.index # "kNew"
  PROVE  Sound(UpdateChannel(c))
<1>1. CASE c.index # "kAdded"
  <2> DEFINE b == [c EXCEPT !.listed = @ \/ c.index = "kNew", !.index = "kAdded"]
  <2>1. b \in ChannelRecord
    BY DEF ChannelRecord
  <2>2. b.listed /\ b.index = "kAdded" /\ ~b.registered /\ ~b.fatal
    BY <1>1 DEF ChannelRecord
  <2>3. UpdateChannel(c) = EpollAdd(b)
    BY <1>1 DEF UpdateChannel
  <2> HIDE DEF b
  <2>4. EpollAdd(b) \in ChannelRecord
    BY <2>1 DEF EpollAdd, ChannelRecord
  <2>5. Agrees(EpollAdd(b))
    BY <2>1, <2>2 DEF EpollAdd, Agrees, ChannelRecord
  <2> QED BY <2>3, <2>4, <2>5 DEF Sound
<1>2. CASE c.index = "kAdded" /\ c.events = {}
  <2> DEFINE d == EpollDel(c)
  <2>1. d \in ChannelRecord
    BY DEF EpollDel, ChannelRecord
  <2>2. ~d.registered /\ d.listed /\ ~d.fatal
    BY <1>2 DEF EpollDel, ChannelRecord
  <2>3. UpdateChannel(c) = [d EXCEPT !.index = "kDeleted"]
    BY <1>2 DEF UpdateChannel
  <2> HIDE DEF d
  <2>4. [d EXCEPT !.index = "kDeleted"] \in ChannelRecord
    BY <2>1 DEF ChannelRecord
  <2>5. Agrees([d EXCEPT !.index = "kDeleted"])
    BY <2>1, <2>2 DEF Agrees, ChannelRecord
  <2> QED BY <2>3, <2>4, <2>5 DEF Sound
<1>3. CASE c.index = "kAdded" /\ c.events # {}
  <2>1. UpdateChannel(c) = EpollMod(c)
    BY <1>3 DEF UpdateChannel
  <2>2. EpollMod(c) \in ChannelRecord
    BY DEF EpollMod, ChannelRecord
  <2>3. Agrees(EpollMod(c))
    BY <1>3 DEF EpollMod, Agrees, ChannelRecord
  <2> QED BY <2>1, <2>2, <2>3 DEF Sound
<1> QED BY <1>1, <1>2, <1>3

\* A setter changes events_ and calls updateChannel.
LEMMA UpdateSound ==
  ASSUME NEW ch, Sound(ch), NEW e \in SUBSET Events
  PROVE  Sound(UpdateChannel([ch EXCEPT !.events = e]))
<1> DEFINE c == [ch EXCEPT !.events = e]
<1>1. c \in ChannelRecord
  BY DEF Sound, ChannelRecord
<1>2. /\ ~c.fatal
      /\ c.registered <=> c.index = "kAdded"
      /\ c.listed <=> c.index # "kNew"
  BY DEF Sound, Agrees, ChannelRecord
<1> QED BY <1>1, <1>2, UpdateRepairs

\* removeChannel forgets the channel on both sides.
LEMMA RemoveSound ==
  ASSUME NEW ch, Sound(ch)
  PROVE  Sound(RemoveChannel(ch))
  BY DEF Sound, Agrees, ChannelRecord, RemoveChannel, EpollDel

\* The four setters keep the registration in order.
LEMMA SettersSound ==
  ASSUME NEW ch, Sound(ch)
  PROVE  /\ Sound(EnableReading(ch)) /\ Sound(EnableWriting(ch))
         /\ Sound(DisableWriting(ch)) /\ Sound(DisableAll(ch))
<1>1. ch.events \in SUBSET Events
  BY DEF Sound, ChannelRecord
<1>2. /\ ch.events \cup {"in"} \in SUBSET Events
      /\ ch.events \cup {"out"} \in SUBSET Events
      /\ ch.events \ {"out"} \in SUBSET Events
      /\ {} \in SUBSET Events
  BY <1>1 DEF Events
<1> QED
  BY <1>2, UpdateSound DEF EnableReading, EnableWriting, DisableWriting, DisableAll

\* What the setters do to a sound channel in the states in which they are called.
LEMMA ChannelEffects ==
  ASSUME NEW ch, Sound(ch)
  PROVE  /\ ch.events = {} /\ ch.index = "kNew" =>
              EnableReading(ch).registered /\ EnableReading(ch).events = {"in"}
         /\ ch.registered /\ "in" \in ch.events =>
              /\ EnableWriting(ch).registered
              /\ EnableWriting(ch).events = ch.events \cup {"out"}
              /\ DisableWriting(ch).registered
              /\ DisableWriting(ch).events = ch.events \ {"out"}
         /\ ch.registered => ~DisableAll(ch).registered /\ DisableAll(ch).events = {}
         /\ /\ ~RemoveChannel(ch).registered /\ RemoveChannel(ch).index = "kNew"
            /\ RemoveChannel(ch).events = ch.events
<1> USE DEF Sound, Agrees, ChannelRecord, UpdateChannel, EpollAdd, EpollMod, EpollDel
<1>1. ch.events = {} /\ ch.index = "kNew" =>
        EnableReading(ch).registered /\ EnableReading(ch).events = {"in"}
  BY DEF EnableReading
<1>2. ASSUME ch.registered, "in" \in ch.events
      PROVE  /\ EnableWriting(ch).registered
             /\ EnableWriting(ch).events = ch.events \cup {"out"}
  BY <1>2 DEF EnableWriting
<1>3. ASSUME ch.registered, "in" \in ch.events
      PROVE  /\ DisableWriting(ch).registered
             /\ DisableWriting(ch).events = ch.events \ {"out"}
  BY <1>3 DEF DisableWriting
<1>4. ch.registered => ~DisableAll(ch).registered /\ DisableAll(ch).events = {}
  BY DEF DisableAll
<1>5. /\ ~RemoveChannel(ch).registered /\ RemoveChannel(ch).index = "kNew"
      /\ RemoveChannel(ch).events = ch.events
  BY DEF RemoveChannel
<1> QED BY <1>1, <1>2, <1>3, <1>4, <1>5

\* What the setters and removeChannel do to events_ whatever the poller does.
LEMMA EventsSet ==
  ASSUME NEW ch \in ChannelRecord
  PROVE  /\ EnableWriting(ch).events = ch.events \cup {"out"}
         /\ DisableWriting(ch).events = ch.events \ {"out"}
         /\ RemoveChannel(ch).events = ch.events
<1>1. ASSUME NEW c \in ChannelRecord
      PROVE  UpdateChannel(c).events = c.events
  BY DEF UpdateChannel, EpollAdd, EpollMod, EpollDel, ChannelRecord
<1>2. /\ [ch EXCEPT !.events = @ \cup {"out"}] \in ChannelRecord
      /\ [ch EXCEPT !.events = @ \ {"out"}] \in ChannelRecord
  BY DEF ChannelRecord, Events
<1>3. /\ [ch EXCEPT !.events = @ \cup {"out"}].events = ch.events \cup {"out"}
      /\ [ch EXCEPT !.events = @ \ {"out"}].events = ch.events \ {"out"}
  BY DEF ChannelRecord
<1>4. RemoveChannel(ch).events = ch.events
  BY DEF RemoveChannel, EpollDel, ChannelRecord
<1> QED BY <1>1, <1>2, <1>3, <1>4 DEF EnableWriting, DisableWriting
-----------------------------------------------------------------------------
\* f is in the queue q; it is there at most once.
In(f, q) == \E i \in DOMAIN q : q[i] = f
Once(f, q) == \A i, j \in DOMAIN q : q[i] = f /\ q[j] = f => i = j

\* What append does to a queue.
LEMMA AppendIn ==
  ASSUME NEW S, NEW q \in Seq(S), NEW g \in S, NEW f
  PROVE  /\ Append(q, g) # << >>
         /\ q # << >> => Head(Append(q, g)) = Head(q)
         /\ g # f => (In(f, Append(q, g)) <=> In(f, q))
         /\ g # f /\ Once(f, q) => Once(f, Append(q, g))
         /\ ~In(f, q) => Once(f, Append(q, g))
<1>1. Len(q) \in Nat /\ DOMAIN q = 1..Len(q)
  BY LenProperties
<1>2. /\ Append(q, g) \in Seq(S) /\ Append(q, g) # << >>
      /\ DOMAIN Append(q, g) = 1..Len(q) + 1
      /\ \A i \in 1..Len(q) : Append(q, g)[i] = q[i]
      /\ Append(q, g)[Len(q) + 1] = g
  BY <1>1, AppendProperties
<1> DEFINE r == Append(q, g)
<1> HIDE DEF r
<1>3. /\ r \in Seq(S) /\ r # << >> /\ DOMAIN r = 1..Len(q) + 1
      /\ \A i \in 1..Len(q) : r[i] = q[i]
      /\ r[Len(q) + 1] = g
  BY <1>2 DEF r
<1>4. q # << >> => Head(r) = Head(q)
  <2> SUFFICES ASSUME q # << >> PROVE Head(r) = Head(q)
    OBVIOUS
  <2>1. Len(q) >= 1
    BY <1>1, EmptySeq
  <2> QED BY <1>1, <1>3, <2>1
<1>5. g # f => (In(f, r) <=> In(f, q))
  BY <1>1, <1>3 DEF In
<1>6. g # f /\ Once(f, q) => Once(f, r)
  BY <1>1, <1>3 DEF Once
<1>7. ~In(f, q) => Once(f, r)
  BY <1>1, <1>3 DEF Once, In
<1> QED BY <1>3, <1>4, <1>5, <1>6, <1>7 DEF r

\* What taking the first functor away does to a queue.
LEMMA TailIn ==
  ASSUME NEW S, NEW q \in Seq(S), q # << >>, NEW f
  PROVE  /\ In(f, Tail(q)) => In(f, q)
         /\ Once(f, q) => Once(f, Tail(q))
         /\ Head(q) # f /\ In(f, q) => In(f, Tail(q))
         /\ Head(q) = f => In(f, q)
         /\ Head(q) = f /\ Once(f, q) => ~In(f, Tail(q))
<1>1. Len(q) \in Nat /\ Len(q) >= 1 /\ DOMAIN q = 1..Len(q) /\ Head(q) = q[1]
  BY LenProperties, EmptySeq
<1> DEFINE r == Tail(q)
<1>2. DOMAIN r = 1..Len(q) - 1 /\ \A i \in 1..Len(q) - 1 : r[i] = q[i + 1]
  BY <1>1, HeadTailProperties
<1> HIDE DEF r
<1>3. \A i \in DOMAIN r : i + 1 \in DOMAIN q /\ i + 1 # 1 /\ r[i] = q[i + 1]
  BY <1>1, <1>2
<1>4. \A i \in DOMAIN q : i # 1 => i - 1 \in DOMAIN r /\ r[i - 1] = q[i]
  BY <1>1, <1>2
<1>5. 1 \in DOMAIN q
  BY <1>1
<1>6. In(f, r) => In(f, q)
  BY <1>3 DEF In
<1>7. Once(f, q) => Once(f, r)
  BY <1>1, <1>2, <1>3 DEF Once
<1>8. Head(q) # f /\ In(f, q) => In(f, r)
  BY <1>1, <1>4 DEF In
<1>9. Head(q) = f => In(f, q)
  BY <1>1, <1>5 DEF In
<1>10. Head(q) = f /\ Once(f, q) => ~In(f, r)
  BY <1>1, <1>3, <1>5 DEF Once, In
<1> QED BY <1>6, <1>7, <1>8, <1>9, <1>10 DEF r

\* Nothing is in the empty queue.
LEMMA EmptyIn == \A f : ~In(f, << >>) /\ Once(f, << >>)
  BY DEF In, Once
=============================================================================
