--------------------------- MODULE TcpServerProof ---------------------------
(***************************************************************************)
(* Theorems about TcpServer, for any number of threads, any hash function, *)
(* any peers and descriptors and any number of connections.                *)
(***************************************************************************)
EXTENDS TcpServer, CommonLemmas, FiniteSetTheorems

\* The lemmas about the ring, for the pool's hash_.
ring == INSTANCE ConsistentHashProof
          WITH Nodes <- Threads, NoNode <- Main, hashFunction <- NodeHash, members <- loops
-----------------------------------------------------------------------------
(***************************************************************************)
(* The inductive invariant                                                 *)
(***************************************************************************)

Est(c) == <<"established", c>>
Rem(c) == <<"remove", c>>
Des(c) == <<"destroyed", c>>

\* In q, g does not come before f.
Before(f, g, q) == \A i, j \in DOMAIN q : q[i] = f /\ q[j] = g => i < j

\* The pool's ring: every hash of the list has a thread that has been started, and
\* with a thread there is a hash.
Pool ==
  /\ Cardinality(loops) \in 0..NumThreads /\ loops = 1..Cardinality(loops)
  /\ sortedHashes \in Seq(0..MaxHash)
  /\ \A i, j \in DOMAIN sortedHashes : i <= j => sortedHashes[i] <= sortedHashes[j]
  /\ Range(sortedHashes) = DOMAIN circle
  /\ \A h \in DOMAIN circle : circle[h] \in loops
  /\ loops # {} => DOMAIN circle # {}

\* Where the loops' threads and the destructor can be at the same time.
Phases ==
  /\ \A t \in Threads : pc[t] \notin {"threw", "destroyed"} /\ (pc[t] = "none" <=> t \notin loops)
  /\ pc[Main] # "none" /\ (pc[Main] = "threw" => Threads = {})
  /\ serverPc # "alive" => pc[Main] \in {"left", "destroyed"} /\ startPc = "idle"
  /\ pc[Main] = "destroyed" => serverPc = "gone"
  /\ \A t \in Threads :
       quit[t] \/ pc[t] = "left" => serverPc \in {"join", "threads", "gone"}
  /\ serverPc \in {"join", "threads", "gone"} => connections = {}
  /\ serverPc \in {"alive", "connections"} => joining = 1
  /\ serverPc = "join" => joining \in loops
  /\ serverPc = "gone" => joining \notin loops
  /\ \A t \in loops : t < joining => pc[t] = "left"

\* A loop's functors and channels are where its thread is.
Stages ==
  /\ \A l \in Loops : /\ called[l] <= Len(batch[l])
                      /\ pc[l] # "batch" => batch[l] = << >> /\ called[l] = 0
                      /\ pc[l] # "dispatch" => active[l] = {}
  /\ \A t \in Threads : pc[t] \in {"none", "left"} => queue[t] = << >>
  /\ pc[Main] = "destroyed" => queue[Main] = << >>

\* The loop that a functor is for.
Place(l, f) ==
  \/ l = Main /\ f = <<"listen", 0>>
  \/ l = Main /\ f[1] = "remove" /\ f[2] \in Made
  \/ f[1] \in {"established", "destroyed"} /\ f[2] \in Made /\ l = conn[f[2]].loop

Places == \A l \in Loops : \A f \in Functors : In(f, Waiting(l)) => Place(l, f)

\* No functor of c waits twice in q, and established comes before destroyed.
OrderOf(c, q) ==
  /\ Once(Est(c), q) /\ Once(Rem(c), q) /\ Once(Des(c), q)
  /\ Before(Est(c), Des(c), q)

Orders == \A l \in Loops : \A c \in Made : OrderOf(c, Waiting(l))

\* The acceptor listens when the pool is complete, and from then on.
Served ==
  /\ \/ loops = Threads
     \/ /\ ~acceptChannel.registered /\ ~In(<<"listen", 0>>, Waiting(Main))
        /\ backlog = << >> /\ active[Main] = {} /\ conn = << >>
  /\ active[Main] # {} => backlog # << >>
  /\ Len(conn) + Len(backlog) <= arrived
  /\ \A c \in Made : \E key \in 0..MaxHash :
       key = PeerHash[conn[c].peer] /\ conn[c].loop = hash_!GetNode(key)

\* What the state of a connection of loop l tells of it.
StateOf(c, l) ==
  LET k == conn[c] IN
  /\ k.state = "kConnecting" =>
       /\ k.ups = 0 /\ k.downs = 0 /\ k.channel = NewChannel /\ ~k.destroyed
       /\ pc[l] # "left" => In(Est(c), Waiting(l))
  /\ k.state # "kConnecting" => k.ups = 1 /\ ~In(Est(c), Waiting(l))
  /\ k.state = "kConnected" => k.downs = 0 /\ k.channel.registered /\ ~k.destroyed
  /\ k.state = "kDisconnected" => k.downs = 1
  /\ k.channel.registered => k.ups = 1 /\ k.downs = 0 /\ ~k.destroyed
  /\ k.destroyed => ~k.channel.listed

\* Who is to end a connection: connections_, a functor, or nobody any more.
TokenOf(c, l) ==
  LET k == conn[c] IN
  /\ c \in connections \/ k.destroyed => ~In(Des(c), Waiting(l))
  /\ ~(c \in connections /\ k.destroyed)
  /\ c \in connections \/ In(Des(c), Waiting(l)) \/ k.destroyed \/ c \in dropped
  /\ c \in dropped => pc[l] = "left"
  /\ In(Rem(c), Waiting(Main)) => k.downs = 1
  /\ serverPc = "alive" /\ (k.downs = 0 \/ In(Rem(c), Waiting(Main))) => c \in connections

Lives == \A c \in Made : \A l \in Threads : l = conn[c].loop => StateOf(c, l) /\ TokenOf(c, l)

\* A channel that is to be handled is that of a connection of the loop that is
\* established and not yet closed, in kDisconnecting too.
Actives ==
  \A l \in Loops : \A c \in active[l] :
    \/ c = 0 /\ l = Main
    \/ c \in Made /\ conn[c].loop = l /\ conn[c].channel.registered

Channels ==
  /\ Sound(acceptChannel) /\ \A c \in Made : Sound(conn[c].channel)
  /\ serverPc = "gone" => acceptChannel.index = "kNew"

\* Connections that exist have different descriptors.
Descriptors ==
  \A c, d \in Made : Alive(c) /\ Alive(d) /\ conn[c].fd = conn[d].fd => c = d

ServerInv ==
  /\ TypeOK /\ Pool /\ Phases /\ Stages /\ Places /\ Orders /\ Served /\ Lives /\ Actives
  /\ Channels /\ Descriptors
-----------------------------------------------------------------------------
(***************************************************************************)
(* The functors that wait                                                  *)
(***************************************************************************)

\* Waiting, of any batch of which k are called and any queue.
Rest(b, k, q) == SubSeq(b, k + 1, Len(b)) \o q

\* What waits is in the queue or in the batch.
LEMMA RestIs ==
  ASSUME NEW S, NEW b \in Seq(S), NEW q \in Seq(S), NEW k \in 0..Len(b)
  PROVE  Rest(b, k, q) \in Seq(S) /\ \A f : In(f, Rest(b, k, q)) => In(f, b) \/ In(f, q)
<1> DEFINE a == SubSeq(b, k + 1, Len(b))
           n == Len(b) - k
<1>1. Len(b) \in Nat /\ Len(q) \in Nat /\ \A i \in 1..Len(b) : b[i] \in S
  BY LenProperties
<1>2. \A i \in k + 1..Len(b) : b[i] \in S
  BY <1>1
<1>3. k + 1 \in Int /\ Len(b) \in Int
  BY <1>1
<1>4. /\ a \in Seq(S) /\ Len(a) = IF k + 1 <= Len(b) THEN Len(b) - (k + 1) + 1 ELSE 0
      /\ \A i \in 1..Len(b) - (k + 1) + 1 : a[i] = b[k + 1 + i - 1]
  BY <1>2, <1>3, SubSeqProperties
<1>5. n \in Nat /\ Len(a) = n /\ Len(b) - (k + 1) + 1 = n /\ \A i \in 1..n : k + 1 + i - 1 = k + i
  BY <1>1, <1>4
<1>6. \A i \in 1..n : a[i] = b[k + i]
  BY <1>4, <1>5
<1> HIDE DEF a
<1> DEFINE r == a \o q
<1>7. /\ r \in Seq(S) /\ Len(r) = Len(a) + Len(q)
      /\ \A i \in 1..Len(a) + Len(q) : r[i] = IF i <= Len(a) THEN a[i] ELSE q[i - Len(a)]
  BY <1>4, ConcatProperties
<1>8. Rest(b, k, q) = r
  BY DEF Rest, a
<1> HIDE DEF r
<1>9. \A i \in 1..n : r[i] = b[k + i]
  <2> TAKE i \in 1..n
  <2>1. i \in 1..Len(a) + Len(q) /\ i <= Len(a)
    BY <1>1, <1>5
  <2> QED BY <1>6, <1>7, <2>1
<1>10. \A i \in n + 1..n + Len(q) : r[i] = q[i - n]
  <2> TAKE i \in n + 1..n + Len(q)
  <2>1. i \in 1..Len(a) + Len(q) /\ ~(i <= Len(a)) /\ i - Len(a) = i - n
    BY <1>1, <1>5
  <2> QED BY <1>7, <2>1
<1>11. ASSUME NEW i \in DOMAIN r PROVE In(r[i], b) \/ In(r[i], q)
  <2>0. DOMAIN r = 1..n + Len(q) /\ DOMAIN b = 1..Len(b) /\ DOMAIN q = 1..Len(q)
    BY <1>5, <1>7, LenProperties
  <2>1. CASE i <= n
    <3>1. i \in 1..n /\ k + i \in DOMAIN b
      BY <1>1, <1>5, <2>0, <2>1
    <3> QED BY <1>9, <3>1 DEF In
  <2>2. CASE i > n
    <3>1. i \in n + 1..n + Len(q) /\ i - n \in DOMAIN q
      BY <1>1, <1>5, <2>0, <2>2
    <3> QED BY <1>10, <3>1 DEF In
  <2> QED BY <1>1, <1>5, <2>0, <2>1, <2>2
<1>12. \A f : In(f, r) => In(f, b) \/ In(f, q)
  BY <1>11 DEF In
<1> QED BY <1>7, <1>8, <1>12

\* queueInLoop appends.
LEMMA RestPush ==
  ASSUME NEW S, NEW b \in Seq(S), NEW q \in Seq(S), NEW k \in 0..Len(b), NEW f \in S
  PROVE  Rest(b, k, Append(q, f)) = Append(Rest(b, k, q), f)
<1> DEFINE a == SubSeq(b, k + 1, Len(b))
<1>1. Len(b) \in Nat /\ \A i \in 1..Len(b) : b[i] \in S
  BY LenProperties
<1>2. a \in Seq(S)
  <2>1. k + 1 \in Int /\ Len(b) \in Int /\ \A i \in k + 1..Len(b) : b[i] \in S
    BY <1>1
  <2> QED BY <2>1, SubSeqProperties
<1> HIDE DEF a
<1>3. Append(q, f) = q \o <<f>> /\ <<f>> \in Seq(S) /\ a \o q \in Seq(S)
  BY <1>2, AppendIsConcat, ConcatProperties
<1>4. Append(a \o q, f) = (a \o q) \o <<f>>
  BY <1>3, AppendIsConcat
<1>5. (a \o q) \o <<f>> = a \o (q \o <<f>>)
  BY <1>2, <1>3, ConcatAssociative
<1> QED BY <1>3, <1>4, <1>5 DEF Rest, a

\* A sequence that begins with x.
LEMMA Cons ==
  ASSUME NEW S, NEW x \in S, NEW s \in Seq(S)
  PROVE  <<x>> \o s # << >> /\ Head(<<x>> \o s) = x /\ Tail(<<x>> \o s) = s
<1> DEFINE r == <<x>> \o s
           t == Tail(r)
<1>1. <<x>> \in Seq(S) /\ Len(<<x>>) = 1 /\ <<x>>[1] = x /\ Len(s) \in Nat
  BY LenProperties
<1>2. /\ r \in Seq(S) /\ Len(r) = 1 + Len(s)
      /\ \A i \in 1..1 + Len(s) : r[i] = IF i <= 1 THEN <<x>>[i] ELSE s[i - 1]
  BY <1>1, ConcatProperties
<1> HIDE DEF r
<1>3. r # << >> /\ Head(r) = x
  BY <1>1, <1>2
<1>4. t \in Seq(S) /\ Len(t) = Len(r) - 1 /\ \A i \in 1..Len(t) : t[i] = r[i + 1]
  BY <1>2, <1>3, HeadTailProperties
<1> HIDE DEF t
<1>5. Len(t) = Len(s)
  BY <1>1, <1>2, <1>4
<1>6. ASSUME NEW i \in 1..Len(t) PROVE t[i] = s[i]
  <2>1. i + 1 \in 1..1 + Len(s) /\ ~(i + 1 <= 1) /\ i + 1 - 1 = i
    BY <1>1, <1>5
  <2> QED BY <1>2, <1>4, <2>1
<1>7. t = s
  BY <1>4, <1>5, <1>6, SeqEqual
<1> QED BY <1>3, <1>7 DEF r, t

\* A call takes the first functor.
LEMMA RestCall ==
  ASSUME NEW S, NEW b \in Seq(S), NEW q \in Seq(S), NEW k \in Nat, k < Len(b)
  PROVE  /\ Rest(b, k, q) # << >> /\ Head(Rest(b, k, q)) = b[k + 1]
         /\ Rest(b, k + 1, q) = Tail(Rest(b, k, q))
<1> DEFINE n == Len(b)
           a == SubSeq(b, k + 1 + 1, n)
           x == b[k + 1]
<1>1. n \in Nat /\ \A i \in 1..n : b[i] \in S
  BY LenProperties
<1>2. k + 1 \in 1..n /\ n \in k + 1..n /\ k + 1 + 1 \in Int /\ n \in Int
  BY <1>1
<1>3. x \in S /\ <<x>> \in Seq(S)
  BY <1>1, <1>2
<1>4. a \in Seq(S)
  <2>1. \A i \in k + 1 + 1..n : b[i] \in S
    BY <1>1
  <2> QED BY <1>2, <2>1, SubSeqProperties
<1>5. SubSeq(b, k + 1, n) = <<x>> \o a
  BY <1>2, SubSeqRecursiveFirst
<1>6. (<<x>> \o a) \o q = <<x>> \o (a \o q) /\ a \o q \in Seq(S)
  <2> DEFINE u == <<x>>
  <2>1. u \in Seq(S)
    BY <1>3
  <2> HIDE DEF a, u
  <2>2. (u \o a) \o q = u \o (a \o q)
    BY <1>4, <2>1, ConcatAssociative
  <2>3. a \o q \in Seq(S)
    BY <1>4, ConcatProperties
  <2> QED BY <2>2, <2>3 DEF u
<1> DEFINE y == a \o q
<1>7. Rest(b, k, q) = <<x>> \o y /\ Rest(b, k + 1, q) = y
  BY <1>5, <1>6 DEF Rest
<1>8. x \in S /\ y \in Seq(S)
  BY <1>3, <1>6
<1> HIDE DEF x, y
<1>9. <<x>> \o y # << >> /\ Head(<<x>> \o y) = x /\ Tail(<<x>> \o y) = y
  BY <1>8, Cons
<1> QED BY <1>7, <1>9 DEF x

\* When all of the batch is called, the queue is left; and a queue waits as a batch does.
LEMMA RestEnds ==
  ASSUME NEW S, NEW b \in Seq(S), NEW q \in Seq(S)
  PROVE  Rest(b, Len(b), q) = q /\ Rest(<< >>, 0, q) = q /\ Rest(q, 0, << >>) = q
<1>1. Len(b) \in Nat /\ Len(<< >>) = 0 /\ Len(q) \in Nat
  BY LenProperties, EmptySeq
<1>2. SubSeq(b, Len(b) + 1, Len(b)) = << >> /\ SubSeq(<< >>, 0 + 1, 0) = << >>
  <2>1. Len(b) + 1 \in Int /\ Len(b) \in Int /\ Len(b) < Len(b) + 1 /\ 0 < 0 + 1
    BY <1>1
  <2> QED BY <2>1, SubSeqEmpty
<1>3. SubSeq(q, 0 + 1, Len(q)) = q
  BY SubSeqFull
<1>4. << >> \o q = q /\ q \o << >> = q
  BY ConcatEmptySeq
<1> QED BY <1>1, <1>2, <1>3, <1>4 DEF Rest
-----------------------------------------------------------------------------
\* What appending does to the functors that wait.
LEMMA Pushed ==
  ASSUME NEW S, NEW q \in Seq(S), NEW g \in S
  PROVE  /\ \A f : In(f, Append(q, g)) <=> In(f, q) \/ f = g
         /\ \A f : Once(f, q) /\ (f # g \/ ~In(g, q)) => Once(f, Append(q, g))
         /\ \A f, h : Before(f, h, q) /\ (f # g \/ ~In(h, q)) /\ f # h
              => Before(f, h, Append(q, g))
<1> DEFINE r == Append(q, g)
           n == Len(q)
<1>1. n \in Nat /\ DOMAIN q = 1..n
  BY LenProperties
<1>2. /\ DOMAIN r = 1..n + 1 /\ r[n + 1] = g /\ \A i \in 1..n : r[i] = q[i]
  BY <1>1, AppendProperties, LenProperties
<1> HIDE DEF r, n
<1>3. /\ \A i \in 1..n : i \in DOMAIN r /\ i < n + 1
      /\ n + 1 \in DOMAIN r
      /\ \A i \in DOMAIN r : i \in 1..n \/ i = n + 1
  BY <1>1, <1>2
<1>4. \A f : In(f, r) <=> In(f, q) \/ f = g
  BY <1>1, <1>2, <1>3 DEF In
<1>5. \A f : Once(f, q) /\ (f # g \/ ~In(g, q)) => Once(f, r)
  BY <1>1, <1>2, <1>3 DEF In, Once
<1>6. \A f, h : Before(f, h, q) /\ (f # g \/ ~In(h, q)) /\ f # h => Before(f, h, r)
  BY <1>1, <1>2, <1>3 DEF In, Before
<1> QED BY <1>4, <1>5, <1>6 DEF r

\* What taking the first one does to them.
LEMMA Popped ==
  ASSUME NEW S, NEW q \in Seq(S), q # << >>
  PROVE  /\ In(Head(q), q)
         /\ \A f : In(f, Tail(q)) => In(f, q)
         /\ \A f : In(f, q) => f = Head(q) \/ In(f, Tail(q))
         /\ \A f : Once(f, q) => Once(f, Tail(q)) /\ (f = Head(q) => ~In(f, Tail(q)))
         /\ \A f, h : Before(f, h, q) => Before(f, h, Tail(q)) /\ (h = Head(q) => ~In(f, q))
<1> DEFINE n == Len(q)
           r == Tail(q)
<1>1. n \in Nat /\ n >= 1 /\ DOMAIN q = 1..n /\ Head(q) = q[1] /\ 1 \in DOMAIN q
  BY LenProperties, EmptySeq
<1>2. DOMAIN r = 1..n - 1 /\ \A i \in 1..n - 1 : r[i] = q[i + 1]
  BY <1>1, HeadTailProperties, LenProperties
<1> HIDE DEF r, n
<1>3. /\ \A i \in DOMAIN r : i + 1 \in DOMAIN q /\ i + 1 # 1 /\ i \in Nat /\ r[i] = q[i + 1]
      /\ \A i \in DOMAIN q : i # 1 => i - 1 \in DOMAIN r /\ r[i - 1] = q[i]
      /\ \A i \in DOMAIN q : i \in Nat /\ ~(i < 1)
  BY <1>1, <1>2
<1>4. In(Head(q), q)
  BY <1>1 DEF In
<1>5. \A f : In(f, r) => In(f, q)
  BY <1>3 DEF In
<1>6. \A f : In(f, q) => f = Head(q) \/ In(f, r)
  BY <1>1, <1>3 DEF In
<1>7. \A f : Once(f, q) => Once(f, r) /\ (f = Head(q) => ~In(f, r))
  <2> TAKE f
  <2> HAVE Once(f, q)
  <2>1. Once(f, r)
    BY <1>3 DEF Once
  <2>2. f = Head(q) => ~In(f, r)
    BY <1>1, <1>3 DEF Once, In
  <2> QED BY <2>1, <2>2
<1>8. \A f, h : Before(f, h, q) => Before(f, h, r) /\ (h = Head(q) => ~In(f, q))
  <2> TAKE f, h
  <2> HAVE Before(f, h, q)
  <2>1. Before(f, h, r)
    <3> SUFFICES ASSUME NEW i \in DOMAIN r, NEW j \in DOMAIN r, r[i] = f, r[j] = h PROVE i < j
      BY DEF Before
    <3>1. i + 1 < j + 1
      BY <1>3 DEF Before
    <3> QED BY <1>3, <3>1
  <2>2. h = Head(q) => ~In(f, q)
    BY <1>1, <1>3 DEF Before, In
  <2> QED BY <2>1, <2>2
<1> QED BY <1>4, <1>5, <1>6, <1>7, <1>8 DEF r

\* Nothing waits in an empty queue.
LEMMA NothingWaits == \A f, h : ~In(f, << >>) /\ Once(f, << >>) /\ Before(f, h, << >>)
  BY DEF In, Once, Before
-----------------------------------------------------------------------------
\* Waiting, with its types.
LEMMA WaitingIs ==
  ASSUME TypeOK, Stages, NEW l \in Loops
  PROVE  /\ batch[l] \in Seq(Functors) /\ queue[l] \in Seq(Functors)
         /\ called[l] \in 0..Len(batch[l])
         /\ Waiting(l) = Rest(batch[l], called[l], queue[l])
         /\ Waiting(l) \in Seq(Functors)
         /\ \A f : In(f, Waiting(l)) => In(f, batch[l]) \/ In(f, queue[l])
<1>1. /\ batch[l] \in Seq(Functors) /\ queue[l] \in Seq(Functors) /\ called[l] \in Nat
      /\ called[l] <= Len(batch[l])
  BY DEF TypeOK, Stages
<1>2. called[l] \in 0..Len(batch[l])
  BY <1>1, LenProperties
<1>3. Waiting(l) = Rest(batch[l], called[l], queue[l])
  BY DEF Waiting, Rest
<1> HIDE DEF Waiting
<1> QED BY <1>1, <1>2, <1>3, RestIs

\* A step that leaves a loop's queue and batch alone.
LEMMA WaitingKept ==
  ASSUME NEW l \in Loops, queue'[l] = queue[l], batch'[l] = batch[l], called'[l] = called[l]
  PROVE  Waiting(l)' = Waiting(l)
  BY DEF Waiting

\* queueInLoop.
LEMMA PushWaits ==
  ASSUME TypeOK, Stages, NEW l \in Loops, NEW op, NEW c, <<op, c>> \in Functors,
         Push(l, op, c), batch' = batch, called' = called
  PROVE  /\ Waiting(l)' = Append(Waiting(l), <<op, c>>)
         /\ \A m \in Loops : m # l => Waiting(m)' = Waiting(m)
         /\ queue'[l] = Append(queue[l], <<op, c>>)
         /\ \A m \in Loops : m # l => queue'[m] = queue[m]
<1> DEFINE f == <<op, c>>
<1>1. queue \in [Loops -> Seq(Functors)]
  BY DEF TypeOK
<1>2. /\ queue'[l] = Append(queue[l], f)
      /\ \A m \in Loops : m # l => queue'[m] = queue[m]
  BY <1>1 DEF Push
<1>3. \A m \in Loops : m # l => Waiting(m)' = Waiting(m)
  BY <1>2, WaitingKept
<1>4. Waiting(l)' = Rest(batch[l], called[l], Append(queue[l], f))
  BY <1>2 DEF Waiting, Rest
<1> HIDE DEF f
<1>5. Rest(batch[l], called[l], Append(queue[l], f)) = Append(Waiting(l), f)
  <2>1. /\ batch[l] \in Seq(Functors) /\ queue[l] \in Seq(Functors)
        /\ called[l] \in 0..Len(batch[l]) /\ f \in Functors
        /\ Waiting(l) = Rest(batch[l], called[l], queue[l])
    BY WaitingIs DEF f
  <2> QED BY <2>1, RestPush
<1> QED BY <1>2, <1>3, <1>4, <1>5 DEF f

\* The call of a functor.
LEMMA CallWaits ==
  ASSUME TypeOK, Stages, NEW l \in Loops, NEW op, NEW c, Calls(l, op, c),
         batch' = batch, queue'[l] = queue[l]
  PROVE  /\ Waiting(l) # << >> /\ Head(Waiting(l)) = <<op, c>>
         /\ Waiting(l)' = Tail(Waiting(l))
         /\ called'[l] = called[l] + 1 /\ \A m \in Loops : m # l => called'[m] = called[m]
<1> DEFINE b == batch[l]
           q == queue[l]
           k == called[l]
<1>1. called \in [Loops -> Nat]
  BY DEF TypeOK
<1>2. called'[l] = k + 1 /\ \A m \in Loops : m # l => called'[m] = called[m]
  BY <1>1 DEF Calls
<1>3. k \in Nat /\ k < Len(b) /\ b[k + 1] = <<op, c>>
  BY <1>1 DEF Calls
<1>4. b \in Seq(Functors) /\ q \in Seq(Functors) /\ Waiting(l) = Rest(b, k, q)
  BY WaitingIs
<1>5. Waiting(l)' = Rest(b, k + 1, q)
  BY <1>2 DEF Waiting, Rest
<1> HIDE DEF b, q, k
<1>6. /\ Rest(b, k, q) # << >> /\ Head(Rest(b, k, q)) = b[k + 1]
      /\ Rest(b, k + 1, q) = Tail(Rest(b, k, q))
  BY <1>3, <1>4, RestCall
<1> QED BY <1>2, <1>3, <1>4, <1>5, <1>6 DEF k

\* The swap of the functors, and the end of the batch, leave what waits.
LEMMA SwapWaits ==
  ASSUME TypeOK, Stages, NEW l \in Loops, SwapFunctors(l) \/ BatchDone(l)
  PROVE  \A m \in Loops : Waiting(m)' = Waiting(m)
<1>0. /\ queue \in [Loops -> Seq(Functors)] /\ batch \in [Loops -> Seq(Functors)]
      /\ called \in [Loops -> Nat]
  BY DEF TypeOK
<1>1. /\ batch[l] \in Seq(Functors) /\ queue[l] \in Seq(Functors)
      /\ Waiting(l) = Rest(batch[l], called[l], queue[l])
  BY WaitingIs
<1>2. \A m \in Loops : m # l =>
        queue'[m] = queue[m] /\ batch'[m] = batch[m] /\ called'[m] = called[m]
  BY <1>0 DEF SwapFunctors, BatchDone
<1>3. \A m \in Loops : m # l => Waiting(m)' = Waiting(m)
  BY <1>2, WaitingKept
<1>4. CASE SwapFunctors(l)
  <2>1. batch[l] = << >> /\ called[l] = 0
    BY <1>4 DEF SwapFunctors, LoopGoes, Stages
  <2>2. batch'[l] = queue[l] /\ queue'[l] = << >> /\ called'[l] = 0
    BY <1>0, <1>4, <2>1 DEF SwapFunctors
  <2>3. Waiting(l)' = Rest(queue[l], 0, << >>)
    BY <2>2 DEF Waiting, Rest
  <2>4. Waiting(l)' = Waiting(l)
    BY <1>1, <2>1, <2>3, RestEnds
  <2> QED BY <1>3, <2>4
<1>5. CASE BatchDone(l)
  <2>1. called[l] = Len(batch[l])
    BY <1>5 DEF BatchDone
  <2>2. batch'[l] = << >> /\ queue'[l] = queue[l] /\ called'[l] = 0
    BY <1>0, <1>5 DEF BatchDone
  <2>3. Waiting(l)' = Rest(<< >>, 0, queue[l])
    BY <2>2 DEF Waiting, Rest
  <2>4. Waiting(l)' = Waiting(l)
    BY <1>1, <2>1, <2>3, RestEnds
  <2> QED BY <1>3, <2>4
<1> QED BY <1>4, <1>5
-----------------------------------------------------------------------------
(***************************************************************************)
(* The pool and its ring                                                   *)
(***************************************************************************)

\* The assumption of the ring's lemmas.
LEMMA RingConstants == Main \notin Threads /\ Replicas \in Nat \ {0} /\ MaxHash \in Nat
  BY ServerAssumption DEF Main, Threads

\* The operators of the two instances are the same.
LEMMA SameRing ==
  /\ \A s, t : ring!InsertAll(s, t) = hash_!InsertAll(s, t)
  /\ \A t : ring!Points(t) = hash_!Points(t)
  /\ \A key : hash_!Found(key) = ring!FoundIn(sortedHashes, key)
<1>1. \A S : hash_!Cardinality(S) = ring!Cardinality(S)
  BY DEF hash_!Cardinality, ring!Cardinality, ring!IsFiniteSet, hash_!IsFiniteSet
<1>2. \A s, h : ring!LowerBound(s, h) = hash_!LowerBound(s, h)
  BY <1>1 DEF ring!LowerBound, hash_!LowerBound
<1>3. \A s, h : ring!Insert(s, h) = hash_!Insert(s, h)
  BY <1>2 DEF ring!Insert, hash_!Insert
<1>4. \A s, t : ring!InsertAll(s, t) = hash_!InsertAll(s, t)
  BY <1>3 DEF ring!InsertAll, hash_!InsertAll
<1>5. \A t : ring!Points(t) = hash_!Points(t)
  BY DEF ring!Points, hash_!Points
<1>6. \A s, h : ring!UpperBound(s, h) = hash_!UpperBound(s, h)
  BY <1>1 DEF ring!UpperBound, hash_!UpperBound
<1>7. \A key : hash_!Found(key) = ring!FoundIn(sortedHashes, key)
  BY <1>6 DEF ring!FoundIn, hash_!Found
<1> QED BY <1>4, <1>5, <1>7

\* A new thread brings its points into list and circle.
LEMMA InsertsThread ==
  ASSUME Pool, NEW t \in Threads
  PROVE  LET s == hash_!InsertAll(sortedHashes, t)
         IN /\ s \in Seq(0..MaxHash)
            /\ \A i, j \in DOMAIN s : i <= j => s[i] <= s[j]
            /\ Range(s) = Range(sortedHashes) \cup hash_!Points(t)
<1> DEFINE s == ring!InsertAll(sortedHashes, t)
<1>1. sortedHashes \in Seq(ring!Hashes) /\ ring!Sorted(sortedHashes)
  BY DEF Pool, ring!Hashes, ring!Sorted
<1>2. NodeHash \in [ring!VirtualNodes -> ring!Hashes]
  BY ServerAssumption DEF ring!VirtualNodes, ring!Hashes
<1>3. /\ ring!InsertAll(sortedHashes, t) \in Seq(ring!Hashes)
      /\ ring!Sorted(ring!InsertAll(sortedHashes, t))
      /\ ring!Range(ring!InsertAll(sortedHashes, t))
           = ring!Range(sortedHashes) \cup ring!Points(t)
  BY <1>1, <1>2, RingConstants, ring!InsertAllEffect, Zenon
<1> HIDE DEF s
<1>4. s \in Seq(0..MaxHash) /\ \A i, j \in DOMAIN s : i <= j => s[i] <= s[j]
  BY <1>3 DEF ring!Hashes, ring!Sorted, s
<1>5. Range(s) = Range(sortedHashes) \cup ring!Points(t)
  BY <1>3 DEF ring!Range, Range, s
<1> QED BY <1>4, <1>5, SameRing DEF s

\* One thread more: addNode.
LEMMA StartThreadPool ==
  ASSUME Pool, StartThread
  PROVE  LET t == Cardinality(loops) + 1
         IN /\ Pool' /\ t \in Threads /\ t \notin loops /\ loops' = loops \cup {t}
            /\ loops # Threads
            /\ pc' = [pc EXCEPT ![t] = "published"]
<1> DEFINE n == Cardinality(loops)
           t == n + 1
           P == hash_!Points(t)
<1>1. /\ n \in 0..NumThreads /\ loops = 1..n /\ Range(sortedHashes) = DOMAIN circle
      /\ \A h \in DOMAIN circle : circle[h] \in loops
  BY DEF Pool
<1>2. /\ n < NumThreads /\ pc' = [pc EXCEPT ![t] = "published"] /\ hash_!AddNode(t)
  BY DEF StartThread
<1>3. /\ circle' = [h \in DOMAIN circle \cup P |-> IF h \in P THEN t ELSE circle[h]]
      /\ sortedHashes' = hash_!InsertAll(sortedHashes, t)
      /\ loops' = loops \cup {t}
  BY <1>2 DEF hash_!AddNode
<1> HIDE DEF n, P
<1>4. t \in Threads /\ t \notin loops /\ loops # Threads /\ loops \cup {t} = 1..t /\ t \in Nat
      /\ t \in 0..NumThreads
  BY <1>1, <1>2, ServerAssumption DEF Threads
<1>5. Cardinality(loops') = t
  <2> HIDE DEF t
  <2>1. Cardinality(1..t) = IF 1 <= t THEN t - 1 + 1 ELSE 0
    BY <1>4, FS_Interval
  <2>2. loops' = 1..t
    BY <1>3, <1>4
  <2> QED BY <1>4, <2>1, <2>2
<1>6. /\ sortedHashes' \in Seq(0..MaxHash)
      /\ \A i, j \in DOMAIN sortedHashes' : i <= j => sortedHashes'[i] <= sortedHashes'[j]
      /\ Range(sortedHashes') = Range(sortedHashes) \cup P
  BY <1>3, <1>4, InsertsThread DEF P
<1>7. /\ Range(sortedHashes') = DOMAIN circle' /\ \A h \in DOMAIN circle' : circle'[h] \in loops'
      /\ DOMAIN circle' # {}
  <2>1. P # {}
    <3>1. 1 \in 1..Replicas
      BY ServerAssumption
    <3> QED BY <3>1 DEF P, hash_!Points
  <2>2. t \in loops'
    BY <1>3
  <2> HIDE DEF t
  <2>3. DOMAIN circle' = DOMAIN circle \cup P
    BY <1>3
  <2>4. ASSUME NEW h \in DOMAIN circle'
        PROVE  circle'[h] \in loops'
    <3>1. CASE h \in P
      BY <1>3, <2>2, <2>3, <3>1
    <3>2. CASE h \notin P
      BY <1>1, <1>3, <2>3, <3>2
    <3> QED BY <3>1, <3>2
  <2> QED BY <1>1, <1>6, <2>1, <2>3, <2>4
<1>8. Pool'
  <2>1. Cardinality(loops') \in 0..NumThreads /\ loops' = 1..Cardinality(loops')
    BY <1>3, <1>4, <1>5
  <2> HIDE DEF t
  <2> QED BY <1>6, <1>7, <2>1 DEF Pool, Range
<1> QED BY <1>2, <1>3, <1>4, <1>8 DEF n

\* getNextLoop returns the loop of a thread that has been started.
LEMMA NodeIsLoop ==
  ASSUME Pool, ~hash_!Throws, NEW key \in 0..MaxHash
  PROVE  hash_!Found(key) \in DOMAIN circle /\ hash_!GetNode(key) \in loops
<1>1. sortedHashes \in Seq(ring!Hashes) /\ ring!Sorted(sortedHashes) /\ key \in ring!Hashes
  BY DEF Pool, ring!Hashes, ring!Sorted
<1>2. DOMAIN circle # {} /\ Range(sortedHashes) = DOMAIN circle
  BY DEF hash_!Throws, Pool
<1>3. sortedHashes # << >>
  <2>1. DOMAIN sortedHashes # {}
    BY <1>2 DEF Range
  <2> QED BY <2>1
<1>4. ring!FoundIn(sortedHashes, key) \in ring!Range(sortedHashes)
  BY <1>1, <1>3, RingConstants, ring!FoundIsNearest, Zenon
<1>5. hash_!Found(key) \in DOMAIN circle
  BY <1>2, <1>4, SameRing DEF ring!Range, Range
<1> QED BY <1>5 DEF hash_!GetNode, Pool

\* A lookup leaves the ring as it is: the entry that it returns is there.
LEMMA LookupKeeps ==
  ASSUME Pool, NEW key \in 0..MaxHash, hash_!Lookup(key)
  PROVE  /\ Pool' /\ loops' = loops
         /\ \A k \in 0..MaxHash : hash_!GetNode(k)' = hash_!GetNode(k)
<1> DEFINE f == hash_!Found(key)
<1>1. /\ ~hash_!Throws /\ loops' = loops /\ sortedHashes' = sortedHashes
      /\ circle' = [h \in DOMAIN circle \cup {f} |->
                      IF h = f THEN hash_!GetNode(key) ELSE circle[h]]
  BY DEF hash_!Lookup
<1>2. f \in DOMAIN circle /\ hash_!GetNode(key) = circle[f]
  BY <1>1, NodeIsLoop DEF hash_!GetNode
<1> HIDE DEF f
<1>3. DOMAIN circle' = DOMAIN circle /\ \A h \in DOMAIN circle : circle'[h] = circle[h]
  BY <1>1, <1>2
<1>4. Pool'
  BY <1>1, <1>3 DEF Pool
<1>5. ASSUME NEW k \in 0..MaxHash PROVE hash_!GetNode(k)' = hash_!GetNode(k)
  <2>1. hash_!Found(k)' = hash_!Found(k)
    BY <1>1 DEF hash_!Found, hash_!UpperBound
  <2> QED BY <1>3, <2>1 DEF hash_!GetNode
<1> QED BY <1>1, <1>4, <1>5
-----------------------------------------------------------------------------
(***************************************************************************)
(* What the steps do to a connection                                       *)
(***************************************************************************)

\* conn' differs from conn in connection c only, in what the server may change of it.
Updates(c) ==
  /\ conn' \in Seq(ConnRecord) /\ DOMAIN conn' = Made /\ Len(conn') = Len(conn)
  /\ \A d \in Made : d # c => conn'[d] = conn[d]
  /\ conn'[c].loop = conn[c].loop /\ conn'[c].peer = conn[c].peer /\ conn'[c].fd = conn[c].fd

\* Replacing the record of a connection by another of the same loop, peer and fd.
LEMMA ReplaceConn ==
  ASSUME conn \in Seq(ConnRecord), NEW c \in Made, NEW r \in ConnRecord,
         r.loop = conn[c].loop, r.peer = conn[c].peer, r.fd = conn[c].fd,
         conn' = [conn EXCEPT ![c] = r]
  PROVE  Updates(c) /\ conn'[c] = r
<1>1. Made = 1..Len(conn) /\ Len(conn) \in Nat
  BY LenProperties DEF Made
<1>2. /\ conn' \in Seq(ConnRecord) /\ Len(conn') = Len(conn)
      /\ \A d \in 1..Len(conn) : conn'[d] = IF d = c THEN r ELSE conn[d]
  BY <1>1, ExceptSeq
<1>3. DOMAIN conn' = Made
  BY <1>1, <1>2, LenProperties
<1> QED BY <1>1, <1>2, <1>3 DEF Updates

\* The peer's close.
LEMMA PeerClosesConn ==
  ASSUME conn \in Seq(ConnRecord), NEW c \in Made, PeerCloses(c)
  PROVE  /\ Updates(c)
         /\ conn'[c].state = conn[c].state /\ conn'[c].channel = conn[c].channel
         /\ conn'[c].ups = conn[c].ups /\ conn'[c].downs = conn[c].downs
         /\ conn'[c].destroyed = conn[c].destroyed
<1> DEFINE k == conn[c]
           r == [k EXCEPT !.closed = TRUE]
<1>1. k \in ConnRecord
  BY DEF Made
<1>2. conn' = [conn EXCEPT ![c] = r]
  BY DEF PeerCloses
<1> HIDE DEF k
<1>3. /\ r \in ConnRecord /\ r.loop = k.loop /\ r.peer = k.peer /\ r.fd = k.fd
      /\ r.state = k.state /\ r.channel = k.channel /\ r.ups = k.ups /\ r.downs = k.downs
      /\ r.destroyed = k.destroyed
  BY <1>1 DEF ConnRecord
<1> HIDE DEF r
<1>4. Updates(c) /\ conn'[c] = r
  BY <1>2, <1>3, ReplaceConn DEF k
<1> QED BY <1>3, <1>4 DEF k

\* shutdown() of a user.
LEMMA ShutdownConn ==
  ASSUME conn \in Seq(ConnRecord), NEW c \in Made, Shutdown(c)
  PROVE  /\ Updates(c) /\ conn[c].ups = 1
         /\ conn'[c].state = "kDisconnecting" /\ conn'[c].channel = conn[c].channel
         /\ conn'[c].ups = conn[c].ups /\ conn'[c].downs = conn[c].downs
         /\ conn'[c].destroyed = conn[c].destroyed
<1> DEFINE k == conn[c]
           r == [k EXCEPT !.state = "kDisconnecting"]
<1>1. k \in ConnRecord
  BY DEF Made
<1>2. conn' = [conn EXCEPT ![c] = r] /\ k.ups = 1
  BY DEF Shutdown
<1> HIDE DEF k
<1>3. /\ r \in ConnRecord /\ r.loop = k.loop /\ r.peer = k.peer /\ r.fd = k.fd
      /\ r.state = "kDisconnecting" /\ r.channel = k.channel /\ r.ups = k.ups
      /\ r.downs = k.downs /\ r.destroyed = k.destroyed
  BY <1>1 DEF ConnRecord
<1> HIDE DEF r
<1>4. Updates(c) /\ conn'[c] = r
  BY <1>2, <1>3, ReplaceConn DEF k
<1> QED BY <1>2, <1>3, <1>4 DEF k

\* r is k with another state, channel, ups, downs and destroyed.
Became(r, k, s, d, u, n, x) ==
  /\ r \in ConnRecord /\ r.loop = k.loop /\ r.peer = k.peer /\ r.fd = k.fd
  /\ r.state = s /\ r.channel = d /\ r.ups = u /\ r.downs = n /\ r.destroyed = x

\* The records that the handlers leave.
LEMMA ChangedRecord ==
  ASSUME NEW k \in ConnRecord, NEW d \in ChannelRecord, NEW n \in 0..1,
         NEW s \in {"kConnected", "kDisconnecting", "kDisconnected"}
  PROVE  /\ Became([k EXCEPT !.state = s, !.channel = d, !.downs = n],
                   k, s, d, k.ups, n, k.destroyed)
         /\ Became([k EXCEPT !.state = s, !.channel = d, !.ups = n],
                   k, s, d, n, k.downs, k.destroyed)
         /\ Became([k EXCEPT !.state = s, !.downs = n, !.channel = d, !.destroyed = TRUE],
                   k, s, d, k.ups, n, TRUE)
<1>1. [k EXCEPT !.state = s, !.channel = d, !.downs = n] \in ConnRecord
  BY DEF ConnRecord
<1>2. [k EXCEPT !.state = s, !.channel = d, !.ups = n] \in ConnRecord
  BY DEF ConnRecord
<1>3. [k EXCEPT !.state = s, !.downs = n, !.channel = d, !.destroyed = TRUE] \in ConnRecord
  BY DEF ConnRecord
<1>4. Became([k EXCEPT !.state = s, !.channel = d, !.downs = n], k, s, d, k.ups, n, k.destroyed)
  BY <1>1 DEF ConnRecord, Became
<1>5. Became([k EXCEPT !.state = s, !.channel = d, !.ups = n], k, s, d, n, k.downs, k.destroyed)
  BY <1>2 DEF ConnRecord, Became
<1>6. Became([k EXCEPT !.state = s, !.downs = n, !.channel = d, !.destroyed = TRUE],
             k, s, d, k.ups, n, TRUE)
  BY <1>3 DEF ConnRecord, Became
<1> QED BY <1>4, <1>5, <1>6

\* handleClose.
LEMMA HandleCloseConn ==
  ASSUME conn \in Seq(ConnRecord), NEW t, NEW c \in Made, HandleClose(t, c),
         Sound(conn[c].channel), conn[c].downs = 0
  PROVE  /\ Updates(c)
         /\ conn'[c].state = "kDisconnected" /\ conn'[c].downs = 1
         /\ conn'[c].channel = DisableAll(conn[c].channel)
         /\ conn'[c].ups = conn[c].ups /\ conn'[c].destroyed = conn[c].destroyed
<1> DEFINE k == conn[c]
           d == DisableAll(k.channel)
           n == k.downs + 1
           r == [k EXCEPT !.state = "kDisconnected", !.channel = d, !.downs = n]
<1>1. k \in ConnRecord /\ n = 1 /\ n \in 0..1
  BY DEF Made
<1>2. d \in ChannelRecord
  BY SettersSound DEF Sound
<1>3. conn' = [conn EXCEPT ![c] = r]
  BY DEF HandleClose
<1> HIDE DEF k, d, n
<1>4. Became(r, k, "kDisconnected", d, k.ups, 1, k.destroyed)
  BY <1>1, <1>2, ChangedRecord
<1> HIDE DEF r
<1>5. Updates(c) /\ conn'[c] = r
  BY <1>3, <1>4, ReplaceConn DEF k, Became
<1> QED BY <1>4, <1>5 DEF k, d, Became

\* connectEstablished.
LEMMA EstablishedConn ==
  ASSUME conn \in Seq(ConnRecord), NEW t, NEW c \in Made, ConnectEstablished(t, c),
         Sound(conn[c].channel), conn[c].ups = 0
  PROVE  /\ Updates(c)
         /\ conn'[c].state = "kConnected" /\ conn'[c].ups = 1
         /\ conn'[c].channel = EnableReading(conn[c].channel)
         /\ conn'[c].downs = conn[c].downs /\ conn'[c].destroyed = conn[c].destroyed
<1> DEFINE k == conn[c]
           d == EnableReading(k.channel)
           n == k.ups + 1
           r == [k EXCEPT !.state = "kConnected", !.channel = d, !.ups = n]
<1>1. k \in ConnRecord /\ n = 1 /\ n \in 0..1
  BY DEF Made
<1>2. d \in ChannelRecord
  BY SettersSound DEF Sound
<1>3. conn' = [conn EXCEPT ![c] = r]
  BY DEF ConnectEstablished
<1> HIDE DEF k, d, n
<1>4. Became(r, k, "kConnected", d, 1, k.downs, k.destroyed)
  BY <1>1, <1>2, ChangedRecord
<1> HIDE DEF r
<1>5. Updates(c) /\ conn'[c] = r
  BY <1>3, <1>4, ReplaceConn DEF k, Became
<1> QED BY <1>4, <1>5 DEF k, d, Became

\* connectDestroyed of a connection that has been established: in kDisconnecting
\* state and downs stay as they are.
LEMMA DestroyedConn ==
  ASSUME conn \in Seq(ConnRecord), NEW t, NEW c \in Made, ConnectDestroyed(t, c),
         Sound(conn[c].channel), conn[c].state # "kConnecting",
         conn[c].state = "kConnected" => conn[c].downs = 0,
         conn[c].state = "kDisconnected" => conn[c].downs = 1
  PROVE  /\ Updates(c) /\ conn'[c].state \in {"kDisconnecting", "kDisconnected"}
         /\ conn'[c].state = "kDisconnected" => conn'[c].downs = 1
         /\ conn[c].downs = 1 => conn'[c].downs = 1
         /\ conn'[c].downs = 0 => conn[c].downs = 0
         /\ conn'[c].destroyed /\ conn'[c].ups = conn[c].ups
         /\ Sound(conn'[c].channel) /\ conn'[c].channel.index = "kNew"
<1> DEFINE k == conn[c]
           d == RemoveChannel(IF k.state = "kConnected" THEN DisableAll(k.channel) ELSE k.channel)
           e == IF k.state = "kConnected" THEN k.downs + 1 ELSE k.downs
           s == IF k.state = "kConnected" THEN "kDisconnected" ELSE k.state
           r == [k EXCEPT !.state = s, !.downs = e, !.channel = d, !.destroyed = TRUE]
<1>1. k \in ConnRecord
  BY DEF Made
<1>2. /\ e \in 0..1 /\ s \in {"kDisconnecting", "kDisconnected"}
      /\ (s = "kDisconnected" => e = 1) /\ (k.downs = 1 => e = 1) /\ (e = 0 => k.downs = 0)
  <2>1. k.state \in {"kConnecting", "kConnected", "kDisconnecting", "kDisconnected"}
        /\ k.downs \in 0..1
    BY <1>1 DEF ConnRecord
  <2> QED BY <2>1
<1>3. Sound(d) /\ d.index = "kNew"
  <2>1. Sound(k.channel) /\ Sound(DisableAll(k.channel))
    BY SettersSound
  <2> QED BY <2>1, RemoveSound, ChannelEffects
<1>4. conn' = [conn EXCEPT ![c] = r]
  BY DEF ConnectDestroyed
<1> HIDE DEF k, d, e, s
<1>5. Became(r, k, s, d, k.ups, e, TRUE)
  <2>1. d \in ChannelRecord
    BY <1>3 DEF Sound
  <2> QED BY <1>1, <1>2, <2>1, ChangedRecord
<1> HIDE DEF r
<1>6. Updates(c) /\ conn'[c] = r
  BY <1>4, <1>5, ReplaceConn DEF k, Became
<1> QED BY <1>2, <1>3, <1>5, <1>6 DEF k, Became
-----------------------------------------------------------------------------
(***************************************************************************)
(* Threads and destructor                                                  *)
(***************************************************************************)

\* The steps of the system, each for itself.
LEMMA NextCases ==
  ASSUME Next
  PROVE  \/ \E who \in Starters : Start(who)
         \/ StartThread \/ StartListen
         \/ \E peer \in Peers : PeerConnects(peer)
         \/ \E c \in Made : PeerCloses(c)
         \/ \E c \in Made : Shutdown(c)
         \/ \E l \in Loops : EnterLoop(l)
         \/ \E l \in Loops : GoesOn(l)
         \/ \E l \in Loops : LeavesLoop(l)
         \/ \E l \in Loops : SwapFunctors(l) \/ BatchDone(l)
         \/ \E l \in Loops : \E ready \in SUBSET Ready(l) : Polls(l, ready)
         \/ Listen \/ AcceptFails \/ QuitMain
         \/ \E fd \in Fds : NewConnection(fd)
         \/ \E c \in Made : RemoveConnectionInLoop(c)
         \/ \E t \in Threads : \E c \in Made : HandleClose(t, c)
         \/ \E t \in Threads : \E c \in Made : ConnectEstablished(t, c)
         \/ \E t \in Threads : \E c \in Made : ConnectDestroyed(t, c)
         \/ \E c \in Made : DestroyConnection(c)
         \/ Destroy \/ QuitThread \/ Join \/ DestroyAcceptor \/ DestroyMainLoop
<1>1. Main \in Loops /\ Threads \subseteq Loops
  BY DEF Loops
<1>2. ASSUME NEW l \in Loops, LoopSteps(l)
      PROVE  \/ EnterLoop(l) \/ GoesOn(l) \/ LeavesLoop(l) \/ SwapFunctors(l) \/ BatchDone(l)
  BY <1>2 DEF LoopSteps
<1>3. CASE MainSteps
  BY <1>1, <1>2, <1>3 DEF MainSteps
<1>4. CASE \E t \in Threads : IoSteps(t)
  BY <1>1, <1>2, <1>4 DEF IoSteps
<1>5. CASE EndSteps
  BY <1>5 DEF EndSteps
<1> QED BY <1>3, <1>4, <1>5, Zenon DEF Next, StartSteps

\* The main loop is not one of the threads'.
LEMMA LoopSets == Main \in Loops /\ Main \notin Threads /\ Loops = {Main} \cup Threads
                  /\ \A t \in Threads : t \in Loops /\ t # Main
  BY ServerAssumption DEF Loops, Main, Threads

\* Loops and destructor stay in phase.
LEMMA PhasesStep ==
  ASSUME TypeOK, Pool, Phases, Served, Next
  PROVE  Phases'
<1>0. /\ pc \in [Loops -> LoopPcs] /\ quit \in [Loops -> BOOLEAN] /\ loops \subseteq Threads
      /\ joining \in Nat
  BY ServerAssumption DEF TypeOK
<1> USE LoopSets
<1>1. ASSUME UNCHANGED <<pc, quit, loops, serverPc, startPc, joining>>,
             connections' \subseteq connections \/ serverPc = "alive"
      PROVE  Phases'
  BY <1>1 DEF Phases
<1>2. ASSUME NEW who \in Starters, Start(who) PROVE Phases'
  BY <1>2 DEF Start, Phases, loopVars, connVars, endVars
<1>3. CASE StartThread
  <2>1. LET t == Cardinality(loops) + 1
        IN t \in Threads /\ t \notin loops /\ loops' = loops \cup {t}
           /\ pc' = [pc EXCEPT ![t] = "published"]
    BY <1>3, StartThreadPool
  <2>2. startPc # "idle" /\ UNCHANGED <<quit, connections, serverPc, startPc, joining>>
    BY <1>3 DEF StartThread, connVars, endVars
  <2>3. serverPc = "alive"
    BY <2>2 DEF Phases
  <2>4. PICK t \in Threads : t \notin loops /\ loops' = loops \cup {t}
                             /\ pc' = [pc EXCEPT ![t] = "published"]
    BY <2>1
  <2>5. /\ pc'[t] = "published" /\ \A l \in Loops : l # t => pc'[l] = pc[l]
        /\ pc[t] = "none"
    BY <1>0, <2>4 DEF Phases
  <2>6. joining = 1 /\ t \in Nat /\ t >= 1
    BY <2>3 DEF Phases, Threads
  <2> QED BY <1>0, <2>2, <2>3, <2>4, <2>5, <2>6 DEF Phases
<1>4. CASE StartListen
  BY <1>4 DEF StartListen, Phases, connVars, endVars
<1>5. ASSUME NEW l \in Loops, NEW from, NEW to, LoopGoes(l, from, to),
             from \notin {"none", "left", "threw", "destroyed"},
             to \notin {"none", "left", "threw", "destroyed"},
             UNCHANGED <<quit, loops, serverPc, startPc, joining, connections>>
      PROVE  Phases'
  <2>1. pc[l] = from /\ pc'[l] = to /\ \A m \in Loops : m # l => pc'[m] = pc[m]
    BY <1>0, <1>5 DEF LoopGoes
  <2> QED BY <1>0, <1>5, <2>1 DEF Phases
<1>6. ASSUME NEW l \in Loops, EnterLoop(l) PROVE Phases'
  <2>1. pc[l] = "published" /\ pc'[l] = "test" /\ \A m \in Loops : m # l => pc'[m] = pc[m]
    BY <1>0, <1>6 DEF EnterLoop, LoopGoes
  <2>2. \A m \in Loops : quit'[m] => quit[m]
    BY <1>0, <1>6 DEF EnterLoop
  <2>3. UNCHANGED <<loops, serverPc, startPc, joining, connections>>
    BY <1>6 DEF EnterLoop, poolVars, connVars, endVars
  <2> QED BY <1>0, <2>1, <2>2, <2>3 DEF Phases
<1>7. ASSUME NEW l \in Loops, LeavesLoop(l) PROVE Phases'
  <2>1. /\ pc[l] = "test" /\ pc'[l] = "left" /\ \A m \in Loops : m # l => pc'[m] = pc[m]
        /\ quit[l]
    BY <1>0, <1>7 DEF LeavesLoop, LoopGoes
  <2>2. UNCHANGED <<quit, loops, serverPc, startPc, joining, connections>>
    BY <1>7 DEF LeavesLoop, poolVars, connVars
  <2> QED BY <1>0, <2>1, <2>2 DEF Phases
<1>8. ASSUME NEW l \in Loops, GoesOn(l) \/ SwapFunctors(l) \/ BatchDone(l) PROVE Phases'
  BY <1>5, <1>8 DEF GoesOn, SwapFunctors, BatchDone, poolVars, connVars, endVars
<1>9. ASSUME NEW l \in Loops, NEW ready, Polls(l, ready) PROVE Phases'
  BY <1>5, <1>9 DEF Polls, poolVars, connVars, endVars
<1>10. ASSUME NEW fd \in Fds, NewConnection(fd) PROVE Phases'
  <2>1. pc[Main] = "dispatch" /\ serverPc = "alive"
    BY <1>10 DEF NewConnection, Handles, Phases
  <2>2. UNCHANGED <<quit, serverPc, startPc, joining>>
    BY <1>10 DEF NewConnection, endVars
  <2>3. CASE hash_!Throws
    <3>1. /\ pc'[Main] = "threw" /\ \A m \in Loops : m # Main => pc'[m] = pc[m]
          /\ loops' = loops /\ connections' = connections
      BY <1>0, <1>10, <2>3 DEF NewConnection, connVars
    <3>2. active[Main] # {}
      BY <1>10 DEF NewConnection, Handles
    <3>3. loops = Threads
      BY <3>2 DEF Served
    <3>4. Threads = {}
      BY <2>3, <3>3 DEF Pool, hash_!Throws
    <3> QED BY <1>0, <2>1, <2>2, <3>1, <3>4 DEF Phases
  <2>4. CASE ~hash_!Throws
    <3>1. UNCHANGED <<pc, loops>>
      BY <1>10, <2>4 DEF NewConnection, hash_!Lookup
    <3> QED BY <1>1, <2>1, <2>2, <3>1
  <2> QED BY <2>3, <2>4
<1>11. CASE Listen \/ AcceptFails \/ (\E peer \in Peers : PeerConnects(peer))
            \/ (\E c \in Made : PeerCloses(c)) \/ (\E c \in Made : Shutdown(c))
  BY <1>1, <1>11
  DEF Listen, AcceptFails, PeerConnects, PeerCloses, Shutdown, poolVars, connVars, loopVars,
      endVars
<1>12. CASE \/ \E t \in Threads : \E c \in Made : HandleClose(t, c)
            \/ \E t \in Threads : \E c \in Made : ConnectEstablished(t, c)
            \/ \E t \in Threads : \E c \in Made : ConnectDestroyed(t, c)
  BY <1>1, <1>12
  DEF HandleClose, ConnectEstablished, ConnectDestroyed, poolVars, connVars, loopVars, endVars
<1>13. CASE \E c \in Made : RemoveConnectionInLoop(c) \/ DestroyConnection(c)
  BY <1>1, <1>13
  DEF RemoveConnectionInLoop, DestroyConnection, poolVars, connVars, loopVars, endVars
<1>14. CASE QuitMain
  <2>1. \A t \in Threads : quit'[t] = quit[t]
    BY <1>0, <1>14 DEF QuitMain
  <2>2. UNCHANGED <<pc, loops, serverPc, startPc, joining, connections>>
    BY <1>14 DEF QuitMain, poolVars, connVars, endVars
  <2> QED BY <2>1, <2>2 DEF Phases
<1>15. CASE Destroy
  BY <1>0, <1>15 DEF Destroy, Phases, poolVars, connVars, loopVars
<1>16. CASE QuitThread
  <2>1. UNCHANGED <<pc, loops, startPc, joining, connections>> /\ serverPc' = "join"
    BY <1>16 DEF QuitThread, poolVars, connVars
  <2>2. joining \in loops /\ connections = {} /\ serverPc # "alive" /\ serverPc # "gone"
    BY <1>16 DEF QuitThread, BodyDone, Phases
  <2>3. pc[Main] # "destroyed"
    BY <2>2 DEF Phases
  <2> QED BY <2>1, <2>2, <2>3 DEF Phases
<1>17. CASE Join
  <2>1. UNCHANGED <<pc, quit, loops, startPc, connections>> /\ serverPc' = "threads"
        /\ joining' = joining + 1 /\ serverPc = "join" /\ pc[joining] = "left"
    BY <1>17 DEF Join, poolVars, connVars, loopVars
  <2>2. \A t \in loops : t < joining + 1 => pc[t] = "left"
    <3> TAKE t \in loops
    <3>1. t \in Nat
      BY <1>0 DEF Threads
    <3>2. t < joining + 1 => t < joining \/ t = joining
      BY <1>0, <3>1
    <3> QED BY <2>1, <3>2 DEF Phases
  <2> QED BY <2>1, <2>2 DEF Phases
<1>18. CASE DestroyAcceptor
  <2>1. UNCHANGED <<pc, quit, loops, startPc, joining, connections>> /\ serverPc' = "gone"
    BY <1>18 DEF DestroyAcceptor, poolVars, connVars, loopVars
  <2>2. joining \notin loops /\ connections = {} /\ serverPc # "alive"
    BY <1>18 DEF DestroyAcceptor, BodyDone, Phases
  <2> QED BY <2>1, <2>2 DEF Phases
<1>19. CASE DestroyMainLoop
  <2>1. /\ pc[Main] = "left" /\ pc'[Main] = "destroyed" /\ serverPc = "gone"
        /\ \A m \in Loops : m # Main => pc'[m] = pc[m]
    BY <1>0, <1>19 DEF DestroyMainLoop, LoopGoes
  <2>2. UNCHANGED <<quit, loops, serverPc, startPc, joining, connections>>
    BY <1>19 DEF DestroyMainLoop, poolVars, connVars, endVars
  <2> QED BY <1>0, <2>1, <2>2 DEF Phases
<1> QED
  BY NextCases, <1>2, <1>3, <1>4, <1>6, <1>7, <1>8, <1>9, <1>10, <1>11, <1>12, <1>13, <1>14,
     <1>15, <1>16, <1>17, <1>18, <1>19, Zenon
-----------------------------------------------------------------------------
\* When the server is gone, so are the io threads.
LEMMA GoneMeansLeft ==
  ASSUME TypeOK, Pool, Phases, serverPc = "gone", NEW t \in Threads
  PROVE  pc[t] \in {"none", "left"}
<1>1. CASE t \in loops
  <2>1. joining \in Nat /\ joining >= 1 /\ joining \notin loops
    BY ServerAssumption DEF TypeOK, Phases
  <2>2. loops = 1..Cardinality(loops) /\ Cardinality(loops) \in Nat
    BY ServerAssumption DEF Pool
  <2>3. t < joining
    BY <1>1, <2>1, <2>2
  <2> QED BY <1>1, <2>3 DEF Phases
<1>2. CASE t \notin loops
  BY <1>2 DEF Phases
<1> QED BY <1>1, <1>2

\* A connection is that of a thread that has been started.
LEMMA ConnLoop ==
  ASSUME TypeOK, Served, NEW c \in Made
  PROVE  conn[c] \in ConnRecord /\ conn[c].loop \in Threads /\ conn[c].loop \in loops
         /\ conn[c].loop \in Loops
<1>1. conn \in Seq(ConnRecord) /\ conn[c] \in ConnRecord /\ conn # << >>
  BY DEF TypeOK, Made
<1>2. conn[c].loop \in Threads
  BY <1>1 DEF ConnRecord
<1> QED BY <1>1, <1>2, LoopSets DEF Served

\* The main loop handles its acceptor only.
LEMMA MainHandles ==
  ASSUME TypeOK, Served, Actives
  PROVE  active[Main] \subseteq {0}
<1> SUFFICES ASSUME NEW c \in active[Main], c # 0 PROVE FALSE
  OBVIOUS
<1>1. c \in Made /\ conn[c].loop = Main
  BY LoopSets DEF Actives
<1> QED BY <1>1, ConnLoop, LoopSets

\* Nobody queues to a loop that is gone.
LEMMA PushesToLiving ==
  ASSUME TypeOK, Pool, Phases, Served, Actives
  PROVE  /\ startPc # "idle" => pc[Main] # "destroyed"
         /\ \A t \in Threads : pc[t] \notin {"none", "left"} => pc[Main] # "destroyed"
         /\ pc[Main] \in {"dispatch", "batch"} \/ serverPc = "connections" =>
              \A t \in loops : pc[t] \notin {"none", "left"}
<1>1. startPc # "idle" => pc[Main] # "destroyed"
  BY DEF Phases
<1>2. \A t \in Threads : pc[t] \notin {"none", "left"} => pc[Main] # "destroyed"
  BY GoneMeansLeft DEF Phases
<1>3. pc[Main] \in {"dispatch", "batch"} \/ serverPc = "connections" =>
        \A t \in loops : pc[t] \notin {"none", "left"}
  <2>1. loops \subseteq Threads
    BY DEF TypeOK
  <2> QED BY <2>1 DEF Phases
<1> QED BY <1>1, <1>2, <1>3

\* Queue, batch and channels of a loop agree with where its thread is.
LEMMA StagesStep ==
  ASSUME TypeOK, Pool, Phases, Stages, Served, Actives, Next
  PROVE  Stages'
<1>0. /\ pc \in [Loops -> LoopPcs] /\ called \in [Loops -> Nat]
      /\ queue \in [Loops -> Seq(Functors)] /\ batch \in [Loops -> Seq(Functors)]
      /\ active \in [Loops -> SUBSET (0..MaxConns)] /\ loops \subseteq Threads
  BY DEF TypeOK
<1> USE LoopSets
<1>1. ASSUME UNCHANGED <<pc, batch, called, active>>,
             \A l \in Loops : queue'[l] = queue[l]
                \/ (l = Main /\ pc[Main] # "destroyed")
                \/ (l # Main /\ pc[l] \notin {"none", "left"})
      PROVE  Stages'
  BY <1>1 DEF Stages
<1>2. ASSUME NEW l \in Loops, NEW op, NEW c, Push(l, op, c)
      PROVE  \A m \in Loops : m # l => queue'[m] = queue[m]
  BY <1>0, <1>2 DEF Push
<1>3. CASE \/ \E who \in Starters : Start(who)
           \/ \E peer \in Peers : PeerConnects(peer)
           \/ \E c \in Made : PeerCloses(c)
           \/ \E c \in Made : Shutdown(c)
           \/ QuitMain \/ Destroy \/ QuitThread \/ Join \/ DestroyAcceptor
  BY <1>1, <1>3
    DEF Start, PeerConnects, PeerCloses, Shutdown, QuitMain, Destroy, QuitThread, Join,
        DestroyAcceptor, loopVars
<1>4. CASE StartThread
  <2>1. PICK t \in Threads : pc' = [pc EXCEPT ![t] = "published"] /\ t \notin loops
    BY <1>4, StartThreadPool
  <2>2. UNCHANGED <<queue, batch, called, active>>
    BY <1>4 DEF StartThread
  <2>3. pc[t] = "none" /\ pc'[t] = "published" /\ \A m \in Loops : m # t => pc'[m] = pc[m]
    BY <1>0, <2>1 DEF Phases
  <2> QED BY <2>2, <2>3 DEF Stages
<1>5. CASE StartListen
  <2>1. UNCHANGED <<pc, batch, called, active>> /\ startPc # "idle"
    BY <1>5 DEF StartListen
  <2>2. \A m \in Loops : m # Main => queue'[m] = queue[m]
    BY <1>2, <1>5 DEF StartListen
  <2> QED BY <1>1, <2>1, <2>2, PushesToLiving
<1>6. ASSUME NEW l \in Loops, EnterLoop(l) \/ GoesOn(l) PROVE Stages'
  <2>1. /\ pc[l] \in {"published", "test"} /\ pc'[l] \in {"test", "poll"}
        /\ \A m \in Loops : m # l => pc'[m] = pc[m]
    BY <1>0, <1>6 DEF EnterLoop, GoesOn, LoopGoes
  <2>2. UNCHANGED <<queue, batch, called, active>>
    BY <1>6 DEF EnterLoop, GoesOn
  <2> QED BY <2>1, <2>2 DEF Stages
<1>7. ASSUME NEW l \in Loops, LeavesLoop(l) PROVE Stages'
  <2>1. pc[l] = "test" /\ pc'[l] = "left" /\ \A m \in Loops : m # l => pc'[m] = pc[m]
    BY <1>0, <1>7 DEF LeavesLoop, LoopGoes
  <2>2. UNCHANGED <<batch, called, active>>
    BY <1>7 DEF LeavesLoop
  <2>3. /\ l # Main => queue'[l] = << >>
        /\ \A m \in Loops : m # l \/ l = Main => queue'[m] = queue[m]
    BY <1>0, <1>7 DEF LeavesLoop
  <2> QED BY <2>1, <2>2, <2>3 DEF Stages
<1>8. ASSUME NEW l \in Loops, SwapFunctors(l) PROVE Stages'
  <2>1. /\ pc[l] = "dispatch" /\ pc'[l] = "batch" /\ \A m \in Loops : m # l => pc'[m] = pc[m]
        /\ active[l] = {}
    BY <1>0, <1>8 DEF SwapFunctors, LoopGoes
  <2>2. UNCHANGED <<called, active>>
    BY <1>8 DEF SwapFunctors
  <2>3. /\ batch'[l] = queue[l] /\ queue'[l] = << >>
        /\ \A m \in Loops : m # l => batch'[m] = batch[m] /\ queue'[m] = queue[m]
    BY <1>0, <1>8 DEF SwapFunctors
  <2>4. called[l] = 0 /\ Len(queue[l]) \in Nat
    BY <1>0, <2>1, LenProperties DEF Stages
  <2>5. called'[l] <= Len(batch'[l])
    BY <2>2, <2>3, <2>4
  <2> QED BY <2>1, <2>2, <2>3, <2>5 DEF Stages
<1>9. ASSUME NEW l \in Loops, BatchDone(l) PROVE Stages'
  <2>1. pc[l] = "batch" /\ pc'[l] = "test" /\ \A m \in Loops : m # l => pc'[m] = pc[m]
    BY <1>0, <1>9 DEF BatchDone, LoopGoes
  <2>2. UNCHANGED <<queue, active>>
    BY <1>9 DEF BatchDone
  <2>3. /\ batch'[l] = << >> /\ called'[l] = 0
        /\ \A m \in Loops : m # l => batch'[m] = batch[m] /\ called'[m] = called[m]
    BY <1>0, <1>9 DEF BatchDone
  <2>4. called'[l] <= Len(batch'[l])
    BY <2>3
  <2> QED BY <2>1, <2>2, <2>3, <2>4 DEF Stages
<1>10. ASSUME NEW l \in Loops, NEW ready, Polls(l, ready) PROVE Stages'
  <2>1. pc[l] = "poll" /\ pc'[l] = "dispatch" /\ \A m \in Loops : m # l => pc'[m] = pc[m]
    BY <1>0, <1>10 DEF Polls, LoopGoes
  <2>2. UNCHANGED <<queue, batch, called>> /\ \A m \in Loops : m # l => active'[m] = active[m]
    BY <1>0, <1>10 DEF Polls
  <2> QED BY <2>1, <2>2 DEF Stages
<1>11. ASSUME NEW l \in Loops, NEW op, NEW c, Calls(l, op, c), UNCHANGED <<pc, batch, active>>,
              \A m \in Loops : queue'[m] = queue[m]
                 \/ (m = Main /\ pc[Main] # "destroyed")
                 \/ (m # Main /\ pc[m] \notin {"none", "left"})
       PROVE  Stages'
  <2>1. /\ called'[l] = called[l] + 1 /\ \A m \in Loops : m # l => called'[m] = called[m]
        /\ called[l] < Len(batch[l]) /\ pc[l] = "batch"
    BY <1>0, <1>11 DEF Calls
  <2>2. called'[l] <= Len(batch'[l])
    BY <1>0, <1>11, <2>1, LenProperties
  <2> QED BY <1>11, <2>1, <2>2 DEF Stages
<1>12. CASE \/ Listen
            \/ \E t \in Threads : \E c \in Made : ConnectEstablished(t, c)
            \/ \E t \in Threads : \E c \in Made : ConnectDestroyed(t, c)
  BY <1>11, <1>12 DEF Listen, ConnectEstablished, ConnectDestroyed
<1>13. ASSUME NEW c \in Made, RemoveConnectionInLoop(c) PROVE Stages'
  <2>1. /\ Calls(Main, "remove", c) /\ UNCHANGED <<pc, batch, active>> /\ pc[Main] = "batch"
        /\ Push(conn[c].loop, "destroyed", c)
    BY <1>13 DEF RemoveConnectionInLoop, Calls
  <2>2. conn[c].loop \in loops /\ conn[c].loop \in Loops /\ conn[c].loop # Main
    BY ConnLoop
  <2>3. \A m \in Loops : m # conn[c].loop => queue'[m] = queue[m]
    BY <1>2, <2>1, <2>2
  <2>4. pc[conn[c].loop] \notin {"none", "left"}
    BY <2>1, <2>2, PushesToLiving
  <2> QED BY <1>11, <2>1, <2>2, <2>3, <2>4
<1>14. ASSUME NEW c \in Made, DestroyConnection(c) PROVE Stages'
  <2>1. /\ UNCHANGED <<pc, batch, called, active>> /\ serverPc = "connections"
        /\ Push(conn[c].loop, "destroyed", c)
    BY <1>14 DEF DestroyConnection
  <2>2. conn[c].loop \in loops /\ conn[c].loop \in Loops /\ conn[c].loop # Main
    BY ConnLoop
  <2>3. \A m \in Loops : m # conn[c].loop => queue'[m] = queue[m]
    BY <1>2, <2>1, <2>2
  <2>4. pc[conn[c].loop] \notin {"none", "left"}
    BY <2>1, <2>2, PushesToLiving
  <2> QED BY <1>1, <2>1, <2>2, <2>3, <2>4
<1>15. ASSUME NEW l \in Loops, NEW c, Handles(l, c), UNCHANGED <<batch, called>>,
              \/ pc' = pc
              \/ active[l] \subseteq {c} /\ \A m \in Loops : m # l => pc'[m] = pc[m],
              pc'[l] \in {"dispatch", "threw"},
              \A m \in Loops : queue'[m] = queue[m]
                 \/ (m = Main /\ pc[Main] # "destroyed")
                 \/ (m # Main /\ pc[m] \notin {"none", "left"})
       PROVE  Stages'
  <2>1. /\ active'[l] = active[l] \ {c} /\ \A m \in Loops : m # l => active'[m] = active[m]
        /\ pc[l] = "dispatch"
    BY <1>0, <1>15 DEF Handles
  <2>2. pc'[l] # "dispatch" => active'[l] = {}
    BY <1>15, <2>1
  <2>3. /\ pc'[l] \notin {"batch", "none", "left", "destroyed"}
        /\ \A m \in Loops : m # l => pc'[m] = pc[m]
    BY <1>15
  <2> QED BY <1>15, <2>1, <2>2, <2>3 DEF Stages
<1>16. CASE AcceptFails
  <2>1. Handles(Main, 0) /\ UNCHANGED <<pc, queue, batch, called>> /\ pc[Main] = "dispatch"
    BY <1>16 DEF AcceptFails, Handles
  <2> QED BY <1>15, <2>1
<1>17. ASSUME NEW fd \in Fds, NewConnection(fd) PROVE Stages'
  <2>1. Handles(Main, 0) /\ UNCHANGED <<batch, called>> /\ pc[Main] = "dispatch"
    BY <1>17 DEF NewConnection, Handles
  <2>2. CASE hash_!Throws
    <3>1. pc' = [pc EXCEPT ![Main] = "threw"] /\ queue' = queue
      BY <1>17, <2>2 DEF NewConnection
    <3>2. pc'[Main] = "threw" /\ \A m \in Loops : m # Main => pc'[m] = pc[m]
      BY <1>0, <3>1
    <3> QED BY <1>15, <2>1, <3>1, <3>2, MainHandles
  <2>3. CASE ~hash_!Throws
    <3> DEFINE key == PeerHash[Head(backlog)]
               l == hash_!GetNode(key)
    <3>1. pc' = pc /\ Push(l, "established", Len(conn) + 1)
      BY <1>17, <2>3 DEF NewConnection
    <3>2. key \in 0..MaxHash
      <4>1. active[Main] # {}
        BY <2>1 DEF Handles
      <4>2. backlog \in Seq(Peers) /\ backlog # << >>
        BY <4>1 DEF TypeOK, Served
      <4> QED BY <4>2, HeadTailProperties, ServerAssumption
    <3>3. l \in loops
      BY <2>3, <3>2, NodeIsLoop
    <3> HIDE DEF l
    <3>4. l \in Loops /\ l # Main /\ pc[l] \notin {"none", "left"}
      BY <1>0, <2>1, <3>3, PushesToLiving
    <3>5. \A m \in Loops : m # l => queue'[m] = queue[m]
      BY <1>2, <3>1, <3>4
    <3> QED BY <1>15, <2>1, <3>1, <3>4, <3>5
  <2> QED BY <2>2, <2>3
<1>18. ASSUME NEW t \in Threads, NEW c \in Made, HandleClose(t, c) PROVE Stages'
  <2>1. /\ Handles(t, c) /\ UNCHANGED <<pc, batch, called>> /\ pc[t] = "dispatch"
        /\ Push(Main, "remove", c)
    BY <1>18 DEF HandleClose, Handles
  <2>2. pc[Main] # "destroyed"
    BY <2>1, PushesToLiving
  <2>3. \A m \in Loops : m # Main => queue'[m] = queue[m]
    BY <1>2, <2>1
  <2> QED BY <1>15, <2>1, <2>2, <2>3
<1>19. CASE DestroyMainLoop
  <2>1. /\ pc[Main] = "left" /\ pc'[Main] = "destroyed"
        /\ \A m \in Loops : m # Main => pc'[m] = pc[m]
    BY <1>0, <1>19 DEF DestroyMainLoop, LoopGoes
  <2>2. UNCHANGED <<batch, called, active>>
    BY <1>19 DEF DestroyMainLoop
  <2>3. queue'[Main] = << >> /\ \A m \in Loops : m # Main => queue'[m] = queue[m]
    BY <1>0, <1>19 DEF DestroyMainLoop
  <2> QED BY <2>1, <2>2, <2>3 DEF Stages
<1> QED
  BY NextCases, <1>3, <1>4, <1>5, <1>6, <1>7, <1>8, <1>9, <1>10, <1>12, <1>13, <1>14, <1>16,
     <1>17, <1>18, <1>19, Zenon
-----------------------------------------------------------------------------
(***************************************************************************)
(* What the steps do to the functors that wait                             *)
(***************************************************************************)

Kept(l) == Waiting(l)' = Waiting(l)
Gains(l, f) == Waiting(l)' = Append(Waiting(l), f)
Loses(l, f) == Waiting(l) # << >> /\ Head(Waiting(l)) = f /\ Waiting(l)' = Tail(Waiting(l))
KeptBut(L) == \A m \in Loops \ L : Kept(m)

\* Connections are numbered up to the bound.
LEMMA MadeIs ==
  ASSUME TypeOK, Served
  PROVE  /\ Made = 1..Len(conn) /\ Len(conn) \in Nat
         /\ \A c \in Made : c \in 1..MaxConns /\ c # 0
         /\ \A c \in Made : Est(c) \in Functors /\ Rem(c) \in Functors /\ Des(c) \in Functors
         /\ active[Main] # {} => /\ Len(conn) + 1 \in 1..MaxConns /\ Len(conn) + 1 \notin Made
                                 /\ Est(Len(conn) + 1) \in Functors
<1>1. /\ Made = 1..Len(conn) /\ Len(conn) \in Nat /\ Len(backlog) \in Nat
      /\ arrived \in 0..MaxConns /\ MaxConns \in Nat
      /\ Len(conn) + Len(backlog) <= arrived
  BY LenProperties, ServerAssumption DEF TypeOK, Served, Made
<1>2. \A c \in Made : c \in 1..MaxConns /\ c # 0
  BY <1>1
<1>3. \A c \in 1..MaxConns : Est(c) \in Functors /\ Rem(c) \in Functors /\ Des(c) \in Functors
  BY ServerAssumption DEF Functors, Est, Rem, Des
<1>4. ASSUME active[Main] # {}
      PROVE  Len(conn) + 1 \in 1..MaxConns /\ Len(conn) + 1 \notin Made
  <2>1. backlog # << >> /\ backlog \in Seq(Peers)
    BY <1>4 DEF Served, TypeOK
  <2>2. Len(backlog) >= 1
    BY <1>1, <2>1, EmptySeq
  <2> QED BY <1>1, <2>2
<1> QED BY <1>1, <1>2, <1>3, <1>4

\* Steps that neither queue nor call nor drop a functor.
LEMMA QuietSteps ==
  ASSUME TypeOK, Stages,
         \/ \E who \in Starters : Start(who)
         \/ StartThread
         \/ \E peer \in Peers : PeerConnects(peer)
         \/ \E c \in Made : PeerCloses(c)
         \/ \E c \in Made : Shutdown(c)
         \/ \E l \in Loops : EnterLoop(l)
         \/ \E l \in Loops : GoesOn(l)
         \/ LeavesLoop(Main)
         \/ \E l \in Loops : SwapFunctors(l) \/ BatchDone(l)
         \/ \E l \in Loops : \E ready \in SUBSET Ready(l) : Polls(l, ready)
         \/ AcceptFails \/ QuitMain
         \/ Destroy \/ QuitThread \/ Join \/ DestroyAcceptor
  PROVE  KeptBut({})
<1>1. CASE UNCHANGED <<queue, batch, called>>
  BY <1>1 DEF KeptBut, Kept, Waiting
<1>2. CASE \E l \in Loops : SwapFunctors(l) \/ BatchDone(l)
  BY <1>2, SwapWaits DEF KeptBut, Kept
<1> QED
  BY <1>1, <1>2
  DEF Start, StartThread, PeerConnects, PeerCloses, Shutdown, EnterLoop, GoesOn, LeavesLoop,
      Polls, AcceptFails, QuitMain, Destroy, QuitThread, Join, DestroyAcceptor, loopVars

\* A thread's loop drops what is in its queue.
LEMMA LeavesWaits ==
  ASSUME TypeOK, Stages, NEW t \in Threads, LeavesLoop(t)
  PROVE  KeptBut({t}) /\ Waiting(t)' = << >> /\ Waiting(t) = queue[t]
<1>0. queue \in [Loops -> Seq(Functors)] /\ t \in Loops /\ t # Main
  BY LoopSets DEF TypeOK
<1>1. pc[t] = "test" /\ UNCHANGED <<batch, called>>
  BY DEF LeavesLoop, LoopGoes
<1>2. batch[t] = << >> /\ called[t] = 0
  BY <1>0, <1>1 DEF Stages
<1>3. queue'[t] = << >> /\ \A m \in Loops : m # t => queue'[m] = queue[m]
  BY <1>0 DEF LeavesLoop
<1>4. KeptBut({t})
  BY <1>1, <1>3 DEF KeptBut, Kept, Waiting
<1>5. Waiting(t)' = Rest(<< >>, 0, << >>) /\ Waiting(t) = Rest(<< >>, 0, queue[t])
  BY <1>1, <1>2, <1>3 DEF Waiting, Rest
<1>6. << >> \in Seq(Functors) /\ queue[t] \in Seq(Functors)
  BY <1>0
<1> QED BY <1>4, <1>5, <1>6, RestEnds

\* The main loop is destroyed with its queue.
LEMMA DestroyMainWaits ==
  ASSUME TypeOK, Stages, DestroyMainLoop
  PROVE  KeptBut({Main}) /\ Waiting(Main)' = << >>
<1>0. queue \in [Loops -> Seq(Functors)] /\ Main \in Loops
  BY LoopSets DEF TypeOK
<1>1. pc[Main] = "left" /\ UNCHANGED <<batch, called>>
  BY DEF DestroyMainLoop, LoopGoes
<1>2. batch[Main] = << >> /\ called[Main] = 0
  BY <1>0, <1>1 DEF Stages
<1>3. queue'[Main] = << >> /\ \A m \in Loops : m # Main => queue'[m] = queue[m]
  BY <1>0 DEF DestroyMainLoop
<1>4. KeptBut({Main})
  BY <1>1, <1>3 DEF KeptBut, Kept, Waiting
<1>5. Waiting(Main)' = Rest(<< >>, 0, << >>)
  BY <1>1, <1>2, <1>3 DEF Waiting, Rest
<1>6. << >> \in Seq(Functors)
  OBVIOUS
<1> QED BY <1>4, <1>5, <1>6, RestEnds

\* The acceptor's listen, queued and called.
LEMMA ListenWaits ==
  ASSUME TypeOK, Stages
  PROVE  /\ StartListen => KeptBut({}) \/ (KeptBut({Main}) /\ Gains(Main, <<"listen", 0>>))
         /\ Listen => KeptBut({Main}) /\ Loses(Main, <<"listen", 0>>)
<1>1. <<"listen", 0>> \in Functors
  BY ServerAssumption DEF Functors
<1>2. ASSUME StartListen PROVE KeptBut({}) \/ (KeptBut({Main}) /\ Gains(Main, <<"listen", 0>>))
  <2>1. batch' = batch /\ called' = called /\ (queue' = queue \/ Push(Main, "listen", 0))
    BY <1>2 DEF StartListen
  <2>2. CASE queue' = queue
    BY <2>1, <2>2 DEF KeptBut, Kept, Waiting
  <2>3. CASE Push(Main, "listen", 0)
    BY <1>1, <2>1, <2>3, LoopSets, PushWaits DEF KeptBut, Kept, Gains
  <2> QED BY <2>1, <2>2, <2>3
<1>3. ASSUME Listen PROVE KeptBut({Main}) /\ Loses(Main, <<"listen", 0>>)
  <2>1. batch' = batch /\ queue' = queue /\ Calls(Main, "listen", 0)
    BY <1>3 DEF Listen
  <2>2. Loses(Main, <<"listen", 0>>) /\ \A m \in Loops : m # Main => called'[m] = called[m]
    BY <2>1, LoopSets, CallWaits DEF Loses
  <2> QED BY <2>1, <2>2, WaitingKept DEF KeptBut, Kept
<1> QED BY <1>2, <1>3

\* The functors of a connection, called on its loop.
LEMMA ConnCallWaits ==
  ASSUME TypeOK, Stages, NEW t \in Threads, NEW c \in Made
  PROVE  /\ ConnectEstablished(t, c) => KeptBut({t}) /\ Loses(t, Est(c)) /\ pc[t] = "batch"
         /\ ConnectDestroyed(t, c) => KeptBut({t}) /\ Loses(t, Des(c)) /\ pc[t] = "batch"
<1>1. ASSUME NEW op, Calls(t, op, c), batch' = batch, queue' = queue
      PROVE  KeptBut({t}) /\ Loses(t, <<op, c>>) /\ pc[t] = "batch"
  <2>1. Loses(t, <<op, c>>) /\ \A m \in Loops : m # t => called'[m] = called[m]
    BY <1>1, LoopSets, CallWaits DEF Loses
  <2> QED BY <1>1, <2>1, WaitingKept DEF KeptBut, Kept, Calls
<1> QED BY <1>1 DEF ConnectEstablished, ConnectDestroyed, Est, Des

\* handleClose and the destructor queue a functor of a connection.
LEMMA ConnPushWaits ==
  ASSUME TypeOK, Stages, Served, NEW c \in Made, NEW l, l = conn[c].loop
  PROVE  /\ \A t \in Threads : HandleClose(t, c) => KeptBut({Main}) /\ Gains(Main, Rem(c))
         /\ DestroyConnection(c) => KeptBut({l}) /\ Gains(l, Des(c))
<1>1. ASSUME NEW m \in Loops, NEW op, <<op, c>> \in Functors, Push(m, op, c), batch' = batch,
             called' = called
      PROVE  KeptBut({m}) /\ Gains(m, <<op, c>>)
  BY <1>1, PushWaits DEF KeptBut, Kept, Gains
<1>2. <<"remove", c>> \in Functors /\ <<"destroyed", c>> \in Functors
  BY MadeIs DEF Rem, Des
<1>3. l \in Loops /\ Main \in Loops
  BY ConnLoop, LoopSets
<1> QED BY <1>1, <1>2, <1>3 DEF HandleClose, DestroyConnection, Rem, Des

\* removeConnectionInLoop is called on the main loop and queues to the connection's.
LEMMA RemoveWaits ==
  ASSUME TypeOK, Stages, Served, NEW c \in Made, NEW l, l = conn[c].loop,
         RemoveConnectionInLoop(c)
  PROVE  KeptBut({Main, l}) /\ Loses(Main, Rem(c)) /\ Gains(l, Des(c))
<1>0. queue \in [Loops -> Seq(Functors)] /\ called \in [Loops -> Nat]
  BY DEF TypeOK
<1>1. l \in Loops /\ l # Main /\ Main \in Loops /\ <<"destroyed", c>> \in Functors
  BY ConnLoop, LoopSets, MadeIs DEF Des
<1>2. batch' = batch /\ Calls(Main, "remove", c) /\ Push(l, "destroyed", c)
  BY DEF RemoveConnectionInLoop
<1>3. /\ queue'[l] = Append(queue[l], <<"destroyed", c>>)
      /\ \A m \in Loops : m # l => queue'[m] = queue[m]
  BY <1>0, <1>1, <1>2 DEF Push
<1>4. Loses(Main, <<"remove", c>>) /\ \A m \in Loops : m # Main => called'[m] = called[m]
  <2>1. queue'[Main] = queue[Main]
    BY <1>1, <1>3
  <2> DEFINE op == "remove"
  <2>2. Calls(Main, op, c)
    BY <1>2
  <2> HIDE DEF op
  <2>3. /\ Waiting(Main) # << >> /\ Head(Waiting(Main)) = <<op, c>>
        /\ Waiting(Main)' = Tail(Waiting(Main))
        /\ \A m \in Loops : m # Main => called'[m] = called[m]
    BY <1>1, <1>2, <2>1, <2>2, CallWaits
  <2> QED BY <2>3 DEF op, Loses
<1>5. \A m \in Loops : m # Main /\ m # l => Waiting(m)' = Waiting(m)
  BY <1>2, <1>3, <1>4, WaitingKept
<1>6. Waiting(l)' = Rest(batch[l], called[l], Append(queue[l], <<"destroyed", c>>))
  <2>1. batch'[l] = batch[l] /\ called'[l] = called[l]
    BY <1>1, <1>2, <1>4
  <2> QED BY <1>3, <2>1 DEF Waiting, Rest
<1>7. /\ batch[l] \in Seq(Functors) /\ queue[l] \in Seq(Functors)
      /\ called[l] \in 0..Len(batch[l])
      /\ Waiting(l) = Rest(batch[l], called[l], queue[l])
  BY <1>1, WaitingIs
<1>8. Waiting(l)' = Append(Waiting(l), <<"destroyed", c>>)
  <2> DEFINE f == <<"destroyed", c>>
  <2>1. f \in Functors
    BY <1>1
  <2> HIDE DEF f
  <2>2. Rest(batch[l], called[l], Append(queue[l], f))
          = Append(Rest(batch[l], called[l], queue[l]), f)
    BY <1>7, <2>1, RestPush
  <2> QED BY <1>6, <1>7, <2>2 DEF f
<1> QED BY <1>4, <1>5, <1>8 DEF KeptBut, Kept, Gains, Rem, Des

\* newConnection makes connection n, of thread l, from the first peer of the backlog.
Makes(fd, n, peer, l) ==
  /\ n = Len(conn) + 1 /\ n \in 1..MaxConns /\ n \notin Made
  /\ peer = Head(backlog) /\ PeerHash[peer] \in 0..MaxHash
  /\ ~hash_!Throws /\ hash_!Lookup(PeerHash[peer])
  /\ l = hash_!GetNode(PeerHash[peer]) /\ l \in loops
  /\ KeptBut({l}) /\ Gains(l, Est(n)) /\ pc' = pc
  /\ conn' = Append(conn, Connection(peer, l, fd))
  /\ connections' = connections \cup {n}

\* Or getNode throws, and nothing is made.
MakesNone ==
  hash_!Throws /\ KeptBut({}) /\ UNCHANGED <<loops, circle, sortedHashes, conn, connections>>

\* newConnection: the connection is appended and its connectEstablished queued.
LEMMA NewWaits ==
  ASSUME TypeOK, Pool, Phases, Stages, Served, NEW fd \in Fds, NewConnection(fd)
  PROVE  \/ MakesNone
         \/ \E n \in Nat, peer \in Peers, l \in Threads : Makes(fd, n, peer, l)
<1>1. active[Main] # {} /\ pc[Main] = "dispatch" /\ batch' = batch /\ called' = called
  BY DEF NewConnection, Handles
<1>2. CASE hash_!Throws
  <2>1. UNCHANGED <<loops, circle, sortedHashes, conn, connections, queue>>
    BY <1>2 DEF NewConnection, connVars
  <2>2. KeptBut({})
    BY <1>1, <2>1 DEF KeptBut, Kept, Waiting
  <2> QED BY <1>2, <2>1, <2>2 DEF MakesNone
<1>3. CASE ~hash_!Throws
  <2>1. PICK n, peer, l :
          /\ n = Len(conn) + 1 /\ peer = Head(backlog) /\ l = hash_!GetNode(PeerHash[peer])
          /\ pc' = pc /\ Push(l, "established", n) /\ hash_!Lookup(PeerHash[peer])
          /\ conn' = Append(conn, Connection(peer, l, fd))
          /\ connections' = connections \cup {n}
    BY <1>3 DEF NewConnection
  <2>2. peer \in Peers /\ PeerHash[peer] \in 0..MaxHash
    <3>1. backlog \in Seq(Peers) /\ backlog # << >>
      BY <1>1 DEF TypeOK, Served
    <3> QED BY <2>1, <3>1, HeadTailProperties, ServerAssumption
  <2>3. l \in loops /\ l \in Threads
    BY <1>3, <2>1, <2>2, NodeIsLoop DEF TypeOK
  <2>4. n \in 1..MaxConns /\ n \notin Made /\ <<"established", n>> \in Functors /\ n \in Nat
    BY <1>1, <2>1, MadeIs DEF Est
  <2>5. KeptBut({l}) /\ Gains(l, Est(n))
    <3> DEFINE op == "established"
    <3>1. Push(l, op, n) /\ <<op, n>> \in Functors /\ l \in Loops
      BY <2>1, <2>3, <2>4, LoopSets
    <3> HIDE DEF op
    <3>2. /\ Waiting(l)' = Append(Waiting(l), <<op, n>>)
          /\ \A m \in Loops : m # l => Waiting(m)' = Waiting(m)
      BY <1>1, <3>1, PushWaits
    <3> QED BY <3>2 DEF op, KeptBut, Kept, Gains, Est
  <2>6. Makes(fd, n, peer, l)
    BY <1>3, <2>1, <2>2, <2>3, <2>4, <2>5 DEF Makes
  <2> QED BY <2>2, <2>3, <2>4, <2>6
<1> QED BY <1>2, <1>3
-----------------------------------------------------------------------------
\* What queueing, calling and dropping mean for the functors of a loop.
LEMMA WaitingMeans ==
  ASSUME TypeOK, Stages, NEW l \in Loops
  PROVE  /\ Waiting(l) \in Seq(Functors)
         /\ \A g \in Functors : Gains(l, g) =>
              /\ \A f : In(f, Waiting(l)') <=> In(f, Waiting(l)) \/ f = g
              /\ \A f : Once(f, Waiting(l)) /\ (f # g \/ ~In(g, Waiting(l)))
                          => Once(f, Waiting(l)')
              /\ \A f, h : Before(f, h, Waiting(l)) /\ (f # g \/ ~In(h, Waiting(l))) /\ f # h
                             => Before(f, h, Waiting(l)')
         /\ \A g : Loses(l, g) =>
              /\ In(g, Waiting(l))
              /\ \A f : In(f, Waiting(l)') => In(f, Waiting(l))
              /\ \A f : In(f, Waiting(l)) => f = g \/ In(f, Waiting(l)')
              /\ \A f : Once(f, Waiting(l)) =>
                          Once(f, Waiting(l)') /\ (f = g => ~In(f, Waiting(l)'))
              /\ \A f, h : Before(f, h, Waiting(l)) =>
                             Before(f, h, Waiting(l)') /\ (h = g => ~In(f, Waiting(l)))
<1> DEFINE q == Waiting(l)
           r == Waiting(l)'
<1>1. q \in Seq(Functors)
  BY WaitingIs
<1>2. /\ \A g : Gains(l, g) => r = Append(q, g)
      /\ \A g : Loses(l, g) => q # << >> /\ Head(q) = g /\ r = Tail(q)
  BY DEF Gains, Loses
<1> HIDE DEF q, r
<1>3. ASSUME NEW g \in Functors, Gains(l, g)
      PROVE  /\ \A f : In(f, r) <=> In(f, q) \/ f = g
             /\ \A f : Once(f, q) /\ (f # g \/ ~In(g, q)) => Once(f, r)
             /\ \A f, h : Before(f, h, q) /\ (f # g \/ ~In(h, q)) /\ f # h => Before(f, h, r)
  <2>1. r = Append(q, g)
    BY <1>2, <1>3
  <2> QED BY <1>1, <2>1, Pushed
<1>4. ASSUME NEW g, Loses(l, g)
      PROVE  /\ In(g, q)
             /\ \A f : In(f, r) => In(f, q)
             /\ \A f : In(f, q) => f = g \/ In(f, r)
             /\ \A f : Once(f, q) => Once(f, r) /\ (f = g => ~In(f, r))
             /\ \A f, h : Before(f, h, q) => Before(f, h, r) /\ (h = g => ~In(f, q))
  <2>1. q # << >> /\ Head(q) = g /\ r = Tail(q)
    BY <1>2, <1>4
  <2> QED BY <1>1, <2>1, Popped
<1> QED BY <1>1, <1>3, <1>4 DEF q, r
-----------------------------------------------------------------------------
-----------------------------------------------------------------------------
(***************************************************************************)
(* Which steps change what                                                 *)
(***************************************************************************)

Accepts == \E fd \in Fds : NewConnection(fd)
Closes == \E t \in Threads : \E c \in Made : HandleClose(t, c)
Establishes == \E t \in Threads : \E c \in Made : ConnectEstablished(t, c)
Destroys == \E t \in Threads : \E c \in Made : ConnectDestroyed(t, c)
Removes == \E c \in Made : RemoveConnectionInLoop(c)
Ends == \E c \in Made : DestroyConnection(c)
Leaves == \E t \in Threads : LeavesLoop(t)
PollsSome == \E l \in Loops : \E ready \in SUBSET Ready(l) : Polls(l, ready)
PeerComes == \E peer \in Peers : PeerConnects(peer)
PeerGoes == \E c \in Made : PeerCloses(c)
Shuts == \E c \in Made : Shutdown(c)

\* The pool's ring changes in startThread only; newConnection, which looks a loop
\* up in it, is treated apart.
LEMMA RingFrame ==
  ASSUME Next
  PROVE  UNCHANGED <<loops, circle, sortedHashes>> \/ StartThread \/ Accepts
  BY NextCases
  DEF Accepts, Start, StartListen, PeerConnects, PeerCloses, Shutdown, EnterLoop, GoesOn,
      LeavesLoop, SwapFunctors, BatchDone, Polls, Listen, AcceptFails, QuitMain,
      RemoveConnectionInLoop, HandleClose, ConnectEstablished, ConnectDestroyed,
      DestroyConnection, Destroy, QuitThread, Join, DestroyAcceptor, DestroyMainLoop, poolVars

\* The steps that change a connection: an accept, a peer that closes, shutdown(),
\* handleClose, connectEstablished and connectDestroyed.
LEMMA ConnFrame ==
  ASSUME Next
  PROVE  conn' = conn \/ Accepts \/ PeerGoes \/ Shuts \/ Closes \/ Establishes \/ Destroys
  BY NextCases
  DEF Accepts, PeerGoes, Shuts, Closes, Establishes, Destroys, Start, StartThread, StartListen,
      PeerConnects, EnterLoop, GoesOn, LeavesLoop, SwapFunctors, BatchDone, Polls, Listen,
      AcceptFails, QuitMain, RemoveConnectionInLoop, DestroyConnection, Destroy, QuitThread,
      Join, DestroyAcceptor, DestroyMainLoop, connVars

\* connections_ changes in newConnection, removeConnectionInLoop and ~TcpServer.
LEMMA ConnectionsFrame ==
  ASSUME Next
  PROVE  connections' = connections \/ Accepts \/ Removes \/ Ends
  BY NextCases
  DEF Accepts, Removes, Ends, Start, StartThread, StartListen, PeerConnects, PeerCloses,
      Shutdown, EnterLoop, GoesOn, LeavesLoop, SwapFunctors, BatchDone, Polls, Listen,
      AcceptFails, QuitMain, HandleClose, ConnectEstablished, ConnectDestroyed, Destroy,
      QuitThread, Join, DestroyAcceptor, DestroyMainLoop, connVars

\* The acceptor's channel changes in listen() and in ~Acceptor.
LEMMA AcceptorFrame ==
  ASSUME Next
  PROVE  acceptChannel' = acceptChannel \/ StartListen \/ Listen \/ DestroyAcceptor
  BY NextCases
  DEF Start, StartThread, PeerConnects, PeerCloses, Shutdown, EnterLoop, GoesOn, LeavesLoop,
      SwapFunctors, BatchDone, Polls, AcceptFails, QuitMain, NewConnection,
      RemoveConnectionInLoop, HandleClose, ConnectEstablished, ConnectDestroyed,
      DestroyConnection, Destroy, QuitThread, Join, DestroyMainLoop, netVars

\* The listen queue is changed by the peers, by accept() and by closing the socket.
LEMMA BacklogFrame ==
  ASSUME Next
  PROVE  UNCHANGED <<backlog, arrived>> \/ PeerComes \/ AcceptFails \/ Accepts \/ DestroyAcceptor
  BY NextCases
  DEF PeerComes, Accepts, Start, StartThread, StartListen, PeerCloses, Shutdown, EnterLoop,
      GoesOn, LeavesLoop, SwapFunctors, BatchDone, Polls, Listen, QuitMain,
      RemoveConnectionInLoop, HandleClose, ConnectEstablished, ConnectDestroyed,
      DestroyConnection, Destroy, QuitThread, Join, DestroyMainLoop, netVars

\* activeChannels_ is filled by poll and emptied by the handlers.
LEMMA ActiveFrame ==
  ASSUME Next
  PROVE  active' = active \/ PollsSome \/ AcceptFails \/ Accepts \/ Closes
  BY NextCases
  DEF PollsSome, Accepts, Closes, Start, StartThread, StartListen, PeerConnects, PeerCloses,
      Shutdown, EnterLoop, GoesOn, LeavesLoop, SwapFunctors, BatchDone, Listen, QuitMain,
      RemoveConnectionInLoop, ConnectEstablished, ConnectDestroyed, DestroyConnection, Destroy,
      QuitThread, Join, DestroyAcceptor, DestroyMainLoop, loopVars

\* Connections are dropped only by a loop that ends with functors in its queue.
LEMMA DroppedFrame ==
  ASSUME Next
  PROVE  dropped' = dropped \/ \E l \in Loops : LeavesLoop(l)
  BY NextCases
  DEF Start, StartThread, StartListen, PeerConnects, PeerCloses, Shutdown, EnterLoop, GoesOn,
      SwapFunctors, BatchDone, Polls, Listen, AcceptFails, QuitMain, NewConnection,
      RemoveConnectionInLoop, HandleClose, ConnectEstablished, ConnectDestroyed,
      DestroyConnection, Destroy, QuitThread, Join, DestroyAcceptor, DestroyMainLoop, endVars

\* serverPc moves along ~TcpServer.
LEMMA ServerFrame ==
  ASSUME Next
  PROVE  serverPc' = serverPc \/ Destroy \/ QuitThread \/ Join \/ DestroyAcceptor
  BY NextCases
  DEF Start, StartThread, StartListen, PeerConnects, PeerCloses, Shutdown, EnterLoop, GoesOn,
      LeavesLoop, SwapFunctors, BatchDone, Polls, Listen, AcceptFails, QuitMain, NewConnection,
      RemoveConnectionInLoop, HandleClose, ConnectEstablished, ConnectDestroyed,
      DestroyConnection, DestroyMainLoop, endVars

\* Every other step leaves what waits at every loop as it is.
LEMMA WaitingFrame ==
  ASSUME TypeOK, Stages, Next
  PROVE  \/ KeptBut({})
         \/ StartListen \/ Listen \/ Leaves \/ Accepts \/ Removes \/ Closes \/ Establishes
         \/ Destroys \/ Ends \/ DestroyMainLoop
  BY NextCases, QuietSteps, LoopSets
  DEF Leaves, Accepts, Removes, Closes, Establishes, Destroys, Ends

\* The steps that move the thread of a loop.
LEMMA PcFrame ==
  ASSUME Next
  PROVE  \/ pc' = pc \/ StartThread
         \/ \E l \in Loops : EnterLoop(l) \/ GoesOn(l) \/ SwapFunctors(l) \/ BatchDone(l)
         \/ \E l \in Loops : LeavesLoop(l)
         \/ \E l \in Loops : \E ready : Polls(l, ready)
         \/ DestroyMainLoop
         \/ \E fd \in Fds : NewConnection(fd)
  BY NextCases
  DEF Start, StartListen, PeerConnects, PeerCloses, Shutdown, Listen, AcceptFails, QuitMain,
      RemoveConnectionInLoop, HandleClose, ConnectEstablished, ConnectDestroyed,
      DestroyConnection, Destroy, QuitThread, Join, DestroyAcceptor, loopVars

\* A thread that has left its loop does not come back.
LEMMA LeftFrame ==
  ASSUME TypeOK, Pool, Phases, Next, NEW t \in Threads
  PROVE  (pc'[t] = "left") = (pc[t] = "left") \/ LeavesLoop(t)
<1>0. pc \in [Loops -> LoopPcs] /\ t \in Loops /\ t # Main
  BY LoopSets DEF TypeOK
<1>1. CASE pc' = pc
  BY <1>1
<1>2. CASE StartThread
  <2>1. PICK u \in Threads : pc' = [pc EXCEPT ![u] = "published"] /\ u \notin loops
    BY <1>2, StartThreadPool
  <2>2. pc[u] = "none"
    BY <2>1 DEF Phases
  <2> QED BY <1>0, <2>1, <2>2
<1>3. ASSUME NEW l \in Loops, EnterLoop(l) \/ GoesOn(l) \/ SwapFunctors(l) \/ BatchDone(l)
      PROVE  (pc'[t] = "left") = (pc[t] = "left")
  BY <1>0, <1>3 DEF EnterLoop, GoesOn, SwapFunctors, BatchDone, LoopGoes
<1>4. ASSUME NEW l \in Loops, NEW ready, Polls(l, ready)
      PROVE  (pc'[t] = "left") = (pc[t] = "left")
  BY <1>0, <1>4 DEF Polls, LoopGoes
<1>5. ASSUME NEW l \in Loops, LeavesLoop(l), l # t
      PROVE  (pc'[t] = "left") = (pc[t] = "left")
  BY <1>0, <1>5 DEF LeavesLoop, LoopGoes
<1>6. CASE DestroyMainLoop
  BY <1>0, <1>6 DEF DestroyMainLoop, LoopGoes
<1>7. ASSUME NEW fd \in Fds, NewConnection(fd) PROVE pc'[t] = pc[t]
  <2>1. pc' = pc \/ pc' = [pc EXCEPT ![Main] = "threw"]
    BY <1>7 DEF NewConnection
  <2> QED BY <1>0, <2>1
<1> QED BY <1>1, <1>2, <1>3, <1>4, <1>5, <1>6, <1>7, PcFrame, Zenon
-----------------------------------------------------------------------------
(***************************************************************************)
(* Pool and acceptor                                                       *)
(***************************************************************************)

\* Pool is inductive, and a thread that starts is the only step that moves a key.
LEMMA PoolStep ==
  ASSUME TypeOK, Pool, Phases, Stages, Served, Next
  PROVE  /\ Pool'
         /\ \/ StartThread
            \/ /\ loops' = loops
               /\ \A k \in 0..MaxHash : hash_!GetNode(k)' = hash_!GetNode(k)
<1>1. CASE UNCHANGED <<loops, circle, sortedHashes>>
  <2>1. Pool'
    BY <1>1 DEF Pool, Range
  <2>2. \A k \in 0..MaxHash : hash_!GetNode(k)' = hash_!GetNode(k)
    BY <1>1 DEF hash_!GetNode, hash_!Found, hash_!UpperBound
  <2> QED BY <1>1, <2>1, <2>2
<1>2. CASE StartThread
  BY <1>2, StartThreadPool
<1>3. ASSUME NEW fd \in Fds, NewConnection(fd)
      PROVE  UNCHANGED <<loops, circle, sortedHashes>>
               \/ (Pool' /\ loops' = loops
                     /\ \A k \in 0..MaxHash : hash_!GetNode(k)' = hash_!GetNode(k))
  <2>1. CASE MakesNone
    BY <2>1 DEF MakesNone
  <2>2. ASSUME NEW n \in Nat, NEW peer \in Peers, NEW l \in Threads, Makes(fd, n, peer, l)
        PROVE  Pool' /\ loops' = loops
                 /\ \A k \in 0..MaxHash : hash_!GetNode(k)' = hash_!GetNode(k)
    <3>1. PeerHash[peer] \in 0..MaxHash /\ hash_!Lookup(PeerHash[peer])
      BY <2>2 DEF Makes
    <3> QED BY <3>1, LookupKeeps
  <2> QED BY <1>3, <2>1, <2>2, NewWaits
<1> QED BY <1>1, <1>2, <1>3, RingFrame DEF Accepts
-----------------------------------------------------------------------------
(***************************************************************************)
(* The states in which the handlers of a connection are called             *)
(***************************************************************************)

\* The channel of a new connection is unknown to the poller and to the kernel.
LEMMA NewChannelSound == Sound(NewChannel) /\ NewChannel.events = {} /\ NewChannel.index = "kNew"
                         /\ ~NewChannel.listed /\ ~NewChannel.registered
  BY DEF Sound, Agrees, NewChannel, ChannelRecord, Events

\* The connection that newConnection makes.
LEMMA MadeOne ==
  ASSUME TypeOK, Served, NEW fd \in Fds, NEW n \in Nat, NEW peer \in Peers, NEW l \in Threads,
         Makes(fd, n, peer, l)
  PROVE  /\ conn' \in Seq(ConnRecord) /\ Made' = Made \cup {n} /\ n \notin Made
         /\ Len(conn') = Len(conn) + 1
         /\ conn'[n] = Connection(peer, l, fd) /\ \A c \in Made : conn'[c] = conn[c]
<1> DEFINE k == Connection(peer, l, fd)
<1>1. conn \in Seq(ConnRecord) /\ Made = 1..Len(conn) /\ Len(conn) \in Nat
  BY MadeIs DEF TypeOK
<1>2. k \in ConnRecord
  BY NewChannelSound DEF Connection, ConnRecord, Sound
<1>3. conn' = Append(conn, k) /\ n = Len(conn) + 1 /\ n \notin Made
  BY DEF Makes
<1> HIDE DEF k
<1>4. /\ conn' \in Seq(ConnRecord) /\ Len(conn') = n
      /\ \A c \in 1..Len(conn) : conn'[c] = conn[c]
      /\ conn'[n] = k
  BY <1>1, <1>2, <1>3, AppendProperties
<1>5. DOMAIN conn' = 1..n
  BY <1>4, LenProperties
<1>6. Made' = Made \cup {n}
  BY <1>1, <1>3, <1>5 DEF Made
<1> QED BY <1>1, <1>3, <1>4, <1>6 DEF k

\* handleClose is called of connections that are established and not closed only.
LEMMA ClosesConnected ==
  ASSUME TypeOK, Actives, Lives, NEW t \in Threads, NEW c \in Made, HandleClose(t, c)
  PROVE  /\ t = conn[c].loop /\ conn[c].downs = 0
         /\ conn[c].ups = 1 /\ conn[c].channel.registered /\ ~conn[c].destroyed
         /\ pc[t] = "dispatch"
<1>1. c \in active[t] /\ pc[t] = "dispatch" /\ c # 0
  BY DEF HandleClose, Handles
<1>2. conn[c].loop = t /\ conn[c].channel.registered
  BY <1>1, LoopSets DEF Actives
<1>3. StateOf(c, t)
  BY <1>2 DEF Lives
<1> QED BY <1>1, <1>2, <1>3 DEF StateOf

\* What a loop calls waits in it, so it is the loop of the connection.
LEMMA CalledThere ==
  ASSUME TypeOK, Stages, Served, Places, NEW t \in Threads, NEW c \in Made
  PROVE  /\ Loses(t, Est(c)) => t = conn[c].loop /\ In(Est(c), Waiting(t))
         /\ Loses(t, Des(c)) => t = conn[c].loop /\ In(Des(c), Waiting(t))
<1>1. t \in Loops /\ t # Main
  BY LoopSets
<1>2. ASSUME NEW f, Loses(t, f) PROVE In(f, Waiting(t))
  BY <1>1, <1>2, WaitingMeans
<1>3. Est(c) \in Functors /\ Des(c) \in Functors
  BY MadeIs
<1>4. Est(c)[2] = c /\ Des(c)[2] = c
  BY DEF Est, Des
<1>5. \A f \in Functors : In(f, Waiting(t)) => t = conn[f[2]].loop
  BY <1>1 DEF Places, Place
<1> QED BY <1>2, <1>3, <1>4, <1>5

\* connectEstablished is called of connections that are connecting only.
LEMMA EstablishesConnecting ==
  ASSUME TypeOK, Stages, Served, Places, Lives, NEW t \in Threads, NEW c \in Made,
         ConnectEstablished(t, c)
  PROVE  /\ t = conn[c].loop /\ conn[c].state = "kConnecting" /\ conn[c].downs = 0
         /\ conn[c].ups = 0 /\ conn[c].channel = NewChannel /\ ~conn[c].destroyed
         /\ pc[t] = "batch"
<1>1. Loses(t, Est(c)) /\ pc[t] = "batch"
  BY ConnCallWaits
<1>2. t = conn[c].loop /\ In(Est(c), Waiting(t))
  BY <1>1, CalledThere
<1>3. StateOf(c, t)
  BY <1>2 DEF Lives
<1> QED BY <1>1, <1>2, <1>3 DEF StateOf

\* connectDestroyed is called once, of connections that have been established.
LEMMA DestroysEstablished ==
  ASSUME TypeOK, Stages, Served, Places, Orders, Lives, NEW t \in Threads, NEW c \in Made,
         ConnectDestroyed(t, c)
  PROVE  /\ t = conn[c].loop /\ conn[c].state # "kConnecting"
         /\ conn[c].state = "kConnected" => conn[c].downs = 0
         /\ conn[c].state = "kDisconnected" => conn[c].downs = 1
         /\ conn[c].ups = 1 /\ ~conn[c].destroyed /\ c \notin connections
         /\ pc[t] = "batch"
<1>1. Loses(t, Des(c)) /\ pc[t] = "batch"
  BY ConnCallWaits
<1>2. t = conn[c].loop /\ In(Des(c), Waiting(t)) /\ t \in Loops
  BY <1>1, CalledThere, LoopSets
<1>3. StateOf(c, t) /\ TokenOf(c, t)
  BY <1>2 DEF Lives
<1>4. Before(Est(c), Des(c), Waiting(t))
  BY <1>2 DEF Orders, OrderOf
<1>5. ~In(Est(c), Waiting(t))
  BY <1>1, <1>2, <1>4, WaitingMeans
<1>6. conn[c].state = "kConnecting" => ~(pc[t] # "left")
  BY <1>3, <1>5 DEF StateOf
<1> QED BY <1>1, <1>2, <1>3, <1>5, <1>6 DEF StateOf, TokenOf

\* Connections keep their loop, their peer and their descriptor.
Lasting ==
  /\ Made \subseteq Made'
  /\ \A c \in Made : /\ conn'[c].loop = conn[c].loop /\ conn'[c].peer = conn[c].peer
                     /\ conn'[c].fd = conn[c].fd

\* What a step does to conn, with the connection that it is about.
LEMMA ConnStep ==
  ASSUME TypeOK, Pool, Phases, Stages, Served, Places, Orders, Lives, Actives, Channels, Next
  PROVE  /\ Lasting /\ conn' \in Seq(ConnRecord)
         /\ Made' = Made \/ Accepts
         /\ \A c \in Made' : Sound(conn'[c].channel)
<1>0. conn \in Seq(ConnRecord) /\ \A c \in Made : Sound(conn[c].channel)
  BY DEF TypeOK, Channels
<1> DEFINE P == /\ Lasting /\ conn' \in Seq(ConnRecord)
                /\ Made' = Made \/ Accepts
                /\ \A c \in Made' : Sound(conn'[c].channel)
<1>1. CASE conn' = conn
  BY <1>0, <1>1 DEF Lasting, Made
<1>2. ASSUME NEW c \in Made, Updates(c), Sound(conn'[c].channel) PROVE P
  <2>1. Made' = Made
    BY <1>2 DEF Updates, Made
  <2>2. Lasting
    BY <1>2, <2>1 DEF Updates, Lasting
  <2>3. conn' \in Seq(ConnRecord) /\ \A d \in Made : Sound(conn'[d].channel)
    BY <1>0, <1>2 DEF Updates
  <2> QED BY <2>1, <2>2, <2>3
<1>3. ASSUME NEW c \in Made, PeerCloses(c) PROVE P
  BY <1>0, <1>2, <1>3, PeerClosesConn
<1>4. ASSUME NEW t \in Threads, NEW c \in Made, HandleClose(t, c) PROVE P
  <2>1. Updates(c) /\ conn'[c].channel = DisableAll(conn[c].channel)
    BY <1>0, <1>4, ClosesConnected, HandleCloseConn
  <2> QED BY <1>0, <1>2, <2>1, SettersSound
<1>5. ASSUME NEW t \in Threads, NEW c \in Made, ConnectEstablished(t, c) PROVE P
  <2>1. Updates(c) /\ conn'[c].channel = EnableReading(conn[c].channel)
    BY <1>0, <1>5, EstablishesConnecting, EstablishedConn
  <2> QED BY <1>0, <1>2, <2>1, SettersSound
<1>6. ASSUME NEW t \in Threads, NEW c \in Made, ConnectDestroyed(t, c) PROVE P
  <2>1. Updates(c) /\ Sound(conn'[c].channel)
    BY <1>0, <1>6, DestroysEstablished, DestroyedConn
  <2> QED BY <1>2, <2>1
<1>7. ASSUME NEW fd \in Fds, NewConnection(fd) PROVE P
  <2>1. CASE MakesNone
    BY <1>1, <2>1 DEF MakesNone
  <2>2. ASSUME NEW n \in Nat, NEW peer \in Peers, NEW l \in Threads, Makes(fd, n, peer, l)
        PROVE  P
    <3>1. /\ conn' \in Seq(ConnRecord) /\ Made' = Made \cup {n}
          /\ conn'[n] = Connection(peer, l, fd) /\ \A c \in Made : conn'[c] = conn[c]
      BY <2>2, MadeOne
    <3>2. conn'[n].channel = NewChannel
      BY <3>1 DEF Connection
    <3>3. Lasting
      BY <3>1 DEF Lasting
    <3>4. \A c \in Made' : Sound(conn'[c].channel)
      BY <1>0, <3>1, <3>2, NewChannelSound
    <3> QED BY <1>7, <3>1, <3>3, <3>4 DEF Accepts
  <2> QED BY <1>7, <2>1, <2>2, NewWaits
<1>8. ASSUME NEW c \in Made, Shutdown(c) PROVE P
  BY <1>0, <1>2, <1>8, ShutdownConn
<1> QED
  BY <1>1, <1>3, <1>4, <1>5, <1>6, <1>7, <1>8, ConnFrame
  DEF Accepts, PeerGoes, Shuts, Closes, Establishes, Destroys

\* The channels of acceptor and connections stay in order.
LEMMA ChannelsStep ==
  ASSUME TypeOK, Pool, Phases, Stages, Served, Places, Orders, Lives, Actives, Channels, Next
  PROVE  Channels'
<1>1. \A c \in Made' : Sound(conn'[c].channel)
  BY ConnStep
<1>2. Sound(acceptChannel) /\ (serverPc = "gone" => acceptChannel.index = "kNew")
  BY DEF Channels
<1>3. CASE acceptChannel' = acceptChannel /\ (serverPc' = "gone" => serverPc = "gone")
  BY <1>1, <1>2, <1>3 DEF Channels
<1>4. CASE DestroyAcceptor
  <2>1. acceptChannel' = RemoveChannel(DisableAll(acceptChannel))
    BY <1>4 DEF DestroyAcceptor
  <2>2. Sound(DisableAll(acceptChannel))
    BY <1>2, SettersSound
  <2>3. Sound(acceptChannel') /\ acceptChannel'.index = "kNew"
    BY <2>1, <2>2, RemoveSound, ChannelEffects
  <2> QED BY <1>1, <2>3 DEF Channels
<1>5. CASE StartListen \/ Listen
  <2>1. acceptChannel' = acceptChannel \/ acceptChannel' = EnableReading(acceptChannel)
    BY <1>5 DEF StartListen, Listen
  <2>2. Sound(acceptChannel')
    BY <1>2, <2>1, SettersSound
  <2>3. serverPc' = serverPc
    BY <1>5 DEF StartListen, Listen, endVars
  <2>4. serverPc # "gone"
    <3>1. CASE StartListen
      BY <3>1 DEF StartListen, Phases
    <3>2. CASE Listen
      BY <3>2 DEF Listen, Calls, Phases
    <3> QED BY <1>5, <3>1, <3>2
  <2> QED BY <1>1, <2>2, <2>3, <2>4 DEF Channels
<1>6. ASSUME serverPc' # serverPc, ~DestroyAcceptor PROVE serverPc' # "gone"
  BY <1>6, ServerFrame DEF Destroy, QuitThread, Join
<1> QED BY <1>3, <1>4, <1>5, <1>6, AcceptorFrame
-----------------------------------------------------------------------------
\* What the poll of the main loop reports: the acceptor, when peers wait.
LEMMA MainReady ==
  ASSUME TypeOK, Served
  PROVE  /\ Ready(Main) \subseteq {0}
         /\ Ready(Main) # {} => backlog # << >> /\ acceptChannel.registered
<1>1. \A c \in Made : conn[c].loop # Main
  BY ConnLoop, LoopSets
<1> QED BY <1>1 DEF Ready, Listening

\* Until the pool is complete, the acceptor does not listen and nobody is served.
LEMMA ServedPool ==
  ASSUME TypeOK, Pool, Phases, Stages, Served, Actives, Channels, Next
  PROVE  \/ loops' = Threads
         \/ /\ ~acceptChannel'.registered /\ ~In(<<"listen", 0>>, Waiting(Main)')
            /\ backlog' = << >> /\ active'[Main] = {} /\ conn' = << >>
<1>1. CASE loops = Threads
  <2>1. ~StartThread
    BY <1>1, StartThreadPool
  <2> QED BY <1>1, <2>1, PoolStep
<1>2. CASE loops # Threads
  <2>1. /\ ~acceptChannel.registered /\ ~In(<<"listen", 0>>, Waiting(Main))
        /\ backlog = << >> /\ active[Main] = {} /\ conn = << >>
    BY <1>2 DEF Served
  <2>2. Made = {}
    BY <2>1 DEF Made
  <2>3. /\ ~PeerGoes /\ ~Shuts /\ ~Closes /\ ~Establishes /\ ~Destroys /\ ~Removes /\ ~Ends
    BY <2>2 DEF PeerGoes, Shuts, Closes, Establishes, Destroys, Removes, Ends
  <2>4. ~Accepts /\ ~AcceptFails
    BY <2>1 DEF Accepts, NewConnection, AcceptFails, Handles
  <2>5. ~PeerComes
    BY <2>1 DEF PeerComes, PeerConnects, Listening
  <2>6. ~StartListen
    BY <1>2 DEF StartListen, Pool, Threads
  <2>7. ~Listen
    BY <2>1, LoopSets, ListenWaits, WaitingMeans
  <2>8. conn' = << >>
    BY <2>1, <2>3, <2>4, ConnFrame
  <2>9. ~acceptChannel'.registered
    <3>1. CASE DestroyAcceptor
      <4>1. Sound(DisableAll(acceptChannel))
        BY SettersSound DEF Channels
      <4> QED BY <3>1, <4>1, ChannelEffects DEF DestroyAcceptor
    <3> QED BY <2>1, <2>6, <2>7, <3>1, AcceptorFrame
  <2>10. backlog' = << >>
    BY <2>1, <2>4, <2>5, BacklogFrame DEF DestroyAcceptor
  <2>11. active'[Main] = {}
    <3>1. ASSUME NEW l \in Loops, NEW ready \in SUBSET Ready(l), Polls(l, ready)
          PROVE  active'[Main] = {}
      <4>1. active' = [active EXCEPT ![l] = ready] /\ active \in [Loops -> SUBSET (0..MaxConns)]
        BY <3>1 DEF Polls, TypeOK
      <4>2. l = Main => ready = {}
        BY <2>1, MainReady
      <4> QED BY <2>1, <4>1, <4>2, LoopSets
    <3> QED BY <2>1, <2>3, <2>4, <3>1, ActiveFrame DEF PollsSome
  <2>12. ~In(<<"listen", 0>>, Waiting(Main)')
    <3>1. CASE KeptBut({})
      BY <2>1, <3>1, LoopSets DEF KeptBut, Kept
    <3>2. ASSUME NEW t \in Threads, LeavesLoop(t) PROVE Waiting(Main)' = Waiting(Main)
      BY <3>2, LoopSets, LeavesWaits DEF KeptBut, Kept
    <3>3. CASE DestroyMainLoop
      BY <3>3, DestroyMainWaits, NothingWaits
    <3> QED BY <2>1, <2>3, <2>4, <2>6, <2>7, <3>1, <3>2, <3>3, WaitingFrame DEF Leaves
  <2> QED BY <2>8, <2>9, <2>10, <2>11, <2>12
<1> QED BY <1>1, <1>2

\* While the acceptor is to be handled, a peer waits.
LEMMA ServedReady ==
  ASSUME TypeOK, Pool, Phases, Stages, Served, Actives, Next
  PROVE  active'[Main] # {} => backlog' # << >>
<1>0. active \in [Loops -> SUBSET (0..MaxConns)] /\ active[Main] \subseteq {0} /\ Main \in Loops
  BY MainHandles, LoopSets DEF TypeOK
<1>1. ASSUME AcceptFails \/ Accepts PROVE active'[Main] = {}
  BY <1>0, <1>1 DEF AcceptFails, Accepts, NewConnection, Handles
<1>2. CASE DestroyAcceptor
  <2>1. active' = active /\ pc[Main] \in {"left", "destroyed"}
    BY <1>2 DEF DestroyAcceptor, BodyDone, Phases, loopVars
  <2> QED BY <1>0, <2>1 DEF Stages
<1>3. ASSUME NEW peer \in Peers, PeerConnects(peer) PROVE backlog' # << >>
  <2>1. backlog' = Append(backlog, peer) /\ backlog \in Seq(Peers)
    BY <1>3 DEF PeerConnects, TypeOK
  <2> QED BY <2>1, AppendProperties
<1>4. CASE backlog' = backlog
  <2>1. CASE active' = active
    BY <1>4, <2>1 DEF Served
  <2>2. ASSUME NEW l \in Loops, NEW ready \in SUBSET Ready(l), Polls(l, ready)
        PROVE  active'[Main] # {} => backlog # << >>
    <3>1. active' = [active EXCEPT ![l] = ready]
      BY <2>2 DEF Polls
    <3>2. CASE l = Main
      BY <1>0, <3>1, <3>2, MainReady
    <3>3. CASE l # Main
      BY <1>0, <3>1, <3>3 DEF Served
    <3> QED BY <3>2, <3>3
  <2>3. ASSUME NEW t \in Threads, NEW c \in Made, HandleClose(t, c)
        PROVE  active'[Main] = active[Main]
    BY <1>0, <2>3, LoopSets DEF HandleClose, Handles
  <2> QED BY <1>1, <1>4, <2>1, <2>2, <2>3, ActiveFrame DEF PollsSome, Closes, Served
<1> QED BY <1>1, <1>2, <1>3, <1>4, BacklogFrame DEF PeerComes

\* A connection needs a peer that has arrived.
LEMMA ServedCount ==
  ASSUME TypeOK, Pool, Phases, Stages, Served, Places, Orders, Lives, Actives, Channels, Next
  PROVE  Len(conn') + Len(backlog') <= arrived'
<1>0. /\ conn \in Seq(ConnRecord) /\ backlog \in Seq(Peers) /\ arrived \in Nat
      /\ Len(conn) \in Nat /\ Len(backlog) \in Nat /\ Len(conn) + Len(backlog) <= arrived
  BY LenProperties, ServerAssumption DEF TypeOK, Served
<1>1. Accepts \/ Len(conn') = Len(conn)
  <2>1. Made' = Made \/ Accepts
    BY ConnStep
  <2>2. conn' \in Seq(ConnRecord)
    BY ConnStep
  <2>3. ASSUME Made' = Made PROVE Len(conn') = Len(conn)
    <3>1. 1..Len(conn') = 1..Len(conn) /\ Len(conn') \in Nat
      BY <1>0, <2>2, <2>3, LenProperties DEF Made
    <3> QED BY <1>0, <3>1
  <2> QED BY <2>1, <2>3
<1>2. ASSUME active[Main] # {} PROVE backlog # << >> /\ Len(Tail(backlog)) = Len(backlog) - 1
  BY <1>0, <1>2, HeadTailProperties DEF Served
<1>3. ASSUME NEW fd \in Fds, NewConnection(fd) PROVE Len(conn') + Len(backlog') <= arrived'
  <2>1. backlog' = Tail(backlog) /\ arrived' = arrived /\ active[Main] # {}
    BY <1>3 DEF NewConnection, Handles
  <2>2. CASE MakesNone
    BY <1>0, <1>2, <2>1, <2>2 DEF MakesNone
  <2>3. ASSUME NEW n \in Nat, NEW peer \in Peers, NEW l \in Threads, Makes(fd, n, peer, l)
        PROVE  Len(conn') = Len(conn) + 1
    BY <2>3, MadeOne
  <2>4. CASE Len(conn') = Len(conn) + 1
    <3>1. Len(backlog') = Len(backlog) - 1
      BY <1>2, <2>1
    <3> DEFINE a == Len(conn)
               b == Len(backlog)
    <3>2. a \in Nat /\ b \in Nat /\ arrived \in Nat /\ a + b <= arrived
      BY <1>0
    <3>3. Len(conn') = a + 1 /\ Len(backlog') = b - 1 /\ arrived' = arrived
      BY <2>1, <2>4, <3>1
    <3> HIDE DEF a, b
    <3>4. a + 1 + (b - 1) <= arrived
      BY <3>2
    <3> QED BY <3>3, <3>4
  <2> QED BY <1>3, <2>2, <2>3, <2>4, NewWaits
<1>4. CASE AcceptFails
  <2>1. (backlog' = Tail(backlog) \/ backlog' = backlog) /\ UNCHANGED <<arrived, conn>>
        /\ active[Main] # {}
    BY <1>4 DEF AcceptFails, Handles, connVars
  <2> QED BY <1>0, <1>2, <2>1
<1>5. ASSUME NEW peer \in Peers, PeerConnects(peer) PROVE Len(conn') + Len(backlog') <= arrived'
  <2>1. backlog' = Append(backlog, peer) /\ arrived' = arrived + 1 /\ conn' = conn
    BY <1>5 DEF PeerConnects, connVars
  <2>2. Len(backlog') = Len(backlog) + 1
    BY <1>0, <2>1, AppendProperties
  <2> QED BY <1>0, <2>1, <2>2
<1>6. CASE DestroyAcceptor
  <2>1. backlog' = << >> /\ UNCHANGED <<arrived, conn>>
    BY <1>6 DEF DestroyAcceptor, connVars
  <2> QED BY <1>0, <2>1, EmptySeq
<1> QED BY <1>0, <1>1, <1>3, <1>4, <1>5, <1>6, BacklogFrame DEF Accepts, PeerComes

\* Every connection is with the loop that getNode returns for its peer, then and now.
LEMMA ServedLoop ==
  ASSUME TypeOK, Pool, Phases, Stages, Served, Places, Orders, Lives, Actives, Channels, Next
  PROVE  \A c \in Made' : \E key \in 0..MaxHash :
           key = PeerHash[conn'[c].peer] /\ conn'[c].loop = hash_!GetNode(key)'
<1>1. \A c \in Made : \E key \in 0..MaxHash :
        key = PeerHash[conn[c].peer] /\ conn[c].loop = hash_!GetNode(key)
  BY DEF Served
<1>2. Lasting
  BY ConnStep
<1>3. CASE Made' = Made
  <2>1. CASE StartThread
    <3>1. loops # Threads
      BY <2>1, StartThreadPool
    <3>2. Made = {}
      BY <3>1 DEF Served, Made
    <3> QED BY <1>3, <3>2
  <2>2. CASE ~StartThread
    <3>1. \A k \in 0..MaxHash : hash_!GetNode(k)' = hash_!GetNode(k)
      BY <2>2, PoolStep
    <3> TAKE c \in Made'
    <3>2. c \in Made /\ conn'[c].loop = conn[c].loop /\ conn'[c].peer = conn[c].peer
      BY <1>2, <1>3 DEF Lasting
    <3>3. PICK k \in 0..MaxHash : k = PeerHash[conn[c].peer] /\ conn[c].loop = hash_!GetNode(k)
      BY <1>1, <3>2
    <3> QED BY <3>1, <3>2, <3>3
  <2> QED BY <2>1, <2>2
<1>4. ASSUME NEW fd \in Fds, NEW n \in Nat, NEW peer \in Peers, NEW l \in Threads,
             Makes(fd, n, peer, l)
      PROVE  \A c \in Made' : \E key \in 0..MaxHash :
               key = PeerHash[conn'[c].peer] /\ conn'[c].loop = hash_!GetNode(key)'
  <2>1. /\ Made' = Made \cup {n} /\ conn'[n] = Connection(peer, l, fd)
        /\ \A c \in Made : conn'[c] = conn[c]
    BY <1>4, MadeOne
  <2>2. PICK k \in 0..MaxHash : k = PeerHash[peer] /\ hash_!Lookup(k) /\ l = hash_!GetNode(k)
    BY <1>4 DEF Makes
  <2>3. \A key \in 0..MaxHash : hash_!GetNode(key)' = hash_!GetNode(key)
    BY <2>2, LookupKeeps
  <2>4. conn'[n].peer = peer /\ conn'[n].loop = l
    BY <2>1 DEF Connection
  <2>5. ASSUME NEW c \in Made'
        PROVE  \E key \in 0..MaxHash :
               key = PeerHash[conn'[c].peer] /\ conn'[c].loop = hash_!GetNode(key)
    BY <1>1, <2>1, <2>2, <2>4
  <2> QED BY <2>3, <2>5
<1>5. CASE MakesNone
  BY <1>3, <1>5 DEF MakesNone, Made
<1> QED BY <1>3, <1>4, <1>5, ConnStep, NewWaits DEF Accepts

\* Served is inductive.
LEMMA ServedStep ==
  ASSUME TypeOK, Pool, Phases, Stages, Served, Places, Orders, Lives, Actives, Channels, Next
  PROVE  Served'
  BY ServedPool, ServedReady, ServedCount, ServedLoop DEF Served
-----------------------------------------------------------------------------
(***************************************************************************)
(* Types                                                                   *)
(***************************************************************************)

\* The threads, the destructor and their flags keep their types.
LEMMA TypeLoops ==
  ASSUME TypeOK, Pool, Phases, Next
  PROVE  /\ started' \in BOOLEAN /\ startPc' \in {"idle"} \cup Starters
         /\ pc' \in [Loops -> LoopPcs] /\ quit' \in [Loops -> BOOLEAN]
         /\ serverPc' \in {"alive", "connections", "threads", "join", "gone"}
         /\ joining' \in 1..NumThreads + 1
<1>0. /\ started \in BOOLEAN /\ startPc \in {"idle"} \cup Starters
      /\ pc \in [Loops -> LoopPcs] /\ quit \in [Loops -> BOOLEAN]
      /\ serverPc \in {"alive", "connections", "threads", "join", "gone"}
      /\ joining \in 1..NumThreads + 1 /\ loops \subseteq Threads
  BY DEF TypeOK
<1>1. started' \in BOOLEAN /\ startPc' \in {"idle"} \cup Starters
  <2>1. UNCHANGED <<started, startPc>> \/ StartListen \/ \E who \in Starters : Start(who)
    BY NextCases
    DEF StartThread, PeerConnects, PeerCloses, Shutdown, EnterLoop, GoesOn, LeavesLoop,
        SwapFunctors, BatchDone, Polls, Listen, AcceptFails, QuitMain, NewConnection,
        RemoveConnectionInLoop, HandleClose, ConnectEstablished, ConnectDestroyed,
        DestroyConnection, Destroy, QuitThread, Join, DestroyAcceptor, DestroyMainLoop, poolVars
  <2> QED BY <1>0, <2>1 DEF StartListen, Start
<1>2. pc' \in [Loops -> LoopPcs]
  <2>1. ASSUME NEW l, NEW p \in LoopPcs, pc' = [pc EXCEPT ![l] = p]
        PROVE  pc' \in [Loops -> LoopPcs]
    BY <1>0, <2>1
  <2>2. {"published", "test", "poll", "dispatch", "batch", "left", "threw", "destroyed"}
          \subseteq LoopPcs
    BY DEF LoopPcs
  <2>3. CASE StartThread
    BY <2>1, <2>2, <2>3 DEF StartThread
  <2>4. ASSUME NEW l \in Loops, EnterLoop(l) \/ GoesOn(l) \/ SwapFunctors(l) \/ BatchDone(l)
        PROVE  pc' \in [Loops -> LoopPcs]
    BY <2>1, <2>2, <2>4 DEF EnterLoop, GoesOn, SwapFunctors, BatchDone, LoopGoes
  <2>5. ASSUME NEW l \in Loops, NEW ready, Polls(l, ready) PROVE pc' \in [Loops -> LoopPcs]
    BY <2>1, <2>2, <2>5 DEF Polls, LoopGoes
  <2>6. ASSUME NEW l \in Loops, LeavesLoop(l) PROVE pc' \in [Loops -> LoopPcs]
    BY <2>1, <2>2, <2>6 DEF LeavesLoop, LoopGoes
  <2>7. CASE DestroyMainLoop
    BY <2>1, <2>2, <2>7 DEF DestroyMainLoop, LoopGoes
  <2>8. ASSUME NEW fd \in Fds, NewConnection(fd) PROVE pc' \in [Loops -> LoopPcs]
    <3>1. pc' = pc \/ pc' = [pc EXCEPT ![Main] = "threw"]
      BY <2>8 DEF NewConnection
    <3> QED BY <1>0, <2>1, <2>2, <3>1
  <2> QED BY <1>0, <2>3, <2>4, <2>5, <2>6, <2>7, <2>8, PcFrame
<1>3. quit' \in [Loops -> BOOLEAN]
  <2>1. quit' = quit \/ (\E l \in Loops : EnterLoop(l)) \/ QuitMain \/ QuitThread
    BY NextCases
    DEF Start, StartThread, StartListen, PeerConnects, PeerCloses, Shutdown, GoesOn, LeavesLoop,
        SwapFunctors, BatchDone, Polls, Listen, AcceptFails, NewConnection,
        RemoveConnectionInLoop, HandleClose, ConnectEstablished, ConnectDestroyed,
        DestroyConnection, Destroy, Join, DestroyAcceptor, DestroyMainLoop, loopVars
  <2>2. ASSUME NEW l, NEW b \in BOOLEAN, quit' = [quit EXCEPT ![l] = b]
        PROVE  quit' \in [Loops -> BOOLEAN]
    BY <1>0, <2>2
  <2> QED BY <1>0, <2>1, <2>2 DEF EnterLoop, QuitMain, QuitThread
<1>4. serverPc' \in {"alive", "connections", "threads", "join", "gone"}
  BY <1>0, ServerFrame DEF Destroy, QuitThread, Join, DestroyAcceptor
<1>5. joining' \in 1..NumThreads + 1
  <2>1. joining' = joining \/ Join
    BY NextCases
    DEF Start, StartThread, StartListen, PeerConnects, PeerCloses, Shutdown, EnterLoop, GoesOn,
        LeavesLoop, SwapFunctors, BatchDone, Polls, Listen, AcceptFails, QuitMain,
        NewConnection, RemoveConnectionInLoop, HandleClose, ConnectEstablished,
        ConnectDestroyed, DestroyConnection, Destroy, QuitThread, DestroyAcceptor,
        DestroyMainLoop, endVars
  <2>2. ASSUME Join PROVE joining' = joining + 1 /\ joining \in 1..NumThreads
    BY <1>0, <2>2 DEF Join, Phases, Threads
  <2> QED BY <1>0, <2>1, <2>2, ServerAssumption
<1> QED BY <1>1, <1>2, <1>3, <1>4, <1>5

\* What a step does to the queues: at most one functor is queued, and then by somebody
\* who holds the connection it is of; nothing else comes into a queue or a batch.
Holds(l, f) == In(f, queue[l]) \/ In(f, batch[l])

\* The steps that change the functors of a loop.
LEMMA QueueFrame ==
  ASSUME Next
  PROVE  \/ UNCHANGED <<queue, batch>>
         \/ (StartListen \/ Accepts \/ Removes \/ Closes \/ Ends) /\ batch' = batch
         \/ \E l \in Loops : LeavesLoop(l) \/ SwapFunctors(l) \/ BatchDone(l)
         \/ DestroyMainLoop
  BY NextCases
  DEF Accepts, Removes, Closes, Ends, Start, StartThread, StartListen, PeerConnects, PeerCloses,
      Shutdown, EnterLoop, GoesOn, Polls, Listen, AcceptFails, QuitMain, NewConnection,
      RemoveConnectionInLoop, HandleClose, ConnectEstablished, ConnectDestroyed,
      DestroyConnection, Destroy, QuitThread, Join, DestroyAcceptor, loopVars

\* Steps that queue nothing.
LEMMA QueuesShrink ==
  ASSUME TypeOK, Stages,
         \/ UNCHANGED <<queue, batch>>
         \/ \E l \in Loops : LeavesLoop(l) \/ SwapFunctors(l) \/ BatchDone(l)
         \/ DestroyMainLoop
  PROVE  /\ queue' \in [Loops -> Seq(Functors)] /\ batch' \in [Loops -> Seq(Functors)]
         /\ \A l \in Loops : \A f : Holds(l, f)' => Holds(l, f)
<1>0. queue \in [Loops -> Seq(Functors)] /\ batch \in [Loops -> Seq(Functors)]
  BY DEF TypeOK
<1>1. << >> \in Seq(Functors)
  OBVIOUS
<1>2. ASSUME NEW l \in Loops, LeavesLoop(l) \/ SwapFunctors(l) \/ BatchDone(l)
      PROVE  /\ queue' \in [Loops -> Seq(Functors)] /\ batch' \in [Loops -> Seq(Functors)]
             /\ \A m \in Loops : \/ queue'[m] = queue[m] /\ batch'[m] = batch[m]
                                 \/ queue'[m] = << >> /\ batch'[m] = queue[m]
                                 \/ queue'[m] = << >> /\ batch'[m] = batch[m]
                                 \/ queue'[m] = queue[m] /\ batch'[m] = << >>
  <2>1. CASE LeavesLoop(l)
    BY <1>0, <1>1, <2>1 DEF LeavesLoop
  <2>2. CASE SwapFunctors(l)
    BY <1>0, <1>1, <2>2 DEF SwapFunctors
  <2>3. CASE BatchDone(l)
    BY <1>0, <1>1, <2>3 DEF BatchDone
  <2> QED BY <1>2, <2>1, <2>2, <2>3
<1>3. ASSUME DestroyMainLoop
      PROVE  /\ queue' \in [Loops -> Seq(Functors)] /\ batch' = batch
             /\ \A m \in Loops : queue'[m] = queue[m] \/ queue'[m] = << >>
  BY <1>0, <1>1, <1>3 DEF DestroyMainLoop
<1>4. CASE UNCHANGED <<queue, batch>>
  BY <1>0, <1>4 DEF Holds
<1> QED BY <1>0, <1>2, <1>3, <1>4, NothingWaits DEF Holds

\* A step that queues.
LEMMA PushHolds ==
  ASSUME TypeOK, NEW l \in Loops, NEW op, NEW c, <<op, c>> \in Functors, Push(l, op, c),
         batch' = batch
  PROVE  /\ queue' \in [Loops -> Seq(Functors)] /\ batch' \in [Loops -> Seq(Functors)]
         /\ \A m \in Loops : \A f : Holds(m, f)' => Holds(m, f) \/ f[2] = c
<1> DEFINE g == <<op, c>>
<1>0. queue \in [Loops -> Seq(Functors)] /\ batch \in [Loops -> Seq(Functors)]
  BY DEF TypeOK
<1>1. g \in Functors /\ g[2] = c /\ queue' = [queue EXCEPT ![l] = Append(queue[l], g)]
  BY DEF Push
<1> HIDE DEF g
<1>2. Append(queue[l], g) \in Seq(Functors)
  BY <1>0, <1>1, AppendProperties
<1>3. /\ queue' \in [Loops -> Seq(Functors)]
      /\ queue'[l] = Append(queue[l], g)
      /\ \A m \in Loops : m # l => queue'[m] = queue[m]
  BY <1>0, <1>1, <1>2
<1>4. \A f : In(f, Append(queue[l], g)) => In(f, queue[l]) \/ f = g
  BY <1>0, <1>1, Pushed
<1>5. ASSUME NEW m \in Loops, NEW f, Holds(m, f)' PROVE Holds(m, f) \/ f[2] = c
  <2>1. In(f, queue'[m]) \/ In(f, batch[m])
    BY <1>5 DEF Holds
  <2>2. CASE m = l
    BY <1>1, <1>3, <1>4, <2>1, <2>2 DEF Holds
  <2>3. CASE m # l
    BY <1>3, <2>1, <2>3 DEF Holds
  <2> QED BY <2>2, <2>3
<1> QED BY <1>0, <1>3, <1>5

\* What is in a concatenation.
LEMMA RangeIn ==
  ASSUME NEW S, NEW p \in Seq(S), NEW q \in Seq(S)
  PROVE  \A f : f \in Range(p \o q) <=> In(f, p) \/ In(f, q)
<1> DEFINE r == p \o q
           m == Len(p)
           n == Len(q)
<1>1. m \in Nat /\ n \in Nat /\ DOMAIN p = 1..m /\ DOMAIN q = 1..n
  BY LenProperties
<1>2. r \in Seq(S) /\ Len(r) = m + n
      /\ \A i \in 1..m + n : r[i] = IF i <= m THEN p[i] ELSE q[i - m]
  BY ConcatProperties
<1>3. DOMAIN r = 1..m + n
  BY <1>1, <1>2, LenProperties
<1> HIDE DEF r, m, n
<1>4. /\ \A i \in 1..m : i \in 1..m + n /\ r[i] = p[i]
      /\ \A i \in 1..n : i + m \in 1..m + n /\ r[i + m] = q[i]
      /\ \A i \in 1..m + n : (i \in 1..m /\ r[i] = p[i]) \/ (i - m \in 1..n /\ r[i] = q[i - m])
  <2>1. \A i \in 1..m : i \in 1..m + n /\ i <= m
    BY <1>1
  <2>2. \A i \in 1..n : i + m \in 1..m + n /\ ~(i + m <= m) /\ i + m - m = i
    BY <1>1
  <2>3. \A i \in 1..m + n : (i <= m /\ i \in 1..m) \/ (~(i <= m) /\ i - m \in 1..n)
    BY <1>1
  <2>4. \A i \in 1..m : r[i] = p[i]
    BY <1>2, <2>1
  <2>5. ASSUME NEW i \in 1..n PROVE r[i + m] = q[i]
    <3> DEFINE j == i + m
    <3>1. j \in 1..m + n /\ ~(j <= m) /\ j - m = i
      BY <1>1
    <3> HIDE DEF j
    <3>2. r[j] = q[i]
      BY <1>2, <3>1
    <3> QED BY <3>2 DEF j
  <2>6. \A i \in 1..m + n : (i \in 1..m /\ r[i] = p[i]) \/ (i - m \in 1..n /\ r[i] = q[i - m])
    BY <1>2, <2>3
  <2> QED BY <2>1, <2>2, <2>4, <2>5, <2>6
<1>5. \A f : f \in Range(r) <=> \E i \in 1..m + n : r[i] = f
  BY <1>3 DEF Range
<1>6. ASSUME NEW f PROVE (\E i \in 1..m + n : r[i] = f) <=> In(f, p) \/ In(f, q)
  <2>1. (\E i \in 1..m + n : r[i] = f) => In(f, p) \/ In(f, q)
    BY <1>1, <1>4 DEF In
  <2>2. In(f, p) => \E i \in 1..m + n : r[i] = f
    BY <1>1, <1>4 DEF In
  <2>3. In(f, q) => \E i \in 1..m + n : r[i] = f
    BY <1>1, <1>4 DEF In
  <2> QED BY <2>1, <2>2, <2>3
<1> QED BY <1>5, <1>6 DEF r

\* The functors of c are somewhere.
HeldIn(c, q, b) == \E l \in Loops : \E f : (In(f, q[l]) \/ In(f, b[l])) /\ f[2] = c

\* A functor holds c exactly when the queue or the batch of some loop has one for c.
LEMMA HeldIs ==
  ASSUME NEW q \in [Loops -> Seq(Functors)], NEW b \in [Loops -> Seq(Functors)], NEW c
  PROVE  (\E l \in Loops : \E f \in Range(q[l] \o b[l]) : f[2] = c) <=> HeldIn(c, q, b)
<1>1. ASSUME NEW l \in Loops
      PROVE  \A f : f \in Range(q[l] \o b[l]) <=> In(f, q[l]) \/ In(f, b[l])
  <2>1. q[l] \in Seq(Functors) /\ b[l] \in Seq(Functors)
    OBVIOUS
  <2> QED BY <2>1, RangeIn
<1> QED BY <1>1 DEF HeldIn

\* A connection exists while connections_ or a functor refers to it.
LEMMA AliveIs ==
  ASSUME TypeOK, NEW c
  PROVE  Alive(c) <=> c \in connections \/ HeldIn(c, queue, batch)
<1>1. queue \in [Loops -> Seq(Functors)] /\ batch \in [Loops -> Seq(Functors)]
  BY DEF TypeOK
<1>2. (\E l \in Loops : \E f \in Range(queue[l] \o batch[l]) : f[2] = c)
        <=> HeldIn(c, queue, batch)
  BY <1>1, HeldIs
<1> QED BY <1>2 DEF Alive

\* Who holds a functor holds its connection.
LEMMA HoldsAlive ==
  ASSUME TypeOK, NEW l \in Loops, NEW f, Holds(l, f)
  PROVE  Alive(f[2])
  BY AliveIs DEF Holds, HeldIn

\* What waits holds its connection, too.
LEMMA WaitingAlive ==
  ASSUME TypeOK, Stages, NEW l \in Loops, NEW c, NEW op, In(<<op, c>>, Waiting(l))
  PROVE  Alive(c)
<1>1. Holds(l, <<op, c>>)
  BY WaitingIs DEF Holds
<1>2. <<op, c>>[2] = c
  OBVIOUS
<1> QED BY <1>1, <1>2, HoldsAlive

\* A functor is queued by somebody who holds its connection, or has just made it.
LEMMA QueueStep ==
  ASSUME TypeOK, Pool, Phases, Stages, Served, Lives, Actives, Next
  PROVE  /\ queue' \in [Loops -> Seq(Functors)] /\ batch' \in [Loops -> Seq(Functors)]
         /\ \A l \in Loops : \A f : Holds(l, f)' /\ f[2] \in Made => Holds(l, f) \/ Alive(f[2])
<1> DEFINE P == /\ queue' \in [Loops -> Seq(Functors)] /\ batch' \in [Loops -> Seq(Functors)]
                /\ \A l \in Loops : \A f :
                     Holds(l, f)' /\ f[2] \in Made => Holds(l, f) \/ Alive(f[2])
<1>1. CASE \/ UNCHANGED <<queue, batch>>
           \/ \E l \in Loops : LeavesLoop(l) \/ SwapFunctors(l) \/ BatchDone(l)
           \/ DestroyMainLoop
  BY <1>1, QueuesShrink
<1>2. ASSUME NEW l \in Loops, NEW op, NEW c, <<op, c>> \in Functors, Push(l, op, c),
             batch' = batch, c \in Made => Alive(c)
      PROVE  P
  BY <1>2, PushHolds
<1>3. ASSUME StartListen, batch' = batch PROVE P
  <2>1. queue' = queue \/ Push(Main, "listen", 0)
    BY <1>3 DEF StartListen
  <2>2. <<"listen", 0>> \in Functors /\ 0 \notin Made
    BY MadeIs, ServerAssumption DEF Functors
  <2> QED BY <1>1, <1>2, <1>3, <2>1, <2>2, LoopSets
<1>4. ASSUME NEW fd \in Fds, NewConnection(fd), batch' = batch PROVE P
  <2>1. active[Main] # {}
    BY <1>4 DEF NewConnection, Handles
  <2>2. CASE hash_!Throws
    <3>1. queue' = queue
      BY <1>4, <2>2 DEF NewConnection
    <3> QED BY <1>1, <1>4, <3>1
  <2>3. CASE ~hash_!Throws
    <3>1. PICK n, peer, l :
            /\ n = Len(conn) + 1 /\ peer = Head(backlog) /\ l = hash_!GetNode(PeerHash[peer])
            /\ Push(l, "established", n)
      BY <1>4, <2>3 DEF NewConnection
    <3>2. PeerHash[peer] \in 0..MaxHash
      <4>1. backlog \in Seq(Peers) /\ backlog # << >>
        BY <2>1 DEF TypeOK, Served
      <4> QED BY <3>1, <4>1, HeadTailProperties, ServerAssumption
    <3>3. l \in Loops
      BY <2>3, <3>1, <3>2, NodeIsLoop, LoopSets DEF TypeOK
    <3>4. n \notin Made /\ <<"established", n>> \in Functors
      BY <2>1, <3>1, MadeIs DEF Est
    <3> QED BY <1>2, <1>4, <3>1, <3>3, <3>4
  <2> QED BY <2>2, <2>3
<1>5. ASSUME NEW c \in Made, RemoveConnectionInLoop(c), batch' = batch PROVE P
  <2>1. Loses(Main, Rem(c)) /\ Push(conn[c].loop, "destroyed", c)
    BY <1>5, RemoveWaits DEF RemoveConnectionInLoop
  <2>2. In(<<"remove", c>>, Waiting(Main))
    BY <2>1, LoopSets, WaitingMeans DEF Rem
  <2>3. Alive(c)
    BY <2>2, LoopSets, WaitingAlive
  <2>4. conn[c].loop \in Loops /\ <<"destroyed", c>> \in Functors
    BY ConnLoop, MadeIs DEF Des
  <2> QED BY <1>2, <1>5, <2>1, <2>3, <2>4
<1>6. ASSUME NEW t \in Threads, NEW c \in Made, HandleClose(t, c), batch' = batch PROVE P
  <2>1. /\ t = conn[c].loop /\ ~conn[c].destroyed
        /\ pc[t] = "dispatch" /\ t \in Loops
    BY <1>6, ClosesConnected, LoopSets
  <2>2. c \in connections \/ In(<<"destroyed", c>>, Waiting(t))
    BY <2>1 DEF Lives, TokenOf, Des
  <2>3. Alive(c)
    BY <2>1, <2>2, WaitingAlive DEF Alive
  <2>4. Push(Main, "remove", c) /\ <<"remove", c>> \in Functors
    BY <1>6, MadeIs DEF HandleClose, Rem
  <2> QED BY <1>2, <1>6, <2>3, <2>4, LoopSets
<1>7. ASSUME NEW c \in Made, DestroyConnection(c), batch' = batch PROVE P
  <2>1. c \in connections /\ Push(conn[c].loop, "destroyed", c)
    BY <1>7 DEF DestroyConnection
  <2>2. conn[c].loop \in Loops /\ <<"destroyed", c>> \in Functors
    BY ConnLoop, MadeIs DEF Des
  <2>3. Alive(c)
    BY <2>1 DEF Alive
  <2> QED BY <1>2, <1>7, <2>1, <2>2, <2>3
<1> QED
  BY <1>1, <1>3, <1>4, <1>5, <1>6, <1>7, QueueFrame, Zenon DEF Accepts, Removes, Closes, Ends

\* TypeOK is inductive.
LEMMA TypeStep ==
  ASSUME TypeOK, Pool, Phases, Stages, Served, Places, Orders, Lives, Actives, Channels, Next
  PROVE  TypeOK'
<1>1. conn' \in Seq(ConnRecord) /\ Made \subseteq Made' /\ Sound(acceptChannel')
  BY ConnStep, ChannelsStep DEF Lasting, Channels
<1>2. loops' \subseteq Threads
  BY PoolStep, StartThreadPool DEF TypeOK
<1>3. backlog' \in Seq(Peers) /\ arrived' \in 0..MaxConns
  <2>0. backlog \in Seq(Peers) /\ arrived \in 0..MaxConns /\ MaxConns \in Nat
    BY ServerAssumption DEF TypeOK
  <2>1. ASSUME NEW peer \in Peers, PeerConnects(peer)
        PROVE  backlog' \in Seq(Peers) /\ arrived' \in 0..MaxConns
    <3>1. backlog' = Append(backlog, peer) /\ arrived' = arrived + 1 /\ arrived < MaxConns
      BY <2>1 DEF PeerConnects
    <3> QED BY <2>0, <3>1, AppendProperties
  <2>2. ASSUME AcceptFails \/ Accepts
        PROVE  backlog' \in Seq(Peers) /\ arrived' \in 0..MaxConns
    <3>1. (backlog' = Tail(backlog) \/ backlog' = backlog) /\ arrived' = arrived
      BY <2>2 DEF AcceptFails, Accepts, NewConnection
    <3>2. active[Main] # {}
      BY <2>2 DEF AcceptFails, Accepts, NewConnection, Handles
    <3>3. backlog # << >>
      BY <3>2 DEF Served
    <3> QED BY <2>0, <3>1, <3>3, HeadTailProperties
  <2>3. ASSUME DestroyAcceptor PROVE backlog' \in Seq(Peers) /\ arrived' \in 0..MaxConns
    BY <2>0, <2>3 DEF DestroyAcceptor
  <2> QED BY <2>0, <2>1, <2>2, <2>3, BacklogFrame DEF PeerComes
<1>4. connections' \subseteq Made'
  <2>0. connections \subseteq Made
    BY DEF TypeOK
  <2>1. ASSUME NEW fd \in Fds, NEW n \in Nat, NEW peer \in Peers, NEW l \in Threads,
               Makes(fd, n, peer, l)
        PROVE  connections' \subseteq Made'
    <3>1. Made' = Made \cup {n}
      BY <2>1, MadeOne
    <3> QED BY <2>0, <2>1, <3>1 DEF Makes
  <2>2. CASE connections' \subseteq connections
    BY <1>1, <2>0, <2>2
  <2>3. MakesNone => connections' = connections
    BY DEF MakesNone
  <2>4. Removes \/ Ends => connections' \subseteq connections
    BY DEF Removes, Ends, RemoveConnectionInLoop, DestroyConnection
  <2> QED BY <2>1, <2>2, <2>3, <2>4, ConnectionsFrame, NewWaits DEF Accepts
<1>5. dropped' \subseteq Made'
  <2>1. ASSUME NEW l \in Loops, LeavesLoop(l) PROVE dropped' \subseteq dropped \cup Made
    BY <2>1 DEF LeavesLoop
  <2> QED BY <1>1, <2>1, DroppedFrame DEF TypeOK
<1>6. called' \in [Loops -> Nat]
  <2>0. called \in [Loops -> Nat]
    BY DEF TypeOK
  <2>1. \/ called' = called
        \/ \E l \in Loops : \E op, c : Calls(l, op, c)
        \/ \E l \in Loops : BatchDone(l)
    BY NextCases, LoopSets
    DEF Start, StartThread, StartListen, PeerConnects, PeerCloses, Shutdown, EnterLoop, GoesOn,
        LeavesLoop, SwapFunctors, Polls, Listen, AcceptFails, QuitMain, NewConnection,
        RemoveConnectionInLoop, HandleClose, ConnectEstablished, ConnectDestroyed,
        DestroyConnection, Destroy, QuitThread, Join, DestroyAcceptor, DestroyMainLoop, loopVars
  <2> QED BY <2>0, <2>1 DEF Calls, BatchDone
<1>7. active' \in [Loops -> SUBSET (0..MaxConns)]
  <2>0. active \in [Loops -> SUBSET (0..MaxConns)]
    BY DEF TypeOK
  <2>1. ASSUME NEW l \in Loops, NEW ready \in SUBSET Ready(l), Polls(l, ready)
        PROVE  active' \in [Loops -> SUBSET (0..MaxConns)]
    <3>1. \A c \in Ready(l) : c \in Made \/ c = 0
      BY DEF Ready
    <3>2. \A c \in Ready(l) : c \in 0..MaxConns
      BY <3>1, MadeIs, ServerAssumption
    <3>3. ready \in SUBSET (0..MaxConns)
      BY <3>2
    <3> QED BY <2>0, <2>1, <3>3 DEF Polls
  <2>2. ASSUME NEW l, NEW c, Handles(l, c) PROVE active' \in [Loops -> SUBSET (0..MaxConns)]
    BY <2>0, <2>2 DEF Handles
  <2> QED
    BY <2>0, <2>1, <2>2, ActiveFrame
    DEF PollsSome, AcceptFails, Accepts, NewConnection, Closes, HandleClose
<1>8. acceptChannel' \in ChannelRecord
  BY <1>1 DEF Sound
<1> QED BY <1>1, <1>2, <1>3, <1>4, <1>5, <1>6, <1>7, <1>8, TypeLoops, QueueStep DEF TypeOK
-----------------------------------------------------------------------------
(***************************************************************************)
(* Where functors wait, and in which order                                 *)
(***************************************************************************)

\* The functors of a connection are different, and none of them is listen.
LEMMA FunctorNames ==
  ASSUME NEW c
  PROVE  /\ Est(c)[1] = "established" /\ Rem(c)[1] = "remove" /\ Des(c)[1] = "destroyed"
         /\ Est(c)[2] = c /\ Rem(c)[2] = c /\ Des(c)[2] = c
         /\ Est(c) # Rem(c) /\ Est(c) # Des(c) /\ Rem(c) # Des(c)
         /\ <<"listen", 0>>[1] = "listen" /\ <<"listen", 0>>[2] = 0
  BY DEF Est, Rem, Des

\* Nothing waits of a connection that has not been made.
LEMMA NoneWaits ==
  ASSUME TypeOK, Stages, Places, NEW n, n \notin Made, n # 0, NEW l \in Loops,
         NEW f, f[2] = n
  PROVE  ~In(f, Waiting(l))
<1> SUFFICES ASSUME In(f, Waiting(l)) PROVE FALSE
  OBVIOUS
<1>1. Waiting(l) \in Seq(Functors)
  BY WaitingIs
<1>2. f \in Functors
  BY <1>1, LenProperties DEF In
<1>3. Place(l, f)
  BY <1>2 DEF Places
<1>4. <<"listen", 0>>[2] = 0
  OBVIOUS
<1> QED BY <1>3, <1>4 DEF Place

\* Places is inductive: every functor is queued at the loop it is for.
LEMMA PlacesStep ==
  ASSUME TypeOK, Pool, Phases, Stages, Served, Places, Orders, Lives, Actives, Channels, Next
  PROVE  Places'
<1>1. Lasting
  BY ConnStep
<1>2. ASSUME NEW l \in Loops, NEW f, Place(l, f) PROVE Place(l, f)'
  BY <1>1, <1>2 DEF Lasting, Place
<1>3. ASSUME NEW l \in Loops, NEW g \in Functors, Gains(l, g), Place(l, g)'
      PROVE  \A f \in Functors : In(f, Waiting(l)') => Place(l, f)'
  <2>1. \A f : In(f, Waiting(l)') => In(f, Waiting(l)) \/ f = g
    BY <1>3, WaitingMeans
  <2> QED BY <1>2, <1>3, <2>1 DEF Places
<1>4. ASSUME NEW l \in Loops, Kept(l) \/ (\E g : Loses(l, g)) \/ Waiting(l)' = << >>
      PROVE  \A f \in Functors : In(f, Waiting(l)') => Place(l, f)'
  <2>1. \A f : In(f, Waiting(l)') => In(f, Waiting(l))
    BY <1>4, WaitingMeans, NothingWaits DEF Kept
  <2> QED BY <1>2, <2>1 DEF Places
<1> DEFINE OK(l) == \A f \in Functors : In(f, Waiting(l)') => Place(l, f)'
<1> HIDE DEF OK
<1>5. ASSUME NEW l \in Loops, NEW L, KeptBut(L), l \notin L PROVE OK(l)
  BY <1>4, <1>5 DEF OK, KeptBut
<1>6. ASSUME NEW l \in Loops, NEW g \in Functors, Gains(l, g), Place(l, g)' PROVE OK(l)
  BY <1>3, <1>6 DEF OK
<1>7. ASSUME NEW l \in Loops, (\E g : Loses(l, g)) \/ Waiting(l)' = << >> PROVE OK(l)
  BY <1>4, <1>7 DEF OK
<1> DEFINE All == \A l \in Loops : OK(l)
<1> SUFFICES All
  BY DEF OK, Places
<1>8. CASE KeptBut({})
  BY <1>5, <1>8
<1>9. CASE StartListen \/ Listen
  <2>1. <<"listen", 0>> \in Functors /\ Place(Main, <<"listen", 0>>)
    BY ServerAssumption DEF Functors, Place
  <2>2. Place(Main, <<"listen", 0>>)'
    BY <1>2, <2>1, LoopSets
  <2>3. \/ KeptBut({})
        \/ KeptBut({Main}) /\ (Gains(Main, <<"listen", 0>>) \/ Loses(Main, <<"listen", 0>>))
    BY <1>9, ListenWaits
  <2>4. KeptBut({Main}) => \A l \in Loops : l # Main => OK(l)
    BY <1>5
  <2>5. Gains(Main, <<"listen", 0>>) \/ Loses(Main, <<"listen", 0>>) => OK(Main)
    BY <1>6, <1>7, <2>1, <2>2, LoopSets
  <2> QED BY <1>8, <2>3, <2>4, <2>5
<1>10. ASSUME NEW t \in Threads, LeavesLoop(t) PROVE All
  <2>1. KeptBut({t}) /\ Waiting(t)' = << >> /\ t \in Loops
    BY <1>10, LeavesWaits, LoopSets
  <2> QED BY <1>5, <1>7, <2>1
<1>11. CASE DestroyMainLoop
  <2>1. KeptBut({Main}) /\ Waiting(Main)' = << >>
    BY <1>11, DestroyMainWaits
  <2> QED BY <1>5, <1>7, <2>1
<1>12. ASSUME NEW fd \in Fds, NewConnection(fd) PROVE All
  <2>1. CASE MakesNone
    BY <1>8, <2>1 DEF MakesNone
  <2>2. ASSUME NEW n \in Nat, NEW peer \in Peers, NEW l \in Threads, Makes(fd, n, peer, l)
        PROVE  All
    <3>1. KeptBut({l}) /\ Gains(l, Est(n)) /\ l \in Loops
      BY <2>2, LoopSets DEF Makes
    <3>2. n \in Made' /\ conn'[n].loop = l
      <4>1. Made' = Made \cup {n} /\ conn'[n] = Connection(peer, l, fd)
        BY <2>2, MadeOne
      <4> QED BY <4>1 DEF Connection
    <3>3. Est(n) \in Functors
      BY <2>2, ServerAssumption DEF Makes, Est, Functors
    <3>4. Place(l, Est(n))'
      BY <3>2, FunctorNames DEF Place, Est
    <3> QED BY <1>5, <1>6, <3>1, <3>3, <3>4
  <2> QED BY <1>12, <2>1, <2>2, NewWaits
<1>13. ASSUME NEW c \in Made
       PROVE  /\ Est(c) \in Functors /\ Rem(c) \in Functors /\ Des(c) \in Functors
              /\ Place(Main, Rem(c))'
              /\ \A l \in Loops : l = conn[c].loop => Place(l, Des(c))'
  <2>1. Est(c) \in Functors /\ Rem(c) \in Functors /\ Des(c) \in Functors
    BY MadeIs
  <2>2. Place(Main, Rem(c)) /\ \A l \in Loops : l = conn[c].loop => Place(l, Des(c))
    BY FunctorNames DEF Place
  <2>3. Place(Main, Rem(c))'
    BY <1>2, <2>2, LoopSets
  <2> QED BY <1>2, <2>1, <2>2, <2>3
<1>14. ASSUME NEW c \in Made, RemoveConnectionInLoop(c) PROVE All
  <2>1. PICK l \in Loops : l = conn[c].loop
    BY ConnLoop
  <2>2. KeptBut({Main, l}) /\ Loses(Main, Rem(c)) /\ Gains(l, Des(c))
    BY <1>14, <2>1, RemoveWaits
  <2>3. OK(l) /\ OK(Main)
    BY <1>6, <1>7, <1>13, <2>1, <2>2, LoopSets
  <2> QED BY <1>5, <2>2, <2>3
<1>15. ASSUME NEW c \in Made, DestroyConnection(c) PROVE All
  <2>1. PICK l \in Loops : l = conn[c].loop
    BY ConnLoop
  <2>2. KeptBut({l}) /\ Gains(l, Des(c))
    BY <1>15, <2>1, ConnPushWaits
  <2> QED BY <1>5, <1>6, <1>13, <2>1, <2>2
<1>16. ASSUME NEW t \in Threads, NEW c \in Made, HandleClose(t, c) PROVE All
  <2>1. KeptBut({Main}) /\ Gains(Main, Rem(c))
    BY <1>16, ConnPushWaits
  <2> QED BY <1>5, <1>6, <1>13, <2>1, LoopSets
<1>17. ASSUME NEW t \in Threads, NEW c \in Made, ConnectEstablished(t, c) \/ ConnectDestroyed(t, c)
       PROVE  All
  <2>1. KeptBut({t}) /\ (Loses(t, Est(c)) \/ Loses(t, Des(c))) /\ t \in Loops
    BY <1>17, ConnCallWaits, LoopSets
  <2> QED BY <1>5, <1>7, <2>1
<1> QED
  BY <1>8, <1>9, <1>10, <1>11, <1>12, <1>14, <1>15, <1>16, <1>17, WaitingFrame, Zenon
  DEF Leaves, Accepts, Removes, Closes, Establishes, Destroys, Ends

\* A functor that did not wait keeps the order when it is appended.
LEMMA OrderGains ==
  ASSUME TypeOK, Stages, NEW l \in Loops, NEW g \in Functors, Gains(l, g), NEW c,
         OrderOf(c, Waiting(l)),
         g[2] = c => ~In(g, Waiting(l)) /\ (g = Est(c) => ~In(Des(c), Waiting(l)))
  PROVE  OrderOf(c, Waiting(l)')
<1>1. /\ \A f : Once(f, Waiting(l)) /\ (f # g \/ ~In(g, Waiting(l))) => Once(f, Waiting(l)')
      /\ \A f, h : Before(f, h, Waiting(l)) /\ (f # g \/ ~In(h, Waiting(l))) /\ f # h
                     => Before(f, h, Waiting(l)')
  BY WaitingMeans
<1>2. ASSUME NEW f \in {Est(c), Rem(c), Des(c)} PROVE f # g \/ ~In(g, Waiting(l))
  BY FunctorNames
<1>3. Once(Est(c), Waiting(l)') /\ Once(Rem(c), Waiting(l)') /\ Once(Des(c), Waiting(l)')
  BY <1>1, <1>2 DEF OrderOf
<1>4. Before(Est(c), Des(c), Waiting(l)')
  BY <1>1, FunctorNames DEF OrderOf
<1> QED BY <1>3, <1>4 DEF OrderOf

\* Calling or dropping functors keeps the order of the others.
LEMMA OrderLoses ==
  ASSUME TypeOK, Stages, NEW l \in Loops, NEW c, OrderOf(c, Waiting(l)),
         Kept(l) \/ (\E g : Loses(l, g)) \/ Waiting(l)' = << >>
  PROVE  OrderOf(c, Waiting(l)')
<1>1. CASE Kept(l)
  BY <1>1 DEF Kept
<1>2. ASSUME NEW g, Loses(l, g) PROVE OrderOf(c, Waiting(l)')
  BY <1>2, WaitingMeans DEF OrderOf
<1>3. CASE Waiting(l)' = << >>
  BY <1>3, NothingWaits DEF OrderOf
<1> QED BY <1>1, <1>2, <1>3

\* removeConnection runs only while the server holds the connection.
LEMMA RemovesHeld ==
  ASSUME TypeOK, Phases, Stages, Served, Lives, NEW c \in Made, RemoveConnectionInLoop(c)
  PROVE  /\ c \in connections /\ conn[c].downs = 1 /\ pc[Main] = "batch"
         /\ serverPc = "alive" /\ In(Rem(c), Waiting(Main))
<1>1. Loses(Main, Rem(c)) /\ pc[Main] = "batch"
  BY RemoveWaits DEF RemoveConnectionInLoop, Calls
<1>2. In(Rem(c), Waiting(Main))
  BY <1>1, WaitingMeans, LoopSets
<1>3. serverPc = "alive"
  BY <1>1 DEF Phases
<1>4. PICK l \in Threads : l = conn[c].loop
  BY ConnLoop
<1>5. TokenOf(c, l)
  BY <1>4 DEF Lives
<1> QED BY <1>1, <1>2, <1>3, <1>5 DEF TokenOf

\* Orders is inductive.
LEMMA OrdersStep ==
  ASSUME TypeOK, Pool, Phases, Stages, Served, Places, Orders, Lives, Actives, Channels, Next
  PROVE  Orders'
<1> DEFINE OK(l) == \A c \in Made' : OrderOf(c, Waiting(l)')
<1>1. ASSUME NEW l \in Loops, NEW c \in Made' PROVE OrderOf(c, Waiting(l))
  <2>1. CASE c \in Made
    BY <2>1 DEF Orders
  <2>2. CASE c \notin Made
    <3>1. c # 0
      <4>1. conn' \in Seq(ConnRecord) /\ Made' = 1..Len(conn') /\ Len(conn') \in Nat
        BY ConnStep, LenProperties DEF Made
      <4> QED BY <4>1
    <3>2. ~In(Est(c), Waiting(l)) /\ ~In(Rem(c), Waiting(l)) /\ ~In(Des(c), Waiting(l))
      BY <2>2, <3>1, NoneWaits, FunctorNames
    <3> QED BY <3>2 DEF OrderOf, Once, Before, In
  <2> QED BY <2>1, <2>2
<1>2. ASSUME NEW l \in Loops, Kept(l) \/ (\E g : Loses(l, g)) \/ Waiting(l)' = << >> PROVE OK(l)
  BY <1>1, <1>2, OrderLoses
<1>3. ASSUME NEW l \in Loops, NEW g \in Functors, Gains(l, g), ~In(g, Waiting(l)),
             \A c \in Made' : g = Est(c) => ~In(Des(c), Waiting(l))
      PROVE  OK(l)
  BY <1>1, <1>3, OrderGains
<1> HIDE DEF OK
<1>5. ASSUME NEW l \in Loops, NEW L, KeptBut(L), l \notin L PROVE OK(l)
  BY <1>2, <1>5 DEF KeptBut
<1> DEFINE All == \A l \in Loops : OK(l)
<1> SUFFICES All
  BY DEF OK, Orders
<1>8. CASE KeptBut({})
  BY <1>5, <1>8
<1>9. CASE Listen
  <2>1. KeptBut({Main}) /\ Loses(Main, <<"listen", 0>>)
    BY <1>9, ListenWaits
  <2> QED BY <1>2, <1>5, <2>1, LoopSets
<1>7. CASE StartListen
  <2> DEFINE g == <<"listen", 0>>
  <2>0. g \in Functors /\ g[2] = 0 /\ 0 \notin Made'
    <3>1. conn' \in Seq(ConnRecord) /\ Made' = 1..Len(conn') /\ Len(conn') \in Nat
      BY ConnStep, LenProperties DEF Made
    <3> QED BY <3>1, ServerAssumption DEF Functors
  <2>1. KeptBut({}) \/ (KeptBut({Main}) /\ Gains(Main, g))
    BY <1>7, ListenWaits
  <2> HIDE DEF g
  <2>2. Gains(Main, g) => OK(Main)
    BY <1>1, <2>0, OrderGains, LoopSets DEF OK
  <2> QED BY <1>5, <1>8, <2>1, <2>2
<1>10. ASSUME NEW t \in Threads, LeavesLoop(t) PROVE All
  <2>1. KeptBut({t}) /\ Waiting(t)' = << >> /\ t \in Loops
    BY <1>10, LeavesWaits, LoopSets
  <2> QED BY <1>2, <1>5, <2>1
<1>11. CASE DestroyMainLoop
  <2>1. KeptBut({Main}) /\ Waiting(Main)' = << >>
    BY <1>11, DestroyMainWaits
  <2> QED BY <1>2, <1>5, <2>1
<1>12. ASSUME NEW fd \in Fds, NewConnection(fd) PROVE All
  <2>1. CASE MakesNone
    BY <1>8, <2>1 DEF MakesNone
  <2>2. ASSUME NEW n \in Nat, NEW peer \in Peers, NEW l \in Threads, Makes(fd, n, peer, l)
        PROVE  All
    <3>1. KeptBut({l}) /\ Gains(l, Est(n)) /\ l \in Loops /\ n \notin Made /\ n # 0
      BY <2>2, LoopSets DEF Makes
    <3>2. Est(n) \in Functors
      BY <2>2, ServerAssumption DEF Makes, Est, Functors
    <3>3. ~In(Est(n), Waiting(l)) /\ ~In(Des(n), Waiting(l))
      BY <3>1, NoneWaits, FunctorNames
    <3>4. \A c : Est(n) = Est(c) => c = n
      BY FunctorNames
    <3>5. OK(l)
      BY <1>3, <3>1, <3>2, <3>3, <3>4
    <3> QED BY <1>5, <3>1, <3>5
  <2> QED BY <1>12, <2>1, <2>2, NewWaits
<1>13. ASSUME NEW c \in Made
       PROVE  /\ Rem(c) \in Functors /\ Des(c) \in Functors
              /\ \A d : Rem(c) # Est(d) /\ Des(c) # Est(d)
  BY MadeIs DEF Rem, Des, Est
<1>14. ASSUME NEW c \in Made, RemoveConnectionInLoop(c) PROVE All
  <2>1. PICK l \in Threads : l = conn[c].loop /\ l \in Loops
    BY ConnLoop
  <2>2. KeptBut({Main, l}) /\ Loses(Main, Rem(c)) /\ Gains(l, Des(c))
    BY <1>14, <2>1, RemoveWaits
  <2>3. ~In(Des(c), Waiting(l))
    BY <1>14, <2>1, RemovesHeld DEF Lives, TokenOf
  <2>4. OK(Main)
    BY <1>2, <2>2, LoopSets
  <2>5. OK(l)
    BY <1>3, <1>13, <2>1, <2>2, <2>3
  <2> QED BY <1>5, <2>2, <2>4, <2>5
<1>15. ASSUME NEW c \in Made, DestroyConnection(c) PROVE All
  <2>1. PICK l \in Threads : l = conn[c].loop /\ l \in Loops
    BY ConnLoop
  <2>2. KeptBut({l}) /\ Gains(l, Des(c)) /\ c \in connections
    BY <1>15, <2>1, ConnPushWaits DEF DestroyConnection
  <2>3. ~In(Des(c), Waiting(l))
    BY <2>1, <2>2 DEF Lives, TokenOf
  <2>4. OK(l)
    BY <1>3, <1>13, <2>1, <2>2, <2>3
  <2> QED BY <1>5, <2>2, <2>4
<1>16. ASSUME NEW t \in Threads, NEW c \in Made, HandleClose(t, c) PROVE All
  <2>1. KeptBut({Main}) /\ Gains(Main, Rem(c))
    BY <1>16, ConnPushWaits
  <2>2. ~In(Rem(c), Waiting(Main))
    <3>1. t = conn[c].loop /\ conn[c].downs = 0
      BY <1>16, ClosesConnected
    <3> QED BY <3>1 DEF Lives, TokenOf
  <2>3. OK(Main)
    BY <1>3, <1>13, <2>1, <2>2, LoopSets
  <2> QED BY <1>5, <2>1, <2>3
<1>17. ASSUME NEW t \in Threads, NEW c \in Made, ConnectEstablished(t, c) \/ ConnectDestroyed(t, c)
       PROVE  All
  <2>1. KeptBut({t}) /\ (Loses(t, Est(c)) \/ Loses(t, Des(c))) /\ t \in Loops
    BY <1>17, ConnCallWaits, LoopSets
  <2> QED BY <1>2, <1>5, <2>1
<1> QED
  BY <1>8, <1>9, <1>7, <1>10, <1>11, <1>12, <1>14, <1>15, <1>16, <1>17, WaitingFrame, Zenon
  DEF Leaves, Accepts, Removes, Closes, Establishes, Destroys, Ends
-----------------------------------------------------------------------------
(***************************************************************************)
(* The life of a connection                                                *)
(***************************************************************************)

\* Actives is inductive.
LEMMA ActivesStep ==
  ASSUME TypeOK, Pool, Phases, Stages, Served, Places, Orders, Lives, Actives, Channels, Next
  PROVE  Actives'
<1>0. active \in [Loops -> SUBSET (0..MaxConns)] /\ conn \in Seq(ConnRecord)
  BY DEF TypeOK
<1> DEFINE OK(l, c) == \/ c = 0 /\ l = Main
                       \/ c \in Made' /\ conn'[c].loop = l /\ conn'[c].channel.registered
<1> SUFFICES ASSUME NEW l \in Loops, NEW c \in active'[l] PROVE OK(l, c)
  BY DEF Actives
<1>1. Lasting
  BY ConnStep
<1>2. ASSUME NEW m \in Loops, NEW ready \in SUBSET Ready(m), Polls(m, ready)
      PROVE  OK(l, c)
  <2>1. conn' = conn /\ active' = [active EXCEPT ![m] = ready]
    BY <1>2 DEF Polls, connVars
  <2>2. CASE m = l
    <3>1. c \in Ready(l)
      BY <1>0, <2>1, <2>2
    <3>2. \/ c = 0 /\ l = Main
          \/ c \in Made /\ conn[c].loop = l /\ conn[c].channel.registered
      BY <3>1 DEF Ready
    <3> QED BY <2>1, <3>2 DEF Made
  <2>3. CASE m # l
    <3>1. c \in active[l]
      BY <1>0, <2>1, <2>3
    <3> QED BY <2>1, <3>1 DEF Actives, Made
  <2> QED BY <2>2, <2>3
<1>3. CASE c \in active[l]
  <2>1. (c = 0 /\ l = Main) \/ (c \in Made /\ conn[c].loop = l /\ conn[c].channel.registered)
    BY <1>3 DEF Actives
  <2>2. CASE c = 0 /\ l = Main
    BY <2>2
  <2>3. CASE c \in Made /\ conn[c].loop = l /\ conn[c].channel.registered
    <3>0. l \in Threads /\ pc[l] = "dispatch"
      BY <1>3, <2>3, ConnLoop DEF Stages
    <3>1. c \in Made' /\ conn'[c].loop = l
      BY <1>1, <2>3 DEF Lasting
    <3>2. ASSUME NEW d \in Made, Updates(d), conn'[d].channel.registered \/ d # c
          PROVE  conn'[c].channel.registered
      BY <2>3, <3>2 DEF Updates
    <3>3. ASSUME NEW d \in Made, PeerCloses(d) \/ Shutdown(d)
          PROVE  conn'[c].channel.registered
      <4>1. Updates(d) /\ conn'[d].channel = conn[d].channel
        BY <1>0, <3>3, PeerClosesConn, ShutdownConn
      <4> QED BY <2>3, <3>2, <4>1
    <3>4. ASSUME NEW t \in Threads, NEW d \in Made, HandleClose(t, d)
          PROVE  conn'[c].channel.registered
      <4>1. t = conn[d].loop /\ conn[d].downs = 0 /\ Sound(conn[d].channel) /\ t \in Loops
        BY <3>4, ClosesConnected, LoopSets DEF Channels
      <4>2. Updates(d)
        BY <1>0, <3>4, <4>1, HandleCloseConn
      <4>3. active'[t] = active[t] \ {d}
        BY <1>0, <3>4, <4>1 DEF HandleClose, Handles
      <4>4. d # c
        BY <2>3, <4>1, <4>3
      <4> QED BY <3>2, <4>2, <4>4
    <3>5. ASSUME NEW t \in Threads, NEW d \in Made, ConnectEstablished(t, d)
          PROVE  conn'[c].channel.registered
      <4>1. conn[d].ups = 0 /\ Sound(conn[d].channel) /\ conn[d].channel = NewChannel
        BY <3>5, EstablishesConnecting DEF Channels
      <4>2. Updates(d) /\ d # c
        BY <1>0, <2>3, <3>5, <4>1, EstablishedConn, NewChannelSound
      <4> QED BY <3>2, <4>2
    <3>6. ASSUME NEW t \in Threads, NEW d \in Made, ConnectDestroyed(t, d)
          PROVE  conn'[c].channel.registered
      <4>1. t = conn[d].loop /\ pc[t] = "batch" /\ Sound(conn[d].channel)
        BY <3>6, DestroysEstablished DEF Channels
      <4>2. Updates(d)
        BY <1>0, <3>6, <4>1, DestroysEstablished, DestroyedConn
      <4>3. d # c
        BY <2>3, <3>0, <4>1
      <4> QED BY <3>2, <4>2, <4>3
    <3>7. ASSUME NEW fd \in Fds, NewConnection(fd) PROVE conn'[c].channel.registered
      <4>1. CASE MakesNone
        BY <2>3, <4>1 DEF MakesNone
      <4>2. ASSUME NEW n \in Nat, NEW peer \in Peers, NEW t \in Threads, Makes(fd, n, peer, t)
            PROVE  conn'[c] = conn[c]
        BY <2>3, <4>2, MadeOne
      <4> QED BY <2>3, <3>7, <4>1, <4>2, NewWaits
    <3>8. conn'[c].channel.registered
      BY <2>3, <3>3, <3>4, <3>5, <3>6, <3>7, ConnFrame
      DEF PeerGoes, Shuts, Closes, Establishes, Destroys, Accepts
    <3> QED BY <3>1, <3>8
  <2> QED BY <2>1, <2>2, <2>3
<1>4. ASSUME NEW m, NEW d, Handles(m, d) PROVE c \in active[l]
  <2>1. active' = [active EXCEPT ![m] = active[m] \ {d}]
    BY <1>4 DEF Handles
  <2> QED BY <1>0, <2>1
<1>5. AcceptFails \/ Accepts \/ Closes => c \in active[l]
  BY <1>4 DEF AcceptFails, Accepts, NewConnection, Closes, HandleClose
<1> QED BY <1>2, <1>3, <1>5, ActiveFrame DEF PollsSome
-----------------------------------------------------------------------------
\* Nobody brings a connection back that is gone.
LEMMA AliveStep ==
  ASSUME TypeOK, Pool, Phases, Stages, Served, Places, Orders, Lives, Actives, Channels, Next,
         NEW c \in Made, Alive(c)'
  PROVE  Alive(c)
<1>1. queue' \in [Loops -> Seq(Functors)] /\ batch' \in [Loops -> Seq(Functors)]
  BY QueueStep
<1>2. Alive(c)' <=> c \in connections' \/ HeldIn(c, queue', batch')
  <2>1. (\E l \in Loops : \E f \in Range(queue'[l] \o batch'[l]) : f[2] = c)
          <=> HeldIn(c, queue', batch')
    BY <1>1, HeldIs
  <2>2. Alive(c)' <=>
          c \in connections' \/ \E l \in Loops : \E f \in Range(queue'[l] \o batch'[l]) : f[2] = c
    BY DEF Alive, Range
  <2> QED BY <2>1, <2>2
<1>3. CASE HeldIn(c, queue', batch')
  <2>1. PICK l \in Loops : \E f : Holds(l, f)' /\ f[2] = c
    BY <1>3 DEF HeldIn, Holds
  <2>2. PICK f : Holds(l, f)' /\ f[2] = c
    BY <2>1
  <2>3. Holds(l, f) \/ Alive(f[2])
    BY <2>2, QueueStep
  <2> QED BY <2>2, <2>3, HoldsAlive
<1>4. CASE c \in connections'
  <2>1. c \in connections
    <3>1. ASSUME NEW fd \in Fds, NewConnection(fd) PROVE c \in connections
      <4>1. CASE MakesNone
        BY <1>4, <4>1 DEF MakesNone
      <4>2. ASSUME NEW n \in Nat, NEW peer \in Peers, NEW l \in Threads, Makes(fd, n, peer, l)
            PROVE  c \in connections
        BY <1>4, <4>2 DEF Makes
      <4> QED BY <3>1, <4>1, <4>2, NewWaits
    <3>2. Removes \/ Ends => connections' \subseteq connections
      BY DEF Removes, Ends, RemoveConnectionInLoop, DestroyConnection
    <3> QED BY <1>4, <3>1, <3>2, ConnectionsFrame DEF Accepts
  <2> QED BY <2>1 DEF Alive
<1> QED BY <1>2, <1>3, <1>4

\* accept returns a descriptor that is free.
LEMMA DescriptorsStep ==
  ASSUME TypeOK, Pool, Phases, Stages, Served, Places, Orders, Lives, Actives, Channels,
         Descriptors, Next
  PROVE  Descriptors'
<1>1. Lasting
  BY ConnStep
<1>2. \A c \in Made : Alive(c)' => Alive(c)
  BY AliveStep
<1>3. \A c, d \in Made : Alive(c)' /\ Alive(d)' /\ conn'[c].fd = conn'[d].fd => c = d
  BY <1>1, <1>2 DEF Lasting, Descriptors
<1>4. CASE Made' = Made
  BY <1>3, <1>4 DEF Descriptors
<1>5. ASSUME NEW fd \in Fds, NewConnection(fd) PROVE Descriptors'
  <2>1. CASE MakesNone
    BY <1>4, <2>1 DEF MakesNone, Made
  <2>2. ASSUME NEW n \in Nat, NEW peer \in Peers, NEW l \in Threads, Makes(fd, n, peer, l)
        PROVE  Descriptors'
    <3>1. Made' = Made \cup {n} /\ conn'[n] = Connection(peer, l, fd)
      BY <2>2, MadeOne
    <3>2. conn'[n].fd = fd
      BY <3>1 DEF Connection
    <3>3. fd \notin FdsInUse
      BY <1>5 DEF NewConnection
    <3>4. \A d \in Made : Alive(d)' => conn'[d].fd # fd
      BY <1>1, <1>2, <3>3 DEF FdsInUse, Lasting
    <3> QED BY <1>3, <3>1, <3>2, <3>4 DEF Descriptors
  <2> QED BY <1>5, <2>1, <2>2, NewWaits
<1> QED BY <1>4, <1>5, ConnStep DEF Accepts
-----------------------------------------------------------------------------
\* f waits in l after the step exactly if it did before.
Still(l, f) == In(f, Waiting(l)') <=> In(f, Waiting(l))

\* A functor still waits after a step that appends or calls another one.
LEMMA StillWaits ==
  ASSUME TypeOK, Stages, NEW l \in Loops, NEW f,
         \/ Kept(l)
         \/ \E g \in Functors : Gains(l, g) /\ g # f
         \/ \E g : Loses(l, g) /\ g # f
  PROVE  Still(l, f)
<1>1. CASE Kept(l)
  BY <1>1 DEF Kept, Still
<1>2. ASSUME NEW g \in Functors, Gains(l, g), g # f PROVE Still(l, f)
  BY <1>2, WaitingMeans DEF Still
<1>3. ASSUME NEW g, Loses(l, g), g # f PROVE Still(l, f)
  BY <1>3, WaitingMeans DEF Still
<1> QED BY <1>1, <1>2, <1>3

\* The functors of c, of loop l, that wait are the same after the step.
Untouched(c, l) == Still(l, Est(c)) /\ Still(l, Des(c)) /\ Still(Main, Rem(c))

\* The functors of c are untouched by a step that is about other functors.
LEMMA UntouchedBy ==
  ASSUME TypeOK, Stages, NEW c, NEW l \in Threads, NEW L, KeptBut(L),
         \A m \in L : \/ Kept(m)
                      \/ \E g \in Functors : Gains(m, g) /\ g[2] # c
                      \/ \E g : Loses(m, g) /\ g[2] # c
  PROVE  Untouched(c, l)
<1>1. ASSUME NEW m \in Loops, NEW f, f[2] = c PROVE Still(m, f)
  <2>1. \/ Kept(m)
        \/ \E g \in Functors : Gains(m, g) /\ g # f
        \/ \E g : Loses(m, g) /\ g # f
    BY <1>1 DEF KeptBut
  <2> QED BY <2>1, StillWaits
<1> QED BY <1>1, FunctorNames, LoopSets DEF Untouched

\* What the invariant says of the life of a connection has not changed.
SameLife(c, l) ==
  /\ conn'[c].state = conn[c].state /\ conn'[c].channel = conn[c].channel
  /\ conn'[c].ups = conn[c].ups /\ conn'[c].downs = conn[c].downs
  /\ conn'[c].destroyed = conn[c].destroyed

SameBooks(c, l) ==
  /\ (pc'[l] = "left") = (pc[l] = "left")
  /\ c \in connections' <=> c \in connections
  /\ c \in dropped' <=> c \in dropped

\* A connection that a step leaves alone, its functors included, keeps its life.
LEMMA LivesOn ==
  ASSUME NEW c, NEW l, StateOf(c, l), TokenOf(c, l), SameLife(c, l), SameBooks(c, l),
         Untouched(c, l), serverPc' = "alive" => serverPc = "alive"
  PROVE  StateOf(c, l)' /\ TokenOf(c, l)'
<1>1. StateOf(c, l)'
  BY DEF StateOf, SameLife, SameBooks, Untouched, Still
<1>2. TokenOf(c, l)'
  BY DEF TokenOf, SameLife, SameBooks, Untouched, Still
<1> QED BY <1>1, <1>2

\* The destructor is not undone.
LEMMA StaysDead ==
  ASSUME Next
  PROVE  serverPc' = "alive" => serverPc = "alive"
  BY ServerFrame DEF Destroy, QuitThread, Join, DestroyAcceptor

\* The steps that are about connection c of loop l.
About(c, l) ==
  \/ \E t \in Threads : HandleClose(t, c) \/ ConnectEstablished(t, c) \/ ConnectDestroyed(t, c)
  \/ RemoveConnectionInLoop(c) \/ DestroyConnection(c) \/ LeavesLoop(l) \/ DestroyMainLoop
  \/ Shutdown(c)

\* A step that is not about c leaves its record alone.
LEMMA OthersLife ==
  ASSUME TypeOK, Pool, Phases, Stages, Served, Places, Orders, Lives, Actives, Channels, Next,
         NEW c \in Made, NEW l \in Threads, l = conn[c].loop, ~About(c, l)
  PROVE  SameLife(c, l)
<1>0. conn \in Seq(ConnRecord) /\ \A d \in Made : Sound(conn[d].channel)
  BY DEF TypeOK, Channels
<1>1. CASE conn' = conn
  BY <1>1 DEF SameLife
<1>2. ASSUME NEW d \in Made, Updates(d), d # c PROVE SameLife(c, l)
  BY <1>2 DEF Updates, SameLife
<1>3. ASSUME NEW d \in Made, PeerCloses(d) PROVE SameLife(c, l)
  <2>1. /\ Updates(d)
        /\ conn'[d].state = conn[d].state /\ conn'[d].channel = conn[d].channel
        /\ conn'[d].ups = conn[d].ups /\ conn'[d].downs = conn[d].downs
        /\ conn'[d].destroyed = conn[d].destroyed
    BY <1>0, <1>3, PeerClosesConn
  <2> QED BY <1>2, <2>1 DEF SameLife
<1>4. ASSUME NEW t \in Threads, NEW d \in Made, HandleClose(t, d) PROVE SameLife(c, l)
  <2>1. conn[d].downs = 0
    BY <1>4, ClosesConnected
  <2>2. Updates(d)
    BY <1>0, <1>4, <2>1, HandleCloseConn
  <2> QED BY <1>2, <1>4, <2>2 DEF About
<1>5. ASSUME NEW t \in Threads, NEW d \in Made, ConnectEstablished(t, d) PROVE SameLife(c, l)
  <2>1. conn[d].ups = 0
    BY <1>5, EstablishesConnecting
  <2>2. Updates(d)
    BY <1>0, <1>5, <2>1, EstablishedConn
  <2> QED BY <1>2, <1>5, <2>2 DEF About
<1>6. ASSUME NEW t \in Threads, NEW d \in Made, ConnectDestroyed(t, d) PROVE SameLife(c, l)
  <2>1. Updates(d)
    BY <1>0, <1>6, DestroysEstablished, DestroyedConn
  <2> QED BY <1>2, <1>6, <2>1 DEF About
<1>7. ASSUME NEW fd \in Fds, NewConnection(fd) PROVE SameLife(c, l)
  <2>1. CASE MakesNone
    BY <1>1, <2>1 DEF MakesNone
  <2>2. ASSUME NEW n \in Nat, NEW peer \in Peers, NEW t \in Threads, Makes(fd, n, peer, t)
        PROVE  SameLife(c, l)
    BY <2>2, MadeOne DEF SameLife
  <2> QED BY <1>7, <2>1, <2>2, NewWaits
<1>8. ASSUME NEW d \in Made, Shutdown(d) PROVE SameLife(c, l)
  BY <1>0, <1>2, <1>8, ShutdownConn DEF About
<1> QED
  BY <1>1, <1>3, <1>4, <1>5, <1>6, <1>7, <1>8, ConnFrame
  DEF PeerGoes, Shuts, Closes, Establishes, Destroys, Accepts

\* What a loop drops is of its own connections.
LEMMA DropsOwn ==
  ASSUME TypeOK, Stages, Served, Places, NEW t \in Threads, LeavesLoop(t), NEW c \in Made
  PROVE  /\ c \in dropped' <=> c \in dropped \/ In(Des(c), Waiting(t))
         /\ In(Des(c), Waiting(t)) => t = conn[c].loop
<1>1. Waiting(t) = queue[t] /\ t # Main /\ t \in Loops
  BY LeavesWaits, LoopSets
<1>2. dropped' = dropped \cup {d \in Made : t # Main /\ <<"destroyed", d>> \in Range(queue[t])}
  BY DEF LeavesLoop
<1>3. <<"destroyed", c>> \in Range(queue[t]) <=> In(Des(c), Waiting(t))
  BY <1>1 DEF Range, In, Des
<1>4. Des(c) \in Functors
  BY MadeIs
<1>5. In(Des(c), Waiting(t)) => t = conn[c].loop
  BY <1>1, <1>4, FunctorNames DEF Places, Place
<1> QED BY <1>1, <1>2, <1>3, <1>5

\* What the server's books and the loop's thread say of c changes only in the steps
\* that say so.
LEMMA OthersBooks ==
  ASSUME TypeOK, Pool, Phases, Stages, Served, Places, Orders, Lives, Actives, Channels, Next,
         NEW c \in Made, NEW l \in Threads, l = conn[c].loop
  PROVE  /\ LeavesLoop(l) \/ (pc'[l] = "left") = (pc[l] = "left")
         /\ LeavesLoop(l) \/ (c \in dropped' <=> c \in dropped)
         /\ \/ RemoveConnectionInLoop(c) \/ DestroyConnection(c)
            \/ (c \in connections' <=> c \in connections)
<1>1. LeavesLoop(l) \/ (pc'[l] = "left") = (pc[l] = "left")
  BY LeftFrame
<1>2. LeavesLoop(l) \/ (c \in dropped' <=> c \in dropped)
  <2>1. ASSUME NEW t \in Threads, LeavesLoop(t), t # l PROVE c \in dropped' <=> c \in dropped
    BY <2>1, DropsOwn
  <2>2. ASSUME LeavesLoop(Main) PROVE dropped' = dropped
    BY <2>2 DEF LeavesLoop
  <2> QED BY <2>1, <2>2, DroppedFrame, LoopSets
<1>3. \/ RemoveConnectionInLoop(c) \/ DestroyConnection(c)
      \/ (c \in connections' <=> c \in connections)
  <2>1. ASSUME NEW d \in Made, d # c, RemoveConnectionInLoop(d) \/ DestroyConnection(d)
        PROVE  c \in connections' <=> c \in connections
    BY <2>1 DEF RemoveConnectionInLoop, DestroyConnection
  <2>2. ASSUME NEW fd \in Fds, NewConnection(fd) PROVE c \in connections' <=> c \in connections
    <3>1. CASE MakesNone
      BY <3>1 DEF MakesNone
    <3>2. ASSUME NEW n \in Nat, NEW peer \in Peers, NEW t \in Threads, Makes(fd, n, peer, t)
          PROVE  c \in connections' <=> c \in connections
      BY <3>2 DEF Makes
    <3> QED BY <2>2, <3>1, <3>2, NewWaits
  <2> QED BY <2>1, <2>2, ConnectionsFrame DEF Removes, Ends, Accepts
<1> QED BY <1>1, <1>2, <1>3

\* A step that is not about c leaves its functors alone.
LEMMA OthersWait ==
  ASSUME TypeOK, Pool, Phases, Stages, Served, Places, Orders, Lives, Actives, Channels, Next,
         NEW c \in Made, NEW l \in Threads, l = conn[c].loop, ~About(c, l)
  PROVE  Untouched(c, l)
<1>0. c # 0 /\ Main \in Loops /\ Main \notin Threads
  BY MadeIs, LoopSets
<1>1. CASE KeptBut({})
  BY <1>1, UntouchedBy
<1>2. ASSUME NEW m \in Loops, KeptBut({m}),
             \/ \E g \in Functors : Gains(m, g) /\ g[2] # c
             \/ \E g : Loses(m, g) /\ g[2] # c
      PROVE  Untouched(c, l)
  BY <1>2, UntouchedBy
<1>3. CASE StartListen \/ Listen
  <2>1. <<"listen", 0>> \in Functors /\ <<"listen", 0>>[2] # c
    BY <1>0, ServerAssumption DEF Functors
  <2>2. \/ KeptBut({})
        \/ KeptBut({Main}) /\ (Gains(Main, <<"listen", 0>>) \/ Loses(Main, <<"listen", 0>>))
    BY <1>3, ListenWaits
  <2> QED BY <1>0, <1>1, <1>2, <2>1, <2>2
<1>4. ASSUME NEW t \in Threads, LeavesLoop(t) PROVE Untouched(c, l)
  <2>1. t # l /\ t # Main
    BY <1>4, LoopSets DEF About
  <2>2. KeptBut({t}) /\ l \in Loops
    BY <1>4, LeavesWaits, LoopSets
  <2>3. Kept(l) /\ Kept(Main)
    BY <1>0, <2>1, <2>2 DEF KeptBut
  <2> QED BY <1>0, <2>2, <2>3, StillWaits DEF Untouched
<1>5. ASSUME NEW fd \in Fds, NewConnection(fd) PROVE Untouched(c, l)
  <2>1. CASE MakesNone
    BY <1>1, <2>1 DEF MakesNone
  <2>2. ASSUME NEW n \in Nat, NEW peer \in Peers, NEW t \in Threads, Makes(fd, n, peer, t)
        PROVE  Untouched(c, l)
    <3>1. KeptBut({t}) /\ Gains(t, Est(n)) /\ t \in Loops /\ n # c
      BY <2>2, LoopSets DEF Makes
    <3>2. Est(n) \in Functors /\ Est(n)[2] # c
      BY <2>2, <3>1, ServerAssumption DEF Makes, Est, Functors
    <3> QED BY <1>2, <3>1, <3>2
  <2> QED BY <1>5, <2>1, <2>2, NewWaits
<1>6. ASSUME NEW d \in Made, d # c
      PROVE  /\ Rem(d) \in Functors /\ Des(d) \in Functors
             /\ Est(d)[2] # c /\ Rem(d)[2] # c /\ Des(d)[2] # c
  BY <1>6, MadeIs, FunctorNames
<1>7. ASSUME NEW d \in Made, RemoveConnectionInLoop(d) PROVE Untouched(c, l)
  <2>1. PICK m \in Loops : m = conn[d].loop
    BY ConnLoop
  <2>2. KeptBut({Main, m}) /\ Loses(Main, Rem(d)) /\ Gains(m, Des(d)) /\ d # c
    BY <1>7, <2>1, RemoveWaits DEF About
  <2>3. \A k \in {Main, m} : \/ Kept(k)
                             \/ \E g \in Functors : Gains(k, g) /\ g[2] # c
                             \/ \E g : Loses(k, g) /\ g[2] # c
    BY <1>6, <2>2
  <2> QED BY <2>2, <2>3, UntouchedBy
<1>8. ASSUME NEW d \in Made, DestroyConnection(d) PROVE Untouched(c, l)
  <2>1. PICK m \in Loops : m = conn[d].loop
    BY ConnLoop
  <2>2. KeptBut({m}) /\ Gains(m, Des(d)) /\ d # c
    BY <1>8, <2>1, ConnPushWaits DEF About
  <2> QED BY <1>2, <1>6, <2>2
<1>9. ASSUME NEW t \in Threads, NEW d \in Made, HandleClose(t, d) PROVE Untouched(c, l)
  <2>1. d # c
    BY <1>9 DEF About
  <2>2. KeptBut({Main}) /\ Gains(Main, Rem(d))
    BY <1>9, ConnPushWaits
  <2> QED BY <1>0, <1>2, <1>6, <2>1, <2>2
<1>10. ASSUME NEW t \in Threads, NEW d \in Made,
              ConnectEstablished(t, d) \/ ConnectDestroyed(t, d)
       PROVE  Untouched(c, l)
  <2>1. d # c
    BY <1>10 DEF About
  <2>2. KeptBut({t}) /\ (Loses(t, Est(d)) \/ Loses(t, Des(d))) /\ t \in Loops
    BY <1>10, ConnCallWaits, LoopSets
  <2> QED BY <1>2, <1>6, <2>1, <2>2
<1>11. ~DestroyMainLoop
  BY DEF About
<1> QED
  BY <1>1, <1>3, <1>4, <1>5, <1>7, <1>8, <1>9, <1>10, <1>11, WaitingFrame, Zenon
  DEF Leaves, Accepts, Removes, Closes, Establishes, Destroys, Ends

\* handleClose of c.
LEMMA ClosesLives ==
  ASSUME TypeOK, Pool, Phases, Stages, Served, Places, Orders, Lives, Actives, Channels, Next,
         NEW c \in Made, NEW l \in Threads, l = conn[c].loop, NEW t \in Threads, HandleClose(t, c)
  PROVE  StateOf(c, l)' /\ TokenOf(c, l)'
<1>1. /\ conn[c].downs = 0 /\ conn[c].ups = 1
      /\ conn[c].channel.registered /\ ~conn[c].destroyed /\ t = l /\ pc[l] = "dispatch"
      /\ Sound(conn[c].channel)
  BY ClosesConnected DEF Channels
<1>2. /\ conn'[c].state = "kDisconnected" /\ conn'[c].downs = 1 /\ conn'[c].ups = 1
      /\ conn'[c].channel = DisableAll(conn[c].channel) /\ ~conn'[c].destroyed
  BY <1>1, HandleCloseConn DEF TypeOK
<1>3. ~conn'[c].channel.registered
  BY <1>1, <1>2, ChannelEffects
<1>4. StateOf(c, l) /\ TokenOf(c, l)
  BY DEF Lives
<1>5. UNCHANGED <<pc, connections, serverPc, dropped>>
  BY DEF HandleClose, endVars
<1>6. KeptBut({Main}) /\ Gains(Main, Rem(c)) /\ l \in Loops /\ l # Main
  BY ConnPushWaits, LoopSets
<1>7. Waiting(l)' = Waiting(l)
  BY <1>6 DEF KeptBut, Kept
<1>8. StateOf(c, l)'
  BY <1>1, <1>2, <1>3, <1>4, <1>7 DEF StateOf
<1>9. TokenOf(c, l)'
  BY <1>1, <1>2, <1>4, <1>5, <1>7 DEF TokenOf
<1> QED BY <1>8, <1>9

\* shutdown() of c changes its state only.
LEMMA ShutsLives ==
  ASSUME TypeOK, Pool, Phases, Stages, Served, Places, Orders, Lives, Actives, Channels, Next,
         NEW c \in Made, NEW l \in Threads, l = conn[c].loop, Shutdown(c)
  PROVE  StateOf(c, l)' /\ TokenOf(c, l)'
<1>1. /\ conn[c].ups = 1 /\ conn'[c].state = "kDisconnecting"
      /\ conn'[c].channel = conn[c].channel /\ conn'[c].ups = 1
      /\ conn'[c].downs = conn[c].downs /\ conn'[c].destroyed = conn[c].destroyed
  BY ShutdownConn DEF TypeOK
<1>2. StateOf(c, l) /\ TokenOf(c, l)
  BY DEF Lives
<1>3. UNCHANGED <<pc, connections, serverPc, dropped, queue, batch, called>>
  BY DEF Shutdown, endVars, loopVars
<1>4. \A m \in Loops : Waiting(m)' = Waiting(m)
  BY <1>3 DEF Waiting
<1>5. StateOf(c, l)'
  BY <1>1, <1>2, <1>4, LoopSets DEF StateOf
<1>6. TokenOf(c, l)'
  BY <1>1, <1>2, <1>3, <1>4, LoopSets DEF TokenOf
<1> QED BY <1>5, <1>6

\* connectEstablished of c.
LEMMA EstablishesLives ==
  ASSUME TypeOK, Pool, Phases, Stages, Served, Places, Orders, Lives, Actives, Channels, Next,
         NEW c \in Made, NEW l \in Threads, l = conn[c].loop, NEW t \in Threads,
         ConnectEstablished(t, c)
  PROVE  StateOf(c, l)' /\ TokenOf(c, l)'
<1>1. /\ conn[c].state = "kConnecting" /\ conn[c].downs = 0 /\ conn[c].ups = 0
      /\ conn[c].channel = NewChannel /\ ~conn[c].destroyed /\ t = l
  BY EstablishesConnecting
<1>2. /\ conn'[c].state = "kConnected" /\ conn'[c].downs = 0 /\ conn'[c].ups = 1
      /\ conn'[c].channel = EnableReading(NewChannel) /\ ~conn'[c].destroyed
  BY <1>1, NewChannelSound, EstablishedConn DEF TypeOK
<1>3. conn'[c].channel.registered
  BY <1>2, NewChannelSound, ChannelEffects
<1>4. StateOf(c, l) /\ TokenOf(c, l) /\ OrderOf(c, Waiting(l))
  BY LoopSets DEF Lives, Orders
<1>5. UNCHANGED <<pc, connections, serverPc, dropped>>
  BY DEF ConnectEstablished, endVars
<1>6. KeptBut({l}) /\ Loses(l, Est(c)) /\ l \in Loops /\ l # Main /\ Main \in Loops
  BY <1>1, ConnCallWaits, LoopSets
<1>7. Waiting(Main)' = Waiting(Main)
  BY <1>6 DEF KeptBut, Kept
<1>8. ~In(Est(c), Waiting(l)') /\ Still(l, Des(c))
  BY <1>4, <1>6, WaitingMeans, StillWaits, FunctorNames DEF OrderOf
<1>9. StateOf(c, l)'
  BY <1>2, <1>3, <1>8 DEF StateOf
<1>10. TokenOf(c, l)'
  BY <1>1, <1>2, <1>4, <1>5, <1>7, <1>8 DEF TokenOf, Still
<1> QED BY <1>9, <1>10

\* connectDestroyed of c.
LEMMA DestroysLives ==
  ASSUME TypeOK, Pool, Phases, Stages, Served, Places, Orders, Lives, Actives, Channels, Next,
         NEW c \in Made, NEW l \in Threads, l = conn[c].loop, NEW t \in Threads,
         ConnectDestroyed(t, c)
  PROVE  StateOf(c, l)' /\ TokenOf(c, l)'
<1>1. /\ conn[c].state # "kConnecting" /\ conn[c].ups = 1
      /\ conn[c].state = "kConnected" => conn[c].downs = 0
      /\ conn[c].state = "kDisconnected" => conn[c].downs = 1
      /\ c \notin connections /\ t = l /\ pc[l] = "batch" /\ Sound(conn[c].channel)
  BY DestroysEstablished DEF Channels
<1>2. /\ conn'[c].state \in {"kDisconnecting", "kDisconnected"} /\ conn'[c].ups = 1
      /\ conn'[c].state = "kDisconnected" => conn'[c].downs = 1
      /\ conn[c].downs = 1 => conn'[c].downs = 1
      /\ conn'[c].downs = 0 => conn[c].downs = 0
      /\ Sound(conn'[c].channel) /\ conn'[c].channel.index = "kNew" /\ conn'[c].destroyed
  BY <1>1, DestroyedConn DEF TypeOK
<1>3. ~conn'[c].channel.registered /\ ~conn'[c].channel.listed
  BY <1>2 DEF Sound, Agrees
<1>4. StateOf(c, l) /\ TokenOf(c, l) /\ OrderOf(c, Waiting(l))
  BY LoopSets DEF Lives, Orders
<1>5. UNCHANGED <<pc, connections, serverPc, dropped>>
  BY DEF ConnectDestroyed, endVars
<1>6. KeptBut({l}) /\ Loses(l, Des(c)) /\ l \in Loops /\ l # Main /\ Main \in Loops
  BY <1>1, ConnCallWaits, LoopSets
<1>7. Waiting(Main)' = Waiting(Main)
  BY <1>6 DEF KeptBut, Kept
<1>8. ~In(Des(c), Waiting(l)') /\ Still(l, Est(c))
  BY <1>4, <1>6, WaitingMeans, StillWaits, FunctorNames DEF OrderOf
<1>9. StateOf(c, l)'
  <2>1. ~In(Est(c), Waiting(l)')
    BY <1>1, <1>4, <1>8 DEF StateOf, Still
  <2> QED BY <1>2, <1>3, <2>1 DEF StateOf
<1>10. TokenOf(c, l)'
  BY <1>1, <1>2, <1>4, <1>5, <1>7, <1>8 DEF TokenOf
<1> QED BY <1>9, <1>10

\* removeConnectionInLoop and the destructor hand c from connections_ to its functor.
LEMMA HandsOver ==
  ASSUME TypeOK, Pool, Phases, Stages, Served, Places, Orders, Lives, Actives, Channels, Next,
         NEW c \in Made, NEW l \in Threads, l = conn[c].loop,
         RemoveConnectionInLoop(c) \/ DestroyConnection(c)
  PROVE  StateOf(c, l)' /\ TokenOf(c, l)'
<1>0. l \in Loops /\ l # Main /\ Main \in Loops /\ Des(c) \in Functors
  BY LoopSets, MadeIs
<1>1. StateOf(c, l) /\ TokenOf(c, l) /\ OrderOf(c, Waiting(Main))
  BY <1>0 DEF Lives, Orders
<1>2. UNCHANGED <<conn, pc, serverPc, dropped>> /\ connections' = connections \ {c}
  BY DEF RemoveConnectionInLoop, DestroyConnection, endVars
<1>3. c \in connections
  BY RemovesHeld DEF DestroyConnection
<1>4. Gains(l, Des(c))
  BY RemoveWaits, ConnPushWaits
<1>5. In(Des(c), Waiting(l)') /\ Still(l, Est(c))
  BY <1>0, <1>4, WaitingMeans, StillWaits, FunctorNames
<1>6. /\ In(Rem(c), Waiting(Main)') => conn[c].downs = 1
      /\ serverPc = "alive" => conn[c].downs = 1 /\ ~In(Rem(c), Waiting(Main)')
  <2>1. CASE RemoveConnectionInLoop(c)
    <3>1. conn[c].downs = 1 /\ Loses(Main, Rem(c))
      BY <2>1, RemovesHeld, RemoveWaits
    <3>2. ~In(Rem(c), Waiting(Main)')
      BY <1>0, <1>1, <3>1, WaitingMeans DEF OrderOf
    <3> QED BY <3>1, <3>2
  <2>2. CASE DestroyConnection(c)
    <3>1. KeptBut({l}) /\ serverPc = "connections"
      BY <2>2, ConnPushWaits DEF DestroyConnection
    <3>2. Waiting(Main)' = Waiting(Main)
      BY <1>0, <3>1 DEF KeptBut, Kept
    <3> QED BY <1>1, <3>1, <3>2 DEF TokenOf
  <2> QED BY <2>1, <2>2
<1>7. StateOf(c, l)'
  BY <1>1, <1>2, <1>5 DEF StateOf, Still
<1>8. TokenOf(c, l)'
  BY <1>1, <1>2, <1>3, <1>5, <1>6 DEF TokenOf
<1> QED BY <1>7, <1>8

\* A loop that ends drops the functors of its connections.
LEMMA LeavesLives ==
  ASSUME TypeOK, Pool, Phases, Stages, Served, Places, Orders, Lives, Actives, Channels, Next,
         NEW c \in Made, NEW l \in Threads, l = conn[c].loop, LeavesLoop(l)
  PROVE  StateOf(c, l)' /\ TokenOf(c, l)'
<1>0. l \in Loops /\ l # Main /\ Main \in Loops
  BY LoopSets
<1>1. StateOf(c, l) /\ TokenOf(c, l)
  BY DEF Lives
<1>2. UNCHANGED <<conn, connections, serverPc>> /\ pc'[l] = "left"
  BY <1>0 DEF LeavesLoop, LoopGoes, connVars, TypeOK
<1>3. KeptBut({l}) /\ Waiting(l)' = << >>
  BY LeavesWaits
<1>4. ~In(Est(c), Waiting(l)') /\ ~In(Des(c), Waiting(l)')
  BY <1>3, NothingWaits
<1>5. Waiting(Main)' = Waiting(Main)
  BY <1>0, <1>3 DEF KeptBut, Kept
<1>6. c \in dropped' <=> c \in dropped \/ In(Des(c), Waiting(l))
  BY DropsOwn
<1>7. StateOf(c, l)'
  BY <1>1, <1>2, <1>4 DEF StateOf
<1>8. TokenOf(c, l)'
  BY <1>1, <1>2, <1>4, <1>5, <1>6 DEF TokenOf
<1> QED BY <1>7, <1>8

\* The main loop ends after the server.
LEMMA MainEndsLives ==
  ASSUME TypeOK, Pool, Phases, Stages, Served, Places, Orders, Lives, Actives, Channels, Next,
         NEW c \in Made, NEW l \in Threads, l = conn[c].loop, DestroyMainLoop
  PROVE  StateOf(c, l)' /\ TokenOf(c, l)'
<1>0. l \in Loops /\ l # Main /\ Main \in Loops
  BY LoopSets
<1>1. StateOf(c, l) /\ TokenOf(c, l)
  BY DEF Lives
<1>2. UNCHANGED <<conn, connections, serverPc, dropped>> /\ pc'[l] = pc[l] /\ serverPc = "gone"
  BY <1>0 DEF DestroyMainLoop, LoopGoes, connVars, endVars, TypeOK
<1>3. KeptBut({Main}) /\ Waiting(Main)' = << >>
  BY DestroyMainWaits
<1>4. ~In(Rem(c), Waiting(Main)')
  BY <1>3, NothingWaits
<1>5. Waiting(l)' = Waiting(l)
  BY <1>0, <1>3 DEF KeptBut, Kept
<1>6. StateOf(c, l)'
  BY <1>1, <1>2, <1>5 DEF StateOf
<1>7. TokenOf(c, l)'
  BY <1>1, <1>2, <1>4, <1>5 DEF TokenOf
<1> QED BY <1>6, <1>7

\* A new connection.
LEMMA NewLives ==
  ASSUME TypeOK, Pool, Phases, Stages, Served, Places, Orders, Lives, Actives, Channels, Next,
         NEW fd \in Fds, NewConnection(fd),
         NEW n \in Nat, NEW peer \in Peers, NEW l \in Threads, Makes(fd, n, peer, l)
  PROVE  conn'[n].loop = l /\ StateOf(n, l)' /\ TokenOf(n, l)'
<1>0. l \in Loops /\ l # Main /\ Main \in Loops
  BY LoopSets
<1>1. conn'[n] = Connection(peer, l, fd) /\ n \notin Made /\ n # 0
  BY MadeOne DEF Makes
<1>2. /\ conn'[n].loop = l /\ conn'[n].state = "kConnecting" /\ conn'[n].ups = 0
      /\ conn'[n].downs = 0 /\ conn'[n].channel = NewChannel /\ ~conn'[n].destroyed
  BY <1>1 DEF Connection
<1>3. n \in connections' /\ n \notin dropped'
  <2>1. dropped' = dropped
    BY DEF NewConnection, endVars
  <2> QED BY <1>1, <2>1 DEF Makes, TypeOK
<1>4. KeptBut({l}) /\ Gains(l, Est(n)) /\ Est(n) \in Functors
  BY ServerAssumption DEF Makes, Est, Functors
<1>5. ~In(Des(n), Waiting(l)) /\ ~In(Rem(n), Waiting(Main))
  BY <1>0, <1>1, NoneWaits, FunctorNames
<1>6. In(Est(n), Waiting(l)') /\ ~In(Des(n), Waiting(l)')
  BY <1>0, <1>4, <1>5, WaitingMeans, FunctorNames
<1>7. ~In(Rem(n), Waiting(Main)')
  BY <1>0, <1>4, <1>5 DEF KeptBut, Kept
<1>8. StateOf(n, l)'
  BY <1>2, <1>6, NewChannelSound DEF StateOf
<1>9. TokenOf(n, l)'
  BY <1>2, <1>3, <1>6, <1>7 DEF TokenOf
<1> QED BY <1>2, <1>8, <1>9

\* Lives is inductive.
LEMMA LivesStep ==
  ASSUME TypeOK, Pool, Phases, Stages, Served, Places, Orders, Lives, Actives, Channels, Next
  PROVE  Lives'
<1>1. Lasting /\ (Made' = Made \/ Accepts)
  BY ConnStep
<1>2. ASSUME NEW c \in Made, NEW l \in Threads, l = conn'[c].loop
      PROVE  StateOf(c, l)' /\ TokenOf(c, l)'
  <2>1. l = conn[c].loop
    BY <1>1, <1>2 DEF Lasting
  <2>2. StateOf(c, l) /\ TokenOf(c, l)
    BY <2>1 DEF Lives
  <2>3. CASE ~About(c, l)
    <3>1. SameLife(c, l) /\ Untouched(c, l)
      BY <2>1, <2>3, OthersLife, OthersWait
    <3>2. SameBooks(c, l)
      BY <2>1, <2>3, OthersBooks DEF About, SameBooks
    <3> QED BY <2>2, <3>1, <3>2, LivesOn, StaysDead
  <2>4. CASE About(c, l)
    BY <2>1, <2>4, ClosesLives, ShutsLives, EstablishesLives, DestroysLives, HandsOver,
       LeavesLives, MainEndsLives
    DEF About
  <2> QED BY <2>3, <2>4
<1>3. CASE Made' = Made
  BY <1>2, <1>3 DEF Lives
<1>4. ASSUME NEW fd \in Fds, NewConnection(fd) PROVE Lives'
  <2>1. CASE MakesNone
    BY <1>3, <2>1 DEF MakesNone, Made
  <2>2. ASSUME NEW n \in Nat, NEW peer \in Peers, NEW m \in Threads, Makes(fd, n, peer, m)
        PROVE  Lives'
    <3>1. Made' = Made \cup {n}
      BY <2>2, MadeOne
    <3>2. conn'[n].loop = m /\ StateOf(n, m)' /\ TokenOf(n, m)'
      BY <1>4, <2>2, NewLives
    <3>3. \A c \in Made' : \A l \in Threads : l = conn'[c].loop => StateOf(c, l)' /\ TokenOf(c, l)'
      BY <1>2, <3>1, <3>2
    <3> QED BY <3>3 DEF Lives
  <2> QED BY <1>4, <2>1, <2>2, NewWaits
<1> QED BY <1>1, <1>3, <1>4 DEF Accepts
-----------------------------------------------------------------------------
(***************************************************************************)
(* The invariant and what follows from it                                  *)
(***************************************************************************)

\* At first nothing waits, nobody is served, and no thread has been started.
LEMMA ServerInvInit == Init => ServerInv
<1> SUFFICES ASSUME Init PROVE ServerInv
  OBVIOUS
<1>1. Made = {} /\ conn = << >> /\ Len(conn) = 0 /\ Len(backlog) = 0
  BY EmptySeq DEF Init, Made
<1>2. /\ \A l \in Loops : /\ queue[l] = << >> /\ batch[l] = << >> /\ called[l] = 0
                          /\ active[l] = {} /\ ~quit[l]
      /\ pc[Main] = "published" /\ \A t \in Threads : pc[t] = "none"
  BY LoopSets DEF Init
<1>3. << >> \in Seq(Functors) /\ << >> \in Seq(ConnRecord) /\ << >> \in Seq(Peers)
      /\ << >> \in Seq(0..MaxHash)
  OBVIOUS
<1>4. ASSUME NEW l \in Loops PROVE Waiting(l) = << >>
  <2>1. Waiting(l) = Rest(<< >>, 0, << >>)
    BY <1>2 DEF Waiting, Rest
  <2> QED BY <1>3, <2>1, RestEnds
<1>5. TypeOK
  <2>1. pc \in [Loops -> LoopPcs] /\ quit \in [Loops -> BOOLEAN]
    BY DEF Init, LoopPcs
  <2>2. /\ queue \in [Loops -> Seq(Functors)] /\ batch \in [Loops -> Seq(Functors)]
        /\ called \in [Loops -> Nat] /\ active \in [Loops -> SUBSET (0..MaxConns)]
    BY <1>3 DEF Init
  <2>3. acceptChannel \in ChannelRecord
    BY NewChannelSound DEF Init, Sound
  <2>4. arrived \in 0..MaxConns /\ joining \in 1..NumThreads + 1
    BY ServerAssumption DEF Init
  <2> QED BY <1>1, <1>3, <2>1, <2>2, <2>3, <2>4 DEF TypeOK, Init
<1>6. Pool
  <2>1. loops = {} /\ sortedHashes = << >> /\ circle = << >>
    BY DEF Init
  <2>2. Cardinality({}) = 0 /\ 1..0 = {} /\ 0 \in 0..NumThreads
    BY FS_EmptySet, ServerAssumption
  <2>3. DOMAIN sortedHashes = {} /\ DOMAIN circle = {} /\ Range(sortedHashes) = {}
    BY <2>1 DEF Range
  <2> QED BY <1>3, <2>1, <2>2, <2>3 DEF Pool
<1>7. Phases
  BY <1>2, LoopSets DEF Phases, Init
<1>8. Stages
  BY <1>2, LoopSets, EmptySeq DEF Stages
<1>9. Places /\ Orders /\ Lives /\ Actives /\ Descriptors
  BY <1>1, <1>2, <1>4, NothingWaits DEF Places, Orders, Lives, Actives, Descriptors
<1>10. Served
  BY <1>1, <1>2, <1>4, LoopSets, NothingWaits, NewChannelSound DEF Served, Init
<1>11. Channels
  BY <1>1, NewChannelSound DEF Channels, Init
<1> QED BY <1>5, <1>6, <1>7, <1>8, <1>9, <1>10, <1>11 DEF ServerInv

\* Nothing changes in a stuttering step.
LEMMA ServerInvStutters ==
  ASSUME ServerInv, UNCHANGED vars
  PROVE  ServerInv'
<1> USE DEF vars, poolVars, netVars, connVars, loopVars, endVars
<1>1. \A l : Waiting(l)' = Waiting(l)
  BY DEF Waiting
<1>2. \A c : Alive(c)' <=> Alive(c)
  BY DEF Alive
<1>3. TypeOK' /\ Pool' /\ Phases' /\ Stages'
  BY DEF ServerInv, TypeOK, Pool, Phases, Stages, Made, Range
<1>4. Places' /\ Orders'
  BY <1>1 DEF ServerInv, Places, Place, Orders, Made
<1>5. Served'
  <2>1. \A key : hash_!GetNode(key)' = hash_!GetNode(key)
    BY DEF hash_!GetNode, hash_!Found, hash_!UpperBound
  <2> QED BY <1>1, <2>1 DEF ServerInv, Served, Made
<1>6. Lives'
  BY <1>1 DEF ServerInv, Lives, StateOf, TokenOf, Made
<1>7. Actives' /\ Channels'
  BY DEF ServerInv, Actives, Channels, Made
<1>8. Descriptors'
  BY <1>2 DEF ServerInv, Descriptors, Made
<1> QED BY <1>3, <1>4, <1>5, <1>6, <1>7, <1>8 DEF ServerInv

\* ServerInv is inductive.
LEMMA ServerInvNext == ServerInv /\ [Next]_vars => ServerInv'
<1>1. ASSUME ServerInv, Next PROVE ServerInv'
  <2>1. /\ TypeOK /\ Pool /\ Phases /\ Stages /\ Places /\ Orders /\ Served /\ Lives
        /\ Actives /\ Channels /\ Descriptors
    BY <1>1 DEF ServerInv
  <2>2. TypeOK' /\ Channels' /\ Served' /\ Lives'
    BY <1>1, <2>1, TypeStep, ChannelsStep, ServedStep, LivesStep
  <2>3. Pool' /\ Phases' /\ Stages'
    BY <1>1, <2>1, PoolStep, PhasesStep, StagesStep
  <2>4. Places' /\ Orders' /\ Actives' /\ Descriptors'
    BY <1>1, <2>1, PlacesStep, OrdersStep, ActivesStep, DescriptorsStep
  <2> QED BY <2>2, <2>3, <2>4 DEF ServerInv
<1> QED BY <1>1, ServerInvStutters

\* The inductive invariant holds in every state of the server.
THEOREM ServerInvCorrect == Spec => []ServerInv
  BY ServerInvInit, ServerInvNext, PTL DEF Spec

\* The variables keep their types: no connection has more than one up and one down,
\* no id of a connection exceeds those that were given out.
THEOREM TypeCorrect == Spec => []TypeOK
<1>1. ServerInv => TypeOK
  BY DEF ServerInv
<1> QED BY <1>1, ServerInvCorrect, PTL

\* For every channel the poller and the kernel agree, whatever the order in which
\* handleClose, connectDestroyed and the destructors of server and acceptor come.
THEOREM RegistrationsCorrect == Spec => []RegistrationsAgree
<1>1. ServerInv => RegistrationsAgree
  BY DEF ServerInv, Channels, Sound, RegistrationsAgree
<1> QED BY <1>1, ServerInvCorrect, PTL

\* getNextLoop gives all connections of a peer address the same loop, for every hash
\* function: nobody is accepted before the ring is complete, and lookups leave it as it
\* is; in a pool with threads getNode never throws.
THEOREM SamePeerCorrect == Spec => []SamePeerSameLoop
<1>1. ServerInv => \A c, d \in Made : conn[c].peer = conn[d].peer => conn[c].loop = conn[d].loop
  BY DEF ServerInv, Served
<1>2. ServerInv => (NumThreads > 0 => pc[Main] # "threw")
  BY ServerAssumption DEF ServerInv, Phases, Threads
<1>3. ServerInv => SamePeerSameLoop
  BY <1>1, <1>2 DEF SamePeerSameLoop
<1> QED BY <1>3, ServerInvCorrect, PTL

\* Peer, main loop and destructor between them end a connection once: connectDestroyed
\* is queued once and after the server has let go, and at the end ups and downs agree,
\* but for what a loop dropped and for connections in kDisconnecting.
THEOREM EachEndsOnceCorrect == Spec => []EachEndsOnce
<1>1. ASSUME ServerInv, NEW c \in Made
      PROVE  /\ \A i, j \in Destructions(c) : i = j
             /\ c \in connections \/ conn[c].destroyed => Destructions(c) = {}
             /\ ~(c \in connections /\ conn[c].destroyed)
             /\ conn[c].downs <= conn[c].ups /\ conn[c].ups <= 1
             /\ serverPc = "gone" /\ c \notin dropped =>
                  conn[c].downs = conn[c].ups \/ conn[c].state = "kDisconnecting"
  <2>0. TypeOK /\ Pool /\ Phases /\ Stages /\ Served /\ Lives /\ Orders
    BY <1>1 DEF ServerInv
  <2>1. PICK l \in Threads : l = conn[c].loop /\ l \in Loops
    BY <2>0, ConnLoop
  <2>2. StateOf(c, l) /\ TokenOf(c, l) /\ Once(Des(c), Waiting(l))
    BY <2>0, <2>1 DEF Lives, Orders, OrderOf
  <2>3. Destructions(c) = {i \in DOMAIN Waiting(l) : Waiting(l)[i] = Des(c)}
    BY <2>1 DEF Destructions, Des
  <2>4. \A i, j \in Destructions(c) : i = j
    BY <2>2, <2>3 DEF Once
  <2>5. ~In(Des(c), Waiting(l)) => Destructions(c) = {}
    BY <2>3 DEF In
  <2>6. /\ conn[c].state \in {"kConnecting", "kConnected", "kDisconnecting", "kDisconnected"}
        /\ conn[c].ups \in 0..1 /\ conn[c].downs \in 0..1
    BY <2>0, ConnLoop DEF ConnRecord
  <2>7. conn[c].downs <= conn[c].ups /\ conn[c].ups <= 1
    BY <2>2, <2>6 DEF StateOf
  <2>8. ASSUME serverPc = "gone", c \notin dropped
        PROVE  conn[c].downs = conn[c].ups \/ conn[c].state = "kDisconnecting"
    <3>1. pc[l] \in {"none", "left"} /\ connections = {}
      BY <2>0, <2>8, GoneMeansLeft DEF Phases
    <3>2. queue[l] = << >> /\ batch[l] = << >>
      BY <2>0, <2>1, <3>1 DEF Stages
    <3>3. ~In(Des(c), Waiting(l))
      BY <2>0, <2>1, <3>2, WaitingIs, NothingWaits
    <3>4. conn[c].destroyed
      BY <2>2, <2>8, <3>1, <3>3 DEF TokenOf
    <3> QED BY <2>2, <2>6, <3>4 DEF StateOf
  <2> QED BY <2>2, <2>4, <2>5, <2>7, <2>8 DEF TokenOf
<1>2. ServerInv => EachEndsOnce
  BY <1>1 DEF EachEndsOnce
<1> QED BY <1>2, ServerInvCorrect, PTL

\* Nothing is queued to a loop that is gone, no io thread outlives the server, and no
\* connection the main loop.
THEOREM NothingOutlivesCorrect == Spec => []NothingOutlives
<1>1. ASSUME ServerInv PROVE NothingOutlives
  <2>0. TypeOK /\ Pool /\ Phases /\ Stages
    BY <1>1 DEF ServerInv
  <2>1. \A t \in Threads : pc[t] \in {"none", "left"} => queue[t] = << >> /\ batch[t] = << >>
    BY <2>0, LoopSets DEF Stages
  <2>2. serverPc = "gone" => \A t \in Threads : pc[t] \in {"none", "left"}
    BY <2>0, GoneMeansLeft
  <2>3. ASSUME pc[Main] = "destroyed", NEW c \in Made PROVE ~Alive(c)
    <3>1. serverPc = "gone" /\ connections = {}
      BY <2>0, <2>3 DEF Phases
    <3>2. queue[Main] = << >> /\ batch[Main] = << >>
      BY <2>0, <2>3, LoopSets DEF Stages
    <3>3. \A l \in Loops : queue[l] = << >> /\ batch[l] = << >>
      BY <2>1, <2>2, <3>1, <3>2, LoopSets
    <3> QED BY <2>0, <3>1, <3>3, AliveIs, NothingWaits DEF HeldIn
  <2> QED BY <2>1, <2>2, <2>3 DEF NothingOutlives
<1> QED BY <1>1, ServerInvCorrect, PTL

\* A poller's channels_ and a loop's activeChannels_ hold channels of connections that
\* exist only, and no two under one descriptor, although accept gives descriptors out again.
THEOREM PollersCorrect == Spec => []PollersHoldTheLiving
<1>1. ASSUME ServerInv, NEW c \in Made, conn[c].channel.listed, pc[conn[c].loop] # "left"
      PROVE  Alive(c)
  <2>0. TypeOK /\ Stages /\ Served /\ Lives
    BY <1>1 DEF ServerInv
  <2>1. PICK l \in Threads : l = conn[c].loop /\ l \in Loops
    BY <2>0, ConnLoop
  <2>2. StateOf(c, l) /\ TokenOf(c, l)
    BY <2>0, <2>1 DEF Lives
  <2>3. c \in connections \/ In(<<"destroyed", c>>, Waiting(l))
    BY <1>1, <2>1, <2>2 DEF StateOf, TokenOf, Des
  <2> QED BY <2>0, <2>1, <2>3, WaitingAlive DEF Alive
<1>2. ASSUME ServerInv, NEW l \in Loops, NEW c \in active[l], c # 0 PROVE Alive(c)
  <2>0. TypeOK /\ Stages /\ Served /\ Lives /\ Actives /\ Channels
    BY <1>2 DEF ServerInv
  <2>1. c \in Made /\ conn[c].loop = l /\ conn[c].channel.registered
    BY <1>2, <2>0 DEF Actives
  <2>2. l \in Threads
    BY <2>0, <2>1, ConnLoop
  <2>3. conn[c].channel.registered /\ Sound(conn[c].channel)
    BY <2>0, <2>1 DEF Channels
  <2>4. conn[c].channel.listed
    BY <2>3 DEF Sound, Agrees
  <2>5. pc[l] = "dispatch"
    BY <1>2, <2>0 DEF Stages
  <2> QED BY <1>1, <1>2, <2>1, <2>4, <2>5
<1>3. ServerInv => PollersHoldTheLiving
  BY <1>1, <1>2 DEF PollersHoldTheLiving, ServerInv, Descriptors
<1> QED BY <1>3, ServerInvCorrect, PTL
=============================================================================
