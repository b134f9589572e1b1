----------------------------- MODULE BufferProof -----------------------------
(***************************************************************************)
(* Theorems about Buffer, for any bytes, data and sizes.                   *)
(***************************************************************************)
EXTENDS Buffer, SequenceTheorems, TLAPS

\* The indices of a buffer are in order.
Ordered(b) ==
  /\ b \in BufferRecord
  /\ CheapPrepend <= b.reader
  /\ b.reader <= b.writer
  /\ b.writer <= Len(b.bytes)

\* What is readable.
Content(b) == Peek(b, ReadableBytes(b))

\* Concatenation of bytes is associative.
LEMMA BytesAssociative ==
  ASSUME NEW s \in Seq(Byte), NEW t \in Seq(Byte), NEW u \in Seq(Byte)
  PROVE  (s \o t) \o u = s \o (t \o u)
  BY ConcatAssociative

\* std::copy into the vector: its length and its elements.
LEMMA OverwriteElements ==
  ASSUME NEW s \in Seq(Byte), NEW at \in Nat, NEW data \in Seq(Byte)
  PROVE  /\ Overwrite(s, at, data) \in Seq(Byte)
         /\ Len(Overwrite(s, at, data)) = Len(s)
         /\ \A i \in 1..Len(s) :
              Overwrite(s, at, data)[i]
                = IF at < i /\ i <= at + Len(data) THEN data[i - at] ELSE s[i]
<1>1. Len(s) \in Nat /\ Len(data) \in Nat
  BY LenProperties
<1>2. \A i \in 1..Len(s) :
        (IF at < i /\ i <= at + Len(data) THEN data[i - at] ELSE s[i]) \in Byte
  BY <1>1, ElementOfSeq
<1> QED BY <1>1, <1>2 DEF Overwrite

\* vector::resize: its length and its elements.
LEMMA ResizeElements ==
  ASSUME NEW s \in Seq(Byte), NEW n \in Nat
  PROVE  /\ Resize(s, n) \in Seq(Byte)
         /\ Len(Resize(s, n)) = n
         /\ \A i \in 1..n : Resize(s, n)[i] = IF i <= Len(s) THEN s[i] ELSE 0
<1>1. Len(s) \in Nat
  BY LenProperties
<1>2. \A i \in 1..n : (IF i <= Len(s) THEN s[i] ELSE 0) \in Byte
  BY <1>1, ElementOfSeq, ByteAssumption
<1> QED BY <1>1, <1>2 DEF Resize

\* The bytes from peek() on are the vector's from readerIndex_ on.
LEMMA PeekElements ==
  ASSUME NEW b, Ordered(b), NEW n \in 0..ReadableBytes(b)
  PROVE  /\ Peek(b, n) \in Seq(Byte)
         /\ Len(Peek(b, n)) = n
         /\ \A i \in 1..n : Peek(b, n)[i] = b.bytes[b.reader + i]
<1>1. b.bytes \in Seq(Byte) /\ b.reader \in Nat /\ b.writer \in Nat /\ Len(b.bytes) \in Nat
  BY LenProperties DEF Ordered, BufferRecord
<1>2. b.reader + n <= Len(b.bytes) /\ n \in Nat
  BY <1>1 DEF Ordered, ReadableBytes
<1>3. \A i \in b.reader + 1..b.reader + n : b.bytes[i] \in Byte
  BY <1>1, <1>2, ElementOfSeq
<1>4. b.reader + 1 \in Int /\ b.reader + n \in Int
  BY <1>1, <1>2
<1>5. /\ Peek(b, n) \in Seq(Byte)
      /\ Len(Peek(b, n)) = IF b.reader + 1 <= b.reader + n
                             THEN (b.reader + n) - (b.reader + 1) + 1 ELSE 0
      /\ \A i \in 1..(b.reader + n) - (b.reader + 1) + 1 :
           Peek(b, n)[i] = b.bytes[b.reader + 1 + i - 1]
  BY <1>3, <1>4, SubSeqProperties DEF Peek
<1>6. (b.reader + n) - (b.reader + 1) + 1 = n
  BY <1>1, <1>2
<1>7. Len(Peek(b, n)) = n
  BY <1>1, <1>2, <1>5
<1>8. ASSUME NEW i \in 1..n
      PROVE  Peek(b, n)[i] = b.bytes[b.reader + i]
  <2>1. b.reader + 1 + i - 1 = b.reader + i
    BY <1>1
  <2>2. Peek(b, n)[i] = b.bytes[b.reader + 1 + i - 1]
    BY <1>5, <1>6
  <2> QED BY <2>1, <2>2
<1> QED BY <1>5, <1>7, <1>8

\* The readable bytes are the vector's between the two indices.
LEMMA ContentElements ==
  ASSUME NEW b, Ordered(b)
  PROVE  /\ ReadableBytes(b) \in Nat
         /\ Content(b) \in Seq(Byte) /\ Len(Content(b)) = ReadableBytes(b)
         /\ \A i \in 1..ReadableBytes(b) : Content(b)[i] = b.bytes[b.reader + i]
<1>1. ReadableBytes(b) \in Nat
  BY DEF Ordered, BufferRecord, ReadableBytes
<1>2. ReadableBytes(b) \in 0..ReadableBytes(b)
  BY <1>1
<1> QED BY <1>1, <1>2, PeekElements DEF Content

\* A sequence with the length and the elements of the readable bytes is them.
LEMMA ContentIs ==
  ASSUME NEW b, Ordered(b), NEW s \in Seq(Byte), Len(s) = ReadableBytes(b),
         \A i \in 1..Len(s) : s[i] = b.bytes[b.reader + i]
  PROVE  Content(b) = s
<1>1. /\ Content(b) \in Seq(Byte)
      /\ Len(Content(b)) = ReadableBytes(b)
      /\ \A i \in 1..ReadableBytes(b) : Content(b)[i] = b.bytes[b.reader + i]
  BY ContentElements
<1> QED BY <1>1, SeqEqual

\* resize keeps the readable bytes where they are and makes room.
LEMMA GrowCorrect ==
  ASSUME NEW b, Ordered(b), NEW len \in Nat, WritableBytes(b) < len
  PROVE  /\ Ordered(Grow(b, len))
         /\ WritableBytes(Grow(b, len)) = len
         /\ Content(Grow(b, len)) = Content(b)
<1> DEFINE g == Grow(b, len)
<1>1. /\ b.bytes \in Seq(Byte) /\ b.reader \in Nat /\ b.writer \in Nat
      /\ Len(b.bytes) \in Nat /\ b.writer + len \in Nat
      /\ b.reader <= b.writer /\ b.writer <= Len(b.bytes)
      /\ Len(b.bytes) < b.writer + len
  BY LenProperties DEF Ordered, BufferRecord, WritableBytes
<1>2. /\ g.bytes = Resize(b.bytes, b.writer + len)
      /\ g.reader = b.reader /\ g.writer = b.writer
      /\ g.bytes \in Seq(Byte) => g \in BufferRecord
  BY DEF Grow, Ordered, BufferRecord
<1> HIDE DEF g
<1>3. /\ g.bytes \in Seq(Byte) /\ Len(g.bytes) = b.writer + len
      /\ \A i \in 1..b.writer + len :
           g.bytes[i] = IF i <= Len(b.bytes) THEN b.bytes[i] ELSE 0
  <2> DEFINE n == b.writer + len
  <2>1. n \in Nat /\ g.bytes = Resize(b.bytes, n)
    BY <1>1, <1>2
  <2> HIDE DEF n
  <2>2. /\ Resize(b.bytes, n) \in Seq(Byte) /\ Len(Resize(b.bytes, n)) = n
        /\ \A i \in 1..n :
             Resize(b.bytes, n)[i] = IF i <= Len(b.bytes) THEN b.bytes[i] ELSE 0
    BY <1>1, <2>1, ResizeElements
  <2>3. /\ g.bytes \in Seq(Byte) /\ Len(g.bytes) = n
        /\ \A i \in 1..n : g.bytes[i] = IF i <= Len(b.bytes) THEN b.bytes[i] ELSE 0
    BY <2>1, <2>2
  <2> QED BY <2>3 DEF n
<1>4. Ordered(g) /\ WritableBytes(g) = len
  BY <1>1, <1>2, <1>3 DEF Ordered, WritableBytes
<1>5. ReadableBytes(g) = ReadableBytes(b) /\ ReadableBytes(b) \in Nat
  BY <1>1, <1>2 DEF ReadableBytes
<1>6. /\ Content(b) \in Seq(Byte) /\ Len(Content(b)) = ReadableBytes(b)
      /\ \A i \in 1..ReadableBytes(b) : Content(b)[i] = b.bytes[b.reader + i]
  BY ContentElements
<1>7. ASSUME NEW i \in 1..ReadableBytes(b)
      PROVE  Content(b)[i] = g.bytes[g.reader + i]
  <2>1. b.reader + i \in 1..b.writer + len /\ b.reader + i <= Len(b.bytes)
    BY <1>1 DEF ReadableBytes
  <2> QED BY <1>2, <1>3, <1>6, <2>1
<1>8. Content(g) = Content(b)
  BY <1>4, <1>5, <1>6, <1>7, ContentIs
<1> QED BY <1>4, <1>8 DEF g

\* Moving the readable bytes to the front keeps them and makes room.
LEMMA CompactCorrect ==
  ASSUME NEW b, Ordered(b), NEW len \in Nat, ~MustGrow(b, len)
  PROVE  /\ Ordered(Compact(b))
         /\ WritableBytes(Compact(b)) >= len
         /\ Content(Compact(b)) = Content(b)
<1> DEFINE g == Compact(b)
<1>1. /\ b.bytes \in Seq(Byte) /\ b.reader \in Nat /\ b.writer \in Nat
      /\ Len(b.bytes) \in Nat /\ CheapPrepend \in Nat
      /\ CheapPrepend <= b.reader /\ b.reader <= b.writer /\ b.writer <= Len(b.bytes)
      /\ Len(b.bytes) - b.writer + b.reader >= len + CheapPrepend
  BY LenProperties, SizeAssumption
  DEF Ordered, BufferRecord, MustGrow, WritableBytes, PrependableBytes
<1>2. ReadableBytes(b) \in Nat /\ ReadableBytes(b) = b.writer - b.reader
  BY <1>1 DEF ReadableBytes
<1>3. /\ Content(b) \in Seq(Byte) /\ Len(Content(b)) = ReadableBytes(b)
      /\ \A i \in 1..ReadableBytes(b) : Content(b)[i] = b.bytes[b.reader + i]
  BY ContentElements
<1>4. /\ g.bytes = Overwrite(b.bytes, CheapPrepend, Content(b))
      /\ g.reader = CheapPrepend /\ g.writer = CheapPrepend + ReadableBytes(b)
      /\ g.bytes \in Seq(Byte) => g \in BufferRecord
  <2>1. CheapPrepend + ReadableBytes(b) \in Nat
    BY <1>1, <1>2
  <2>2. g = [b EXCEPT !.bytes = Overwrite(b.bytes, CheapPrepend, Content(b)),
                      !.reader = CheapPrepend,
                      !.writer = CheapPrepend + ReadableBytes(b)]
    BY DEF Compact, Content
  <2> HIDE DEF g
  <2> QED BY <1>1, <2>1, <2>2 DEF Ordered, BufferRecord
<1> HIDE DEF g
<1>5. /\ g.bytes \in Seq(Byte) /\ Len(g.bytes) = Len(b.bytes)
      /\ \A i \in 1..Len(b.bytes) :
           g.bytes[i] = IF CheapPrepend < i /\ i <= CheapPrepend + ReadableBytes(b)
                          THEN Content(b)[i - CheapPrepend] ELSE b.bytes[i]
  <2> DEFINE c == Content(b)
  <2>1. c \in Seq(Byte) /\ Len(c) = ReadableBytes(b)
    BY <1>3
  <2> DEFINE o == Overwrite(b.bytes, CheapPrepend, c)
  <2>2. /\ o \in Seq(Byte) /\ Len(o) = Len(b.bytes)
        /\ \A i \in 1..Len(b.bytes) :
             o[i] = IF CheapPrepend < i /\ i <= CheapPrepend + Len(c)
                      THEN c[i - CheapPrepend] ELSE b.bytes[i]
    <3>1. b.bytes \in Seq(Byte) /\ CheapPrepend \in Nat /\ c \in Seq(Byte)
      BY <1>1, <2>1
    <3> HIDE DEF c
    <3> QED BY <3>1, OverwriteElements, ZenonT(60)
  <2>3. g.bytes = o
    BY <1>4
  <2>4. Len(c) = ReadableBytes(b)
    BY <2>1
  <2> HIDE DEF o
  <2>5. /\ g.bytes \in Seq(Byte) /\ Len(g.bytes) = Len(b.bytes)
        /\ \A i \in 1..Len(b.bytes) :
             g.bytes[i] = IF CheapPrepend < i /\ i <= CheapPrepend + Len(c)
                            THEN c[i - CheapPrepend] ELSE b.bytes[i]
    BY <2>2, <2>3, ZenonT(60)
  <2> QED BY <2>4, <2>5, ZenonT(60)
<1>6. Ordered(g) /\ WritableBytes(g) >= len
  BY <1>1, <1>2, <1>4, <1>5, SMTT(30) DEF Ordered, WritableBytes
<1>7. ReadableBytes(g) = ReadableBytes(b)
  BY <1>1, <1>2, <1>4 DEF ReadableBytes
<1>8. ASSUME NEW i \in 1..ReadableBytes(b)
      PROVE  Content(b)[i] = g.bytes[g.reader + i]
  <2>1. /\ CheapPrepend + i \in 1..Len(b.bytes)
        /\ CheapPrepend < CheapPrepend + i
        /\ CheapPrepend + i <= CheapPrepend + ReadableBytes(b)
        /\ (CheapPrepend + i) - CheapPrepend = i
    BY <1>1, <1>2, SMTT(30)
  <2>2. g.bytes[CheapPrepend + i] = Content(b)[(CheapPrepend + i) - CheapPrepend]
    BY <1>5, <2>1
  <2> QED BY <1>4, <2>1, <2>2
<1>9. Content(g) = Content(b)
  BY <1>3, <1>6, <1>7, <1>8, ContentIs
<1> QED BY <1>6, <1>9 DEF g

\* ensureWritableBytes makes room for len bytes and keeps what is readable.
LEMMA EnsureCorrect ==
  ASSUME NEW b, Ordered(b), NEW len \in Nat
  PROVE  /\ Ordered(EnsureWritableBytes(b, len))
         /\ WritableBytes(EnsureWritableBytes(b, len)) >= len
         /\ Content(EnsureWritableBytes(b, len)) = Content(b)
<1>1. WritableBytes(b) \in Int
  BY LenProperties DEF Ordered, BufferRecord, WritableBytes
<1>2. CASE WritableBytes(b) >= len
  BY <1>1, <1>2 DEF EnsureWritableBytes
<1>3. CASE WritableBytes(b) < len /\ MustGrow(b, len)
  <2>1. EnsureWritableBytes(b, len) = Grow(b, len)
    BY <1>3 DEF EnsureWritableBytes, MakeSpace
  <2> QED BY <1>3, <2>1, GrowCorrect
<1>4. CASE WritableBytes(b) < len /\ ~MustGrow(b, len)
  <2>1. EnsureWritableBytes(b, len) = Compact(b)
    BY <1>4 DEF EnsureWritableBytes, MakeSpace
  <2> QED BY <1>4, <2>1, CompactCorrect
<1> QED BY <1>1, <1>2, <1>3, <1>4

\* Data written into the writable bytes follows what was readable.
LEMMA StoreCorrect ==
  ASSUME NEW b, Ordered(b), NEW data \in Seq(Byte), Len(data) <= WritableBytes(b)
  PROVE  /\ Ordered(Store(b, data))
         /\ WritableBytes(Store(b, data)) = WritableBytes(b) - Len(data)
         /\ Content(Store(b, data)) = Content(b) \o data
<1> DEFINE g == Store(b, data)
<1>1. /\ b.bytes \in Seq(Byte) /\ b.reader \in Nat /\ b.writer \in Nat
      /\ Len(b.bytes) \in Nat /\ Len(data) \in Nat
      /\ CheapPrepend <= b.reader /\ b.reader <= b.writer
      /\ b.writer + Len(data) <= Len(b.bytes)
  BY LenProperties DEF Ordered, BufferRecord, WritableBytes
<1>2. /\ g.bytes = Overwrite(b.bytes, b.writer, data)
      /\ g.reader = b.reader /\ g.writer = b.writer + Len(data)
      /\ g.bytes \in Seq(Byte) => g \in BufferRecord
  <2>1. b.writer + Len(data) \in Nat
    BY <1>1
  <2> QED BY <1>1, <2>1 DEF Store, Ordered, BufferRecord
<1> HIDE DEF g
<1>3. /\ g.bytes \in Seq(Byte) /\ Len(g.bytes) = Len(b.bytes)
      /\ \A i \in 1..Len(b.bytes) :
           g.bytes[i] = IF b.writer < i /\ i <= b.writer + Len(data)
                          THEN data[i - b.writer] ELSE b.bytes[i]
  <2>1. /\ Overwrite(b.bytes, b.writer, data) \in Seq(Byte)
        /\ Len(Overwrite(b.bytes, b.writer, data)) = Len(b.bytes)
        /\ \A i \in 1..Len(b.bytes) :
             Overwrite(b.bytes, b.writer, data)[i]
               = IF b.writer < i /\ i <= b.writer + Len(data)
                   THEN data[i - b.writer] ELSE b.bytes[i]
    BY <1>1, OverwriteElements
  <2> QED BY <1>2, <2>1
<1>4. Ordered(g) /\ WritableBytes(g) = WritableBytes(b) - Len(data)
  BY <1>1, <1>2, <1>3 DEF Ordered, WritableBytes
<1>5. /\ ReadableBytes(b) \in Nat /\ ReadableBytes(b) = b.writer - b.reader
      /\ ReadableBytes(g) = ReadableBytes(b) + Len(data)
  BY <1>1, <1>2 DEF ReadableBytes
<1>6. /\ Content(b) \in Seq(Byte) /\ Len(Content(b)) = ReadableBytes(b)
      /\ \A i \in 1..ReadableBytes(b) : Content(b)[i] = b.bytes[b.reader + i]
  BY ContentElements
<1> DEFINE s == Content(b) \o data
<1>7. /\ s \in Seq(Byte) /\ Len(s) = ReadableBytes(b) + Len(data)
      /\ \A i \in 1..ReadableBytes(b) + Len(data) :
           s[i] = IF i <= ReadableBytes(b) THEN Content(b)[i] ELSE data[i - ReadableBytes(b)]
  <2> DEFINE c == Content(b)
  <2>1. c \in Seq(Byte) /\ Len(c) = ReadableBytes(b)
    BY <1>6
  <2> HIDE DEF c
  <2>2. /\ c \o data \in Seq(Byte) /\ Len(c \o data) = Len(c) + Len(data)
        /\ \A i \in 1..Len(c) + Len(data) :
             (c \o data)[i] = IF i <= Len(c) THEN c[i] ELSE data[i - Len(c)]
    BY <2>1, ConcatProperties
  <2> QED BY <2>1, <2>2 DEF c
<1> HIDE DEF s
<1>8. ASSUME NEW i \in 1..Len(s)
      PROVE  s[i] = g.bytes[g.reader + i]
  <2>1. b.reader + i \in 1..Len(b.bytes) /\ i \in 1..ReadableBytes(b) + Len(data)
    BY <1>1, <1>5, <1>7, SMTT(30)
  <2>2. CASE i <= ReadableBytes(b)
    <3>1. ~(b.writer < b.reader + i) /\ i \in 1..ReadableBytes(b)
      BY <1>1, <1>5, <2>1, <2>2
    <3>2. g.bytes[b.reader + i] = b.bytes[b.reader + i]
      BY <1>3, <2>1, <3>1
    <3> QED BY <1>2, <1>6, <1>7, <2>1, <2>2, <3>1, <3>2
  <2>3. CASE ~(i <= ReadableBytes(b))
    <3>1. /\ b.writer < b.reader + i /\ b.reader + i <= b.writer + Len(data)
          /\ (b.reader + i) - b.writer = i - ReadableBytes(b)
      BY <1>1, <1>5, <2>1, <2>3, SMTT(30)
    <3>2. g.bytes[b.reader + i] = data[(b.reader + i) - b.writer]
      BY <1>3, <2>1, <3>1
    <3> QED BY <1>2, <1>7, <2>1, <2>3, <3>1, <3>2
  <2> QED BY <2>2, <2>3
<1>9. Content(g) = s
  BY <1>4, <1>5, <1>7, <1>8, ContentIs
<1> QED BY <1>4, <1>9 DEF g, s

\* append puts the data behind what was readable.
LEMMA AppendCorrect ==
  ASSUME NEW b, Ordered(b), NEW data \in Seq(Byte)
  PROVE  /\ Ordered(AppendBytes(b, data))
         /\ Content(AppendBytes(b, data)) = Content(b) \o data
<1> DEFINE e == EnsureWritableBytes(b, Len(data))
<1>1. Len(data) \in Nat
  BY LenProperties
<1>2. Ordered(e) /\ WritableBytes(e) >= Len(data) /\ Content(e) = Content(b)
  BY <1>1, EnsureCorrect
<1>3. WritableBytes(e) \in Int
  BY <1>2, LenProperties DEF Ordered, BufferRecord, WritableBytes
<1> HIDE DEF e
<1>4. Ordered(Store(e, data)) /\ Content(Store(e, data)) = Content(b) \o data
  BY <1>1, <1>2, <1>3, StoreCorrect
<1> QED BY <1>4 DEF AppendBytes, e

\* readFd: the two blocks together hold the data, in order.
LEMMA ReceiveCorrect ==
  ASSUME NEW b, Ordered(b), NEW data \in Seq(Byte)
  PROVE  /\ Ordered(Receive(b, data))
         /\ Content(Receive(b, data)) = Content(b) \o data
<1> DEFINE w == WritableBytes(b)
<1>1. w \in Nat /\ Len(data) \in Nat
  BY LenProperties DEF Ordered, BufferRecord, WritableBytes
<1> HIDE DEF w
<1>2. CASE Len(data) <= w
  <2>1. Receive(b, data) = Store(b, data)
    BY <1>2 DEF Receive, w
  <2> QED BY <1>2, <2>1, StoreCorrect DEF w
<1>3. CASE ~(Len(data) <= w)
  <2> DEFINE one == SubSeq(data, 1, w)
             two == SubSeq(data, w + 1, Len(data))
             g == Store(b, one)
  <2>1. Receive(b, data) = AppendBytes(g, two)
    BY <1>3 DEF Receive, w
  <2>2. /\ \A i \in 1..w : data[i] \in Byte
        /\ \A i \in w + 1..Len(data) : data[i] \in Byte
    BY <1>1, <1>3, ElementOfSeq
  <2>3. one \in Seq(Byte) /\ Len(one) = w
    <3>1. /\ one \in Seq(Byte) /\ Len(one) = IF 1 <= w THEN w - 1 + 1 ELSE 0
      BY <1>1, <2>2, SubSeqProperties
    <3> QED BY <1>1, <3>1
  <2>4. two \in Seq(Byte)
    BY <1>1, <2>2, SubSeqProperties
  <2>5. one \o two = data
    <3>1. 1 \in 1..Len(data) + 1 /\ w \in 1 - 1..Len(data) /\ Len(data) \in w..Len(data)
      BY <1>1, <1>3
    <3>2. one \o two = SubSeq(data, 1, Len(data))
      BY <3>1, ConcatAdjacentSubSeq
    <3> QED BY <3>2, SubSeqFull
  <2>6. Ordered(g) /\ Content(g) = Content(b) \o one
    <3>1. Len(one) <= WritableBytes(b)
      BY <1>1, <2>3 DEF w
    <3> HIDE DEF one
    <3> QED BY <2>3, <3>1, StoreCorrect
  <2> HIDE DEF g, one, two
  <2>7. Ordered(AppendBytes(g, two)) /\ Content(AppendBytes(g, two)) = Content(g) \o two
    BY <2>4, <2>6, AppendCorrect
  <2>8. Content(b) \in Seq(Byte)
    BY ContentElements
  <2>9. (Content(b) \o one) \o two = Content(b) \o (one \o two)
    <3>1. \A x, y, z \in Seq(Byte) : (x \o y) \o z = x \o (y \o z)
      BY BytesAssociative
    <3> QED BY <2>3, <2>4, <2>8, <3>1
  <2> QED BY <2>1, <2>5, <2>6, <2>7, <2>9
<1> QED BY <1>2, <1>3

\* retrieve drops what was read first; more than there is empties the buffer.
LEMMA RetrieveCorrect ==
  ASSUME NEW b, Ordered(b), NEW len \in Nat
  PROVE  /\ Ordered(Retrieve(b, len))
         /\ len <= ReadableBytes(b) =>
              Content(Retrieve(b, len)) = SubSeq(Content(b), len + 1, Len(Content(b)))
         /\ len >= ReadableBytes(b) => Content(Retrieve(b, len)) = << >>
<1> DEFINE g == Retrieve(b, len)
<1>1. /\ b.bytes \in Seq(Byte) /\ b.reader \in Nat /\ b.writer \in Nat
      /\ Len(b.bytes) \in Nat /\ CheapPrepend \in Nat
      /\ CheapPrepend <= b.reader /\ b.reader <= b.writer /\ b.writer <= Len(b.bytes)
      /\ ReadableBytes(b) \in Nat /\ ReadableBytes(b) = b.writer - b.reader
  BY LenProperties, SizeAssumption DEF Ordered, BufferRecord, ReadableBytes
<1>2. /\ Content(b) \in Seq(Byte) /\ Len(Content(b)) = ReadableBytes(b)
      /\ \A i \in 1..ReadableBytes(b) : Content(b)[i] = b.bytes[b.reader + i]
  BY ContentElements
<1>3. CASE len < ReadableBytes(b)
  <2>1. g.bytes = b.bytes /\ g.reader = b.reader + len /\ g.writer = b.writer
    BY <1>3 DEF Retrieve, Ordered, BufferRecord
  <2>2. g \in BufferRecord
    <3>1. b.reader + len \in Nat
      BY <1>1
    <3> QED BY <1>3, <3>1 DEF Retrieve, Ordered, BufferRecord
  <2> HIDE DEF g
  <2>3. Ordered(g) /\ ReadableBytes(g) = ReadableBytes(b) - len
    BY <1>1, <1>3, <2>1, <2>2 DEF Ordered, ReadableBytes
  <2> DEFINE c == Content(b)
             s == SubSeq(c, len + 1, Len(c))
  <2>4. /\ s \in Seq(Byte) /\ Len(s) = ReadableBytes(b) - len
        /\ \A i \in 1..ReadableBytes(b) - len : s[i] = b.bytes[b.reader + len + i]
    <3>1. c \in Seq(Byte) /\ Len(c) = ReadableBytes(b)
      BY <1>2
    <3>2. \A i \in len + 1..Len(c) : c[i] \in Byte
      BY <3>1, <1>1, ElementOfSeq
    <3>3. len + 1 \in Int /\ Len(c) \in Int /\ len + 1 <= Len(c)
      BY <1>1, <1>3, <3>1
    <3> HIDE DEF c
    <3>4. /\ s \in Seq(Byte)
          /\ Len(s) = IF len + 1 <= Len(c) THEN Len(c) - (len + 1) + 1 ELSE 0
          /\ \A i \in 1..Len(c) - (len + 1) + 1 : s[i] = c[len + 1 + i - 1]
      BY <3>2, <3>3, SubSeqProperties
    <3> HIDE DEF s
    <3>5. Len(c) - (len + 1) + 1 = ReadableBytes(b) - len
      BY <1>1, <3>1
    <3>6. ASSUME NEW i \in 1..ReadableBytes(b) - len
          PROVE  s[i] = b.bytes[b.reader + len + i]
      <4>1. /\ len + 1 + i - 1 = len + i /\ len + i \in 1..ReadableBytes(b)
            /\ b.reader + (len + i) = b.reader + len + i
        BY <1>1
      <4>2. s[i] = c[len + i]
        BY <3>4, <3>5, <4>1
      <4>3. c[len + i] = b.bytes[b.reader + (len + i)]
        BY <1>2, <4>1 DEF c
      <4> QED BY <4>1, <4>2, <4>3
    <3> QED BY <3>3, <3>4, <3>5, <3>6
  <2> HIDE DEF s
  <2>5. Content(g) = s
    BY <1>1, <2>1, <2>3, <2>4, ContentIs
  <2> QED BY <1>1, <1>3, <2>3, <2>5 DEF g, s
<1>4. CASE ~(len < ReadableBytes(b))
  <2>1. /\ g.bytes = b.bytes /\ g.reader = CheapPrepend /\ g.writer = CheapPrepend
        /\ g \in BufferRecord
    BY <1>1, <1>4 DEF Retrieve, RetrieveAll, Ordered, BufferRecord
  <2> HIDE DEF g
  <2>2. Ordered(g) /\ ReadableBytes(g) = 0
    BY <1>1, <2>1 DEF Ordered, ReadableBytes
  <2>3. Content(g) = << >>
    <3>1. << >> \in Seq(Byte) /\ Len(<< >>) = 0
      BY EmptySeq
    <3>2. \A i \in 1..Len(<< >>) : FALSE
      BY <3>1
    <3> QED BY <2>2, <3>1, <3>2, ContentIs
  <2>4. len <= ReadableBytes(b) => SubSeq(Content(b), len + 1, Len(Content(b))) = << >>
    BY <1>1, <1>2, <1>4, SubSeqEmpty
  <2> QED BY <2>2, <2>3, <2>4 DEF g
<1> QED BY <1>3, <1>4
-----------------------------------------------------------------------------
\* A new Buffer has its indices in order.
LEMMA IndicesInit == Init => IndicesInOrder
<1> SUFFICES ASSUME Init PROVE IndicesInOrder
  OBVIOUS
<1> DEFINE n == CheapPrepend + InitialSize
           zeros == [i \in 1..n |-> 0]
<1>1. n \in Nat /\ CheapPrepend \in Nat /\ CheapPrepend <= n
  BY SizeAssumption
<1> HIDE DEF n
<1>2. zeros \in Seq(Byte) /\ Len(zeros) = n
  BY <1>1, ByteAssumption
<1> HIDE DEF zeros
<1>3. buf = [bytes |-> zeros, reader |-> CheapPrepend, writer |-> CheapPrepend]
  BY DEF Init, zeros, n
<1>4. out = << >> /\ << >> \in Seq(Byte)
  BY EmptySeq DEF Init
<1> QED BY <1>1, <1>2, <1>3, <1>4 DEF IndicesInOrder, BufferRecord

\* One step, seen from outside: what it does to the content and to out.
LEMMA StepContent ==
  ASSUME IndicesInOrder, Next
  PROVE  /\ Ordered(buf')
         /\ \/ \E data \in Data : Content(buf') = Content(buf) \o data /\ UNCHANGED out
            \/ \E n \in 0..Len(Content(buf)) :
                 /\ Content(buf') = SubSeq(Content(buf), n + 1, Len(Content(buf)))
                 /\ UNCHANGED out \/ out' = Peek(buf, n)
            \/ \E n \in 0..Len(Content(buf)) :
                 Content(buf') = Content(buf) /\ out' = Peek(buf, n)
<1>1. Ordered(buf)
  BY DEF IndicesInOrder, Ordered
<1>2. /\ ReadableBytes(buf) \in Nat /\ Content(buf) \in Seq(Byte)
      /\ Len(Content(buf)) = ReadableBytes(buf)
  BY <1>1, ContentElements
<1>3. \A data \in Data : data \in Seq(Byte)
  BY ByteAssumption
<1>4. CASE DoAppend
  BY <1>1, <1>3, <1>4, AppendCorrect DEF DoAppend
<1>5. CASE DoReadFd
  BY <1>1, <1>3, <1>5, ReceiveCorrect DEF DoReadFd
<1>6. CASE DoRetrieve
  <2>1. PICK len \in 0..MaxReadable : buf' = Retrieve(buf, len) /\ UNCHANGED out
    BY <1>6 DEF DoRetrieve
  <2>2. len \in Nat
    BY SizeAssumption
  <2>3. Ordered(buf')
    BY <1>1, <2>1, <2>2, RetrieveCorrect
  <2>4. CASE len <= ReadableBytes(buf)
    <3>1. len \in 0..Len(Content(buf))
      BY <1>2, <2>2, <2>4
    <3>2. Content(buf') = SubSeq(Content(buf), len + 1, Len(Content(buf)))
      BY <1>1, <2>1, <2>2, <2>4, RetrieveCorrect
    <3> QED BY <2>1, <2>3, <3>1, <3>2
  <2>5. CASE len > ReadableBytes(buf)
    <3> DEFINE n == Len(Content(buf))
    <3>1. n \in 0..n /\ n \in Nat
      BY <1>2
    <3>2. Content(buf') = << >>
      BY <1>1, <1>2, <2>1, <2>2, <2>5, RetrieveCorrect
    <3>3. SubSeq(Content(buf), n + 1, n) = << >>
      BY <3>1, SubSeqEmpty
    <3> QED BY <2>1, <2>3, <3>1, <3>2, <3>3
  <2> QED BY <1>2, <2>2, <2>4, <2>5
<1>7. CASE DoRetrieveAsString
  <2>1. PICK len \in 0..ReadableBytes(buf) :
          out' = Peek(buf, len) /\ buf' = Retrieve(buf, len)
    BY <1>7 DEF DoRetrieveAsString
  <2>2. len \in Nat /\ len <= ReadableBytes(buf) /\ len \in 0..Len(Content(buf))
    BY <1>2
  <2>3. /\ Ordered(buf')
        /\ Content(buf') = SubSeq(Content(buf), len + 1, Len(Content(buf)))
    BY <1>1, <2>1, <2>2, RetrieveCorrect
  <2> QED BY <2>1, <2>2, <2>3
<1>8. CASE DoWriteFd
  <2>1. PICK len \in 0..ReadableBytes(buf) : out' = Peek(buf, len) /\ buf' = buf
    BY <1>8 DEF DoWriteFd
  <2>2. len \in 0..Len(Content(buf))
    BY <1>2
  <2> QED BY <1>1, <2>1, <2>2
<1> QED BY <1>4, <1>5, <1>6, <1>7, <1>8 DEF Next

\* Every operation keeps the indices in order.
LEMMA IndicesStep == IndicesInOrder /\ [Next]_vars => IndicesInOrder'
<1> SUFFICES ASSUME IndicesInOrder, [Next]_vars PROVE IndicesInOrder'
  OBVIOUS
<1>1. CASE UNCHANGED vars
  BY <1>1 DEF vars, IndicesInOrder
<1>2. CASE Next
  <2>1. Ordered(buf) /\ out \in Seq(Byte)
    BY DEF IndicesInOrder, Ordered
  <2>2. ReadableBytes(buf) \in Nat /\ Len(Content(buf)) = ReadableBytes(buf)
    BY <2>1, ContentElements
  <2>3. \A n \in 0..Len(Content(buf)) : Peek(buf, n) \in Seq(Byte)
    BY <2>1, <2>2, PeekElements
  <2>4. Ordered(buf') /\ out' \in Seq(Byte)
    BY <1>2, <2>1, <2>3, StepContent
  <2> QED BY <2>4 DEF IndicesInOrder, Ordered
<1> QED BY <1>1, <1>2

\* The reader and writer index never leave their order or the vector, for any
\* sizes of buffer, stack block and data.
THEOREM IndicesCorrect == Spec => []IndicesInOrder
  BY IndicesInit, IndicesStep, PTL DEF Spec
-----------------------------------------------------------------------------
\* Peeking at n bytes shows the first n of the content.
LEMMA PeekIsFirst ==
  ASSUME NEW b, Ordered(b), NEW n \in 0..Len(Content(b))
  PROVE  Peek(b, n) = SubSeq(Content(b), 1, n)
<1> DEFINE c == Content(b)
           s == SubSeq(c, 1, n)
<1>1. /\ ReadableBytes(b) \in Nat /\ c \in Seq(Byte) /\ Len(c) = ReadableBytes(b)
      /\ \A i \in 1..ReadableBytes(b) : c[i] = b.bytes[b.reader + i]
  BY ContentElements
<1>2. n \in 0..ReadableBytes(b) /\ n \in Nat /\ n <= Len(c)
  BY <1>1
<1>3. /\ Peek(b, n) \in Seq(Byte) /\ Len(Peek(b, n)) = n
      /\ \A i \in 1..n : Peek(b, n)[i] = b.bytes[b.reader + i]
  BY <1>2, PeekElements
<1> HIDE DEF c
<1>4. /\ s \in Seq(Byte) /\ Len(s) = n /\ \A i \in 1..n : s[i] = c[i]
  <2>1. \A i \in 1..n : c[i] \in Byte
    BY <1>1, <1>2, ElementOfSeq
  <2>2. /\ s \in Seq(Byte) /\ Len(s) = IF 1 <= n THEN n - 1 + 1 ELSE 0
        /\ \A i \in 1..n - 1 + 1 : s[i] = c[1 + i - 1]
    BY <1>2, <2>1, SubSeqProperties
  <2>3. n - 1 + 1 = n /\ \A i \in 1..n : 1 + i - 1 = i
    BY <1>2
  <2> HIDE DEF s
  <2> QED BY <1>2, <2>2, <2>3
<1> HIDE DEF s
<1>5. \A i \in 1..n : Peek(b, n)[i] = s[i]
  BY <1>1, <1>2, <1>3, <1>4
<1>6. Peek(b, n) = s
  BY <1>3, <1>4, <1>5, SeqEqual
<1> QED BY <1>6 DEF s, c

\* A new buffer is an empty queue.
LEMMA QueueInit == Init => Abstract!Init
<1> SUFFICES ASSUME Init PROVE Abstract!Init
  OBVIOUS
<1>1. IndicesInOrder
  BY IndicesInit
<1>2. Ordered(buf)
  BY <1>1 DEF IndicesInOrder, Ordered
<1>3. ReadableBytes(buf) = 0
  BY SizeAssumption DEF Init, ReadableBytes
<1>4. << >> \in Seq(Byte) /\ Len(<< >>) = 0 /\ \A i \in 1..Len(<< >>) : FALSE
  BY EmptySeq
<1>5. Content(buf) = << >>
  BY <1>2, <1>3, <1>4, ContentIs
<1> QED BY <1>5 DEF Init, Abstract!Init, Content

\* Every step of a buffer is a step of the queue, or changes nothing it shows.
LEMMA QueueStep ==
  IndicesInOrder /\ [Next]_vars => [Abstract!Next]_(Abstract!vars)
<1> SUFFICES ASSUME IndicesInOrder, [Next]_vars PROVE [Abstract!Next]_(Abstract!vars)
  OBVIOUS
<1>1. Ordered(buf)
  BY DEF IndicesInOrder, Ordered
<1> DEFINE q == Content(buf)
<1>2. CASE UNCHANGED vars
  BY <1>2 DEF vars, Abstract!vars
<1>3. CASE Next
  <2>1. \A n \in 0..Len(q) : Peek(buf, n) = SubSeq(q, 1, n)
    BY <1>1, PeekIsFirst
  <2>2. CASE \E data \in Data : q' = q \o data /\ UNCHANGED out
    BY <2>2 DEF Abstract!Next, Abstract!Put, Content
  <2>3. CASE \E n \in 0..Len(q) : /\ q' = SubSeq(q, n + 1, Len(q))
                                  /\ UNCHANGED out \/ out' = Peek(buf, n)
    <3>1. PICK n \in 0..Len(q) : /\ q' = SubSeq(q, n + 1, Len(q))
                                 /\ UNCHANGED out \/ out' = SubSeq(q, 1, n)
      BY <2>1, <2>3
    <3>2. Abstract!Take(n) \/ Abstract!LookAndTake(n)
      BY <3>1 DEF Abstract!Take, Abstract!LookAndTake, Abstract!First, Abstract!Rest, Content
    <3> QED BY <3>2 DEF Abstract!Next, Content
  <2>4. CASE \E n \in 0..Len(q) : q' = q /\ out' = Peek(buf, n)
    <3>1. PICK n \in 0..Len(q) : q' = q /\ out' = SubSeq(q, 1, n)
      BY <2>1, <2>4
    <3>2. Abstract!Look(n)
      BY <3>1 DEF Abstract!Look, Abstract!First, Content
    <3> QED BY <3>2 DEF Abstract!Next, Content
  <2> QED BY <1>3, <2>2, <2>3, <2>4, StepContent
<1> QED BY <1>2, <1>3

\* A Buffer is a first-in first-out queue of bytes: whatever append, readFd,
\* retrieve and makeSpace move, overwrite or reallocate, nothing is lost,
\* repeated or reordered.
THEOREM BufferImplementsByteQueue == Spec => ImplementsByteQueue
  BY IndicesCorrect, QueueInit, QueueStep, PTL DEF Spec, ImplementsByteQueue, Abstract!Spec
-----------------------------------------------------------------------------
\* Storing into the writable bytes does not resize the vector.
LEMMA StoreSize ==
  ASSUME NEW b, Ordered(b), NEW data \in Seq(Byte)
  PROVE  Len(Store(b, data).bytes) = Len(b.bytes)
<1>1. b.bytes \in Seq(Byte) /\ b.writer \in Nat
  BY DEF Ordered, BufferRecord
<1>2. Len(Overwrite(b.bytes, b.writer, data)) = Len(b.bytes)
  BY <1>1, OverwriteElements
<1>3. Store(b, data).bytes = Overwrite(b.bytes, b.writer, data)
  BY DEF Store, Ordered, BufferRecord
<1> QED BY <1>2, <1>3

\* A vector that is resized had less room than the new data and the prepend area.
LEMMA GrowBound ==
  ASSUME NEW r \in Nat, NEW w \in Nat, NEW s \in Nat, NEW l \in Nat, NEW c \in Nat,
         r <= w, w <= s, s - w + r < l + c
  PROVE  w + l < c + (w - r) + l + l
  OBVIOUS

\* append resizes the vector only when the space before and behind the readable
\* bytes is too small, so that what it resizes to is bounded.
LEMMA AppendSize ==
  ASSUME NEW b, Ordered(b), NEW data \in Seq(Byte)
  PROVE  \/ Len(AppendBytes(b, data).bytes) = Len(b.bytes)
         \/ Len(AppendBytes(b, data).bytes)
              < CheapPrepend + ReadableBytes(b) + Len(data) + Len(data)
<1> DEFINE len == Len(data)
           e == EnsureWritableBytes(b, len)
<1>1. /\ b.bytes \in Seq(Byte) /\ b.reader \in Nat /\ b.writer \in Nat
      /\ Len(b.bytes) \in Nat /\ len \in Nat /\ CheapPrepend \in Nat
      /\ b.reader <= b.writer /\ b.writer <= Len(b.bytes)
      /\ ReadableBytes(b) = b.writer - b.reader
  BY LenProperties, SizeAssumption DEF Ordered, BufferRecord, ReadableBytes
<1> HIDE DEF len
<1>2. Ordered(e)
  BY <1>1, EnsureCorrect
<1>3. AppendBytes(b, data) = Store(e, data)
  BY DEF AppendBytes, len
<1>4. Len(AppendBytes(b, data).bytes) = Len(e.bytes)
  BY <1>2, <1>3, StoreSize
<1>5. \/ Len(e.bytes) = Len(b.bytes)
      \/ Len(e.bytes) < CheapPrepend + ReadableBytes(b) + len + len
  <2>1. CASE ~(WritableBytes(b) < len)
    BY <2>1 DEF EnsureWritableBytes
  <2>2. CASE WritableBytes(b) < len /\ MustGrow(b, len)
    <3> DEFINE n == b.writer + len
    <3>1. n \in Nat
      BY <1>1
    <3>2. e.bytes = Resize(b.bytes, n)
      BY <2>2 DEF EnsureWritableBytes, MakeSpace, Grow, Ordered, BufferRecord
    <3> HIDE DEF n, e
    <3>3. Len(e.bytes) = n
      BY <1>1, <3>1, <3>2, ResizeElements, SMTT(30)
    <3>4. Len(b.bytes) - b.writer + b.reader < len + CheapPrepend
      BY <2>2 DEF MustGrow, WritableBytes, PrependableBytes
    <3>5. b.writer + len < CheapPrepend + (b.writer - b.reader) + len + len
      BY <1>1, <3>4, GrowBound
    <3>6. n < CheapPrepend + ReadableBytes(b) + len + len
      BY <1>1, <3>5 DEF n
    <3> QED BY <3>3, <3>6
  <2>3. CASE WritableBytes(b) < len /\ ~MustGrow(b, len)
    <3> DEFINE c == Content(b)
    <3>1. c \in Seq(Byte)
      BY ContentElements
    <3>2. e.bytes = Overwrite(b.bytes, CheapPrepend, c)
      BY <2>3 DEF EnsureWritableBytes, MakeSpace, Compact, Content, Ordered, BufferRecord
    <3> HIDE DEF c, e
    <3>3. Len(e.bytes) = Len(b.bytes)
      BY <1>1, <3>1, <3>2, OverwriteElements
    <3> QED BY <3>3
  <2> QED BY <2>1, <2>2, <2>3
<1> QED BY <1>4, <1>5 DEF len

\* readFd resizes the vector within the same bound.
LEMMA ReceiveSize ==
  ASSUME NEW b, Ordered(b), NEW data \in Seq(Byte)
  PROVE  \/ Len(Receive(b, data).bytes) = Len(b.bytes)
         \/ Len(Receive(b, data).bytes)
              < CheapPrepend + ReadableBytes(b) + Len(data) + Len(data)
<1> DEFINE w == WritableBytes(b)
<1>1. w \in Nat /\ Len(data) \in Nat /\ ReadableBytes(b) \in Nat /\ CheapPrepend \in Nat
  BY LenProperties, SizeAssumption
  DEF Ordered, BufferRecord, WritableBytes, ReadableBytes
<1> HIDE DEF w
<1>2. CASE Len(data) <= w
  <2>1. Receive(b, data) = Store(b, data)
    BY <1>2 DEF Receive, w
  <2> QED BY <2>1, StoreSize
<1>3. CASE ~(Len(data) <= w)
  <2> DEFINE one == SubSeq(data, 1, w)
             two == SubSeq(data, w + 1, Len(data))
             g == Store(b, one)
  <2>1. Receive(b, data) = AppendBytes(g, two)
    BY <1>3 DEF Receive, w
  <2>2. /\ \A i \in 1..w : data[i] \in Byte
        /\ \A i \in w + 1..Len(data) : data[i] \in Byte
    BY <1>1, <1>3, ElementOfSeq
  <2>3. one \in Seq(Byte) /\ Len(one) = w
    <3>1. one \in Seq(Byte) /\ Len(one) = IF 1 <= w THEN w - 1 + 1 ELSE 0
      BY <1>1, <2>2, SubSeqProperties
    <3> QED BY <1>1, <3>1
  <2>4. two \in Seq(Byte) /\ Len(two) = Len(data) - w
    <3>1. /\ two \in Seq(Byte)
          /\ Len(two) = IF w + 1 <= Len(data) THEN Len(data) - (w + 1) + 1 ELSE 0
      BY <1>1, <2>2, SubSeqProperties
    <3> QED BY <1>1, <1>3, <3>1
  <2> HIDE DEF one, two
  <2>5. Len(one) <= WritableBytes(b)
    BY <1>1, <2>3 DEF w
  <2>6. /\ Ordered(g) /\ Len(g.bytes) = Len(b.bytes)
        /\ Content(g) = Content(b) \o one
    BY <2>3, <2>5, StoreCorrect, StoreSize
  <2>7. ReadableBytes(g) = ReadableBytes(b) + w
    <3>1. g.reader = b.reader /\ g.writer = b.writer + Len(one)
      BY DEF Store, Ordered, BufferRecord
    <3>2. b.reader \in Nat /\ b.writer \in Nat
      BY DEF Ordered, BufferRecord
    <3> HIDE DEF g
    <3> QED BY <1>1, <2>3, <3>1, <3>2 DEF ReadableBytes
  <2> HIDE DEF g
  <2>8. \/ Len(AppendBytes(g, two).bytes) = Len(g.bytes)
        \/ Len(AppendBytes(g, two).bytes)
             < CheapPrepend + ReadableBytes(g) + Len(two) + Len(two)
    BY <2>4, <2>6, AppendSize
  <2>9. AppendBytes(g, two).bytes \in Seq(Byte)
    BY <2>4, <2>6, AppendCorrect DEF Ordered, BufferRecord
  <2>10. Len(AppendBytes(g, two).bytes) \in Nat
    BY <2>9, LenProperties
  <2> DEFINE size == Len(AppendBytes(g, two).bytes)
  <2>11. \/ size = Len(b.bytes)
         \/ size < CheapPrepend + (ReadableBytes(b) + w) + Len(two) + Len(two)
    BY <2>6, <2>7, <2>8
  <2> HIDE DEF size
  <2>12. Len(two) = Len(data) - w
    BY <2>4
  <2>13. \/ size = Len(b.bytes)
         \/ size < CheapPrepend + ReadableBytes(b) + Len(data) + Len(data)
    BY <1>1, <1>3, <2>10, <2>11, <2>12, SMTT(30) DEF size
  <2> QED BY <2>1, <2>13 DEF size
<1> QED BY <1>2, <1>3

\* retrieve does not resize the vector.
LEMMA RetrieveSize ==
  ASSUME NEW b, Ordered(b), NEW len
  PROVE  Retrieve(b, len).bytes = b.bytes
BY DEF Retrieve, RetrieveAll, Ordered, BufferRecord

\* Every operation keeps the vector within its bound.
LEMMA SizeStep == IndicesInOrder /\ SizeBounded /\ [Next]_vars => SizeBounded'
<1> SUFFICES ASSUME IndicesInOrder, SizeBounded, [Next]_vars PROVE SizeBounded'
  OBVIOUS
<1>1. Ordered(buf)
  BY DEF IndicesInOrder, Ordered
<1>2. CASE Len(buf'.bytes) = Len(buf.bytes)
  BY <1>2 DEF SizeBounded, LargestData
<1>3. CASE \E data \in Data :
             /\ Fits(data)
             /\ Len(buf'.bytes) < CheapPrepend + ReadableBytes(buf) + Len(data) + Len(data)
  <2>1. PICK data \in Data :
          /\ Fits(data)
          /\ Len(buf'.bytes) < CheapPrepend + ReadableBytes(buf) + Len(data) + Len(data)
    BY <1>3
  <2>2. data \in Seq(Byte)
    BY ByteAssumption
  <2>3. Len(data) \in Nat /\ ReadableBytes(buf) \in Nat
    BY <1>1, <2>2, LenProperties, ContentElements
  <2>4. CASE ~Next
    BY <2>4 DEF vars, SizeBounded, LargestData
  <2>5. CASE Next
    <3>1. Ordered(buf')
      BY <2>5, StepContent
    <3>2. Len(buf'.bytes) \in Nat
      BY <3>1, LenProperties DEF Ordered, BufferRecord
    <3>3. ASSUME NEW bound \in 0..MaxReadable, LargestData(bound)
          PROVE  Len(buf'.bytes) < CheapPrepend + MaxReadable + bound
      <4>1. Len(data) <= bound
        BY <3>3 DEF LargestData
      <4>2. ReadableBytes(buf) + Len(data) <= MaxReadable
        BY <2>1 DEF Fits
      <4> QED BY <2>1, <2>3, <3>2, <4>1, <4>2, SizeAssumption
    <3> QED BY <3>3 DEF SizeBounded, LargestData
  <2> QED BY <2>4, <2>5
<1>4. CASE UNCHANGED vars
  BY <1>2, <1>4 DEF vars
<1>5. CASE DoAppend
  <2>1. PICK data \in Data : Fits(data) /\ buf' = AppendBytes(buf, data)
    BY <1>5 DEF DoAppend
  <2>2. data \in Seq(Byte)
    BY ByteAssumption
  <2> QED BY <1>1, <1>2, <1>3, <2>1, <2>2, AppendSize
<1>6. CASE DoReadFd
  <2>1. PICK data \in Data : Fits(data) /\ buf' = Receive(buf, data)
    BY <1>6 DEF DoReadFd
  <2>2. data \in Seq(Byte)
    BY ByteAssumption
  <2> QED BY <1>1, <1>2, <1>3, <2>1, <2>2, ReceiveSize
<1>7. CASE DoRetrieve
  BY <1>1, <1>2, <1>7, RetrieveSize DEF DoRetrieve
<1>8. CASE DoRetrieveAsString
  BY <1>1, <1>2, <1>8, RetrieveSize DEF DoRetrieveAsString
<1>9. CASE DoWriteFd
  BY <1>2, <1>9 DEF DoWriteFd
<1> QED BY <1>4, <1>5, <1>6, <1>7, <1>8, <1>9 DEF Next

\* A new Buffer has its initial size.
LEMMA SizeInit == Init => SizeBounded
<1> SUFFICES ASSUME Init PROVE SizeBounded
  OBVIOUS
<1> DEFINE n == CheapPrepend + InitialSize
<1>1. n \in Nat
  BY SizeAssumption
<1>2. buf.bytes = [i \in 1..n |-> 0]
  BY DEF Init
<1> HIDE DEF n
<1>3. Len(buf.bytes) = n
  BY <1>1, <1>2
<1> QED BY <1>1, <1>3 DEF SizeBounded, n

\* A Buffer that never holds more than MaxReadable bytes stays within a fixed
\* size, for any sequence of append, readFd and retrieve.
THEOREM SizeStaysBounded == Spec => []SizeBounded
  BY IndicesCorrect, SizeInit, SizeStep, PTL DEF Spec
=============================================================================
