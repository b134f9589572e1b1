------------------------------- MODULE Buffer -------------------------------
(***************************************************************************)
(* Buffer (include/Buffer.h, src/Buffer.cc): a vector of bytes with a      *)
(* reader and a writer index, the input and output buffer of a connection. *)
(* The byte at C++ index i is bytes[i + 1].  A caller may append any data  *)
(* of Data, the kernel may deliver any data of Data that fits the two      *)
(* blocks of readFd.                                                       *)
(***************************************************************************)
EXTENDS Naturals, Sequences

CONSTANTS Byte,         \* the values of a byte; 0 is what resize fills in
          Data,         \* what may be appended or received
          CheapPrepend, \* kCheapPrepend
          InitialSize,  \* kInitialSize
          ExtraSize,    \* sizeof(extrabuf) of readFd
          MaxReadable   \* bound: bytes waiting in the buffer

ASSUME ByteAssumption == 0 \in Byte /\ Data \subseteq Seq(Byte)
ASSUME SizeAssumption ==
  CheapPrepend \in Nat /\ InitialSize \in Nat /\ ExtraSize \in Nat /\ MaxReadable \in Nat

VARIABLES buf, \* buffer_, readerIndex_ and writerIndex_
          out  \* the bytes that the last peek handed out

vars == <<buf, out>>

BufferRecord == [bytes: Seq(Byte), reader: Nat, writer: Nat]
-----------------------------------------------------------------------------
ReadableBytes(b) == b.writer - b.reader
WritableBytes(b) == Len(b.bytes) - b.writer
PrependableBytes(b) == b.reader

\* The n bytes from readerIndex_ on.
Peek(b, n) == SubSeq(b.bytes, b.reader + 1, b.reader + n)

\* std::copy of data to C++ index at.
Overwrite(s, at, data) ==
  [i \in 1..Len(s) |-> IF at < i /\ i <= at + Len(data) THEN data[i - at] ELSE s[i]]

Resize(s, n) == [i \in 1..n |-> IF i <= Len(s) THEN s[i] ELSE 0]

\* Mutant: retrieved space is never used again.
MustGrowAlways(b, len) == TRUE

\* Too little room in front and behind together?
MustGrow(b, len) ==
  WritableBytes(b) + PrependableBytes(b) < len + CheapPrepend

Grow(b, len) == [b EXCEPT !.bytes = Resize(@, b.writer + len)]

\* Mutant: the writer index is computed from the old reader index.
CompactStale(b) ==
  [b EXCEPT !.bytes = Overwrite(@, CheapPrepend, Peek(b, ReadableBytes(b))),
            !.reader = CheapPrepend]

\* The readable bytes move to the front.
Compact(b) ==
  [b EXCEPT !.bytes = Overwrite(@, CheapPrepend, Peek(b, ReadableBytes(b))),
            !.reader = CheapPrepend,
            !.writer = CheapPrepend + ReadableBytes(b)]

MakeSpace(b, len) == IF MustGrow(b, len) THEN Grow(b, len) ELSE Compact(b)

EnsureWritableBytes(b, len) ==
  IF WritableBytes(b) < len THEN MakeSpace(b, len) ELSE b

\* Write data at writerIndex_ and advance it: the data fits.
Store(b, data) ==
  [b EXCEPT !.bytes = Overwrite(@, b.writer, data), !.writer = @ + Len(data)]

AppendBytes(b, data) == Store(EnsureWritableBytes(b, Len(data)), data)

RetrieveAll(b) == [b EXCEPT !.reader = CheapPrepend, !.writer = CheapPrepend]

Retrieve(b, len) ==
  IF len < ReadableBytes(b) THEN [b EXCEPT !.reader = @ + len] ELSE RetrieveAll(b)

\* readFd's buffers: the writable bytes, and extrabuf if those are fewer.
ReadCapacity(b) ==
  WritableBytes(b) + (IF WritableBytes(b) < ExtraSize THEN ExtraSize ELSE 0)

\* Mutant: writerIndex_ is not moved to the end before extrabuf is appended.
ReceiveShort(b, data) ==
  LET w == WritableBytes(b) IN
  IF Len(data) <= w
    THEN Store(b, data)
    ELSE AppendBytes(b, SubSeq(data, w + 1, Len(data)))

\* readFd: what exceeds the writable bytes comes from extrabuf by append.
Receive(b, data) ==
  LET w == WritableBytes(b) IN
  IF Len(data) <= w
    THEN Store(b, data)
    ELSE AppendBytes(Store(b, SubSeq(data, 1, w)), SubSeq(data, w + 1, Len(data)))
-----------------------------------------------------------------------------
Init ==
  /\ buf = [bytes |-> [i \in 1..CheapPrepend + InitialSize |-> 0],
            reader |-> CheapPrepend, writer |-> CheapPrepend]
  /\ out = << >>

Fits(data) == ReadableBytes(buf) + Len(data) <= MaxReadable

DoAppend ==
  \E data \in Data :
    /\ Fits(data)
    /\ buf' = AppendBytes(buf, data)
    /\ UNCHANGED out

DoReadFd ==
  \E data \in Data :
    /\ Fits(data)
    /\ Len(data) <= ReadCapacity(buf)
    /\ buf' = Receive(buf, data)
    /\ UNCHANGED out

\* retrieve of more than there is empties the buffer.
DoRetrieve ==
  \E len \in 0..MaxReadable :
    /\ buf' = Retrieve(buf, len)
    /\ UNCHANGED out

DoRetrieveAsString ==
  \E len \in 0..ReadableBytes(buf) :
    /\ out' = Peek(buf, len)
    /\ buf' = Retrieve(buf, len)

\* The kernel takes some of the readable bytes.
DoWriteFd ==
  \E len \in 0..ReadableBytes(buf) :
    /\ out' = Peek(buf, len)
    /\ UNCHANGED buf

Next == DoAppend \/ DoReadFd \/ DoRetrieve \/ DoRetrieveAsString \/ DoWriteFd

Spec == Init /\ [][Next]_vars
-----------------------------------------------------------------------------
\* Types, and the order of the indices that every copy and pointer of the class
\* relies on: 0..CheapPrepend..reader..writer..size.
IndicesInOrder ==
  /\ buf \in BufferRecord
  /\ CheapPrepend <= buf.reader
  /\ buf.reader <= buf.writer
  /\ buf.writer <= Len(buf.bytes)
  /\ out \in Seq(Byte)

\* Whatever is moved, overwritten or reallocated, the readable bytes are the
\* bytes put in and not yet taken out, in order.
Abstract == INSTANCE ByteQueue WITH queue <- Peek(buf, ReadableBytes(buf))
ImplementsByteQueue == Abstract!Spec

\* Space that was retrieved is used again: however long the buffer lives, its size
\* is bounded by what waits in it at most and the largest append.
LargestData(bound) == \A data \in Data : Len(data) <= bound
SizeBounded ==
  \A bound \in 0..MaxReadable :
    LargestData(bound) =>
      \/ Len(buf.bytes) <= CheapPrepend + InitialSize
      \/ Len(buf.bytes) < CheapPrepend + MaxReadable + bound
=============================================================================
