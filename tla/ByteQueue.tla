------------------------------ MODULE ByteQueue ------------------------------
(***************************************************************************)
(* What a Buffer promises: a first-in first-out queue of bytes, with no    *)
(* storage, indices or reallocation.                                       *)
(***************************************************************************)
EXTENDS Naturals, Sequences

CONSTANT Data \* what may be put in

VARIABLES queue, \* the readable bytes
          out    \* the bytes that the last peek handed out

vars == <<queue, out>>

First(n) == SubSeq(queue, 1, n)
Rest(n) == SubSeq(queue, n + 1, Len(queue))

Init == queue = << >> /\ out = << >>

Put(data) == queue' = queue \o data /\ UNCHANGED out

Look(n) == out' = First(n) /\ UNCHANGED queue

Take(n) == queue' = Rest(n) /\ UNCHANGED out

LookAndTake(n) == out' = First(n) /\ queue' = Rest(n)

Next ==
  \/ \E data \in Data : Put(data)
  \/ \E n \in 0..Len(queue) : Look(n) \/ Take(n) \/ LookAndTake(n)

Spec == Init /\ [][Next]_vars
=============================================================================
