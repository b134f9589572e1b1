--------------------------- MODULE ConsistentHash ---------------------------
(***************************************************************************)
(* The hash ring of include/ConsistenHash.h: circle_ maps the hash of a    *)
(* virtual node to its node, sortedHashes_ lists the hashes in order, with *)
(* repetitions when hashes collide.  The mutex makes every method atomic.  *)
(* A virtual node is a node and a number, a key is the hash it has, and    *)
(* the hash function is unknown: any function, fixed from the start.       *)
(***************************************************************************)
EXTENDS Naturals, Sequences, FiniteSets, Functions

CONSTANTS Nodes,    \* names of nodes
          NoNode,   \* the empty name, of no node
          Replicas, \* numReplicas_
          MaxHash   \* hashes are 0..MaxHash

ASSUME RingAssumption ==
  NoNode \notin Nodes /\ Replicas \in Nat \ {0} /\ MaxHash \in Nat

VARIABLES hashFunction, \* hashFunction_ on virtual nodes
          circle,       \* circle_
          sortedHashes, \* sortedHashes_
          members       \* history: nodes added and not removed since

ringVars == <<hashFunction, circle, sortedHashes, members>>

Hashes == 0..MaxHash
VirtualNodes == Nodes \X (1..Replicas)
Points(node) == {hashFunction[<<node, i>>] : i \in 1..Replicas}

\* The iterators that std::lower_bound and upper_bound return in a sorted vector.
LowerBound(s, h) == 1 + Cardinality({i \in DOMAIN s : s[i] < h})
UpperBound(s, h) == 1 + Cardinality({i \in DOMAIN s : s[i] <= h})

Insert(s, h) ==
  LET at == LowerBound(s, h) IN SubSeq(s, 1, at - 1) \o <<h>> \o SubSeq(s, at, Len(s))

Erase(s, h) ==
  LET at == LowerBound(s, h) IN
  IF at <= Len(s) /\ s[at] = h THEN SubSeq(s, 1, at - 1) \o SubSeq(s, at + 1, Len(s)) ELSE s

\* The list when all virtual nodes of node have come in, and when they have left.
InsertAll(s, node) ==
  LET list[i \in 0..Replicas] ==
        IF i = 0 THEN s ELSE Insert(list[i - 1], hashFunction[<<node, i>>])
  IN list[Replicas]

EraseAll(s, node) ==
  LET list[i \in 0..Replicas] ==
        IF i = 0 THEN s ELSE Erase(list[i - 1], hashFunction[<<node, i>>])
  IN list[Replicas]

RingTypeOK ==
  /\ hashFunction \in [VirtualNodes -> Hashes]
  /\ DOMAIN circle \subseteq Hashes
  /\ Range(circle) \subseteq Nodes \cup {NoNode}
  /\ sortedHashes \in Seq(Hashes)
  /\ members \subseteq Nodes

RingInit ==
  /\ hashFunction \in [VirtualNodes -> Hashes]
  /\ circle = << >>
  /\ sortedHashes = << >>
  /\ members = {}
-----------------------------------------------------------------------------
\* Mutant: a new virtual node is put in front of the list.
AddNodeUnsorted(node) ==
  /\ circle' = [h \in DOMAIN circle \cup Points(node) |->
                  IF h \in Points(node) THEN node ELSE circle[h]]
  /\ LET list[i \in 0..Replicas] ==
           IF i = 0 THEN sortedHashes ELSE <<hashFunction[<<node, i>>]>> \o list[i - 1]
     IN sortedHashes' = list[Replicas]
  /\ members' = members \cup {node}
  /\ UNCHANGED hashFunction

\* Mutant: only the first virtual node gets into the list.
AddNodeOnce(node) ==
  /\ circle' = [h \in DOMAIN circle \cup Points(node) |->
                  IF h \in Points(node) THEN node ELSE circle[h]]
  /\ sortedHashes' = Insert(sortedHashes, hashFunction[<<node, 1>>])
  /\ members' = members \cup {node}
  /\ UNCHANGED hashFunction

\* addNode: the hash of a virtual node is the new node's, whoever had it.
AddNode(node) ==
  /\ circle' = [h \in DOMAIN circle \cup Points(node) |->
                  IF h \in Points(node) THEN node ELSE circle[h]]
  /\ sortedHashes' = InsertAll(sortedHashes, node)
  /\ members' = members \cup {node}
  /\ UNCHANGED hashFunction

\* removeNode: the hash leaves circle_, whoever has it, and the list once.
RemoveNode(node) ==
  /\ circle' = [h \in DOMAIN circle \ Points(node) |-> circle[h]]
  /\ sortedHashes' = EraseAll(sortedHashes, node)
  /\ members' = members \ {node}
  /\ UNCHANGED hashFunction

\* getNode throws when circle_ is empty.
Throws == DOMAIN circle = {}

\* Mutant: past the end it stays at the last hash.
FoundLast(key) ==
  LET at == UpperBound(sortedHashes, key) IN
  sortedHashes[IF at > Len(sortedHashes) THEN Len(sortedHashes) ELSE at]

\* Where getNode finds the key: the next hash, from the end back to the beginning.
Found(key) ==
  LET at == UpperBound(sortedHashes, key) IN
  sortedHashes[IF at > Len(sortedHashes) THEN 1 ELSE at]

\* circle_[*it], the node that getNode returns; an entry that operator[] has to
\* make is the empty name.
GetNode(key) ==
  IF Found(key) \in DOMAIN circle THEN circle[Found(key)] ELSE NoNode

\* What a call of getNode does to the ring.
Lookup(key) ==
  /\ ~Throws
  /\ circle' = [h \in DOMAIN circle \cup {Found(key)} |->
                  IF h = Found(key) THEN GetNode(key) ELSE circle[h]]
  /\ UNCHANGED <<hashFunction, sortedHashes, members>>
-----------------------------------------------------------------------------
\* A node is added when it is not there and removed when it is.
RingNext ==
  \/ \E node \in Nodes \ members : AddNode(node)
  \/ \E node \in members : RemoveNode(node)
  \/ \E key \in Hashes : Lookup(key)

RingSpec == RingInit /\ [][RingNext]_ringVars
-----------------------------------------------------------------------------
(***************************************************************************)
(* Properties                                                              *)
(***************************************************************************)

\* No two virtual nodes have the same hash.
Distinct == \A v, w \in VirtualNodes : hashFunction[v] = hashFunction[w] => v = w

\* How far it is from a key to a hash, clockwise; a key's own hash is farthest.
Distance(key, h) == IF h > key THEN h - key ELSE h + MaxHash + 1 - key

\* Once there are nodes, getNode returns the one whose virtual node comes next on
\* the circle, as long as hashes do not collide: the binary search, the wrap at the
\* end and the two books that addNode and removeNode keep come together here.
GetNodeIsNext ==
  Distinct /\ members # {} =>
    /\ ~Throws
    /\ \A key \in Hashes :
         \E v \in members \X (1..Replicas) :
           /\ \A w \in members \X (1..Replicas) :
                Distance(key, hashFunction[v]) <= Distance(key, hashFunction[w])
           /\ GetNode(key) = v[1]

\* A key changes its node only when it has to: to the node that is added, and
\* away from the node that is removed. Additions may collide; a removal may not,
\* it would take the other node's hash out of circle_.
KeysStay ==
  [][\A key \in Hashes :
       /\ \A node \in members' \ members :
            ~Throws /\ GetNode(key) # NoNode => GetNode(key)' \in {GetNode(key), node}
       /\ \A node \in members \ members' :
            Distinct /\ ~Throws' /\ GetNode(key) # node => GetNode(key)' = GetNode(key)]_ringVars

\* The list is sorted and covers circle_; without collisions every hash in it has
\* its node, so that getNode never makes up an empty name.
RingBooksAgree ==
  /\ RingTypeOK
  /\ \A i \in 1..Len(sortedHashes) - 1 : sortedHashes[i] <= sortedHashes[i + 1]
  /\ DOMAIN circle \subseteq Range(sortedHashes)
  /\ Distinct => /\ Range(sortedHashes) = DOMAIN circle
                 /\ Len(sortedHashes) = Cardinality(DOMAIN circle)
=============================================================================
