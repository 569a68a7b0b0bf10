------------------------ MODULE RtmqServerRecv_proofs ------------------------
(***************************************************************************)
(* Receive buffers for every number of connections, threads, workers and   *)
(* queues: the counts are exact, a push to a queue never fails, what an    *)
(* item shows stays whole, and messages are handled once and in order.     *)
(***************************************************************************)
EXTENDS RtmqServerRecv, SequenceTheorems, FiniteSetTheorems, TLAPS

-----------------------------------------------------------------------------
(* The inductive invariant. *)

\* What a receiving thread finds at each of its steps.
ThreadsStand ==
    \A r \in Rsvrs :
        /\ cur[r] # None => RsvrOf[cur[r]] = r /\ base[cur[r]] # None
        /\ rpc[r] = "idle" => cur[r] = None
        /\ rpc[r] \in {"read", "parse", "inc", "push", "cmd"} => cur[r] # None
        /\ rpc[r] \in {"idle", "read", "parse"} => rq[r] = None
        /\ rpc[r] \in {"inc", "push", "cmd", "all"} => rq[r] # None
        /\ rpc[r] \in {"dec", "free"} => old[r] # None /\ (cur[r] # None => rq[r] = None)

\* The queues a worker is told of, and what it has in hand at each of its steps.
OwnQueues(w) == {q \in Recvqs : q \div HdlQnum = w}

WorkersStand ==
    \A w \in Workers :
        /\ pipe[w] \in Seq(OwnQueues(w)) /\ visit[w] \in Seq(OwnQueues(w))
        /\ wpc[w] # "select" <=> visit[w] # <<>>
        /\ wpc[w] \in {"proc", "free", "back"} <=> batch[w] # <<>>

\* A connection that waits has read nothing; no two connections have one buffer.
ConnsStand ==
    /\ \A c \in connq : base[c] = None /\ got[c] = 0 /\ optr[c] = 0
    /\ \A c, d \in Conns : base[c] = base[d] /\ base[c] # None => c = d

\* The blocks of a queue are in its pool, taken by a thread that will push them, in
\* the ring or with the worker.
Taking(q) == {r \in Rsvrs : rpc[r] \in {"inc", "push"} /\ rq[r] = q}
Visiting(q) == visit[q \div HdlQnum] # <<>> /\ Head(visit[q \div HdlQnum]) = q
InBatch(q) == IF Visiting(q) THEN Len(batch[q \div HdlQnum]) ELSE 0

BlocksKept ==
    \A q \in Recvqs :
        /\ IsFiniteSet(Taking(q))
        /\ pool[q] + Cardinality(Taking(q)) + Len(recvq[q]) + InBatch(q) = QueueMax

\* The counts, with what the proof needs of the sets that are counted.
Counted ==
    \A b \in Buffs :
        /\ IsFiniteSet(Holders(b))
        /\ count[b] = None => Holders(b) = {}
        /\ count[b] # None => count[b] = Cardinality(Holders(b))
        /\ count[b] = 0 => \E x : Freeing(b) = {x}
        /\ count[b] # 0 => Freeing(b) = {}

\* How much of its stream a connection has dealt with.
Done(c) == got[c] + optr[c] - Iptr(c)

\* What a buffer holds after optr is the end of what was read, from the start of a
\* message on.
InStream ==
    \A c \in Conns : base[c] # None =>
        /\ optr[c] <= Iptr(c) /\ Iptr(c) <= got[c] + optr[c]
        /\ got[c] <= Len(Stream[c])
        /\ \A k \in (optr[c] + 1)..Iptr(c) : mem[base[c]][k] = Stream[c][got[c] - Iptr(c) + k]
        /\ Done(c) < Len(Stream[c]) => Stream[c][Done(c) + 1].at = 1

\* A message that a thread is handing on, or has dropped, is in the buffer.
MessageThere ==
    \A r \in Rsvrs :
        /\ rpc[r] \in {"inc", "push", "cmd"} => Complete(cur[r]) /\ Accepted(cur[r])
        /\ rpc[r] = "all" /\ cur[r] # None => Complete(cur[r])

\* The messages of a queue: those handled, those with the worker, those in the ring.
Unreleased(w) == IF wpc[w] \in {"free", "back"} THEN Tail(batch[w]) ELSE batch[w]
InHand(q) == IF Visiting(q) THEN Unreleased(q \div HdlQnum) ELSE <<>>
Nos(s) == [i \in 1..Len(s) |-> s[i].no]
Line(q) == (handled[q] \o Nos(InHand(q))) \o Nos(recvq[q])

\* The units up to which the messages of a connection have been handed on.
Sent(c) ==
    Done(c) + (IF rpc[RsvrOf[c]] = "cmd" /\ cur[RsvrOf[c]] = c THEN 1 ELSE 0)

\* Every message of a line has been handed on, those of a connection stand in order,
\* and no two lines have a message in common.
LinesSent ==
    \A q \in Recvqs : \A n \in Range(Line(q)) :
        \E c \in Conns \ (connq \cup Refused) : \E k \in DOMAIN Stream[c] :
            /\ n = Stream[c][k].no /\ Stream[c][k].kind = "exp"
            /\ base[c] # None => k <= Sent(c)

LinesInOrder ==
    \A c \in Conns, q \in Recvqs : \A i, j \in DOMAIN Line(q) :
        i < j /\ {Line(q)[i], Line(q)[j]} \subseteq Messages(c) => Line(q)[i] < Line(q)[j]

LinesApart == \A p, q \in Recvqs : p # q => Range(Line(p)) \cap Range(Line(q)) = {}

IInv ==
    /\ TypeOK /\ ThreadsStand /\ WorkersStand /\ ConnsStand
    /\ BlocksKept /\ Counted
    /\ InStream /\ MessageThere /\ Intact
    /\ LinesSent /\ LinesInOrder /\ LinesApart

-----------------------------------------------------------------------------
(* Constants. *)

LEMMA Sizes ==
    /\ WorkNum \in Nat \ {0} /\ HdlQnum \in Nat \ {0} /\ QueueMax \in Nat \ {0}
    /\ BuffLen \in Nat \ {0} /\ BuffNum \in Nat \ {0} /\ PipeMax \in Nat \ {0}
    /\ MaxIdle \in Nat
    /\ None \notin Conns /\ None \notin Nat
    /\ \A c \in Conns : RsvrOf[c] \in Rsvrs
  BY RecvAssumption

\* Division with remainder by the queues of a worker.
LEMMA DivMod ==
    ASSUME NEW k \in Nat
    PROVE  /\ k \div HdlQnum \in Nat
           /\ k % HdlQnum \in 0..(HdlQnum - 1)
           /\ k = (HdlQnum * (k \div HdlQnum)) + (k % HdlQnum)
  BY Sizes, SMT

\* The queues belong to workers.
LEMMA Owners ==
    /\ RecvqNum \in Nat \ {0}
    /\ \A q \in Recvqs : q \div HdlQnum \in Workers
    /\ \A w \in Workers, i \in 1..HdlQnum :
          HdlQnum * w + i - 1 \in Recvqs /\ (HdlQnum * w + i - 1) \div HdlQnum = w
  <1>1. RecvqNum \in Nat \ {0}
    BY Sizes DEF RecvqNum
  <1>2. ASSUME NEW q \in Recvqs PROVE q \div HdlQnum \in Workers
    <2> DEFINE w == q \div HdlQnum
               m == q % HdlQnum
    <2>1. q \in Nat /\ q < HdlQnum * WorkNum
      BY <1>1, Sizes DEF Recvqs, RecvqNum
    <2>2. w \in Nat /\ m \in 0..(HdlQnum - 1) /\ q = (HdlQnum * w) + m
      BY <2>1, DivMod
    <2> HIDE DEF w, m
    <2>3. w < WorkNum
      <3> SUFFICES ASSUME w >= WorkNum PROVE FALSE
        BY <2>2, Sizes
      <3>1. HdlQnum * w >= HdlQnum * WorkNum
        BY <2>2, Sizes
      <3>2. HdlQnum * w \in Nat /\ HdlQnum * WorkNum \in Nat
        BY <2>2, Sizes
      <3>3. QED
        BY <2>1, <2>2, <3>1, <3>2
    <2>4. QED
      BY <2>2, <2>3, Sizes DEF Workers, w
  <1>3. ASSUME NEW w \in Workers, NEW i \in 1..HdlQnum
        PROVE  HdlQnum * w + i - 1 \in Recvqs /\ (HdlQnum * w + i - 1) \div HdlQnum = w
    <2> DEFINE q == HdlQnum * w + i - 1
               v == q \div HdlQnum
               m == q % HdlQnum
    <2>1. w \in Nat /\ w + 1 <= WorkNum /\ i \in Nat /\ i - 1 \in 0..(HdlQnum - 1)
      BY Sizes DEF Workers
    <2>2. HdlQnum * w \in Nat /\ q \in Nat /\ q = (HdlQnum * w) + (i - 1)
      BY <2>1, Sizes
    <2>3. v \in Nat /\ m \in 0..(HdlQnum - 1) /\ q = (HdlQnum * v) + m
      BY <2>2, DivMod
    <2>4. HdlQnum * (w + 1) <= HdlQnum * WorkNum /\ HdlQnum * (w + 1) = (HdlQnum * w) + HdlQnum
      BY <2>1, Sizes
    <2> HIDE DEF q, v, m
    <2>5. q \in Recvqs
      BY <1>1, <2>1, <2>2, <2>4, Sizes DEF Recvqs, RecvqNum
    <2>6. v = w
      <3>1. ASSUME v > w PROVE FALSE
        <4>1. HdlQnum * v >= HdlQnum * (w + 1)
          BY <2>1, <2>3, <3>1, Sizes
        <4>2. QED
          BY <2>1, <2>2, <2>3, <2>4, <4>1, Sizes
      <3>2. ASSUME v < w PROVE FALSE
        <4>1. HdlQnum * w >= HdlQnum * (v + 1) /\ HdlQnum * (v + 1) = (HdlQnum * v) + HdlQnum
          BY <2>1, <2>3, <3>2, Sizes
        <4>2. QED
          BY <2>1, <2>2, <2>3, <4>1, Sizes
      <3>3. QED
        BY <2>1, <2>3, <3>1, <3>2
    <2>7. QED
      BY <2>5, <2>6 DEF q, v
  <1>4. QED
    BY <1>1, <1>2, <1>3

-----------------------------------------------------------------------------
(* Buffers are held. *)

\* What a connection, a thread that releases or a thread that has counted refers to is
\* in the table, and so is what an item shows that is not released.
LEMMA HeldCounts ==
    ASSUME IInv, NEW b \in Buffs, NEW x \in Holders(b)
    PROVE  count[b] \in Nat \ {0}
  <1>1. count[b] # None /\ count[b] = Cardinality(Holders(b)) /\ IsFiniteSet(Holders(b))
    BY DEF IInv, Counted
  <1>2. QED
    BY <1>1, FS_EmptySet, FS_CardinalityType

\* A buffer that is being freed has no reference left.
LEMMA FreedCounts ==
    ASSUME IInv, NEW b \in Buffs, NEW x \in Freeing(b)
    PROVE  count[b] = 0 /\ Holders(b) = {} /\ Freeing(b) = {x}
  <1>1. count[b] = 0 /\ \E y : Freeing(b) = {y}
    BY DEF IInv, Counted
  <1>2. count[b] # None
    BY <1>1, Sizes
  <1>3. Cardinality(Holders(b)) = 0 /\ IsFiniteSet(Holders(b))
    BY <1>1, <1>2 DEF IInv, Counted
  <1>4. QED
    BY <1>1, <1>3, FS_EmptySet

LEMMA ConnHolds ==
    ASSUME IInv, NEW c \in Conns, base[c] # None
    PROVE  base[c] \in Buffs /\ <<"conn", c>> \in Holders(base[c]) /\ count[base[c]] \in Nat \ {0}
  <1>1. base[c] \in Buffs
    BY DEF IInv, TypeOK, ConnsOK
  <1>2. <<"conn", c>> \in Holders(base[c])
    BY <1>1 DEF Holders, ConnRefs
  <1>3. QED
    BY <1>1, <1>2, HeldCounts

LEMMA OldHolds ==
    ASSUME IInv, NEW r \in Rsvrs
    PROVE  /\ rpc[r] = "dec" => old[r] \in Buffs /\ <<"old", r>> \in Holders(old[r]) /\ count[old[r]] \in Nat \ {0}
           /\ rpc[r] = "free" => old[r] \in Buffs /\ <<"rsvr", r>> \in Freeing(old[r])
  <1>1. rpc[r] \in {"dec", "free"} => old[r] \in Buffs
    BY DEF IInv, TypeOK, RsvrsOK, ThreadsStand
  <1>2. rpc[r] = "dec" => <<"old", r>> \in Holders(old[r])
    BY DEF Holders, OldRefs
  <1>3. rpc[r] = "free" => <<"rsvr", r>> \in Freeing(old[r])
    BY DEF Freeing
  <1>4. QED
    BY <1>1, <1>2, <1>3, HeldCounts

LEMMA RecvqHolds ==
    ASSUME IInv, NEW q \in Recvqs, NEW i \in DOMAIN recvq[q]
    PROVE  LET b == recvq[q][i].base
           IN  b \in Buffs /\ <<"recvq", q, i>> \in Holders(b) /\ count[b] \in Nat \ {0}
  <1> DEFINE b == recvq[q][i].base
  <1>1. b \in Buffs
    <2>1. recvq[q] \in Seq(Item)
      BY DEF IInv, TypeOK, QueuesOK
    <2>2. recvq[q][i] \in Item
      BY <2>1, ElementOfSeq, LenProperties
    <2>3. QED
      BY <2>2 DEF Item
  <1>2. <<"recvq", q, i>> \in Holders(b)
    BY DEF Holders, RecvqRefs
  <1>3. QED
    BY <1>1, <1>2, HeldCounts

LEMMA BatchHolds ==
    ASSUME IInv, NEW w \in Workers, NEW i \in Pending(w)
    PROVE  LET b == batch[w][i].base
           IN  b \in Buffs /\ <<"batch", w, i>> \in Holders(b) /\ count[b] \in Nat \ {0}
  <1> DEFINE b == batch[w][i].base
  <1>1. b \in Buffs
    <2>1. batch[w] \in Seq(Item) /\ i \in DOMAIN batch[w]
      BY DEF IInv, TypeOK, WorkersOK, Pending
    <2>2. batch[w][i] \in Item
      BY <2>1, ElementOfSeq, LenProperties
    <2>3. QED
      BY <2>2 DEF Item
  <1>2. <<"batch", w, i>> \in Holders(b)
    BY DEF Holders, BatchRefs
  <1>3. QED
    BY <1>1, <1>2, HeldCounts

\* The queue a worker is at is one of its own.
LEMMA AtQueue ==
    ASSUME IInv, NEW w \in Workers, wpc[w] # "select"
    PROVE  /\ visit[w] # <<>> /\ Head(visit[w]) \in Recvqs /\ Head(visit[w]) \div HdlQnum = w
           /\ Visiting(Head(visit[w])) /\ InBatch(Head(visit[w])) = Len(batch[w])
           /\ \A q \in Recvqs : q \div HdlQnum = w /\ q # Head(visit[w]) => ~Visiting(q)
  <1>1. visit[w] \in Seq(OwnQueues(w)) /\ visit[w] # <<>>
    BY DEF IInv, WorkersStand
  <1>2. Head(visit[w]) \in OwnQueues(w)
    BY <1>1, HeadTailProperties
  <1>3. QED
    BY <1>1, <1>2 DEF OwnQueues, Visiting, InBatch

\* The parts of a queue's capacity.
LEMMA BlockSums ==
    ASSUME IInv, NEW q \in Recvqs
    PROVE  /\ pool[q] \in Nat /\ Cardinality(Taking(q)) \in Nat /\ Len(recvq[q]) \in Nat
           /\ InBatch(q) \in Nat
           /\ pool[q] + Cardinality(Taking(q)) + Len(recvq[q]) + InBatch(q) = QueueMax
  <1>1. pool[q] \in Nat /\ recvq[q] \in Seq(Item)
    BY DEF IInv, TypeOK, QueuesOK
  <1>2. Cardinality(Taking(q)) \in Nat
    BY FS_CardinalityType DEF IInv, BlocksKept
  <1>3. batch[q \div HdlQnum] \in Seq(Item)
    BY Owners DEF IInv, TypeOK, WorkersOK
  <1>4. InBatch(q) \in Nat
    BY <1>3, LenProperties DEF InBatch
  <1>5. QED
    BY <1>1, <1>2, <1>4, LenProperties DEF IInv, BlocksKept

-----------------------------------------------------------------------------
(* An allocation finds an address. *)

\* Where a buffer in use is found: with a connection, with a thread that releases it,
\* in a block of a queue, the blocks of the ring first and those of the worker last.
Places == ({1} \X Conns) \cup ({2} \X Rsvrs) \cup ({3} \X (Recvqs \X (1..QueueMax)))

LEMMA PlacesCounted ==
    /\ IsFiniteSet(Places)
    /\ Cardinality(Places) <= Cardinality(Conns) + RecvqNum * QueueMax + Cardinality(Rsvrs)
    /\ Cardinality(Conns) \in Nat /\ Cardinality(Rsvrs) \in Nat
  <1> DEFINE A == {1} \X Conns
             B == {2} \X Rsvrs
             Q == Recvqs \X (1..QueueMax)
             C == {3} \X Q
  <1>1. /\ IsFiniteSet(Conns) /\ Cardinality(Conns) \in Nat
        /\ IsFiniteSet(Rsvrs) /\ Cardinality(Rsvrs) \in Nat
    BY RecvAssumption, FS_CardinalityType
  <1>2. /\ IsFiniteSet(Recvqs) /\ Cardinality(Recvqs) = RecvqNum
        /\ IsFiniteSet(1..QueueMax) /\ Cardinality(1..QueueMax) = QueueMax
    <2>1. 0 \in Int /\ RecvqNum - 1 \in Int /\ 1 \in Int /\ QueueMax \in Int
      BY Owners, Sizes
    <2>2. /\ IsFiniteSet(0..(RecvqNum - 1))
          /\ Cardinality(0..(RecvqNum - 1)) = IF 0 > RecvqNum - 1 THEN 0 ELSE RecvqNum - 1 - 0 + 1
      BY <2>1, FS_Interval
    <2>3. /\ IsFiniteSet(1..QueueMax)
          /\ Cardinality(1..QueueMax) = IF 1 > QueueMax THEN 0 ELSE QueueMax - 1 + 1
      BY <2>1, FS_Interval
    <2>4. QED
      BY <2>2, <2>3, Owners, Sizes DEF Recvqs
  <1>3. IsFiniteSet(Q) /\ Cardinality(Q) = RecvqNum * QueueMax
    BY <1>2, FS_Product
  <1>4. \A x : IsFiniteSet({x}) /\ Cardinality({x}) = 1
    BY FS_Singleton
  <1>5. ASSUME NEW x, NEW S, IsFiniteSet(S)
        PROVE  IsFiniteSet({x} \X S) /\ Cardinality({x} \X S) = 1 * Cardinality(S)
    <2>1. IsFiniteSet({x}) /\ Cardinality({x}) = 1
      BY <1>4
    <2>2. IsFiniteSet({x} \X S) /\ Cardinality({x} \X S) = Cardinality({x}) * Cardinality(S)
      BY <1>5, <2>1, FS_Product
    <2>3. QED
      BY <2>1, <2>2
  <1>5a. /\ IsFiniteSet(A) /\ Cardinality(A) = 1 * Cardinality(Conns)
         /\ IsFiniteSet(B) /\ Cardinality(B) = 1 * Cardinality(Rsvrs)
    BY <1>1, <1>5
  <1>5b. IsFiniteSet(C) /\ Cardinality(C) = 1 * Cardinality(Q)
    BY <1>3, <1>5
  <1>6. /\ IsFiniteSet(A \cup B) /\ IsFiniteSet(A \cap B)
        /\ Cardinality(A \cup B) = Cardinality(A) + Cardinality(B) - Cardinality(A \cap B)
    BY <1>5a, <1>5b, FS_Union, FS_Intersection
  <1>7. /\ IsFiniteSet((A \cup B) \cup C) /\ IsFiniteSet((A \cup B) \cap C)
        /\ Cardinality((A \cup B) \cup C) = Cardinality(A \cup B) + Cardinality(C) - Cardinality((A \cup B) \cap C)
    BY <1>5a, <1>5b, <1>6, FS_Union, FS_Intersection
  <1>8. Cardinality(A \cap B) \in Nat /\ Cardinality((A \cup B) \cap C) \in Nat
    BY <1>6, <1>7, FS_CardinalityType
  <1>9. Places = (A \cup B) \cup C
    BY DEF Places
  <1>10. RecvqNum * QueueMax \in Nat
    BY Owners, Sizes
  <1> HIDE DEF A, B, C, Q
  <1>11. QED
    BY <1>1, <1>3, <1>5a, <1>5b, <1>6, <1>7, <1>8, <1>9, <1>10

\* The buffer a place has, if any.
InBlock(q, i) ==
    LET items == batch[q \div HdlQnum]
    IN  CASE i <= Len(recvq[q]) -> recvq[q][i].base
          [] i > Len(recvq[q]) /\ QueueMax - i + 1 \in DOMAIN items -> items[QueueMax - i + 1].base
          [] OTHER -> None

At(p) ==
    CASE p[1] = 1 -> base[p[2]]
      [] p[1] = 2 -> IF rpc[p[2]] \in {"dec", "free"} THEN old[p[2]] ELSE None
      [] OTHER    -> InBlock(p[2][1], p[2][2])

\* Every buffer in use has a place.
LEMMA UsedAt ==
    ASSUME IInv, NEW b \in Buffs, count[b] # None
    PROVE  \E p \in Places : At(p) = b
  <1>1. ASSUME NEW c \in Conns, base[c] = b PROVE \E p \in Places : At(p) = b
    <2>1. <<1, c>> \in Places
      BY DEF Places
    <2>2. At(<<1, c>>) = b
      BY <1>1 DEF At
    <2>3. QED
      BY <2>1, <2>2
  <1>2. ASSUME NEW r \in Rsvrs, rpc[r] \in {"dec", "free"}, old[r] = b PROVE \E p \in Places : At(p) = b
    <2>1. <<2, r>> \in Places
      BY DEF Places
    <2>2. At(<<2, r>>) = b
      BY <1>2 DEF At
    <2>3. QED
      BY <2>1, <2>2
  <1>3. ASSUME NEW q \in Recvqs, NEW i \in DOMAIN recvq[q], recvq[q][i].base = b
        PROVE  \E p \in Places : At(p) = b
    <2>1. DOMAIN recvq[q] = 1..Len(recvq[q])
      BY LenProperties DEF IInv, TypeOK, QueuesOK
    <2>2. i \in 1..QueueMax /\ i <= Len(recvq[q])
      BY <2>1, BlockSums, Sizes
    <2>3. <<3, <<q, i>>>> \in Places
      BY <2>2 DEF Places
    <2>4. At(<<3, <<q, i>>>>) = b
      BY <1>3, <2>2 DEF At, InBlock
    <2>5. QED
      BY <2>3, <2>4
  <1>4. ASSUME NEW w \in Workers, NEW j \in DOMAIN batch[w], batch[w][j].base = b
        PROVE  \E p \in Places : At(p) = b
    <2> DEFINE q == Head(visit[w])
               i == QueueMax - j + 1
    <2>1. batch[w] \in Seq(Item)
      BY DEF IInv, TypeOK, WorkersOK
    <2>2. DOMAIN batch[w] = 1..Len(batch[w]) /\ batch[w] # <<>>
      BY <2>1
    <2>3. wpc[w] # "select"
      BY <2>2 DEF IInv, WorkersStand
    <2>4. q \in Recvqs /\ q \div HdlQnum = w /\ InBatch(q) = Len(batch[w])
      BY <2>3, AtQueue
    <2> HIDE DEF q
    <2>5. i \in 1..QueueMax /\ i > Len(recvq[q]) /\ QueueMax - i + 1 = j
      <3>1. j \in 1..InBatch(q)
        BY <2>1, <2>2, <2>4
      <3>2. q \in Recvqs
        BY <2>4
      <3>3. QED
        <4>1. /\ pool[q] \in Nat /\ Cardinality(Taking(q)) \in Nat /\ Len(recvq[q]) \in Nat
              /\ InBatch(q) \in Nat
              /\ pool[q] + Cardinality(Taking(q)) + Len(recvq[q]) + InBatch(q) = QueueMax
          BY <3>2, BlockSums
        <4>2. Len(recvq[q]) + InBatch(q) <= QueueMax
          BY <4>1, Sizes
        <4>3. QED
          BY <3>1, <4>1, <4>2, Sizes
    <2> HIDE DEF i
    <2>6. <<3, <<q, i>>>> \in Places
      BY <2>4, <2>5 DEF Places
    <2>7. InBlock(q, i) = b
      <3>1. ~(i <= Len(recvq[q]))
        BY <2>4, <2>5, BlockSums
      <3>2. QED
        BY <1>4, <2>4, <2>5, <3>1 DEF InBlock
    <2>8. At(<<3, <<q, i>>>>) = b
      BY <2>7 DEF At
    <2>9. QED
      BY <2>6, <2>8
  <1>5. Holders(b) # {} \/ Freeing(b) # {}
    <2>1. CASE count[b] = 0
      BY <2>1 DEF IInv, Counted
    <2>2. CASE count[b] # 0
      BY <2>2, FS_EmptySet DEF IInv, Counted
    <2>3. QED
      BY <2>1, <2>2
  <1>6. ASSUME NEW x \in Holders(b) PROVE \E p \in Places : At(p) = b
    <2>1. ASSUME x \in ConnRefs(b) PROVE \E p \in Places : At(p) = b
      BY <1>1, <2>1 DEF ConnRefs
    <2>2. ASSUME x \in OldRefs(b) PROVE \E p \in Places : At(p) = b
      BY <1>2, <2>2 DEF OldRefs
    <2>3. ASSUME x \in NewRefs(b) PROVE \E p \in Places : At(p) = b
      <3>1. PICK r \in Rsvrs : rpc[r] = "push" /\ base[cur[r]] = b
        BY <2>3 DEF NewRefs
      <3>2. cur[r] \in Conns
        BY <3>1 DEF IInv, TypeOK, RsvrsOK, ThreadsStand
      <3>3. QED
        BY <1>1, <3>1, <3>2
    <2>4. ASSUME x \in RecvqRefs(b) PROVE \E p \in Places : At(p) = b
      <3>1. \E q \in Recvqs : \E i \in DOMAIN recvq[q] : recvq[q][i].base = b
        BY <2>4 DEF RecvqRefs
      <3>2. QED
        BY <1>3, <3>1
    <2>5. ASSUME x \in BatchRefs(b) PROVE \E p \in Places : At(p) = b
      <3>1. \E w \in Workers : \E i \in DOMAIN batch[w] : batch[w][i].base = b
        BY <2>5 DEF BatchRefs, Pending
      <3>2. QED
        BY <1>4, <3>1
    <2>6. QED
      BY <2>1, <2>2, <2>3, <2>4, <2>5 DEF Holders
  <1>7. ASSUME NEW x \in Freeing(b) PROVE \E p \in Places : At(p) = b
    <2>1. CASE \E r \in Rsvrs : rpc[r] = "free" /\ old[r] = b
      BY <1>2, <2>1
    <2>2. CASE \E w \in Workers : wpc[w] = "free" /\ Head(batch[w]).base = b
      <3>1. PICK w \in Workers : wpc[w] = "free" /\ Head(batch[w]).base = b
        BY <2>2
      <3>2. batch[w] \in Seq(Item) /\ batch[w] # <<>>
        BY <3>1 DEF IInv, TypeOK, WorkersOK, WorkersStand
      <3>3. 1 \in DOMAIN batch[w] /\ batch[w][1] = Head(batch[w])
        BY <3>2
      <3>4. QED
        BY <1>4, <3>1, <3>3
    <2>3. QED
      BY <2>1, <2>2 DEF Freeing
  <1>8. QED
    BY <1>5, <1>6, <1>7

\* As long as one place has no buffer, an address is free.
LEMMA FreePlace ==
    ASSUME IInv, NEW p \in Places, At(p) = None
    PROVE  \E b \in Buffs : count[b] = None
  <1> SUFFICES ASSUME \A b \in Buffs : count[b] # None PROVE FALSE
    OBVIOUS
  <1> DEFINE S == Places \ {p}
             h == [x \in S |-> IF At(x) \in Buffs THEN At(x) ELSE 1]
  <1>1. Buffs # {} /\ 1 \in Buffs /\ None \notin Buffs
    BY Sizes DEF Buffs
  <1>2. h \in [S -> Buffs]
    BY <1>1
  <1>3. ASSUME NEW b \in Buffs PROVE \E x \in S : h[x] = b
    BY <1>1, UsedAt
  <1>4. h \in Surjection(S, Buffs)
    BY <1>2, <1>3 DEF Surjection
  <1>5. IsFiniteSet(S) /\ Cardinality(S) = Cardinality(Places) - 1
    BY PlacesCounted, FS_RemoveElement
  <1> HIDE DEF h, S
  <1>6. Cardinality(Buffs) <= Cardinality(S)
    BY <1>4, <1>5, FS_Surjection
  <1>7. Cardinality(Buffs) = BuffNum
    <2>1. 1 \in Int /\ BuffNum \in Int
      BY Sizes
    <2>2. Cardinality(1..BuffNum) = IF 1 > BuffNum THEN 0 ELSE BuffNum - 1 + 1
      BY <2>1, FS_Interval
    <2>3. QED
      BY <2>2, Sizes DEF Buffs
  <1>8. BuffNum >= Cardinality(Conns) + RecvqNum * QueueMax + Cardinality(Rsvrs)
    BY RecvAssumption DEF EnoughBuffers
  <1>9. RecvqNum * QueueMax \in Nat /\ Cardinality(Places) \in Nat
    BY Owners, Sizes, PlacesCounted, FS_CardinalityType
  <1>10. QED
    BY <1>5, <1>6, <1>7, <1>8, <1>9, PlacesCounted, Sizes

\* A set of numbers has a least one.
LEMMA Least ==
    ASSUME NEW S \in SUBSET Nat, S # {}
    PROVE  Min(S) \in S
  <1>1. PICK x \in S : \A y \in S : <<y, x>> \notin OpToRel(<, Nat)
    BY WFMin, NatLessThanWellFounded
  <1>2. \A y \in S : x <= y
    <2> SUFFICES ASSUME NEW y \in S PROVE x <= y
      OBVIOUS
    <2>1. ~(y < x)
      BY <1>1 DEF OpToRel
    <2>2. QED
      BY <2>1
  <1>3. QED
    BY <1>2 DEF Min

\* The address of a new connection, or of a switch, is free and nobody refers to it.
LEMMA Fresh ==
    ASSUME IInv, (\E c \in connq : TRUE) \/ (\E r \in Rsvrs : rpc[r] \notin {"dec", "free"})
    PROVE  /\ FreeAddr \in Buffs /\ count[FreeAddr] = None
           /\ Holders(FreeAddr) = {} /\ Freeing(FreeAddr) = {}
           /\ \A c \in Conns : base[c] # FreeAddr
  <1>1. \E p \in Places : At(p) = None
    <2>1. ASSUME NEW c \in connq PROVE \E p \in Places : At(p) = None
      <3>1. c \in Conns /\ base[c] = None
        BY DEF IInv, TypeOK, ConnsOK, ConnsStand
      <3>2. <<1, c>> \in Places
        BY <3>1 DEF Places
      <3>3. At(<<1, c>>) = None
        BY <3>1 DEF At
      <3>4. QED
        BY <3>2, <3>3
    <2>2. ASSUME NEW r \in Rsvrs, rpc[r] \notin {"dec", "free"} PROVE \E p \in Places : At(p) = None
      <3>1. <<2, r>> \in Places
        BY DEF Places
      <3>2. At(<<2, r>>) = None
        BY <2>2 DEF At
      <3>3. QED
        BY <3>1, <3>2
    <2>3. QED
      BY <2>1, <2>2
  <1>2. {b \in Buffs : count[b] = None} # {}
    BY <1>1, FreePlace
  <1>3. {b \in Buffs : count[b] = None} \in SUBSET Nat
    BY Sizes DEF Buffs
  <1>4. FreeAddr \in {b \in Buffs : count[b] = None}
    BY <1>2, <1>3, Least DEF FreeAddr
  <1>5. Holders(FreeAddr) = {} /\ Freeing(FreeAddr) = {}
    <2>1. None # 0
      BY Sizes
    <2>2. QED
      BY <1>4, <2>1 DEF IInv, Counted
  <1>6. \A c \in Conns : base[c] # FreeAddr
    BY <1>5 DEF Holders, ConnRefs
  <1>7. QED
    BY <1>4, <1>5, <1>6

-----------------------------------------------------------------------------
(* Receiving threads and their connections. *)

\* A thread moves: what the others find stays, if only its own connections change.
LEMMA ThreadMoves ==
    ASSUME IInv, NEW r \in Rsvrs,
           \A x \in Rsvrs \ {r} : rpc'[x] = rpc[x] /\ cur'[x] = cur[x] /\ rq'[x] = rq[x] /\ old'[x] = old[x],
           \A c \in Conns : RsvrOf[c] # r => base'[c] = base[c],
           /\ cur'[r] # None => RsvrOf[cur'[r]] = r /\ base'[cur'[r]] # None
           /\ rpc'[r] = "idle" => cur'[r] = None
           /\ rpc'[r] \in {"read", "parse", "inc", "push", "cmd"} => cur'[r] # None
           /\ rpc'[r] \in {"idle", "read", "parse"} => rq'[r] = None
           /\ rpc'[r] \in {"inc", "push", "cmd", "all"} => rq'[r] # None
           /\ rpc'[r] \in {"dec", "free"} => old'[r] # None /\ (cur'[r] # None => rq'[r] = None)
    PROVE  ThreadsStand'
  <1> SUFFICES ASSUME NEW x \in Rsvrs, x # r
               PROVE  /\ cur'[x] # None => RsvrOf[cur'[x]] = x /\ base'[cur'[x]] # None
                      /\ rpc'[x] = "idle" => cur'[x] = None
                      /\ rpc'[x] \in {"read", "parse", "inc", "push", "cmd"} => cur'[x] # None
                      /\ rpc'[x] \in {"idle", "read", "parse"} => rq'[x] = None
                      /\ rpc'[x] \in {"inc", "push", "cmd", "all"} => rq'[x] # None
                      /\ rpc'[x] \in {"dec", "free"} => old'[x] # None /\ (cur'[x] # None => rq'[x] = None)
    BY DEF ThreadsStand
  <1>1. cur[x] \in Conns \cup {None}
    BY DEF IInv, TypeOK, RsvrsOK
  <1>2. QED
    BY <1>1 DEF IInv, ThreadsStand

\* Connections keep their buffers.
LEMMA ConnsMove ==
    ASSUME IInv, UNCHANGED <<connq, base>>, got' \in [Conns -> Nat], optr' \in [Conns -> 0..BuffLen],
           \A c \in Conns : base[c] = None => optr'[c] = optr[c] /\ got'[c] = got[c],
           auth' \subseteq Conns \ (connq \cup Refused)
    PROVE  ConnsOK' /\ ConnsStand'
  BY DEF IInv, TypeOK, ConnsOK, ConnsStand

\* A connection gets another buffer, that no other has, or none.
LEMMA ConnRebased ==
    ASSUME IInv, NEW c \in Conns, NEW b \in Buffs \cup {None}, b = None \/ \A d \in Conns : base[d] # b,
           base' = [base EXCEPT ![c] = b], connq' \subseteq connq \ {c},
           UNCHANGED <<got, auth>>, optr' = optr \/ optr' = [optr EXCEPT ![c] = 0]
    PROVE  ConnsOK' /\ ConnsStand'
  <1>1. ConnsOK'
    BY Sizes DEF IInv, TypeOK, ConnsOK
  <1>2. ConnsStand'
    BY DEF IInv, TypeOK, ConnsOK, ConnsStand
  <1>3. QED
    BY <1>1, <1>2

\* The connection a thread serves.
LEMMA Served ==
    ASSUME IInv, NEW r \in Rsvrs, cur[r] # None
    PROVE  /\ cur[r] \in Conns /\ RsvrOf[cur[r]] = r /\ base[cur[r]] \in Buffs /\ base[cur[r]] # None
           /\ cur[r] \notin connq
           /\ mem[base[cur[r]]] \in Seq(Unit) /\ Iptr(cur[r]) \in 0..BuffLen
           /\ optr[cur[r]] \in 0..Iptr(cur[r])
  <1>1. cur[r] \in Conns /\ RsvrOf[cur[r]] = r /\ base[cur[r]] # None
    BY DEF IInv, TypeOK, RsvrsOK, ThreadsStand
  <1>2. base[cur[r]] \in Buffs /\ optr[cur[r]] \in 0..BuffLen
    BY <1>1 DEF IInv, TypeOK, ConnsOK
  <1>3. cur[r] \notin connq
    BY <1>1 DEF IInv, ConnsStand
  <1>4. mem[base[cur[r]]] \in Seq(Unit) /\ Len(mem[base[cur[r]]]) <= BuffLen
    BY <1>2 DEF IInv, TypeOK, BuffsOK
  <1>5. Iptr(cur[r]) \in 0..BuffLen
    BY <1>4, Sizes DEF Iptr
  <1>6. optr[cur[r]] <= Iptr(cur[r])
    BY <1>1 DEF IInv, InStream
  <1>7. QED
    BY <1>1, <1>2, <1>3, <1>4, <1>5, <1>6

\* A message that is there: where it ends.
LEMMA HeaderThere ==
    ASSUME IInv, NEW r \in Rsvrs, cur[r] # None, Complete(cur[r])
    PROVE  /\ Header(cur[r]) \in Unit /\ Header(cur[r]).len \in Nat
           /\ optr[cur[r]] + Header(cur[r]).len \in 0..Iptr(cur[r])
           /\ optr[cur[r]] \in 0..(BuffLen - 1)
  <1> DEFINE c == cur[r]
  <1>1. mem[base[c]] \in Seq(Unit) /\ Iptr(c) \in 0..BuffLen /\ optr[c] \in 0..Iptr(c)
    BY Served
  <1>2. optr[c] < Iptr(c) /\ optr[c] + Header(c).len <= Iptr(c)
    BY DEF Complete
  <1>3. optr[c] + 1 \in 1..Len(mem[base[c]])
    BY <1>1, <1>2, Sizes DEF Iptr
  <1>4. Header(c) \in Unit
    BY <1>1, <1>3, ElementOfSeq DEF Header
  <1>5. Header(c).len \in Nat
    BY <1>4 DEF Unit
  <1>6. QED
    BY <1>1, <1>2, <1>4, <1>5, Sizes

\* A thread consumes the message it is at.
LEMMA Consumed ==
    ASSUME IInv, NEW r \in Rsvrs, cur[r] # None, Complete(cur[r]), Consume(cur[r])
    PROVE  /\ optr' \in [Conns -> 0..BuffLen]
           /\ \A c \in Conns : c # cur[r] => optr'[c] = optr[c]
           /\ optr'[cur[r]] = optr[cur[r]] + Header(cur[r]).len
  <1>1. optr[cur[r]] + Header(cur[r]).len \in 0..BuffLen
    BY Served, HeaderThere, Sizes
  <1>2. cur[r] \in Conns /\ optr \in [Conns -> 0..BuffLen]
    BY Served DEF IInv, TypeOK, ConnsOK
  <1>3. QED
    BY <1>1, <1>2 DEF Consume

ThreadPart == RsvrsOK /\ ConnsOK /\ ThreadsStand /\ ConnsStand

LEMMA AddConnThreads ==
    ASSUME IInv, NEW r \in Rsvrs, AddConn(r)
    PROVE  ThreadPart'
  <1>1. PICK c \in connq : RsvrOf[c] = r /\ connq' = connq \ {c} /\ base' = [base EXCEPT ![c] = FreeAddr]
    BY DEF AddConn
  <1>2. UNCHANGED <<optr, got, auth, rvars>> /\ c \in Conns
    BY DEF AddConn, IInv, TypeOK, ConnsOK
  <1>3. FreeAddr \in Buffs /\ \A d \in Conns : base[d] # FreeAddr
    BY <1>1, Fresh
  <1>4. ConnsOK' /\ ConnsStand'
    BY <1>1, <1>2, <1>3, ConnRebased
  <1>5. RsvrsOK'
    BY <1>2 DEF IInv, TypeOK, RsvrsOK, rvars
  <1>6. rpc[r] = "idle" /\ cur[r] = None /\ rq[r] = None
    BY DEF AddConn, IInv, ThreadsStand
  <1>7. \A d \in Conns : RsvrOf[d] # r => base'[d] = base[d]
    BY <1>1, <1>2 DEF IInv, TypeOK, ConnsOK
  <1>8. ThreadsStand'
    BY <1>2, <1>6, <1>7, ThreadMoves DEF rvars
  <1>9. QED
    BY <1>4, <1>5, <1>8 DEF ThreadPart

LEMMA ReadingThreads ==
    ASSUME IInv, NEW r \in Rsvrs, Serve(r) \/ Read(r) \/ ReadAgain(r)
    PROVE  ThreadPart'
  <1>1. ASSUME Serve(r) PROVE ThreadPart'
    <2>1. PICK c \in Listed(r) : cur' = [cur EXCEPT ![r] = c]
      BY <1>1 DEF Serve
    <2>2. c \in Conns /\ RsvrOf[c] = r /\ base[c] # None
      BY DEF Listed
    <2>3. RsvrsOK'
      BY <1>1, <2>1, <2>2 DEF Serve, IInv, TypeOK, RsvrsOK
    <2>4. ThreadsStand'
      <3>1. /\ \A x \in Rsvrs \ {r} : rpc'[x] = rpc[x] /\ cur'[x] = cur[x]
            /\ rpc'[r] = "read" /\ cur'[r] = c /\ rq[r] = None /\ UNCHANGED <<rq, old, base>>
        BY <1>1, <2>1 DEF Serve, IInv, TypeOK, RsvrsOK, ThreadsStand, cvars
      <3>2. QED
        BY <2>2, <3>1, ThreadMoves, Sizes
    <2>5. ConnsOK' /\ ConnsStand'
      BY <1>1, ConnsMove DEF Serve, cvars, IInv, TypeOK, ConnsOK
    <2>6. QED
      BY <2>3, <2>4, <2>5 DEF ThreadPart
  <1>2. ASSUME Read(r) PROVE ThreadPart'
    <2>1. cur[r] # None
      BY <1>2 DEF Read, Reading, IInv, ThreadsStand
    <2>2. cur[r] \in Conns /\ RsvrOf[cur[r]] = r /\ base[cur[r]] # None /\ rq[r] = None
      BY <1>2, <2>1, Served DEF Read, Reading, IInv, ThreadsStand
    <2>3. RsvrsOK'
      BY <1>2 DEF Read, IInv, TypeOK, RsvrsOK
    <2>4. ThreadsStand'
      BY <1>2, <2>1, <2>2, ThreadMoves DEF Read, IInv, TypeOK, RsvrsOK
    <2>5. got' \in [Conns -> Nat] /\ \A c \in Conns : base[c] = None => got'[c] = got[c]
      <3>1. PICK n \in 1..Left(cur[r]) : got' = [got EXCEPT ![cur[r]] = @ + n]
        BY <1>2 DEF Read
      <3>2. n \in Nat
        BY <2>1, Served, Sizes DEF Left
      <3>3. QED
        BY <2>2, <3>1, <3>2 DEF IInv, TypeOK, ConnsOK
    <2>6. ConnsOK' /\ ConnsStand'
      BY <1>2, <2>5, ConnsMove DEF Read, IInv, TypeOK, ConnsOK
    <2>7. QED
      BY <2>3, <2>4, <2>6 DEF ThreadPart
  <1>3. ASSUME ReadAgain(r) PROVE ThreadPart'
    <2>1. rq[r] = None
      BY <1>3 DEF ReadAgain, Reading, IInv, ThreadsStand
    <2>2. RsvrsOK'
      BY <1>3 DEF ReadAgain, IInv, TypeOK, RsvrsOK
    <2>3. ThreadsStand'
      BY <1>3, <2>1, ThreadMoves DEF ReadAgain, IInv, TypeOK, RsvrsOK, cvars
    <2>4. ConnsOK' /\ ConnsStand'
      BY <1>3, ConnsMove DEF ReadAgain, cvars, IInv, TypeOK, ConnsOK
    <2>5. QED
      BY <2>2, <2>3, <2>4 DEF ThreadPart
  <1>4. QED
    BY <1>1, <1>2, <1>3

\* Whoever deletes a connection of its own then releases its buffer.
LEMMA DelConnThreads ==
    ASSUME IInv, NEW r \in Rsvrs, NEW c \in Conns, RsvrOf[c] = r, base[c] # None, DelConn(r, c),
           rq'[r] = rq[r] \/ rq'[r] = 0, \A x \in Rsvrs \ {r} : rq'[x] = rq[x],
           RsvrsOK', UNCHANGED <<connq, got, optr, auth>>
    PROVE  ThreadPart'
  <1>1. base' = [base EXCEPT ![c] = None] /\ c \notin connq
    BY DEF DelConn, IInv, ConnsStand
  <1>2. ConnsOK' /\ ConnsStand'
    BY <1>1, ConnRebased
  <1>3. /\ \A x \in Rsvrs \ {r} : rpc'[x] = rpc[x] /\ cur'[x] = cur[x] /\ old'[x] = old[x]
        /\ rpc'[r] = "dec" /\ cur'[r] = None /\ old'[r] = base[c]
    BY DEF DelConn, IInv, TypeOK, RsvrsOK
  <1>4. \A d \in Conns : RsvrOf[d] # r => base'[d] = base[d]
    BY <1>1 DEF IInv, TypeOK, ConnsOK
  <1>5. ThreadsStand'
    BY <1>3, <1>4, ThreadMoves
  <1>6. QED
    BY <1>2, <1>5 DEF ThreadPart

LEMMA EndingThreads ==
    ASSUME IInv, NEW r \in Rsvrs, Disconnected(r) \/ Dropped(r) \/ Silent(r)
    PROVE  ThreadPart'
  <1>1. ASSUME NEW c \in Conns, base[c] # None, DelConn(r, c), rq' = rq \/ rq' = [rq EXCEPT ![r] = 0], idle' \in 0..MaxIdle
        PROVE  RsvrsOK' /\ (rq'[r] = rq[r] \/ rq'[r] = 0) /\ \A x \in Rsvrs \ {r} : rq'[x] = rq[x]
    <2>1. base[c] \in Buffs /\ 0 \in Recvqs
      BY <1>1, Owners DEF IInv, TypeOK, ConnsOK, Recvqs
    <2>2. QED
      BY <1>1, <2>1 DEF DelConn, IInv, TypeOK, RsvrsOK
  <1>2. ASSUME Disconnected(r) PROVE ThreadPart'
    <2>1. cur[r] # None
      BY <1>2 DEF Disconnected, Reading, IInv, ThreadsStand
    <2>2. cur[r] \in Conns /\ RsvrOf[cur[r]] = r /\ base[cur[r]] # None
      BY <2>1, Served
    <2>3. idle \in 0..MaxIdle
      BY DEF IInv, TypeOK, RsvrsOK
    <2>4. QED
      BY <1>1, <1>2, <2>2, <2>3, DelConnThreads DEF Disconnected
  <1>3. ASSUME Dropped(r) PROVE ThreadPart'
    <2>1. PICK c \in Listed(r) : DelConn(r, c)
      BY <1>3 DEF Dropped
    <2>2. c \in Conns /\ RsvrOf[c] = r /\ base[c] # None
      BY DEF Listed
    <2>3. idle \in 0..MaxIdle
      BY DEF IInv, TypeOK, RsvrsOK
    <2>4. QED
      BY <1>1, <1>3, <2>1, <2>2, <2>3, DelConnThreads DEF Dropped
  <1>4. ASSUME Silent(r) PROVE ThreadPart'
    <2>1. PICK c \in Listed(r) : DelConn(r, c)
      BY <1>4 DEF Silent
    <2>2. c \in Conns /\ RsvrOf[c] = r /\ base[c] # None
      BY DEF Listed
    <2>3. idle' \in 0..MaxIdle
      BY <1>4, Sizes DEF Silent, IInv, TypeOK, RsvrsOK
    <2>4. QED
      BY <1>1, <1>4, <2>1, <2>2, <2>3, DelConnThreads DEF Silent
  <1>5. QED
    BY <1>2, <1>3, <1>4

LEMMA SwitchThreads ==
    ASSUME IInv, NEW r \in Rsvrs, Switch(r)
    PROVE  ThreadPart'
  <1> DEFINE c == cur[r]
  <1>1. rpc[r] = "parse" /\ c # None /\ rq[r] = None
    BY DEF Switch, IInv, ThreadsStand
  <1>2. c \in Conns /\ RsvrOf[c] = r /\ base[c] \in Buffs /\ c \notin connq
    BY <1>1, Served
  <1>3. FreeAddr \in Buffs /\ \A d \in Conns : base[d] # FreeAddr
    BY <1>1, Fresh
  <1>4. base' = [base EXCEPT ![c] = FreeAddr] /\ FreeAddr # None
    BY <1>3, Sizes DEF Switch, Buffs
  <1>5. ConnsOK' /\ ConnsStand'
    BY <1>2, <1>3, <1>4, ConnRebased DEF Switch
  <1>6. RsvrsOK'
    BY <1>2 DEF Switch, IInv, TypeOK, RsvrsOK
  <1>7. base[c] # None
    BY <1>2, Sizes DEF Buffs
  <1>8. /\ \A x \in Rsvrs \ {r} : rpc'[x] = rpc[x] /\ old'[x] = old[x]
        /\ rpc'[r] = "dec" /\ old'[r] = base[c] /\ UNCHANGED <<cur, rq>>
    BY DEF Switch, IInv, TypeOK, RsvrsOK
  <1>9. base'[c] # None /\ \A d \in Conns : RsvrOf[d] # r => base'[d] = base[d]
    BY <1>2, <1>4 DEF IInv, TypeOK, ConnsOK
  <1> HIDE DEF c
  <1>10. ThreadsStand'
    BY <1>1, <1>2, <1>7, <1>8, <1>9, ThreadMoves DEF c
  <1>11. QED
    BY <1>5, <1>6, <1>10 DEF ThreadPart

LEMMA ParsingThreads ==
    ASSUME IInv, NEW r \in Rsvrs, ParseSkip(r) \/ ParseExp(r) \/ IncRef(r) \/ Push(r)
    PROVE  ThreadPart'
  <1>1. cur[r] # None /\ cur[r] \in Conns /\ RsvrOf[cur[r]] = r /\ base[cur[r]] # None /\ cur[r] \notin connq
    <2>1. cur[r] # None
      BY DEF ParseSkip, ParseExp, IncRef, Push, IInv, ThreadsStand
    <2>2. QED
      BY <2>1, Served
  <1>2. 0 \in Recvqs /\ None \notin Recvqs
    BY Owners, Sizes DEF Recvqs
  <1>3. ASSUME ParseSkip(r) PROVE ThreadPart'
    <2>1. /\ optr' \in [Conns -> 0..BuffLen]
          /\ \A c \in Conns : c # cur[r] => optr'[c] = optr[c]
      BY <1>1, <1>3, Consumed DEF ParseSkip
    <2>2. auth' \subseteq Conns \ (connq \cup Refused)
      BY <1>1, <1>3 DEF ParseSkip, IInv, TypeOK, ConnsOK
    <2>3. ConnsOK' /\ ConnsStand'
      BY <1>1, <1>3, <2>1, <2>2, ConnsMove DEF ParseSkip, IInv, TypeOK, ConnsOK
    <2>4. RsvrsOK' /\ ThreadsStand'
      BY <1>3 DEF ParseSkip, rvars, IInv, TypeOK, RsvrsOK, ThreadsStand
    <2>5. QED
      BY <2>3, <2>4 DEF ThreadPart
  <1>4. ASSUME UNCHANGED cvars PROVE ConnsOK' /\ ConnsStand'
    BY <1>4 DEF cvars, IInv, TypeOK, ConnsOK, ConnsStand
  <1>5. ASSUME ParseExp(r) PROVE ThreadPart'
    <2>1. \E q \in Recvqs : \/ rq' = [rq EXCEPT ![r] = q] /\ rpc' = [rpc EXCEPT ![r] = "inc"]
                            \/ rq' = [rq EXCEPT ![r] = 0] /\ rpc' = [rpc EXCEPT ![r] = "all"]
      BY <1>5 DEF ParseExp
    <2>2. RsvrsOK'
      BY <1>2, <1>5, <2>1 DEF ParseExp, IInv, TypeOK, RsvrsOK
    <2>3. /\ \A x \in Rsvrs \ {r} : rpc'[x] = rpc[x] /\ rq'[x] = rq[x]
          /\ rpc'[r] \in {"inc", "all"} /\ rq'[r] # None
      BY <1>2, <2>1 DEF IInv, TypeOK, RsvrsOK
    <2>4. ThreadsStand'
      BY <1>1, <1>5, <2>3, ThreadMoves DEF ParseExp, cvars
    <2>5. QED
      BY <1>4, <1>5, <2>2, <2>4 DEF ThreadPart, ParseExp
  <1>6. ASSUME IncRef(r) \/ Push(r) PROVE ThreadPart'
    <2>1. rpc' = [rpc EXCEPT ![r] = "push"] \/ rpc' = [rpc EXCEPT ![r] = "cmd"]
      BY <1>6 DEF IncRef, Push
    <2>2. UNCHANGED <<cvars, cur, rq, old, idle>> /\ rq[r] # None
      BY <1>6 DEF IncRef, Push, IInv, ThreadsStand
    <2>3. RsvrsOK'
      BY <2>1, <2>2 DEF IInv, TypeOK, RsvrsOK
    <2>4. /\ \A x \in Rsvrs \ {r} : rpc'[x] = rpc[x]
          /\ rpc'[r] \in {"push", "cmd"}
      BY <2>1 DEF IInv, TypeOK, RsvrsOK
    <2>5. ThreadsStand'
      BY <1>1, <2>2, <2>4, ThreadMoves DEF cvars
    <2>6. QED
      BY <1>4, <2>2, <2>3, <2>5 DEF ThreadPart
  <1>7. QED
    BY <1>3, <1>5, <1>6

LEMMA CommandThreads ==
    ASSUME IInv, NEW r \in Rsvrs, Cmd(r) \/ All(r) \/ Timeout(r)
    PROVE  ThreadPart'
  <1>1. 0 \in Recvqs /\ None \notin Recvqs
    BY Owners, Sizes DEF Recvqs
  <1>2. cur[r] # None => cur[r] \in Conns /\ RsvrOf[cur[r]] = r /\ base[cur[r]] # None /\ cur[r] \notin connq
    BY Served
  <1>3. ASSUME optr' = optr \/ (cur[r] # None /\ Complete(cur[r]) /\ Consume(cur[r])),
               UNCHANGED <<connq, base, got, auth>>
        PROVE  ConnsOK' /\ ConnsStand'
    <2>1. CASE optr' = optr
      BY <1>3, <2>1 DEF IInv, TypeOK, ConnsOK, ConnsStand
    <2>2. CASE cur[r] # None /\ Complete(cur[r]) /\ Consume(cur[r])
      <3>1. /\ optr' \in [Conns -> 0..BuffLen]
            /\ \A c \in Conns : c # cur[r] => optr'[c] = optr[c]
        BY <2>2, Consumed
      <3>2. QED
        BY <1>2, <1>3, <2>2, <3>1, ConnsMove DEF IInv, TypeOK, ConnsOK
    <2>3. QED
      BY <1>3, <2>1, <2>2
  <1>4. ASSUME Cmd(r) PROVE ThreadPart'
    <2>1. cur[r] # None /\ Complete(cur[r])
      BY <1>4 DEF Cmd, IInv, ThreadsStand, MessageThere
    <2>2. ConnsOK' /\ ConnsStand'
      BY <1>3, <1>4, <2>1 DEF Cmd
    <2>3. RsvrsOK'
      BY <1>4 DEF Cmd, IInv, TypeOK, RsvrsOK
    <2>4. /\ \A x \in Rsvrs \ {r} : rpc'[x] = rpc[x] /\ rq'[x] = rq[x]
          /\ rpc'[r] = "parse" /\ rq'[r] = None /\ UNCHANGED <<cur, old, base>>
      BY <1>4 DEF Cmd, IInv, TypeOK, RsvrsOK
    <2>5. ThreadsStand'
      BY <1>2, <2>1, <2>4, ThreadMoves
    <2>6. QED
      BY <2>2, <2>3, <2>5 DEF ThreadPart
  <1>5. ASSUME All(r) PROVE ThreadPart'
    <2> DEFINE last == rq[r] = RecvqNum - 1
    <2>1. cur[r] # None => Complete(cur[r])
      BY <1>5 DEF All, IInv, MessageThere
    <2>2. optr' = optr \/ (cur[r] # None /\ Complete(cur[r]) /\ Consume(cur[r]))
      BY <1>5, <2>1 DEF All
    <2>3. ConnsOK' /\ ConnsStand'
      BY <1>3, <1>5, <2>2 DEF All
    <2>4. rq[r] \in Recvqs
      BY <1>5 DEF All, IInv, TypeOK, RsvrsOK, ThreadsStand
    <2>5. ~last => rq[r] + 1 \in Recvqs
      BY <2>4, Owners DEF Recvqs
    <2>6. /\ \A x \in Rsvrs \ {r} : rpc'[x] = rpc[x] /\ rq'[x] = rq[x]
          /\ ~last => rpc'[r] = "all" /\ rq'[r] = rq[r] + 1
          /\ last /\ cur[r] # None => rpc'[r] = "parse" /\ rq'[r] = None
          /\ last /\ cur[r] = None => rpc'[r] = "idle" /\ rq'[r] = None
          /\ rpc' \in [Rsvrs -> {"idle", "read", "parse", "inc", "push", "cmd", "all", "dec", "free"}]
          /\ UNCHANGED <<cur, old, base, idle>>
      BY <1>5 DEF All, IInv, TypeOK, RsvrsOK
    <2>7. rq' \in [Rsvrs -> Recvqs \cup {None}]
      BY <1>5, <2>5 DEF All, IInv, TypeOK, RsvrsOK
    <2> HIDE DEF last
    <2>8. RsvrsOK'
      BY <2>6, <2>7 DEF IInv, TypeOK, RsvrsOK
    <2>9. rq'[r] # None <=> ~last
      BY <1>1, <2>5, <2>6
    <2>10. ThreadsStand'
      BY <1>2, <2>6, <2>9, ThreadMoves
    <2>11. QED
      BY <2>3, <2>8, <2>10 DEF ThreadPart
  <1>6. ASSUME Timeout(r) PROVE ThreadPart'
    <2>1. ConnsOK' /\ ConnsStand'
      BY <1>3, <1>6 DEF Timeout, cvars
    <2>2. RsvrsOK'
      BY <1>1, <1>6, Sizes DEF Timeout, IInv, TypeOK, RsvrsOK
    <2>3. /\ \A x \in Rsvrs \ {r} : rpc'[x] = rpc[x] /\ rq'[x] = rq[x]
          /\ rpc'[r] = "all" /\ rq'[r] # None /\ cur[r] = None /\ UNCHANGED <<cur, old, base>>
      BY <1>1, <1>6 DEF Timeout, cvars, IInv, TypeOK, RsvrsOK, ThreadsStand
    <2>4. ThreadsStand'
      BY <2>3, ThreadMoves
    <2>5. QED
      BY <2>1, <2>2, <2>4 DEF ThreadPart
  <1>7. QED
    BY <1>4, <1>5, <1>6

LEMMA ReleasingThreads ==
    ASSUME IInv, NEW r \in Rsvrs, DecOld(r) \/ FreeOld(r)
    PROVE  ThreadPart'
  <1>1. /\ UNCHANGED <<cvars, cur, rq, idle>> /\ old[r] # None /\ (cur[r] # None => rq[r] = None)
        /\ cur[r] # None => RsvrOf[cur[r]] = r /\ base[cur[r]] # None
    BY DEF DecOld, FreeOld, IInv, ThreadsStand
  <1>2. ConnsOK' /\ ConnsStand'
    BY <1>1 DEF cvars, IInv, TypeOK, ConnsOK, ConnsStand
  <1>3. CASE rpc' = [rpc EXCEPT ![r] = "free"] /\ UNCHANGED old
    <2>1. RsvrsOK'
      BY <1>1, <1>3 DEF IInv, TypeOK, RsvrsOK
    <2>2. \A x \in Rsvrs \ {r} : rpc'[x] = rpc[x]
      BY <1>3 DEF IInv, TypeOK, RsvrsOK
    <2>3. rpc'[r] = "free"
      BY <1>3 DEF IInv, TypeOK, RsvrsOK
    <2>4. ThreadsStand'
      BY <1>1, <1>3, <2>2, <2>3, ThreadMoves DEF cvars
    <2>5. QED
      BY <1>2, <2>1, <2>4 DEF ThreadPart
  <1>4. CASE Resume(r)
    <2>1. RsvrsOK'
      BY <1>1, <1>4 DEF Resume, IInv, TypeOK, RsvrsOK
    <2>2. /\ \A x \in Rsvrs \ {r} : rpc'[x] = rpc[x] /\ old'[x] = old[x]
          /\ cur[r] # None => rpc'[r] = "read"
          /\ cur[r] = None /\ rq[r] # None => rpc'[r] = "all"
          /\ cur[r] = None /\ rq[r] = None => rpc'[r] = "idle"
      BY <1>4 DEF Resume, IInv, TypeOK, RsvrsOK
    <2>3. ThreadsStand'
      BY <1>1, <2>2, ThreadMoves DEF cvars
    <2>4. QED
      BY <1>2, <2>1, <2>3 DEF ThreadPart
  <1>5. QED
    BY <1>3, <1>4 DEF DecOld, FreeOld

LEMMA RsvrThreads ==
    ASSUME IInv, NEW r \in Rsvrs, RsvrStep(r)
    PROVE  ThreadPart'
  BY AddConnThreads, ReadingThreads, EndingThreads, SwitchThreads, ParsingThreads, CommandThreads,
     ReleasingThreads DEF RsvrStep

-----------------------------------------------------------------------------
(* Workers, pipes and the blocks of the queues. *)

WorkerPart == WorkersOK /\ WorkersStand
PipesOK == pipe \in [Workers -> Seq(Recvqs)] /\ \A w \in Workers : Len(pipe[w]) <= PipeMax

\* A command reaches the worker of the queue, or is lost.
LEMMA CommandWritten ==
    ASSUME IInv, NEW q \in Recvqs, CmdProcReq(q)
    PROVE  /\ PipesOK'
           /\ \A w \in Workers : pipe'[w] \in Seq(OwnQueues(w))
  <1> DEFINE v == q \div HdlQnum
  <1>1. v \in Workers /\ q \in OwnQueues(v)
    BY Owners DEF OwnQueues
  <1>2. pipe[v] \in Seq(Recvqs) /\ pipe[v] \in Seq(OwnQueues(v)) /\ Len(pipe[v]) <= PipeMax
    BY <1>1 DEF IInv, TypeOK, QueuesOK, WorkersStand
  <1>3. /\ Append(pipe[v], q) \in Seq(Recvqs) /\ Append(pipe[v], q) \in Seq(OwnQueues(v))
        /\ Len(Append(pipe[v], q)) = Len(pipe[v]) + 1
    BY <1>1, <1>2, AppendProperties
  <1>4. Len(pipe[v]) < PipeMax => Len(pipe[v]) + 1 <= PipeMax
    BY <1>2, Sizes
  <1>5. pipe' = pipe \/ (Len(pipe[v]) < PipeMax /\ pipe' = [pipe EXCEPT ![v] = Append(pipe[v], q)])
    BY DEF CmdProcReq
  <1> HIDE DEF v
  <1>6. QED
    BY <1>1, <1>3, <1>4, <1>5 DEF IInv, TypeOK, QueuesOK, WorkersStand, PipesOK

\* Receiving threads leave the workers alone, except for commands.
LEMMA RsvrWorkers ==
    ASSUME IInv, NEW r \in Rsvrs, RsvrStep(r)
    PROVE  WorkerPart' /\ PipesOK' /\ UNCHANGED <<wvars, handled>>
  <1>1. UNCHANGED <<wvars, handled>>
    BY DEF RsvrStep, AddConn, Serve, Read, ReadAgain, Disconnected, Dropped, Silent, Switch, ParseSkip,
           ParseExp, IncRef, Push, Cmd, All, Timeout, DecOld, FreeOld
  <1>2. pipe' = pipe \/ \E q \in Recvqs : CmdProcReq(q)
    <2>1. rpc[r] \in {"cmd", "all"} => rq[r] \in Recvqs
      BY DEF IInv, TypeOK, RsvrsOK, ThreadsStand
    <2>2. Cmd(r) \/ All(r) => \E q \in Recvqs : CmdProcReq(q)
      BY <2>1 DEF Cmd, All
    <2>3. QED
      BY <2>2 DEF RsvrStep, AddConn, Serve, Read, ReadAgain, Disconnected, Dropped, Silent, Switch, ParseSkip,
           ParseExp, IncRef, Push, Timeout, DecOld, FreeOld, qvars
  <1>3. PipesOK' /\ \A w \in Workers : pipe'[w] \in Seq(OwnQueues(w))
    <2>1. CASE pipe' = pipe
      BY <2>1 DEF IInv, TypeOK, QueuesOK, WorkersStand, PipesOK
    <2>2. QED
      BY <1>2, <2>1, CommandWritten
  <1>4. WorkersOK'
    BY <1>1 DEF wvars, IInv, TypeOK, WorkersOK
  <1>5. WorkersStand'
    BY <1>1, <1>3 DEF wvars, IInv, WorkersStand
  <1>6. QED
    BY <1>1, <1>3, <1>4, <1>5 DEF WorkerPart

\* The last element of a sequence leaves it empty.
LEMMA LastLeaves ==
    ASSUME NEW S, NEW s \in Seq(S), s # <<>>
    PROVE  Len(s) > 1 <=> Tail(s) # <<>>
  <1>1. Tail(s) \in Seq(S) /\ Len(Tail(s)) = Len(s) - 1 /\ Len(s) \in Nat
    BY HeadTailProperties, LenProperties
  <1>2. Tail(s) # <<>> <=> Len(Tail(s)) # 0
    BY <1>1, EmptySeq
  <1>3. Len(Tail(s)) \in Nat
    BY <1>1, LenProperties
  <1>4. QED
    BY <1>1, <1>2, <1>3

\* A worker takes a command, sweeps, or takes all of a queue.
LEMMA TakingWorkers ==
    ASSUME IInv, NEW w \in Workers, WorkCmd(w) \/ WorkSweep(w) \/ WorkPop(w)
    PROVE  WorkerPart' /\ PipesOK' /\ UNCHANGED handled
  <1>1. /\ visit[w] \in Seq(Recvqs) /\ visit[w] \in Seq(OwnQueues(w)) /\ pipe[w] \in Seq(Recvqs)
        /\ pipe[w] \in Seq(OwnQueues(w)) /\ Len(pipe[w]) <= PipeMax
    BY DEF IInv, TypeOK, WorkersOK, QueuesOK, WorkersStand
  <1>2. ASSUME pipe' = pipe PROVE PipesOK' /\ \A x \in Workers : pipe'[x] \in Seq(OwnQueues(x))
    BY <1>2 DEF IInv, TypeOK, QueuesOK, WorkersStand, PipesOK
  <1>3. ASSUME WorkCmd(w) PROVE WorkerPart' /\ PipesOK' /\ UNCHANGED handled
    <2> DEFINE q == Head(pipe[w])
    <2>1. pipe[w] # <<>> /\ wpc[w] = "select"
      BY <1>3 DEF WorkCmd
    <2>2. q \in Recvqs /\ q \in OwnQueues(w) /\ Tail(pipe[w]) \in Seq(Recvqs) /\ Tail(pipe[w]) \in Seq(OwnQueues(w))
      BY <1>1, <2>1, HeadTailProperties
    <2>3. Len(Tail(pipe[w])) <= PipeMax
      BY <1>1, <2>1, HeadTailProperties, LenProperties, Sizes
    <2>4. pipe' = [pipe EXCEPT ![w] = Tail(pipe[w])]
      BY <1>3 DEF WorkCmd
    <2>5. PipesOK' /\ \A x \in Workers : pipe'[x] \in Seq(OwnQueues(x))
      BY <2>2, <2>3, <2>4 DEF IInv, TypeOK, QueuesOK, WorkersStand, PipesOK
    <2>6. visit' = [visit EXCEPT ![w] = <<q>>] /\ wpc' = [wpc EXCEPT ![w] = "pop"] /\ UNCHANGED <<batch, handled>>
      BY <1>3 DEF WorkCmd
    <2> HIDE DEF q
    <2>7. <<q>> \in Seq(Recvqs) /\ <<q>> \in Seq(OwnQueues(w)) /\ <<q>> # <<>>
      BY <2>2
    <2>8. WorkersOK'
      BY <2>6, <2>7 DEF IInv, TypeOK, WorkersOK
    <2>9. WorkersStand'
      BY <2>1, <2>5, <2>6, <2>7 DEF IInv, TypeOK, WorkersOK, WorkersStand
    <2>10. QED
      BY <2>5, <2>6, <2>8, <2>9 DEF WorkerPart
  <1>4. ASSUME WorkSweep(w) PROVE WorkerPart' /\ PipesOK' /\ UNCHANGED handled
    <2>1. Own(w) \in Seq(Recvqs) /\ Own(w) \in Seq(OwnQueues(w)) /\ Own(w) # <<>>
      <3>1. HdlQnum \in Nat /\ HdlQnum >= 1
        BY Sizes
      <3>2. \A i \in 1..HdlQnum : HdlQnum * w + i - 1 \in OwnQueues(w)
        BY Owners DEF OwnQueues
      <3>3. Own(w) \in [1..HdlQnum -> OwnQueues(w)]
        BY <3>2 DEF Own
      <3>4. Own(w) \in Seq(OwnQueues(w)) /\ DOMAIN Own(w) = 1..HdlQnum
        BY <3>1, <3>3, SeqDef
      <3>5. Own(w) \in Seq(Recvqs)
        BY <3>4, SeqMonotonic DEF OwnQueues
      <3>6. Own(w) # <<>>
        BY <3>1, <3>4
      <3>7. QED
        BY <3>4, <3>5, <3>6
    <2>2. /\ visit' = [visit EXCEPT ![w] = Own(w)] /\ wpc' = [wpc EXCEPT ![w] = "pop"] /\ wpc[w] = "select"
          /\ UNCHANGED <<batch, handled, pipe>>
      BY <1>4 DEF WorkSweep, qvars
    <2>3. WorkersOK'
      BY <2>1, <2>2 DEF IInv, TypeOK, WorkersOK
    <2>4. WorkersStand'
      BY <1>2, <2>1, <2>2 DEF IInv, TypeOK, WorkersOK, WorkersStand
    <2>5. QED
      BY <1>2, <2>2, <2>3, <2>4 DEF WorkerPart
  <1>5. ASSUME WorkPop(w) PROVE WorkerPart' /\ PipesOK' /\ UNCHANGED handled
    <2> DEFINE q == Head(visit[w])
    <2>1. wpc[w] = "pop" /\ UNCHANGED <<pipe, handled>>
      BY <1>5 DEF WorkPop
    <2>2. visit[w] # <<>> /\ q \in Recvqs
      BY <2>1, AtQueue
    <2>3. Tail(visit[w]) \in Seq(Recvqs) /\ Tail(visit[w]) \in Seq(OwnQueues(w))
          /\ (Len(visit[w]) > 1 <=> Tail(visit[w]) # <<>>)
      BY <1>1, <2>2, HeadTailProperties, LastLeaves
    <2>4. recvq[q] \in Seq(Item)
      BY <2>2 DEF IInv, TypeOK, QueuesOK
    <2>5. batch' = [batch EXCEPT ![w] = recvq[q]]
      BY <1>5 DEF WorkPop
    <2>6. CASE recvq[q] = <<>>
      <3>1. /\ visit' = [visit EXCEPT ![w] = Tail(visit[w])]
            /\ wpc' = [wpc EXCEPT ![w] = IF Tail(visit[w]) # <<>> THEN "pop" ELSE "select"]
        BY <1>5, <2>3, <2>6 DEF WorkPop
      <3> HIDE DEF q
      <3>2. WorkersOK'
        BY <2>1, <2>3, <2>4, <2>5, <3>1 DEF IInv, TypeOK, WorkersOK
      <3>3. WorkersStand'
        BY <1>2, <2>1, <2>3, <2>5, <2>6, <3>1 DEF IInv, TypeOK, WorkersOK, WorkersStand
      <3>4. QED
        BY <1>2, <2>1, <3>2, <3>3 DEF WorkerPart
    <2>7. CASE recvq[q] # <<>>
      <3>1. visit' = visit /\ wpc' = [wpc EXCEPT ![w] = "proc"]
        BY <1>5, <2>7 DEF WorkPop
      <3> HIDE DEF q
      <3>2. WorkersOK'
        BY <2>1, <2>4, <2>5, <3>1 DEF IInv, TypeOK, WorkersOK
      <3>3. WorkersStand'
        BY <1>2, <2>1, <2>2, <2>5, <2>7, <3>1 DEF IInv, TypeOK, WorkersOK, WorkersStand
      <3>4. QED
        BY <1>2, <2>1, <3>2, <3>3 DEF WorkerPart
    <2>8. QED
      BY <2>6, <2>7
  <1>6. QED
    BY <1>3, <1>4, <1>5

\* The item a worker is at.
LEMMA AtItem ==
    ASSUME IInv, NEW w \in Workers, wpc[w] \in {"proc", "free", "back"}
    PROVE  /\ batch[w] \in Seq(Item) /\ batch[w] # <<>> /\ Head(batch[w]) = batch[w][1]
           /\ 1 \in DOMAIN batch[w] /\ Head(batch[w]) \in Item
           /\ wpc[w] = "proc" => 1 \in Pending(w) /\ Whole(Head(batch[w]))
  <1>1. batch[w] \in Seq(Item) /\ batch[w] # <<>>
    BY DEF IInv, TypeOK, WorkersOK, WorkersStand
  <1>2. 1 \in DOMAIN batch[w] /\ Head(batch[w]) = batch[w][1] /\ Head(batch[w]) \in Item
    BY <1>1
  <1>3. wpc[w] = "proc" => 1 \in Pending(w)
    BY <1>2 DEF Pending
  <1>4. wpc[w] = "proc" => Whole(batch[w][1])
    BY <1>3 DEF IInv, Intact
  <1>5. QED
    BY <1>1, <1>2, <1>3, <1>4

LEMMA HandlingWorkers ==
    ASSUME IInv, NEW w \in Workers, WorkProc(w) \/ WorkFree(w) \/ WorkBack(w)
    PROVE  WorkerPart' /\ PipesOK'
  <1>1. wpc[w] \in {"proc", "free", "back"} /\ UNCHANGED <<pipe, visit>>
    BY DEF WorkProc, WorkFree, WorkBack, qvars
  <1>2. /\ batch[w] \in Seq(Item) /\ batch[w] # <<>> /\ Head(batch[w]) \in Item
        /\ Head(visit[w]) \in Recvqs /\ visit[w] # <<>>
        /\ wpc[w] = "proc" => Whole(Head(batch[w]))
    BY <1>1, AtItem, AtQueue
  <1>3. PipesOK'
    BY <1>1 DEF IInv, TypeOK, QueuesOK, PipesOK
  <1>4. ASSUME WorkProc(w) PROVE WorkersOK'
    <2> DEFINE item == Head(batch[w])
               q == Head(visit[w])
               n == mem[item.base][item.at + 1].no
    <2>1. n = item.no /\ item.no \in Nat
      BY <1>2, <1>4 DEF WorkProc, Whole, Item
    <2>2. handled[q] \in Seq(Nat) /\ Append(handled[q], n) \in Seq(Nat)
      BY <1>2, <2>1, AppendProperties DEF IInv, TypeOK, WorkersOK
    <2>3. handled' = [handled EXCEPT ![q] = Append(handled[q], n)]
      BY <1>4 DEF WorkProc
    <2> HIDE DEF n, q, item
    <2>4. QED
      BY <1>4, <2>2, <2>3 DEF WorkProc, IInv, TypeOK, WorkersOK
  <1>5. ASSUME WorkFree(w) PROVE WorkersOK'
    BY <1>5 DEF WorkFree, IInv, TypeOK, WorkersOK
  <1>6. ASSUME WorkBack(w) PROVE WorkersOK'
    <2>1. Tail(batch[w]) \in Seq(Item)
      BY <1>2, HeadTailProperties
    <2>2. batch' = [batch EXCEPT ![w] = Tail(batch[w])]
      BY <1>6 DEF WorkBack
    <2>3. QED
      BY <1>6, <2>1, <2>2 DEF WorkBack, IInv, TypeOK, WorkersOK
  <1>7. ASSUME WorkProc(w) \/ WorkFree(w) PROVE WorkersStand'
    <2>1. UNCHANGED <<batch, pipe, visit>> /\ (wpc' = [wpc EXCEPT ![w] = "free"] \/ wpc' = [wpc EXCEPT ![w] = "back"])
      BY <1>1, <1>7 DEF WorkProc, WorkFree
    <2>2. QED
      BY <1>1, <1>2, <2>1 DEF IInv, TypeOK, WorkersOK, WorkersStand
  <1>8. ASSUME WorkBack(w) PROVE WorkersStand'
    <2>1. (Len(batch[w]) > 1 <=> Tail(batch[w]) # <<>>) /\ batch' = [batch EXCEPT ![w] = Tail(batch[w])]
      BY <1>2, <1>8, LastLeaves DEF WorkBack
    <2>2. wpc' = [wpc EXCEPT ![w] = IF Tail(batch[w]) # <<>> THEN "proc" ELSE "pop"]
      BY <1>8, <2>1 DEF WorkBack
    <2>3. QED
      BY <1>1, <1>2, <2>1, <2>2 DEF IInv, TypeOK, WorkersOK, WorkersStand
  <1>9. QED
    BY <1>3, <1>4, <1>5, <1>6, <1>7, <1>8 DEF WorkerPart

\* Workers leave the receiving threads and the connections alone.
LEMMA WorkerThreads ==
    ASSUME IInv, NEW w \in Workers, WorkStep(w)
    PROVE  ThreadPart' /\ UNCHANGED <<cvars, rvars>>
  <1>1. UNCHANGED <<cvars, rvars>>
    BY DEF WorkStep, WorkCmd, WorkSweep, WorkPop, WorkProc, WorkFree, WorkBack
  <1>2. RsvrsOK' /\ ConnsOK'
    BY <1>1 DEF cvars, rvars, IInv, TypeOK, RsvrsOK, ConnsOK
  <1>3. ThreadsStand' /\ ConnsStand'
    BY <1>1 DEF cvars, rvars, IInv, ThreadsStand, ConnsStand
  <1>4. QED
    BY <1>1, <1>2, <1>3 DEF ThreadPart

BlockPart == pool \in [Recvqs -> 0..QueueMax] /\ recvq \in [Recvqs -> Seq(Item)] /\ BlocksKept

\* It is enough that the sums stay.
LEMMA SumsStay ==
    ASSUME IInv, pool' \in [Recvqs -> Nat], recvq' \in [Recvqs -> Seq(Item)],
           \A q \in Recvqs :
              /\ IsFiniteSet(Taking(q)') /\ InBatch(q)' \in Nat
              /\ pool'[q] + Cardinality(Taking(q)') + Len(recvq'[q]) + InBatch(q)' = QueueMax
    PROVE  BlockPart'
  <1>1. ASSUME NEW q \in Recvqs PROVE pool'[q] \in 0..QueueMax
    <2>1. /\ pool'[q] \in Nat /\ Cardinality(Taking(q)') \in Nat
          /\ InBatch(q)' \in Nat
      BY FS_CardinalityType
    <2>2. recvq'[q] \in Seq(Item)
      OBVIOUS
    <2>3. Len(recvq'[q]) \in Nat
      BY <2>2, LenProperties
    <2>4. pool'[q] <= QueueMax
      BY <2>1, <2>3, Sizes
    <2>5. QED
      BY <2>1, <2>4, Sizes
  <1>2. pool' \in [Recvqs -> 0..QueueMax]
    BY <1>1
  <1>3. QED
    BY <1>2 DEF BlockPart, BlocksKept

\* A thread enters the set of those that have taken a block, or leaves it.
LEMMA TakingMoves ==
    ASSUME IInv, NEW r \in Rsvrs, NEW q \in Recvqs,
           \A x \in Rsvrs \ {r} : rpc'[x] = rpc[x] /\ rq'[x] = rq[x]
    PROVE  LET in  == rpc[r] \in {"inc", "push"} /\ rq[r] = q
               in2 == rpc'[r] \in {"inc", "push"} /\ rq'[r] = q
           IN  /\ IsFiniteSet(Taking(q)')
               /\ (in <=> in2) => Cardinality(Taking(q)') = Cardinality(Taking(q))
               /\ ~in /\ in2 => Cardinality(Taking(q)') = Cardinality(Taking(q)) + 1
               /\ in /\ ~in2 => Cardinality(Taking(q)') = Cardinality(Taking(q)) - 1
  <1> DEFINE in  == rpc[r] \in {"inc", "push"} /\ rq[r] = q
             in2 == rpc'[r] \in {"inc", "push"} /\ rq'[r] = q
  <1>1. IsFiniteSet(Taking(q)) /\ (in <=> r \in Taking(q))
    BY DEF IInv, BlocksKept, Taking
  <1>2. (in <=> in2) => Taking(q)' = Taking(q)
    BY DEF Taking
  <1>3. ~in /\ in2 => Taking(q)' = Taking(q) \cup {r}
    BY DEF Taking
  <1>4. in /\ ~in2 => Taking(q)' = Taking(q) \ {r}
    BY DEF Taking
  <1> HIDE DEF in, in2
  <1>5. /\ IsFiniteSet(Taking(q) \cup {r}) /\ IsFiniteSet(Taking(q) \ {r})
        /\ Cardinality(Taking(q) \cup {r}) = IF r \in Taking(q) THEN Cardinality(Taking(q)) ELSE Cardinality(Taking(q)) + 1
        /\ Cardinality(Taking(q) \ {r}) = IF r \in Taking(q) THEN Cardinality(Taking(q)) - 1 ELSE Cardinality(Taking(q))
    BY <1>1, FS_AddElement, FS_RemoveElement
  <1>6. /\ IsFiniteSet(Taking(q)')
        /\ (in <=> in2) => Cardinality(Taking(q)') = Cardinality(Taking(q))
        /\ ~in /\ in2 => Cardinality(Taking(q)') = Cardinality(Taking(q)) + 1
        /\ in /\ ~in2 => Cardinality(Taking(q)') = Cardinality(Taking(q)) - 1
    BY <1>1, <1>2, <1>3, <1>4, <1>5
  <1>7. QED
    BY <1>6 DEF in, in2

\* A block that is taken leaves room in the ring: a push never fails.
LEMMA PushFits ==
    ASSUME IInv, NEW r \in Rsvrs, rpc[r] = "push"
    PROVE  rq[r] \in Recvqs /\ Len(recvq[rq[r]]) < QueueMax
  <1> DEFINE q == rq[r]
  <1>1. q \in Recvqs
    BY DEF IInv, TypeOK, RsvrsOK, ThreadsStand
  <1>2. r \in Taking(q)
    BY DEF Taking
  <1>3. Cardinality(Taking(q)) # 0
    BY <1>1, <1>2, FS_EmptySet DEF IInv, BlocksKept
  <1> HIDE DEF q
  <1>4. /\ pool[q] \in Nat /\ Cardinality(Taking(q)) \in Nat /\ Len(recvq[q]) \in Nat /\ InBatch(q) \in Nat
        /\ pool[q] + Cardinality(Taking(q)) + Len(recvq[q]) + InBatch(q) = QueueMax
    BY <1>1, BlockSums
  <1>5. Len(recvq[q]) < QueueMax
    BY <1>3, <1>4, Sizes
  <1>6. QED
    BY <1>1, <1>5 DEF q

LEMMA RsvrBlocks ==
    ASSUME IInv, NEW r \in Rsvrs, RsvrStep(r)
    PROVE  BlockPart'
  <1>1. pool \in [Recvqs -> Nat] /\ recvq \in [Recvqs -> Seq(Item)]
    BY DEF IInv, TypeOK, QueuesOK
  <1>2. \A q \in Recvqs : InBatch(q)' = InBatch(q) /\ InBatch(q)' \in Nat
    BY RsvrWorkers, BlockSums DEF wvars, InBatch, Visiting
  <1>3. ASSUME UNCHANGED <<pool, recvq>>,
               \A x \in Rsvrs \ {r} : rpc'[x] = rpc[x] /\ rq'[x] = rq[x],
               \A q \in Recvqs : (rpc[r] \in {"inc", "push"} /\ rq[r] = q)
                                    <=> (rpc'[r] \in {"inc", "push"} /\ rq'[r] = q)
        PROVE  BlockPart'
    <2>1. \A q \in Recvqs : IsFiniteSet(Taking(q)') /\ Cardinality(Taking(q)') = Cardinality(Taking(q))
      BY <1>3, TakingMoves
    <2>2. \A q \in Recvqs : pool'[q] + Cardinality(Taking(q)') + Len(recvq'[q]) + InBatch(q)' = QueueMax
      BY <1>2, <1>3, <2>1, BlockSums
    <2>3. QED
      BY <1>1, <1>2, <1>3, <2>1, <2>2, SumsStay
  <1>4. CASE AddConn(r) \/ Serve(r) \/ Read(r) \/ ReadAgain(r) \/ Disconnected(r) \/ Dropped(r) \/ Silent(r)
              \/ Switch(r) \/ ParseSkip(r) \/ Timeout(r) \/ DecOld(r) \/ FreeOld(r)
    <2>1. UNCHANGED <<pool, recvq>>
      BY <1>4 DEF AddConn, Serve, Read, ReadAgain, Disconnected, Dropped, Silent, Switch, ParseSkip, Timeout,
                  DecOld, FreeOld, qvars
    <2>2. rpc[r] \notin {"inc", "push"}
      BY <1>4 DEF AddConn, Serve, Read, ReadAgain, Reading, Disconnected, Dropped, Silent, Switch, ParseSkip,
                  Timeout, DecOld, FreeOld
    <2>3. /\ \A x \in Rsvrs \ {r} : rpc'[x] = rpc[x] /\ rq'[x] = rq[x]
          /\ rpc'[r] \notin {"inc", "push"}
      <3>1. rpc \in [Rsvrs -> {"idle", "read", "parse", "inc", "push", "cmd", "all", "dec", "free"}]
            /\ rq \in [Rsvrs -> Recvqs \cup {None}]
        BY DEF IInv, TypeOK, RsvrsOK
      <3>2. rq' = rq \/ rq' = [rq EXCEPT ![r] = 0]
        BY <1>4 DEF AddConn, Serve, Read, ReadAgain, Disconnected, Dropped, Silent, Switch, ParseSkip, Timeout,
                    DecOld, FreeOld, rvars
      <3>3. rpc' = rpc \/ \E pc \in {"idle", "read", "parse", "dec", "all", "free"} : rpc' = [rpc EXCEPT ![r] = pc]
        <4>1. Resume(r) => \E pc \in {"read", "all", "idle"} : rpc' = [rpc EXCEPT ![r] = pc]
          BY DEF Resume
        <4>2. QED
          BY <1>4, <4>1 DEF AddConn, Serve, Read, ReadAgain, Disconnected, Dropped, Silent, Switch, ParseSkip,
                            Timeout, DecOld, FreeOld, DelConn, rvars
      <3>4. QED
        BY <2>2, <3>1, <3>2, <3>3
    <2>4. QED
      BY <1>3, <2>1, <2>2, <2>3
  <1>5. CASE ParseExp(r)
    <2>1. PICK q0 \in Recvqs :
             IF pool[q0] > 0
             THEN /\ pool' = [pool EXCEPT ![q0] = @ - 1]
                  /\ rq' = [rq EXCEPT ![r] = q0]
                  /\ rpc' = [rpc EXCEPT ![r] = "inc"]
             ELSE /\ rq' = [rq EXCEPT ![r] = 0]
                  /\ rpc' = [rpc EXCEPT ![r] = "all"]
                  /\ UNCHANGED pool
      BY <1>5 DEF ParseExp
    <2>2. rpc[r] = "parse" /\ recvq' = recvq
      BY <1>5 DEF ParseExp
    <2>3. /\ \A x \in Rsvrs \ {r} : rpc'[x] = rpc[x] /\ rq'[x] = rq[x]
          /\ pool[q0] > 0 => rpc'[r] = "inc" /\ rq'[r] = q0
          /\ ~(pool[q0] > 0) => rpc'[r] = "all"
      BY <2>1 DEF IInv, TypeOK, RsvrsOK
    <2>4. CASE ~(pool[q0] > 0)
      BY <1>3, <2>1, <2>2, <2>3, <2>4
    <2>5. CASE pool[q0] > 0
      <3>1. ASSUME NEW q \in Recvqs
            PROVE  /\ IsFiniteSet(Taking(q)')
                   /\ Cardinality(Taking(q)') = Cardinality(Taking(q)) + (IF q = q0 THEN 1 ELSE 0)
        BY <2>2, <2>3, <2>5, TakingMoves, BlockSums
      <3>2. pool' \in [Recvqs -> Nat] /\ \A q \in Recvqs : pool'[q] = pool[q] - (IF q = q0 THEN 1 ELSE 0)
        BY <1>1, <2>1, <2>5, SMTT(30)
      <3>3. \A q \in Recvqs : pool'[q] + Cardinality(Taking(q)') + Len(recvq'[q]) + InBatch(q)' = QueueMax
        <4> SUFFICES ASSUME NEW q \in Recvqs
                     PROVE  pool'[q] + Cardinality(Taking(q)') + Len(recvq[q]) + InBatch(q) = QueueMax
          BY <1>2, <2>2
        <4> DEFINE d == IF q = q0 THEN 1 ELSE 0
                   t == Cardinality(Taking(q))
                   u == Cardinality(Taking(q)')
        <4>1. /\ pool[q] \in Nat /\ t \in Nat /\ Len(recvq[q]) \in Nat /\ InBatch(q) \in Nat
              /\ pool[q] + t + Len(recvq[q]) + InBatch(q) = QueueMax
          BY BlockSums
        <4>2. u = t + d /\ pool'[q] = pool[q] - d /\ d \in Nat
          BY <3>1, <3>2
        <4> HIDE DEF d, t, u
        <4>3. pool'[q] + u + Len(recvq[q]) + InBatch(q) = QueueMax
          BY <4>1, <4>2
        <4>4. QED
          BY <4>3 DEF u
      <3>4. QED
        BY <1>1, <1>2, <2>2, <3>1, <3>2, <3>3, SumsStay
    <2>6. QED
      BY <2>4, <2>5
  <1>6. CASE IncRef(r)
    <2>1. /\ \A x \in Rsvrs \ {r} : rpc'[x] = rpc[x] /\ rq'[x] = rq[x]
          /\ rpc[r] = "inc" /\ rpc'[r] = "push" /\ rq'[r] = rq[r] /\ UNCHANGED <<pool, recvq>>
      BY <1>6 DEF IncRef, qvars, IInv, TypeOK, RsvrsOK
    <2>2. QED
      BY <1>3, <2>1
  <1>7. CASE Push(r)
    <2> DEFINE q0 == rq[r]
               item == [base |-> base[cur[r]], at |-> optr[cur[r]], no |-> Header(cur[r]).no]
    <2>1. q0 \in Recvqs /\ Len(recvq[q0]) < QueueMax /\ rpc[r] = "push" /\ cur[r] # None
      BY <1>7, PushFits DEF Push, IInv, ThreadsStand
    <2>2. item \in Item
      <3>1. Complete(cur[r])
        BY <2>1 DEF IInv, MessageThere
      <3>2. base[cur[r]] \in Buffs /\ optr[cur[r]] \in 0..(BuffLen - 1) /\ Header(cur[r]).no \in Nat
        BY <2>1, <3>1, Served, HeaderThere DEF Unit
      <3>3. QED
        BY <3>2 DEF Item
    <2>3. recvq' = [recvq EXCEPT ![q0] = Append(recvq[q0], item)] /\ pool' = pool
      BY <1>7, <2>1 DEF Push
    <2> HIDE DEF item
    <2>4. Append(recvq[q0], item) \in Seq(Item) /\ Len(Append(recvq[q0], item)) = Len(recvq[q0]) + 1
      BY <1>1, <2>1, <2>2, AppendProperties
    <2>5. /\ recvq' \in [Recvqs -> Seq(Item)]
          /\ \A q \in Recvqs : Len(recvq'[q]) = Len(recvq[q]) + (IF q = q0 THEN 1 ELSE 0)
      <3>1. \A q \in Recvqs : Len(recvq[q]) \in Nat
        BY BlockSums
      <3>2. QED
        BY <1>1, <2>1, <2>3, <2>4, <3>1
    <2>6. /\ \A x \in Rsvrs \ {r} : rpc'[x] = rpc[x] /\ rq'[x] = rq[x]
          /\ rpc'[r] = "cmd"
      BY <1>7 DEF Push, IInv, TypeOK, RsvrsOK
    <2>7. ASSUME NEW q \in Recvqs
          PROVE  /\ IsFiniteSet(Taking(q)')
                 /\ Cardinality(Taking(q)') = Cardinality(Taking(q)) - (IF q = q0 THEN 1 ELSE 0)
      BY <2>1, <2>6, TakingMoves, BlockSums
    <2> HIDE DEF q0
    <2>8. \A q \in Recvqs : pool'[q] + Cardinality(Taking(q)') + Len(recvq'[q]) + InBatch(q)' = QueueMax
      <3> SUFFICES ASSUME NEW q \in Recvqs
                   PROVE  pool[q] + Cardinality(Taking(q)') + Len(recvq'[q]) + InBatch(q) = QueueMax
        BY <1>2, <2>3
      <3> DEFINE l == Len(recvq[q])
                 m == Len(recvq'[q])
      <3>1. /\ pool[q] \in Nat /\ Cardinality(Taking(q)) \in Nat /\ l \in Nat /\ InBatch(q) \in Nat
            /\ pool[q] + Cardinality(Taking(q)) + l + InBatch(q) = QueueMax
        BY BlockSums
      <3>2. /\ Cardinality(Taking(q)') = Cardinality(Taking(q)) - (IF q = q0 THEN 1 ELSE 0)
            /\ m = l + (IF q = q0 THEN 1 ELSE 0)
        BY <2>5, <2>7
      <3> HIDE DEF l, m
      <3>3. pool[q] + Cardinality(Taking(q)') + m + InBatch(q) = QueueMax
        BY <3>1, <3>2
      <3>4. QED
        BY <3>3 DEF m
    <2>9. QED
      BY <1>1, <1>2, <2>3, <2>5, <2>7, <2>8, SumsStay
  <1>8. CASE Cmd(r) \/ All(r)
    <2>1. rpc[r] \in {"cmd", "all"} /\ UNCHANGED <<pool, recvq>>
      BY <1>8 DEF Cmd, All
    <2>2. \E pc \in {"parse", "all", "idle"} : rpc' = [rpc EXCEPT ![r] = pc]
      BY <1>8 DEF Cmd, All
    <2>3. \E q : rq' = [rq EXCEPT ![r] = q]
      BY <1>8 DEF Cmd, All
    <2>4. \A x \in Rsvrs \ {r} : rpc'[x] = rpc[x] /\ rq'[x] = rq[x]
      BY <2>2, <2>3 DEF IInv, TypeOK, RsvrsOK
    <2>5. rpc'[r] \notin {"inc", "push"}
      BY <2>2 DEF IInv, TypeOK, RsvrsOK
    <2>6. QED
      BY <1>3, <2>1, <2>4, <2>5
  <1>9. QED
    BY <1>4, <1>5, <1>6, <1>7, <1>8 DEF RsvrStep

\* What a worker does concerns its own queues.
LEMMA OthersVisit ==
    ASSUME IInv, NEW w \in Workers, WorkStep(w)
    PROVE  /\ \A v \in Workers \ {w} : visit'[v] = visit[v] /\ batch'[v] = batch[v] /\ wpc'[v] = wpc[v]
           /\ \A q \in Recvqs : q \div HdlQnum # w => (Visiting(q)' <=> Visiting(q)) /\ InBatch(q)' = InBatch(q)
  <1>1. /\ visit' = visit \/ \E x : visit' = [visit EXCEPT ![w] = x]
        /\ batch' = batch \/ \E x : batch' = [batch EXCEPT ![w] = x]
        /\ wpc' = wpc \/ \E x : wpc' = [wpc EXCEPT ![w] = x]
    BY DEF WorkStep, WorkCmd, WorkSweep, WorkPop, WorkProc, WorkFree, WorkBack
  <1>2. \A v \in Workers \ {w} : visit'[v] = visit[v] /\ batch'[v] = batch[v] /\ wpc'[v] = wpc[v]
    BY <1>1 DEF IInv, TypeOK, WorkersOK
  <1>3. \A q \in Recvqs : q \div HdlQnum # w => (Visiting(q)' <=> Visiting(q)) /\ InBatch(q)' = InBatch(q)
    BY <1>2, Owners DEF Visiting, InBatch
  <1>4. QED
    BY <1>2, <1>3

\* A worker without items has none in hand of any of its queues.
LEMMA EmptyHand ==
    ASSUME IInv, NEW w \in Workers
    PROVE  /\ batch[w] = <<>> => \A q \in Recvqs : q \div HdlQnum = w => InBatch(q) = 0
           /\ batch'[w] = <<>> => \A q \in Recvqs : q \div HdlQnum = w => InBatch(q)' = 0
  <1>1. Len(<<>>) = 0
    BY EmptySeq
  <1>2. QED
    BY <1>1 DEF InBatch

LEMMA WorkerBlocks ==
    ASSUME IInv, NEW w \in Workers, WorkStep(w)
    PROVE  BlockPart'
  <1>1. pool \in [Recvqs -> Nat] /\ recvq \in [Recvqs -> Seq(Item)]
    BY DEF IInv, TypeOK, QueuesOK
  <1>2. \A q \in Recvqs : Taking(q)' = Taking(q) /\ IsFiniteSet(Taking(q)')
    BY WorkerThreads DEF rvars, Taking, IInv, BlocksKept
  <1>3. ASSUME UNCHANGED <<pool, recvq>>, \A q \in Recvqs : q \div HdlQnum = w => InBatch(q)' = InBatch(q)
        PROVE  BlockPart'
    <2>1. \A q \in Recvqs : InBatch(q)' = InBatch(q)
      BY <1>3, OthersVisit
    <2>2. QED
      BY <1>1, <1>2, <1>3, <2>1, BlockSums, SumsStay
  <1>4. CASE WorkCmd(w) \/ WorkSweep(w)
    <2>1. batch[w] = <<>> /\ batch' = batch /\ UNCHANGED <<pool, recvq>>
      BY <1>4 DEF WorkCmd, WorkSweep, qvars, IInv, WorkersStand
    <2>2. QED
      BY <1>3, <2>1, EmptyHand
  <1>5. CASE WorkPop(w)
    <2> DEFINE q0 == Head(visit[w])
    <2>1. wpc[w] = "pop" /\ batch[w] = <<>> /\ pool' = pool
      BY <1>5 DEF WorkPop, IInv, WorkersStand
    <2>2. /\ q0 \in Recvqs /\ q0 \div HdlQnum = w /\ visit[w] # <<>> /\ Visiting(q0)
          /\ \A q \in Recvqs : q \div HdlQnum = w /\ q # q0 => ~Visiting(q)
      BY <2>1, AtQueue
    <2>3. batch' = [batch EXCEPT ![w] = recvq[q0]] /\ recvq' = [recvq EXCEPT ![q0] = <<>>]
      BY <1>5 DEF WorkPop
    <2>4. batch'[w] = recvq[q0]
      BY <2>3 DEF IInv, TypeOK, WorkersOK
    <2>5. CASE recvq[q0] = <<>>
      <3>1. recvq' = recvq
        BY <1>1, <2>2, <2>3, <2>5
      <3>2. QED
        BY <1>3, <2>1, <2>4, <2>5, <3>1, EmptyHand
    <2>6. CASE recvq[q0] # <<>>
      <3>1. visit' = visit
        BY <1>5, <2>6 DEF WorkPop
      <3>2. \A q \in Recvqs : q \div HdlQnum = w => InBatch(q) = 0 /\ InBatch(q)' = IF q = q0 THEN Len(recvq[q0]) ELSE 0
        BY <2>1, <2>2, <2>4, <3>1, EmptyHand DEF InBatch, Visiting
      <3>3. recvq' \in [Recvqs -> Seq(Item)]
        <4>1. <<>> \in Seq(Item)
          BY EmptySeq
        <4>2. QED
          BY <1>1, <2>2, <2>3, <4>1, Zenon
      <3>4. recvq'[q0] = <<>> /\ \A q \in Recvqs \ {q0} : recvq'[q] = recvq[q]
        BY <1>1, <2>2, <2>3
      <3>5. ASSUME NEW q \in Recvqs
            PROVE  InBatch(q)' \in Nat /\ pool'[q] + Cardinality(Taking(q)') + Len(recvq'[q]) + InBatch(q)' = QueueMax
        <4>1. CASE q = q0
          <5>1. InBatch(q) = 0 /\ InBatch(q)' = Len(recvq[q])
            BY <2>2, <3>2, <4>1
          <5>2. Len(recvq'[q]) = 0
            BY <3>4, <4>1, EmptySeq
          <5> HIDE DEF q0
          <5>3. QED
            BY <1>2, <2>1, <5>1, <5>2, BlockSums
        <4>2. CASE q # q0
          <5>1. InBatch(q)' = InBatch(q)
            BY <3>2, <4>2, OthersVisit
          <5> HIDE DEF q0
          <5>2. recvq'[q] = recvq[q]
            BY <3>4, <4>2
          <5>3. QED
            BY <1>2, <2>1, <5>1, <5>2, BlockSums
        <4>3. QED
          BY <4>1, <4>2
      <3>6. QED
        BY <1>1, <1>2, <2>1, <3>3, <3>5, SumsStay
    <2>7. QED
      BY <2>5, <2>6
  <1>6. CASE WorkProc(w) \/ WorkFree(w)
    <2>1. UNCHANGED <<pool, recvq, visit, batch>>
      BY <1>6 DEF WorkProc, WorkFree, qvars
    <2>2. \A q \in Recvqs : InBatch(q)' = InBatch(q)
      BY <2>1 DEF InBatch, Visiting
    <2>3. QED
      BY <1>3, <2>1, <2>2
  <1>7. CASE WorkBack(w)
    <2> DEFINE q0 == Head(visit[w])
    <2>1. wpc[w] = "back" /\ UNCHANGED <<recvq, visit>>
      BY <1>7 DEF WorkBack
    <2>2. /\ q0 \in Recvqs /\ q0 \div HdlQnum = w /\ visit[w] # <<>> /\ Visiting(q0) /\ InBatch(q0) = Len(batch[w])
          /\ \A q \in Recvqs : q \div HdlQnum = w /\ q # q0 => ~Visiting(q)
      BY <2>1, AtQueue
    <2>3. batch[w] \in Seq(Item) /\ batch[w] # <<>>
      BY <2>1, AtItem
    <2>4. batch'[w] = Tail(batch[w]) /\ pool' = [pool EXCEPT ![q0] = @ + 1]
      BY <1>7 DEF WorkBack, IInv, TypeOK, WorkersOK
    <2>5. ASSUME NEW q \in Recvqs, q = q0
          PROVE  InBatch(q)' = InBatch(q) - 1 /\ InBatch(q)' \in Nat
      <3>1. InBatch(q) = Len(batch[w]) /\ InBatch(q)' = Len(Tail(batch[w]))
        BY <2>1, <2>2, <2>4, <2>5 DEF InBatch, Visiting
      <3>2. Len(Tail(batch[w])) = Len(batch[w]) - 1 /\ Tail(batch[w]) \in Seq(Item)
        BY <2>3, HeadTailProperties
      <3>3. Len(Tail(batch[w])) \in Nat
        BY <3>2, LenProperties
      <3>4. QED
        BY <3>1, <3>2, <3>3
    <2>6. \A q \in Recvqs \ {q0} : InBatch(q)' = InBatch(q)
      BY <2>1, <2>2, OthersVisit DEF InBatch, Visiting
    <2> HIDE DEF q0
    <2>7. pool' \in [Recvqs -> Nat] /\ \A q \in Recvqs : pool'[q] = IF q = q0 THEN pool[q] + 1 ELSE pool[q]
      BY <1>1, <2>2, <2>4
    <2>8. ASSUME NEW q \in Recvqs
          PROVE  InBatch(q)' \in Nat /\ pool'[q] + Cardinality(Taking(q)') + Len(recvq'[q]) + InBatch(q)' = QueueMax
      <3> DEFINE t == Cardinality(Taking(q))
                 l == Len(recvq[q])
      <3>1. /\ pool[q] \in Nat /\ t \in Nat /\ l \in Nat /\ InBatch(q) \in Nat
            /\ pool[q] + t + l + InBatch(q) = QueueMax
        BY BlockSums
      <3> HIDE DEF t, l
      <3>2. CASE q = q0
        <4>1. pool'[q] = pool[q] + 1 /\ InBatch(q)' = InBatch(q) - 1 /\ InBatch(q)' \in Nat
          BY <2>5, <2>7, <3>2
        <4>2. pool'[q] + t + l + InBatch(q)' = QueueMax
          BY <3>1, <4>1
        <4>3. QED
          BY <1>2, <2>1, <4>1, <4>2 DEF t, l
      <3>3. CASE q # q0
        <4>1. pool'[q] = pool[q] /\ InBatch(q)' = InBatch(q)
          BY <2>6, <2>7, <3>3
        <4>2. QED
          BY <1>2, <2>1, <3>1, <4>1 DEF t, l
      <3>4. QED
        BY <3>2, <3>3
    <2>9. QED
      BY <1>1, <1>2, <2>1, <2>7, <2>8, SumsStay
  <1>8. QED
    BY <1>4, <1>5, <1>6, <1>7 DEF WorkStep
=============================================================================
