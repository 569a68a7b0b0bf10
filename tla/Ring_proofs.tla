----------------------------- MODULE Ring_proofs -----------------------------
(***************************************************************************)
(* The safety of the ring for every number of threads, every capacity and  *)
(* every batch size: the inductive invariant Inv of module Ring holds, and *)
(* with it what Published, Delivered and NoSlotRace say.  Then, from sums  *)
(* over the threads, the counter; and, while it is adjusted in time, the   *)
(* honest refusals and the refinement of RingFifo.                         *)
(***************************************************************************)
EXTENDS MCRing, SequenceTheorems, FiniteSetTheorems, WellFoundedInduction, TLAPS

-----------------------------------------------------------------------------
(* Arithmetic: slots of nearby indices differ. *)

\* Division with remainder by the capacity.
LEMMA DivMod ==
    ASSUME NEW k \in Nat
    PROVE  /\ k \div Max \in Nat
           /\ k % Max \in 0..(Max - 1)
           /\ k = (Max * (k \div Max)) + (k % Max)
  BY RingAssumption, SMT

\* Multiplication distributes over a difference, and grows with its factor.
LEMMA MulDifference ==
    ASSUME NEW m \in Nat \ {0}, NEW a \in Nat, NEW b \in Nat
    PROVE  /\ m * (a - b) = (m * a) - (m * b)
           /\ a - b >= 1 => m * (a - b) >= m
           /\ a - b <= 0 => m * (a - b) <= 0
  BY SMT

\* Every index has a slot.
LEMMA SlotInRange == ASSUME NEW k \in Nat PROVE Slot(k) \in 0..(Max - 1)
  BY DivMod DEF Slot

\* Two indices less than a capacity apart have different slots.
LEMMA SlotsDiffer ==
    ASSUME NEW k \in Nat, NEW j \in Nat, k < j, j - k < Max
    PROVE  Slot(k) # Slot(j)
  <1> DEFINE q == k \div Max
             r == j \div Max
             s == k % Max
  <1> SUFFICES ASSUME j % Max = s PROVE FALSE
    BY DEF Slot
  <1>1. /\ q \in Nat /\ r \in Nat /\ s \in Nat
        /\ k = (Max * q) + s
        /\ j = (Max * r) + s
    BY DivMod
  <1>2. Max \in Nat \ {0}
    BY RingAssumption
  <1> HIDE DEF q, r, s
  <1>3. j - k = (Max * r) - (Max * q)
    BY <1>1, <1>2
  <1>4. /\ j - k = Max * (r - q)
        /\ r - q >= 1 => j - k >= Max
        /\ r - q <= 0 => j - k <= 0
    BY <1>1, <1>2, <1>3, MulDifference
  <1>5. QED
    BY <1>1, <1>2, <1>4

\* What a word shows of a natural is at most that natural.
LEMMA WordShows == ASSUME NEW k \in Nat PROVE k % Word \in Nat /\ k % Word <= k
  BY RingAssumption, SMT

-----------------------------------------------------------------------------
(* The inductive invariant. *)

\* An array of values is a sequence of its length.
LEMMA ArrayIsSeq ==
    ASSUME NEW S, NEW k \in Nat, NEW a \in [1..k -> S]
    PROVE  a \in Seq(S) /\ Len(a) = k
  BY SMT

\* What appending the pointers of a push does to the log.
LEMMA LogGrows ==
    ASSUME NEW S, NEW old \in Seq(S), NEW a \in Seq(S)
    PROVE  /\ old \o a \in Seq(S) /\ Len(old \o a) = Len(old) + Len(a)
           /\ \A k \in 1..Len(old) : (old \o a)[k] = old[k]
           /\ \A k \in 1..Len(a) : (old \o a)[Len(old) + k] = a[k]
  BY SMT

\* The state ring_creat leaves satisfies the invariant.
LEMMA InitInv == Init => Inv
  BY RingAssumption
  DEF Init, ring_creat, Inv, TypeOK, IndexOrder, Locals, Ranges, Written,
      Published, Delivered, Writing, Reading, PushPc, PopPc

\* Steps that move a thread without touching the indices, the slots or the log.
LEMMA CallsAndReads ==
    ASSUME Inv, NEW t \in Threads,
           \/ PushCall(t) \/ PushReadHead(t) \/ PushRetry(t)
           \/ PopCall(t) \/ PopReadHead(t) \/ PopRetry(t)
    PROVE  Inv'
  <1> USE DEF Inv, PushPc, PopPc, Goto
  <1>1. CASE PushCall(t)
    <2>0. PICK k \in Batches : \E a \in [1..k -> Value] :
             addr' = [addr EXCEPT ![t] = a] /\ n' = [n EXCEPT ![t] = k]
      BY <1>1 DEF PushCall
    <2>1. PICK a \in [1..k -> Value] :
             addr' = [addr EXCEPT ![t] = a] /\ n' = [n EXCEPT ![t] = k]
      BY <2>0
    <2>2. k \in Nat \ {0} /\ a \in Seq(Value) /\ Len(a) = k /\ a \in Seq(Value \cup {Null})
      BY RingAssumption, ArrayIsSeq
    <2>3. TypeOK'
      BY <1>1, <2>1, <2>2 DEF PushCall, TypeOK
    <2>4. \A u \in Threads : Locals(u)'
      BY <1>1, <2>1, <2>2 DEF PushCall, TypeOK, Locals
    <2>5. Ranges' /\ Written' /\ Published' /\ Delivered' /\ IndexOrder'
      BY SMTT(40), <1>1, <2>1, <2>2
      DEF PushCall, TypeOK, Ranges, Before, Written, Published, Delivered,
          IndexOrder, Writing, Reading, Slot
    <2> QED
      BY <2>3, <2>4, <2>5
  <1>2. CASE PopCall(t)
    <2>1. PICK k \in Batches : n' = [n EXCEPT ![t] = k]
      BY <1>2 DEF PopCall
    <2>2. k \in Nat \ {0}
      BY RingAssumption
    <2>3. TypeOK'
      BY SMTT(40), <1>2, <2>1, <2>2 DEF PopCall, TypeOK
    <2>4. \A u \in Threads : Locals(u)'
      BY <1>2, <2>1, <2>2 DEF PopCall, TypeOK, Locals
    <2>5. Ranges' /\ Written' /\ Published' /\ Delivered' /\ IndexOrder'
      BY <1>2, <2>1, <2>2
      DEF PopCall, TypeOK, Ranges, Before, Written, Published, Delivered,
          IndexOrder, Writing, Reading, Slot
    <2> QED
      BY <2>3, <2>4, <2>5
  <1>3. CASE PushReadHead(t)
    <2>1. TypeOK'
      BY <1>3 DEF PushReadHead, TypeOK
    <2>2. \A u \in Threads : Locals(u)'
      BY <1>3 DEF PushReadHead, TypeOK, Locals, IndexOrder
    <2>3. /\ Writing' = Writing /\ Reading' = Reading
          /\ \A u \in Writing \cup Reading : u # t /\ u \in Threads /\ head'[u] = head[u]
      BY <1>3 DEF PushReadHead, TypeOK, Writing, Reading
    <2>4. Ranges'
      BY <1>3, <2>3 DEF PushReadHead, Ranges, Before
    <2>5. Written'
      BY <1>3, <2>3 DEF PushReadHead, Written, Slot
    <2>6. Published' /\ IndexOrder'
      BY <1>3 DEF PushReadHead, Published, IndexOrder, Slot
    <2>7. Delivered'
      BY <1>3 DEF PushReadHead, TypeOK, Delivered
    <2> QED
      BY <2>1, <2>2, <2>4, <2>5, <2>6, <2>7
  <1>4. CASE PopReadHead(t)
    <2>1. TypeOK'
      BY <1>4 DEF PopReadHead, TypeOK
    <2>2. \A u \in Threads : Locals(u)'
      BY <1>4 DEF PopReadHead, TypeOK, Locals, IndexOrder
    <2>3. /\ Writing' = Writing /\ Reading' = Reading
          /\ \A u \in Writing \cup Reading : u # t /\ u \in Threads /\ head'[u] = head[u]
      BY <1>4 DEF PopReadHead, TypeOK, Writing, Reading
    <2>4. Ranges'
      BY <1>4, <2>3 DEF PopReadHead, Ranges, Before
    <2>5. Written'
      BY <1>4, <2>3 DEF PopReadHead, Written, Slot
    <2>6. Published' /\ IndexOrder'
      BY <1>4 DEF PopReadHead, Published, IndexOrder, Slot
    <2>7. Delivered'
      BY <1>4 DEF PopReadHead, TypeOK, Delivered
    <2> QED
      BY <2>1, <2>2, <2>4, <2>5, <2>6, <2>7
  <1>5. CASE PushRetry(t)
    <2>1. TypeOK'
      BY <1>5 DEF PushRetry, TypeOK
    <2>2. \A u \in Threads : Locals(u)'
      BY <1>5 DEF PushRetry, TypeOK, Locals, IndexOrder
    <2>3. Ranges' /\ Written' /\ Published' /\ Delivered' /\ IndexOrder'
      BY <1>5
      DEF PushRetry, TypeOK, Ranges, Before, Written, Published, Delivered,
          IndexOrder, Writing, Reading, Slot
    <2> QED
      BY <2>1, <2>2, <2>3
  <1>6. CASE PopRetry(t)
    <2>1. TypeOK'
      BY <1>6 DEF PopRetry, TypeOK
    <2>2. \A u \in Threads : Locals(u)'
      BY <1>6 DEF PopRetry, TypeOK, Locals, IndexOrder
    <2>3. Ranges' /\ Written' /\ Published' /\ Delivered' /\ IndexOrder'
      BY <1>6
      DEF PopRetry, TypeOK, Ranges, Before, Written, Published, Delivered,
          IndexOrder, Writing, Reading, Slot
    <2> QED
      BY <2>1, <2>2, <2>3
  <1>7. QED
    BY <1>1, <1>2, <1>3, <1>4, <1>5, <1>6

\* The checks for room and for stock.
LEMMA Checks ==
    ASSUME Inv, NEW t \in Threads, PushCheck(t) \/ PopCheck(t)
    PROVE  Inv'
  <1> USE DEF Inv, PushPc, PopPc, Goto
  <1>1. CASE PushCheck(t)
    <2>1. TypeOK'
      BY <1>1 DEF PushCheck, TypeOK
    <2>0. ASSUME ~(n[t] > Space(t)) PROVE head[t] + n[t] <= cons.tail + Max
      <3> DEFINE room == Max + cons.tail - head[t]
      <3>0. /\ head[t] \in Nat /\ n[t] \in Nat /\ cons.tail \in Nat /\ Max \in Nat
            /\ head[t] <= cons.tail + Max
        BY <1>1, RingAssumption DEF PushCheck, TypeOK, Locals, IndexOrder
      <3> HIDE DEF Inv
      <3>1. room \in Nat /\ Space(t) = room % Word
        BY <3>0 DEF Space
      <3> HIDE DEF room
      <3>2. Space(t) \in Nat /\ Space(t) <= room
        BY <3>1, WordShows
      <3> QED
        BY <2>0, <3>0, <3>1, <3>2 DEF room
    <2>2. \A u \in Threads : Locals(u)'
      BY <1>1, <2>0 DEF PushCheck, TypeOK, Locals, IndexOrder
    <2>3. Ranges' /\ Written' /\ Published' /\ Delivered' /\ IndexOrder'
      BY <1>1
      DEF PushCheck, TypeOK, Ranges, Before, Written, Published, Delivered,
          IndexOrder, Writing, Reading, Slot
    <2> QED
      BY <2>1, <2>2, <2>3
  <1>2. CASE PopCheck(t)
    <2>1. TypeOK'
      BY <1>2 DEF PopCheck, TypeOK
    <2>0. ASSUME ~(n[t] > Stock(t)) PROVE head[t] + n[t] <= prod.tail
      <3> DEFINE stock == prod.tail - head[t]
      <3>0. /\ head[t] \in Nat /\ n[t] \in Nat /\ prod.tail \in Nat
            /\ head[t] <= prod.tail
        BY <1>2 DEF PopCheck, TypeOK, Locals, IndexOrder
      <3> HIDE DEF Inv
      <3>1. stock \in Nat /\ Stock(t) = stock % Word
        BY <3>0 DEF Stock
      <3> HIDE DEF stock
      <3>2. Stock(t) \in Nat /\ Stock(t) <= stock
        BY <3>1, WordShows
      <3> QED
        BY <2>0, <3>0, <3>1, <3>2 DEF stock
    <2>2. \A u \in Threads : Locals(u)'
      BY <1>2, <2>0 DEF PopCheck, TypeOK, Locals, IndexOrder
    <2>3. Ranges' /\ Written' /\ Published' /\ Delivered' /\ IndexOrder'
      BY <1>2
      DEF PopCheck, TypeOK, Ranges, Before, Written, Published, Delivered,
          IndexOrder, Writing, Reading, Slot
    <2> QED
      BY <2>1, <2>2, <2>3
  <1>3. QED
    BY <1>1, <1>2

\* A producer reserves: its range is new, so it meets no other, and the log
\* records its pointers.
LEMMA Reserving ==
    ASSUME Inv, NEW t \in Threads, PushReserve(t)
    PROVE  Inv'
  <1> USE DEF Inv, PushPc, PopPc, Goto
  <1>1. /\ addr[t] \in Seq(Value) /\ Len(addr[t]) = n[t] /\ n[t] > 0
        /\ prod.head = head[t] /\ head[t] + n[t] <= cons.tail + Max
        /\ log' = log \o addr[t] /\ log \in Seq(Value) /\ Len(log) = prod.head
        /\ prod.head \in Nat /\ n[t] \in Nat
    BY DEF PushReserve, TypeOK, Locals, Written
  <1>2. /\ log' \in Seq(Value) /\ Len(log') = prod.head + n[t]
        /\ \A k \in 1..prod.head : log'[k] = log[k]
        /\ \A k \in 1..n[t] : log'[head[t] + k] = addr[t][k]
    <2>1. log \in Seq(Value) /\ addr[t] \in Seq(Value)
      BY <1>1
    <2>2. /\ log \o addr[t] \in Seq(Value)
          /\ Len(log \o addr[t]) = Len(log) + Len(addr[t])
          /\ \A k \in 1..Len(log) : (log \o addr[t])[k] = log[k]
          /\ \A k \in 1..Len(addr[t]) : (log \o addr[t])[Len(log) + k] = addr[t][k]
      BY <2>1, LogGrows
    <2> QED
      BY <1>1, <2>2
  <1>3. /\ prod' = [head |-> head[t] + n[t], tail |-> prod.tail]
        /\ t \notin Writing /\ Writing' = Writing \cup {t}
        /\ t \notin Reading /\ Reading' = Reading
    BY DEF PushReserve, TypeOK, Writing, Reading
  <1>4. TypeOK'
    <2>1. prod' \in [head : Nat, tail : Nat]
      BY <1>1, <1>3 DEF TypeOK
    <2> QED
      BY <1>2, <2>1 DEF PushReserve, TypeOK
  <1>5. \A u \in Threads : Locals(u)'
    BY <1>1, <1>3 DEF PushReserve, TypeOK, Locals
  <1>6. IndexOrder'
    BY <1>1, <1>3 DEF PushReserve, TypeOK, IndexOrder
  <1>7. Ranges'
    <2>1. \A u \in Writing : Before(u, t)'
      BY <1>1, <1>3 DEF PushReserve, TypeOK, Ranges, Before, Writing
    <2>2. \A u, v \in Writing \cup {t} : (u = v \/ Before(u, v) \/ Before(v, u))'
      BY <1>3, <2>1 DEF PushReserve, Ranges, Before
    <2>3. \A u \in Writing \cup {t} : (prod.tail <= head[u] /\ head[u] + n[u] <= prod.head)'
      BY SMTT(40), <1>1, <1>3 DEF PushReserve, TypeOK, Ranges, IndexOrder, Writing
    <2> QED
      BY <1>3, <2>2, <2>3 DEF PushReserve, Ranges, Before
  <1>8. Written'
    <2>1. \A u \in Writing : u \in Threads /\ u # t /\ head[u] \in Nat /\ n[u] \in Nat
                             /\ head[u] + n[u] <= prod.head
      BY <1>3 DEF TypeOK, Ranges, Writing
    <2>2. \A u \in Writing : \A k \in 1..n[u] : log'[head[u] + k] = addr[u][k]
      <3> SUFFICES ASSUME NEW u \in Writing, NEW k \in 1..n[u]
                   PROVE  log'[head[u] + k] = addr[u][k]
        OBVIOUS
      <3>1. head[u] + k \in 1..prod.head
        BY <1>1, <2>1
      <3> QED
        BY <1>2, <3>1 DEF Written
    <2>3. \A u \in Writing : i'[u] = i[u]
      BY <2>1 DEF PushReserve, TypeOK
    <2>4. i'[t] = 0
      BY DEF PushReserve, TypeOK
    <2>5. \A u \in Writing : \A k \in 0..(i'[u] - 1) : data[Slot(head[u] + k)] = addr[u][k + 1]
      BY <2>3 DEF Written
    <2>6. \A u \in Writing \cup {t} :
            /\ \A k \in 1..n[u] : log'[head[u] + k] = addr[u][k]
            /\ \A k \in 0..(i'[u] - 1) : data[Slot(head[u] + k)] = addr[u][k + 1]
      BY <1>2, <2>2, <2>4, <2>5
    <2>7. Len(log') = prod'.head
      BY <1>1, <1>2, <1>3
    <2> QED
      BY ZenonT(60), <1>3, <2>6, <2>7 DEF PushReserve, Written, Slot
  <1>9. Published'
    BY SMTT(40), <1>1, <1>2, <1>3 DEF PushReserve, TypeOK, Published, IndexOrder, Slot
  <1>10. Delivered'
    <2> SUFFICES ASSUME NEW u \in Threads,
                        (pc[u] \in {"pop_read", "pop_wait", "pop_count"})',
                        NEW k \in 1..(i[u]')
                 PROVE  addr'[u][k] = log'[head'[u] + k]
      BY DEF Delivered
    <2>1. u # t /\ pc[u] \in {"pop_read", "pop_wait", "pop_count"} /\ i'[u] = i[u]
      BY DEF PushReserve, TypeOK
    <2>2. head[u] + k \in 1..prod.head
      BY SMTT(40), <1>1, <2>1 DEF TypeOK, Locals, IndexOrder
    <2>3. addr[u][k] = log[head[u] + k]
      BY <2>1 DEF Delivered
    <2> QED
      BY <1>2, <2>1, <2>2, <2>3 DEF PushReserve
  <1>11. QED
    BY <1>4, <1>5, <1>6, <1>7, <1>8, <1>9, <1>10

\* A producer fills one of its slots: no published pointer and no pointer of
\* another producer is there.
LEMMA Filling ==
    ASSUME Inv, NEW t \in Threads, PushWrite(t)
    PROVE  Inv'
  <1> USE DEF Inv, PushPc, PopPc, Goto
  <1> DEFINE at == head[t] + i[t]
  <1>1. /\ t \in Writing /\ i[t] < n[t] /\ i[t] \in Nat /\ n[t] \in Nat /\ head[t] \in Nat
        /\ prod.tail <= head[t] /\ head[t] + n[t] <= prod.head
        /\ Len(addr[t]) = n[t] /\ addr[t] \in Seq(Value)
    BY DEF PushWrite, TypeOK, Locals, Ranges, Writing
  <1>2. /\ at \in Nat /\ prod.tail <= at /\ at < prod.head
        /\ Slot(at) \in 0..(Max - 1)
        /\ addr[t][i[t] + 1] \in Value
    <2>1. at \in Nat /\ prod.tail <= at /\ at < prod.head
      BY <1>1 DEF TypeOK
    <2>2. i[t] + 1 \in 1..Len(addr[t])
      BY <1>1
    <2> QED
      BY <1>1, <2>1, <2>2, SlotInRange, ElementOfSeq
  <1>3. data' = [data EXCEPT ![Slot(at)] = addr[t][i[t] + 1]]
    BY DEF PushWrite
  <1>4. \A k \in Nat : /\ cons.tail <= k /\ k < prod.head /\ k # at
                       => Slot(k) # Slot(at) /\ data'[Slot(k)] = data[Slot(k)]
    <2> SUFFICES ASSUME NEW k \in Nat, cons.tail <= k, k < prod.head, k # at
                 PROVE  Slot(k) # Slot(at) /\ data'[Slot(k)] = data[Slot(k)]
      OBVIOUS
    <2> HIDE DEF at
    <2>1. (k < at /\ at - k < Max) \/ (at < k /\ k - at < Max)
      BY SMTT(40), <1>2, RingAssumption DEF TypeOK, IndexOrder
    <2>2. Slot(k) # Slot(at)
      BY <1>2, <2>1, SlotsDiffer
    <2>3. Slot(k) \in 0..(Max - 1)
      BY SlotInRange
    <2> QED
      BY <1>3, <2>2, <2>3 DEF TypeOK
  <1>5. data'[Slot(at)] = addr[t][i[t] + 1]
    BY <1>2, <1>3 DEF TypeOK
  <1> HIDE DEF at
  <1>6. Writing' = Writing /\ Reading' = Reading
    BY <1>1 DEF PushWrite, TypeOK, Writing, Reading
  <1>7. TypeOK'
    <2>1. data' \in [0..(Max - 1) -> Value \cup {Null}]
      BY <1>2, <1>3 DEF TypeOK
    <2>2. TypeOK /\ i[t] \in Nat
      BY DEF TypeOK
    <2> HIDE DEF Inv
    <2>3. pc' \in [Threads -> {"idle"} \cup PushPc \cup PopPc]
      BY <1>1, <2>2 DEF PushWrite, TypeOK
    <2>4. i' \in [Threads -> Nat]
      BY <1>1, <2>2 DEF PushWrite, TypeOK
    <2> HIDE DEF PushPc, PopPc, Goto
    <2> QED
      BY <1>1, <2>1, <2>2, <2>3, <2>4 DEF PushWrite, TypeOK
  <1>8. \A u \in Threads : Locals(u)'
    BY <1>1 DEF PushWrite, TypeOK, Locals
  <1>9. IndexOrder' /\ Ranges'
    BY <1>6 DEF PushWrite, IndexOrder, Ranges, Before
  <1>10. Written'
    <2> SUFFICES ASSUME NEW u \in Writing, NEW k \in 0..(i'[u] - 1)
                 PROVE  data'[Slot(head[u] + k)] = addr[u][k + 1]
      BY <1>6 DEF PushWrite, Written, Slot
    <2>1. /\ u \in Threads /\ i[u] \in Nat /\ n[u] \in Nat /\ head[u] \in Nat
          /\ prod.tail <= head[u] /\ head[u] + n[u] <= prod.head /\ i[u] <= n[u]
      BY DEF Ranges, Writing, Locals, TypeOK
    <2>2. CASE u = t /\ k = i[t]
      BY <1>5, <2>2 DEF at
    <2>3. CASE ~(u = t /\ k = i[t])
      <3>1. k \in 0..(i[u] - 1)
        BY <1>1, <2>1, <2>3 DEF PushWrite, TypeOK
      <3>2. data[Slot(head[u] + k)] = addr[u][k + 1]
        BY <3>1 DEF Written
      <3>3. head[u] + k # at
        <4>1. CASE u = t
          BY <1>1, <3>1, <4>1 DEF at
        <4>2. CASE u # t
          <5>1. Before(u, t) \/ Before(t, u)
            BY <1>1, <4>2 DEF Ranges
          <5>2. /\ i[t] \in Nat /\ n[t] \in Nat /\ head[t] \in Nat /\ i[t] < n[t]
                /\ k \in Nat /\ k < n[u]
            BY SMTT(40), <1>1, <2>1, <3>1 DEF TypeOK
          <5> HIDE DEF Inv
          <5> QED
            BY <2>1, <5>1, <5>2 DEF at, Before
        <4> QED
          BY <4>1, <4>2
      <3>4. /\ head[u] + k \in Nat /\ cons.tail <= head[u] + k /\ head[u] + k < prod.head
        BY SMTT(40), <2>1, <3>1 DEF TypeOK, IndexOrder
      <3> QED
        BY <1>4, <3>2, <3>3, <3>4
    <2> QED
      BY <2>2, <2>3
  <1>11. Published'
    <2> SUFFICES ASSUME NEW k \in cons.tail..(prod.tail - 1)
                 PROVE  data'[Slot(k)] = log[k + 1]
      BY DEF PushWrite, Published, Slot
    <2>1. k \in Nat /\ cons.tail <= k /\ k < prod.head /\ k # at
      BY <1>2 DEF TypeOK, IndexOrder
    <2> QED
      BY <1>4, <2>1 DEF Published
  <1>12. Delivered'
    BY <1>1 DEF PushWrite, TypeOK, Delivered, Writing
  <1>13. QED
    BY <1>7, <1>8, <1>9, <1>10, <1>11, <1>12

\* A producer publishes: it is the one whose range starts at prod.tail, all of
\* that range is written, and the other producers' ranges lie behind it.
LEMMA Publishing ==
    ASSUME Inv, NEW t \in Threads, PushPublish(t)
    PROVE  Inv'
  <1> USE DEF Inv, PushPc, PopPc, Goto
  <1>1. /\ t \in Writing /\ i[t] = n[t] /\ n[t] \in Nat \ {0} /\ head[t] \in Nat
        /\ prod.tail = head[t] /\ head[t] + n[t] <= prod.head
    BY DEF PushPublish, TypeOK, Locals, Ranges, Writing
  <1>2. /\ prod' = [head |-> prod.head, tail |-> head[t] + n[t]]
        /\ Writing' = Writing \ {t} /\ Reading' = Reading
    BY DEF PushPublish, TypeOK, Writing, Reading
  <1>3. TypeOK'
    <2>1. prod' \in [head : Nat, tail : Nat]
      BY <1>1, <1>2 DEF TypeOK
    <2> QED
      BY <2>1 DEF PushPublish, TypeOK
  <1>4. \A u \in Threads : Locals(u)'
    BY <1>1, <1>2 DEF PushPublish, TypeOK, Locals
  <1>5. IndexOrder'
    BY <1>1, <1>2 DEF PushPublish, TypeOK, IndexOrder
  <1>6. Ranges'
    <2>1. \A u \in Writing \ {t} : head[t] + n[t] <= head[u]
      <3> SUFFICES ASSUME NEW u \in Writing \ {t} PROVE head[t] + n[t] <= head[u]
        OBVIOUS
      <3>1. Before(t, u) \/ Before(u, t)
        BY <1>1 DEF Ranges
      <3>2. prod.tail <= head[u] /\ n[u] \in Nat /\ n[u] > 0 /\ head[u] \in Nat
        BY DEF Ranges, Writing, TypeOK, Locals
      <3> QED
        BY <1>1, <3>1, <3>2 DEF Before
    <2> QED
      BY <1>2, <2>1 DEF PushPublish, Ranges, Before
  <1>7. Written'
    BY <1>2 DEF PushPublish, Written, Slot
  <1>8. Published'
    <2>0. prod'.tail = head[t] + n[t] /\ cons' = cons /\ data' = data /\ log' = log
      BY <1>2 DEF PushPublish
    <2> SUFFICES ASSUME NEW k \in cons.tail..(head[t] + n[t] - 1)
                 PROVE  data[Slot(k)] = log[k + 1]
      BY <1>1, <2>0 DEF Published, Slot
    <2>1. CASE k < head[t]
      BY <1>1, <2>1 DEF Published
    <2>2. CASE k >= head[t]
      <3> DEFINE j == k - head[t]
      <3>1. j \in 0..(i[t] - 1) /\ j + 1 \in 1..n[t] /\ k = head[t] + j /\ k + 1 = head[t] + (j + 1)
        BY <1>1, <2>2 DEF TypeOK, IndexOrder
      <3>2. data[Slot(head[t] + j)] = addr[t][j + 1]
        BY <1>1, <3>1 DEF Written
      <3>3. log[head[t] + (j + 1)] = addr[t][j + 1]
        BY <1>1, <3>1 DEF Written
      <3> QED
        BY <3>1, <3>2, <3>3
    <2> QED
      BY <1>1, <2>1, <2>2 DEF TypeOK
  <1>9. Delivered'
    BY DEF PushPublish, TypeOK, Delivered
  <1>10. QED
    BY <1>3, <1>4, <1>5, <1>6, <1>7, <1>8, <1>9

\* A consumer reserves published indices behind the other consumers.
LEMMA Claiming ==
    ASSUME Inv, NEW t \in Threads, PopReserve(t)
    PROVE  Inv'
  <1> USE DEF Inv, PushPc, PopPc, Goto
  <1>1. /\ n[t] \in Nat \ {0} /\ cons.head = head[t] /\ head[t] + n[t] <= prod.tail
        /\ head[t] \in Nat /\ i' = [i EXCEPT ![t] = 0]
    BY DEF PopReserve, TypeOK, Locals
  <1>2. /\ cons' = [head |-> head[t] + n[t], tail |-> cons.tail]
        /\ t \notin Reading /\ t \notin Writing
        /\ Reading' = Reading \cup {t} /\ Writing' = Writing
    BY DEF PopReserve, TypeOK, Writing, Reading
  <1>3. TypeOK'
    <2>1. cons' \in [head : Nat, tail : Nat]
      BY <1>1, <1>2 DEF TypeOK
    <2> QED
      BY <2>1 DEF PopReserve, TypeOK
  <1>4. \A u \in Threads : Locals(u)'
    <2> SUFFICES ASSUME NEW u \in Threads PROVE Locals(u)'
      OBVIOUS
    <2>1. CASE u = t
      BY <1>1, <1>2, <2>1 DEF PopReserve, TypeOK, Locals
    <2>2. CASE u # t
      BY <1>1, <1>2, <2>2 DEF PopReserve, TypeOK, Locals
    <2> QED
      BY <2>1, <2>2
  <1>5. IndexOrder'
    BY <1>1, <1>2 DEF PopReserve, TypeOK, IndexOrder
  <1>6. Ranges'
    <2>1. \A u \in Reading : head[u] + n[u] <= cons.head /\ head[u] \in Nat /\ n[u] \in Nat
      BY DEF Ranges, TypeOK, Reading
    <2>2. \A u, v \in Reading \cup {t} : (u = v \/ Before(u, v) \/ Before(v, u))'
      BY <1>1, <1>2, <2>1 DEF PopReserve, Ranges, Before
    <2>3. \A u \in Reading \cup {t} : (cons.tail <= head[u] /\ head[u] + n[u] <= cons.head)'
      BY SMTT(40), <1>1, <1>2, <2>1 DEF PopReserve, TypeOK, Ranges, IndexOrder
    <2> QED
      BY <1>2, <2>2, <2>3 DEF PopReserve, Ranges, Before
  <1>7. Written'
    <2>1. \A u \in Writing : i'[u] = i[u]
      BY <1>1, <1>2 DEF TypeOK, Writing
    <2> QED
      BY <1>2, <2>1 DEF PopReserve, Written, Slot
  <1>8. Published'
    BY <1>2 DEF PopReserve, Published, Slot
  <1>9. Delivered'
    <2>0. TypeOK /\ Delivered
      OBVIOUS
    <2> HIDE DEF Inv
    <2> SUFFICES ASSUME NEW u \in Threads,
                        pc'[u] \in {"pop_read", "pop_wait", "pop_count"},
                        NEW k \in (1..i[u])'
                 PROVE  (addr[u][k] = log[head[u] + k])'
      BY DEF Delivered
    <2>1. i' = [i EXCEPT ![t] = 0] /\ pc' = [pc EXCEPT ![t] = "pop_read"]
      BY <1>1 DEF PopReserve
    <2>2. u # t
      BY <2>0, <2>1 DEF TypeOK
    <2>3. i'[u] = i[u] /\ pc'[u] = pc[u]
      BY <2>0, <2>1, <2>2 DEF TypeOK
    <2> QED
      BY <2>0, <2>3, <1>1 DEF PopReserve, Delivered
  <1>10. QED
    BY <1>3, <1>4, <1>5, <1>6, <1>7, <1>8, <1>9

\* A consumer reads one of its slots.
LEMMA Fetching ==
    ASSUME Inv, NEW t \in Threads, PopRead(t)
    PROVE  Inv'
  <1> USE DEF Inv, PushPc, PopPc, Goto
  <1> DEFINE at == head[t] + i[t]
  <1>1. /\ t \in Reading /\ i[t] < n[t] /\ i[t] \in Nat /\ n[t] \in Nat /\ head[t] \in Nat
        /\ Len(addr[t]) = i[t] /\ addr[t] \in Seq(Value \cup {Null})
        /\ cons.tail <= head[t] /\ head[t] + n[t] <= cons.head
    BY DEF PopRead, TypeOK, Locals, Ranges, Reading
  <1>2. at \in cons.tail..(prod.tail - 1) /\ at \in Nat
    BY <1>1 DEF TypeOK, IndexOrder
  <1>3. data[Slot(at)] = log[at + 1] /\ data[Slot(at)] \in Value \cup {Null}
    BY <1>2, SlotInRange DEF Published, TypeOK
  <1>4. /\ addr' = [addr EXCEPT ![t] = Append(addr[t], data[Slot(at)])]
        /\ i' = [i EXCEPT ![t] = i[t] + 1]
    BY DEF PopRead
  <1> DEFINE got == Append(addr[t], data[Slot(at)])
  <1>5. /\ got \in Seq(Value \cup {Null}) /\ Len(got) = i[t] + 1
        /\ \A k \in 1..i[t] : got[k] = addr[t][k]
        /\ got[i[t] + 1] = log[at + 1]
    BY <1>1, <1>3, AppendProperties
  <1> HIDE DEF got
  <1>6. Writing' = Writing /\ Reading' = Reading /\ t \notin Writing
    BY <1>1 DEF PopRead, TypeOK, Writing, Reading
  <1>7. TypeOK'
    <2>0. TypeOK
      OBVIOUS
    <2> HIDE DEF Inv
    <2>1. pc' \in [Threads -> {"idle"} \cup PushPc \cup PopPc]
      BY <2>0, <1>1 DEF PopRead, TypeOK
    <2>2. i' \in [Threads -> Nat]
      BY <2>0, <1>1, <1>4 DEF TypeOK
    <2>3. addr' \in [Threads -> Seq(Value \cup {Null})]
      BY <2>0, <1>1, <1>4, <1>5 DEF TypeOK, got
    <2> HIDE DEF PushPc, PopPc, Goto
    <2> QED
      BY <2>0, <2>1, <2>2, <2>3 DEF PopRead, TypeOK
  <1>8. \A u \in Threads : Locals(u)'
    <2> SUFFICES ASSUME NEW u \in Threads PROVE Locals(u)'
      OBVIOUS
    <2>1. CASE u = t
      <3>1. addr'[t] = got /\ i'[t] = i[t] + 1
        BY <1>4 DEF TypeOK, got
      <3> QED
        BY <1>1, <1>5, <2>1, <3>1 DEF PopRead, TypeOK, Locals
    <2>2. CASE u # t
      BY <2>2 DEF PopRead, TypeOK, Locals
    <2> QED
      BY <2>1, <2>2
  <1>9. IndexOrder' /\ Ranges' /\ Published'
    BY <1>6 DEF PopRead, IndexOrder, Ranges, Before, Published, Slot
  <1>10. Written'
    <2>1. \A u \in Writing : addr'[u] = addr[u] /\ i'[u] = i[u]
      BY <1>4, <1>6 DEF TypeOK, Writing
    <2> QED
      BY <1>6, <2>1 DEF PopRead, Written, Slot
  <1>11. Delivered'
    <2> SUFFICES ASSUME NEW u \in Threads,
                        (pc[u] \in {"pop_read", "pop_wait", "pop_count"})',
                        NEW k \in 1..(i'[u])
                 PROVE  addr'[u][k] = log[head[u] + k]
      BY ZenonT(60) DEF PopRead, Delivered
    <2>1. CASE u = t
      <3>1. addr'[t] = got /\ i'[t] = i[t] + 1
        BY <1>4 DEF TypeOK, got
      <3>2. CASE k = i[t] + 1
        BY <1>1, <1>5, <2>1, <3>1, <3>2
      <3>3. CASE k # i[t] + 1
        <4>1. k \in 1..i[t] /\ pc[t] = "pop_read"
          BY <1>1, <2>1, <3>1, <3>3 DEF PopRead
        <4> QED
          BY <1>5, <2>1, <3>1, <4>1 DEF Delivered
      <3> QED
        BY <3>2, <3>3
    <2>2. CASE u # t
      BY SMTT(40), <1>4, <2>2 DEF PopRead, TypeOK, Delivered
    <2> QED
      BY <2>1, <2>2
  <1>12. QED
    BY <1>7, <1>8, <1>9, <1>10, <1>11

\* A consumer gives its slots back: it is the one whose range starts at
\* cons.tail.
LEMMA Releasing ==
    ASSUME Inv, NEW t \in Threads, PopRelease(t)
    PROVE  Inv'
  <1> USE DEF Inv, PushPc, PopPc, Goto
  <1>1. /\ t \in Reading /\ i[t] = n[t] /\ n[t] \in Nat \ {0} /\ head[t] \in Nat
        /\ cons.tail = head[t] /\ head[t] + n[t] <= cons.head
    BY DEF PopRelease, TypeOK, Locals, Ranges, Reading
  <1>2. /\ cons' = [head |-> cons.head, tail |-> head[t] + n[t]]
        /\ Reading' = Reading \ {t} /\ Writing' = Writing
    BY DEF PopRelease, TypeOK, Writing, Reading
  <1>3. TypeOK'
    <2>1. cons' \in [head : Nat, tail : Nat]
      BY <1>1, <1>2 DEF TypeOK
    <2> QED
      BY <2>1 DEF PopRelease, TypeOK
  <1>4. \A u \in Threads : Locals(u)'
    <2> SUFFICES ASSUME NEW u \in Threads PROVE Locals(u)'
      OBVIOUS
    <2>1. cons'.head = cons.head /\ cons'.tail \in Nat /\ cons'.tail >= cons.tail
      BY <1>1, <1>2
    <2>2. CASE u = t
      BY <1>1, <2>1, <2>2 DEF PopRelease, TypeOK, Locals
    <2>3. CASE u # t
      <3>1. pc'[u] = pc[u] /\ UNCHANGED <<prod, head, n, i, addr>>
        BY <2>3 DEF PopRelease, TypeOK
      <3>2. /\ cons.tail \in Nat /\ Max \in Nat /\ head[u] \in Nat /\ n[u] \in Nat
            /\ Locals(u)
        BY RingAssumption DEF TypeOK
      <3> QED
        BY <2>1, <3>1, <3>2 DEF Locals
    <2> QED
      BY <2>2, <2>3
  <1>5. IndexOrder'
    BY <1>1, <1>2, RingAssumption DEF PopRelease, TypeOK, IndexOrder
  <1>6. Ranges'
    <2>1. \A u \in Reading \ {t} : head[t] + n[t] <= head[u]
      <3> SUFFICES ASSUME NEW u \in Reading \ {t} PROVE head[t] + n[t] <= head[u]
        OBVIOUS
      <3>1. Before(t, u) \/ Before(u, t)
        BY <1>1 DEF Ranges
      <3>2. cons.tail <= head[u] /\ n[u] \in Nat /\ n[u] > 0 /\ head[u] \in Nat
        BY DEF Ranges, Reading, TypeOK, Locals
      <3> QED
        BY <1>1, <3>1, <3>2 DEF Before
    <2> QED
      BY <1>2, <2>1 DEF PopRelease, Ranges, Before
  <1>7. Written'
    BY <1>2 DEF PopRelease, Written, Slot
  <1>8. Published'
    BY <1>1, <1>2 DEF PopRelease, TypeOK, Published, Slot
  <1>9. Delivered'
    BY DEF PopRelease, TypeOK, Delivered
  <1>10. QED
    BY <1>3, <1>4, <1>5, <1>6, <1>7, <1>8, <1>9

\* Counting touches nothing the invariant speaks of but the position of the
\* thread.
LEMMA Counting ==
    ASSUME Inv, NEW t \in Threads, PushCount(t) \/ PopCount(t)
    PROVE  Inv'
  <1> USE DEF Inv, PushPc, PopPc, Goto
  <1>1. CASE PushCount(t)
    <2>1. TypeOK'
      <3>0. TypeOK
        OBVIOUS
      <3> HIDE DEF Inv
      <3>1. num' \in Int
        BY <3>0, <1>1 DEF PushCount, TypeOK
      <3>2. pc' \in [Threads -> {"idle"} \cup PushPc \cup PopPc]
        BY <3>0, <1>1 DEF PushCount, TypeOK
      <3> HIDE DEF PushPc, PopPc, Goto
      <3> QED
        BY <3>0, <3>1, <3>2, <1>1 DEF PushCount, TypeOK
    <2>2. \A u \in Threads : Locals(u)'
      BY <1>1 DEF PushCount, TypeOK, Locals
    <2>3. Writing' = Writing /\ Reading' = Reading
      BY <1>1 DEF PushCount, TypeOK, Writing, Reading
    <2>4. IndexOrder' /\ Ranges' /\ Written' /\ Published'
      BY <1>1, <2>3 DEF PushCount, IndexOrder, Ranges, Before, Written, Published, Slot
    <2>5. Delivered'
      BY <1>1 DEF PushCount, TypeOK, Delivered
    <2> QED
      BY <2>1, <2>2, <2>4, <2>5
  <1>2. CASE PopCount(t)
    <2>1. TypeOK'
      <3>0. TypeOK
        OBVIOUS
      <3> HIDE DEF Inv
      <3>1. num' \in Int
        BY <3>0, <1>2 DEF PopCount, TypeOK
      <3>2. pc' \in [Threads -> {"idle"} \cup PushPc \cup PopPc]
        BY <3>0, <1>2 DEF PopCount, TypeOK
      <3> HIDE DEF PushPc, PopPc, Goto
      <3> QED
        BY <3>0, <3>1, <3>2, <1>2 DEF PopCount, TypeOK
    <2>2. \A u \in Threads : Locals(u)'
      BY <1>2 DEF PopCount, TypeOK, Locals
    <2>3. Writing' = Writing /\ Reading' = Reading
      BY <1>2 DEF PopCount, TypeOK, Writing, Reading
    <2>4. IndexOrder' /\ Ranges' /\ Written' /\ Published'
      BY <1>2, <2>3 DEF PopCount, IndexOrder, Ranges, Before, Written, Published, Slot
    <2>5. Delivered'
      BY <1>2 DEF PopCount, TypeOK, Delivered
    <2> QED
      BY <2>1, <2>2, <2>4, <2>5
  <1>3. QED
    BY <1>1, <1>2

-----------------------------------------------------------------------------
(* The theorems. *)

\* Every step keeps the invariant.
LEMMA StepInv == Inv /\ [Next]_vars => Inv'
  <1> SUFFICES ASSUME Inv, [Next]_vars PROVE Inv'
    OBVIOUS
  <1>1. ASSUME NEW t \in Threads, PushCall(t) \/ PopCall(t) \/ PushStep(t) \/ PopStep(t)
        PROVE  Inv'
    BY <1>1, CallsAndReads, Checks, Reserving, Filling, Publishing, Claiming,
       Fetching, Releasing, Counting
    DEF PushStep, PopStep
  <1>2. CASE UNCHANGED vars
    BY <1>2
    DEF vars, Inv, TypeOK, IndexOrder, Locals, Ranges, Before, Written, Published,
        Delivered, Writing, Reading, Slot
  <1>3. CASE Finished
    BY <1>2, <1>3 DEF Finished
  <1>4. QED
    BY <1>1, <1>2, <1>3 DEF Next

\* The inductive invariant holds: in particular the indices stay in order and
\* within a capacity of one another, and a published slot keeps its pointer.
THEOREM RingInvariant == Spec => []Inv
  BY InitInv, StepInv, PTL DEF Spec

\* Whatever the interleaving, a pop reads exactly the pointers that were pushed
\* for the indices it reserved (lines 169-171), for every number of threads.
THEOREM PopsDeliver == Spec => []Delivered
  <1>1. Inv => Delivered
    BY DEF Inv
  <1> QED
    BY <1>1, RingInvariant, PTL

\* No two threads are on the same slot with one of them writing it.
THEOREM NoRace == Spec => []NoSlotRace
  <1>1. ASSUME Inv PROVE NoSlotRace
    <2> USE <1>1 DEF Inv
    <2> SUFFICES ASSUME NEW t \in Writing, NEW u \in (Writing \cup Reading) \ {t},
                        NEW j \in i[t]..(n[t] - 1), NEW k \in i[u]..(n[u] - 1)
                 PROVE  Slot(head[t] + j) # Slot(head[u] + k)
      BY DEF NoSlotRace, Held
    <2>1. /\ t \in Threads /\ u \in Threads
          /\ i[t] \in Nat /\ n[t] \in Nat /\ head[t] \in Nat
          /\ i[u] \in Nat /\ n[u] \in Nat /\ head[u] \in Nat
          /\ prod.head \in Nat /\ prod.tail \in Nat /\ cons.tail \in Nat /\ cons.head \in Nat
          /\ Max \in Nat \ {0}
      BY RingAssumption DEF TypeOK, Writing, Reading
    <2>2. prod.tail <= head[t] /\ head[t] + n[t] <= prod.head
      BY DEF Ranges
    <2> DEFINE x == head[t] + j
               y == head[u] + k
    <2>3. x \in Nat /\ y \in Nat /\ prod.tail <= x /\ x < prod.head
      BY <2>1, <2>2
    <2>4. /\ cons.tail <= y /\ y < prod.head /\ x # y
      <3>1. CASE u \in Writing
        <4>1. prod.tail <= head[u] /\ head[u] + n[u] <= prod.head
          BY <3>1 DEF Ranges
        <4>2. Before(t, u) \/ Before(u, t)
          BY <3>1 DEF Ranges
        <4> QED
          BY <2>1, <4>1, <4>2 DEF Before, IndexOrder
      <3>2. CASE u \in Reading
        <4>1. cons.tail <= head[u] /\ head[u] + n[u] <= cons.head
          BY <3>2 DEF Ranges
        <4> QED
          BY <2>1, <2>2, <4>1 DEF IndexOrder
      <3> QED
        BY <3>1, <3>2
    <2> HIDE DEF x, y
    <2>5. (x < y /\ y - x < Max) \/ (y < x /\ x - y < Max)
      BY <2>1, <2>3, <2>4 DEF IndexOrder
    <2>6. Slot(x) # Slot(y)
      BY <2>3, <2>5, SlotsDiffer
    <2> QED
      BY <2>6 DEF x, y
  <1> QED
    BY <1>1, RingInvariant, PTL

-----------------------------------------------------------------------------
(* Sums over finite sets: what SumFunctionOnSet computes.  The induction on  *)
(* the size of a set is carried by the least of the sizes that fail.         *)

\* The order of the naturals as a relation.
LEMMA LessRelation == OpToRel(<, Nat) = {p \in Nat \X Nat : p[1] < p[2]}
  BY Zenon DEF OpToRel

\* Every set of naturals has a least member.
LEMMA LeastNatural ==
    ASSUME NEW A \in SUBSET Nat, A # {}
    PROVE  \E m \in A : \A k \in A : m <= k
  <1>1. PICK m \in A : \A k \in A : <<k, m>> \notin OpToRel(<, Nat)
    BY NatLessThanWellFounded, WFMin, Zenon
  <1>2. ASSUME NEW k \in A PROVE m <= k
    <2>1. <<k, m>> \notin {p \in Nat \X Nat : p[1] < p[2]}
      BY <1>1, LessRelation, Zenon
    <2> QED
      BY <2>1
  <1> QED
    BY <1>2

\* The element a fold of the community modules takes first, and what it takes
\* when the fold is a sum: Sums(it, f, C) says that it sums f over the members
\* of C.
Pick(s) == CHOOSE x \in s : TRUE
Sums(it, f, C) ==
    it = [s \in C |-> IF s = {} THEN 0 ELSE f[Pick(s)] + it[s \ {Pick(s)}]]

\* A finite set without one of its members is smaller.
LEMMA Smaller ==
    ASSUME NEW S, IsFiniteSet(S), NEW x \in S
    PROVE  /\ IsFiniteSet(S \ {x})
           /\ Cardinality(S) \in Nat /\ Cardinality(S) > 0
           /\ Cardinality(S \ {x}) = Cardinality(S) - 1
  BY FS_RemoveElement, FS_CardinalityType, FS_EmptySet

\* A sum over the subsets of a finite set exists.
LEMMA SumsExist ==
    ASSUME NEW T, IsFiniteSet(T), NEW f, \A x \in T : f[x] \in Int
    PROVE  \E it \in [SUBSET T -> Int] : Sums(it, f, SUBSET T)
  <1> DEFINE C(k) == {s \in SUBSET T : Cardinality(s) <= k}
             Good(k) == \E it \in [C(k) -> Int] : Sums(it, f, C(k))
  <1>0. \A s \in SUBSET T : IsFiniteSet(s) /\ Cardinality(s) \in Nat
    BY FS_Subset, FS_CardinalityType
  <1>1. \A s \in SUBSET T : s # {} => Pick(s) \in s
    BY DEF Pick
  <1>2. Good(0)
    <2> DEFINE g == [s \in C(0) |-> 0]
    <2>1. \A s \in C(0) : s = {}
      BY <1>0, FS_EmptySet
    <2>2. g = [s \in C(0) |-> IF s = {} THEN 0 ELSE f[Pick(s)] + g[s \ {Pick(s)}]]
      BY <2>1
    <2>3. Sums(g, f, C(0))
      BY <2>2 DEF Sums
    <2>4. g \in [C(0) -> Int]
      OBVIOUS
    <2> HIDE DEF g, C
    <2> QED
      BY <2>3, <2>4
  <1>3. ASSUME NEW k \in Nat, Good(k) PROVE Good(k + 1)
    <2>1. PICK g \in [C(k) -> Int] : Sums(g, f, C(k))
      BY <1>3
    <2> DEFINE h == [s \in C(k + 1) |->
                       IF s = {} THEN 0 ELSE f[Pick(s)] + g[s \ {Pick(s)}]]
    <2>2. \A s \in C(k + 1) : s # {} => s \ {Pick(s)} \in C(k) /\ f[Pick(s)] \in Int
      <3> SUFFICES ASSUME NEW s \in C(k + 1), s # {}
                   PROVE  s \ {Pick(s)} \in C(k) /\ f[Pick(s)] \in Int
        OBVIOUS
      <3>1. Pick(s) \in s /\ Pick(s) \in T
        BY <1>1
      <3>2. Cardinality(s \ {Pick(s)}) <= k
        BY <1>0, <3>1, Smaller
      <3> QED
        BY <3>1, <3>2
    <2>3. h \in [C(k + 1) -> Int]
      BY <2>2
    <2>4. \A s \in C(k) : s \in C(k + 1) /\ h[s] = g[s]
      <3> SUFFICES ASSUME NEW s \in C(k) PROVE s \in C(k + 1) /\ h[s] = g[s]
        OBVIOUS
      <3>1. s \in C(k + 1)
        BY <1>0
      <3>2. g[s] = IF s = {} THEN 0 ELSE f[Pick(s)] + g[s \ {Pick(s)}]
        <4> HIDE DEF C
        <4> QED
          BY <2>1, Zenon DEF Sums
      <3> QED
        BY <3>1, <3>2
    <2>5. \A s \in C(k + 1) : s # {} => h[s \ {Pick(s)}] = g[s \ {Pick(s)}]
      BY <2>2, <2>4
    <2>6. h = [s \in C(k + 1) |-> IF s = {} THEN 0 ELSE f[Pick(s)] + h[s \ {Pick(s)}]]
      <3> HIDE DEF C
      <3>1. \A s \in C(k + 1) : h[s] = IF s = {} THEN 0 ELSE f[Pick(s)] + h[s \ {Pick(s)}]
        BY <2>5
      <3> DEFINE hh == h
      <3>2. hh \in [C(k + 1) -> Int]
        BY <2>3
      <3> HIDE DEF hh
      <3>3. hh = [s \in C(k + 1) |-> hh[s]]
        BY <3>2
      <3>4. \A s \in C(k + 1) : hh[s] = IF s = {} THEN 0 ELSE f[Pick(s)] + hh[s \ {Pick(s)}]
        BY <3>1 DEF hh
      <3>5. hh = [s \in C(k + 1) |-> IF s = {} THEN 0 ELSE f[Pick(s)] + hh[s \ {Pick(s)}]]
        BY <3>3, <3>4
      <3> QED
        BY <3>5 DEF hh
    <2>7. Sums(h, f, C(k + 1))
      BY <2>6 DEF Sums
    <2> HIDE DEF h, C
    <2> QED
      BY <2>3, <2>7
  <1>4. \A k \in Nat : Good(k)
    <2> HIDE DEF Good
    <2> DEFINE A == {k \in Nat : ~Good(k)}
    <2> SUFFICES ASSUME A # {} PROVE FALSE
      OBVIOUS
    <2>1. PICK m \in A : \A k \in A : m <= k
      BY LeastNatural
    <2>2. m # 0 /\ m \in Nat /\ ~Good(m)
      BY <1>2, <2>1
    <2>3. m - 1 \in Nat /\ m - 1 \notin A
      BY <2>1, <2>2
    <2>4. Good(m - 1)
      BY <2>3
    <2>5. Good((m - 1) + 1)
      BY <1>3, <2>3, <2>4
    <2> QED
      BY <2>2, <2>5
  <1>5. SUBSET T = C(Cardinality(T))
    BY <1>0, FS_Subset
  <1>6. Cardinality(T) \in Nat
    BY FS_CardinalityType
  <1> HIDE DEF C
  <1> QED
    BY <1>4, <1>5, <1>6

\* Two sums over finite sets agree where both are defined.
LEMMA SumsAgree ==
    ASSUME NEW S, IsFiniteSet(S), NEW f,
           NEW C, NEW it, Sums(it, f, C), SUBSET S \subseteq C,
           NEW D, NEW jt, Sums(jt, f, D), SUBSET S \subseteq D
    PROVE  it[S] = jt[S]
  <1> DEFINE Off == {s \in SUBSET S : it[s] # jt[s]}
             A == {Cardinality(s) : s \in Off}
  <1>0. \A s \in SUBSET S : IsFiniteSet(s) /\ Cardinality(s) \in Nat
    BY FS_Subset, FS_CardinalityType
  <1> SUFFICES ASSUME Off # {} PROVE FALSE
    OBVIOUS
  <1>1. A \in SUBSET Nat /\ A # {}
    BY <1>0
  <1>2. PICK m \in A : \A k \in A : m <= k
    BY <1>1, LeastNatural
  <1>3. PICK s \in Off : m = Cardinality(s)
    BY <1>2
  <1>4. /\ it[s] = IF s = {} THEN 0 ELSE f[Pick(s)] + it[s \ {Pick(s)}]
        /\ jt[s] = IF s = {} THEN 0 ELSE f[Pick(s)] + jt[s \ {Pick(s)}]
    <2>1. s \in C /\ s \in D
      OBVIOUS
    <2> QED
      BY <2>1, Zenon DEF Sums
  <1>5. s # {} /\ Pick(s) \in s
    BY <1>4 DEF Pick
  <1>7. /\ s \ {Pick(s)} \in SUBSET S
        /\ Cardinality(s \ {Pick(s)}) < Cardinality(s)
    BY <1>0, <1>5, Smaller
  <1>8. it[s \ {Pick(s)}] = jt[s \ {Pick(s)}]
    BY <1>0, <1>2, <1>3, <1>7
  <1> QED
    BY <1>4, <1>5, <1>8

\* What the fold of a sum computes, over a set and over any set that holds it.
LEMMA SumIsSums ==
    ASSUME NEW T, IsFiniteSet(T), NEW f, \A x \in T : f[x] \in Int,
           NEW it, Sums(it, f, SUBSET T), NEW S \in SUBSET T
    PROVE  SumFunctionOnSet(f, S) = it[S]
  <1>1. IsFiniteSet(S) /\ \A x \in S : f[x] \in Int
    BY FS_Subset
  <1>2. PICK jt \in [SUBSET S -> Int] : Sums(jt, f, SUBSET S)
    BY <1>1, SumsExist
  <1>0. SUBSET S \subseteq SUBSET T /\ SUBSET S \subseteq SUBSET S
    OBVIOUS
  <1>3. ASSUME NEW g, Sums(g, f, SUBSET S) PROVE g[S] = jt[S]
    BY <1>0, <1>1, <1>2, <1>3, SumsAgree
  <1>4. SumFunctionOnSet(f, S) = jt[S]
    BY <1>2, <1>3, Zenon DEF SumFunctionOnSet, FoldFunctionOnSet, MapThenFoldSet, Sums, Pick
  <1>5. jt[S] = it[S]
    BY <1>0, <1>1, <1>2, SumsAgree
  <1> QED
    BY <1>4, <1>5

\* A sum is an integer, a sum over nothing is 0 and a sum over more takes the
\* picked member apart.
LEMMA SumStep ==
    ASSUME NEW T, IsFiniteSet(T), NEW f, \A x \in T : f[x] \in Int
    PROVE  /\ SumFunctionOnSet(f, T) \in Int
           /\ T = {} => SumFunctionOnSet(f, T) = 0
           /\ T # {} => /\ Pick(T) \in T
                        /\ SumFunctionOnSet(f, T)
                             = f[Pick(T)] + SumFunctionOnSet(f, T \ {Pick(T)})
  <1>1. PICK it \in [SUBSET T -> Int] : Sums(it, f, SUBSET T)
    BY SumsExist
  <1>2. \A S \in SUBSET T : SumFunctionOnSet(f, S) = it[S]
    BY <1>1, SumIsSums
  <1>3. it[T] = IF T = {} THEN 0 ELSE f[Pick(T)] + it[T \ {Pick(T)}]
    BY <1>1, Zenon DEF Sums
  <1>4. T # {} => Pick(T) \in T
    BY DEF Pick
  <1> QED
    BY <1>1, <1>2, <1>3, <1>4

\* Any member can be taken apart.
LEMMA SumRemove ==
    ASSUME NEW T, IsFiniteSet(T), NEW f, \A x \in T : f[x] \in Int, NEW x \in T
    PROVE  SumFunctionOnSet(f, T) = f[x] + SumFunctionOnSet(f, T \ {x})
  <1> DEFINE Sum(s) == SumFunctionOnSet(f, s)
             Off == {s \in SUBSET T : \E w \in s : Sum(s) # f[w] + Sum(s \ {w})}
             A == {Cardinality(s) : s \in Off}
  <1>0. \A s \in SUBSET T : IsFiniteSet(s) /\ Cardinality(s) \in Nat
    BY FS_Subset, FS_CardinalityType
  <1>1. \A s \in SUBSET T :
          /\ Sum(s) \in Int
          /\ s # {} => Pick(s) \in s /\ Sum(s) = f[Pick(s)] + Sum(s \ {Pick(s)})
    BY <1>0, SumStep
  <1> HIDE DEF Sum
  <1> SUFFICES ASSUME Off # {} PROVE FALSE
    BY DEF Sum
  <1>2. A \in SUBSET Nat /\ A # {}
    BY <1>0
  <1>3. PICK m \in A : \A k \in A : m <= k
    BY <1>2, LeastNatural
  <1>4. PICK s \in Off : m = Cardinality(s)
    BY <1>3
  <1>5. PICK w \in s : Sum(s) # f[w] + Sum(s \ {w})
    OBVIOUS
  <1> DEFINE y == Pick(s)
  <1>6. s \in SUBSET T /\ y \in s /\ y # w /\ Sum(s) = f[y] + Sum(s \ {y})
    BY <1>1, <1>5
  <1> HIDE DEF y
  <1>7. \A v \in s : s \ {v} \in SUBSET T /\ s \ {v} \notin Off
    <2> SUFFICES ASSUME NEW v \in s, s \ {v} \in Off PROVE FALSE
      BY <1>6
    <2>1. Cardinality(s \ {v}) < Cardinality(s)
      BY <1>0, <1>6, Smaller
    <2>2. Cardinality(s \ {v}) \in A
      OBVIOUS
    <2> QED
      BY SMTT(40), <1>0, <1>3, <1>4, <2>1, <2>2
  <1>8. /\ Sum(s \ {y}) = f[w] + Sum((s \ {y}) \ {w})
        /\ Sum(s \ {w}) = f[y] + Sum((s \ {w}) \ {y})
    BY <1>5, <1>6, <1>7
  <1>9. (s \ {y}) \ {w} = (s \ {w}) \ {y} /\ (s \ {w}) \ {y} \in SUBSET T
    BY <1>6
  <1>10. f[w] \in Int /\ f[y] \in Int /\ Sum((s \ {w}) \ {y}) \in Int
    BY <1>1, <1>5, <1>6, <1>9
  <1>11. Sum((s \ {y}) \ {w}) = Sum((s \ {w}) \ {y})
    BY <1>9, Zenon
  <1> QED
    BY <1>5, <1>6, <1>8, <1>10, <1>11

\* A sum depends on the summands only.
LEMMA SumSame ==
    ASSUME NEW T, IsFiniteSet(T), NEW f, NEW g,
           \A x \in T : f[x] \in Int /\ f[x] = g[x]
    PROVE  SumFunctionOnSet(f, T) = SumFunctionOnSet(g, T)
  <1> DEFINE Off == {s \in SUBSET T : SumFunctionOnSet(f, s) # SumFunctionOnSet(g, s)}
             A == {Cardinality(s) : s \in Off}
  <1>0. \A s \in SUBSET T : IsFiniteSet(s) /\ Cardinality(s) \in Nat
    BY FS_Subset, FS_CardinalityType
  <1> SUFFICES ASSUME Off # {} PROVE FALSE
    OBVIOUS
  <1>2. A \in SUBSET Nat /\ A # {}
    BY <1>0
  <1>3. PICK m \in A : \A k \in A : m <= k
    BY <1>2, LeastNatural
  <1>4. PICK s \in Off : m = Cardinality(s)
    BY <1>3
  <1>5. /\ IsFiniteSet(s)
        /\ \A x \in s : f[x] \in Int
        /\ \A x \in s : g[x] \in Int
    BY <1>0
  <1>6. /\ s = {} => SumFunctionOnSet(f, s) = 0 /\ SumFunctionOnSet(g, s) = 0
        /\ s # {} => /\ Pick(s) \in s
                     /\ SumFunctionOnSet(f, s) = f[Pick(s)] + SumFunctionOnSet(f, s \ {Pick(s)})
                     /\ SumFunctionOnSet(g, s) = g[Pick(s)] + SumFunctionOnSet(g, s \ {Pick(s)})
    BY <1>5, SumStep
  <1>7. s # {} /\ Pick(s) \in s
    BY <1>6
  <1>8. s \ {Pick(s)} \in SUBSET T /\ Cardinality(s \ {Pick(s)}) < Cardinality(s)
    BY <1>0, <1>7, Smaller
  <1>9. s \ {Pick(s)} \notin Off
    BY <1>0, <1>3, <1>4, <1>8
  <1> QED
    BY <1>6, <1>7, <1>8, <1>9

\* More summands that are not negative do not make a sum smaller.
LEMMA SumGrows ==
    ASSUME NEW T, IsFiniteSet(T), NEW f, \A x \in T : f[x] \in Nat, NEW S \in SUBSET T
    PROVE  /\ SumFunctionOnSet(f, S) \in Nat
           /\ SumFunctionOnSet(f, S) <= SumFunctionOnSet(f, T)
  <1> DEFINE Sum(s) == SumFunctionOnSet(f, s)
             Off == {s \in SUBSET T : \E r \in SUBSET s : ~(Sum(r) >= 0 /\ Sum(r) <= Sum(s))}
             A == {Cardinality(s) : s \in Off}
  <1>0. \A s \in SUBSET T : IsFiniteSet(s) /\ Cardinality(s) \in Nat
    BY FS_Subset, FS_CardinalityType
  <1>1. \A s \in SUBSET T : Sum(s) \in Int /\ (s = {} => Sum(s) = 0)
    <2> SUFFICES ASSUME NEW s \in SUBSET T
                 PROVE  Sum(s) \in Int /\ (s = {} => Sum(s) = 0)
      OBVIOUS
    <2>1. IsFiniteSet(s) /\ \A x \in s : f[x] \in Int
      BY <1>0
    <2> QED
      BY <2>1, SumStep
  <1>2. \A s \in SUBSET T : \A x \in s : Sum(s) = f[x] + Sum(s \ {x})
    <2> SUFFICES ASSUME NEW s \in SUBSET T, NEW x \in s PROVE Sum(s) = f[x] + Sum(s \ {x})
      OBVIOUS
    <2>1. IsFiniteSet(s) /\ \A y \in s : f[y] \in Int
      BY <1>0
    <2> QED
      BY <2>1, SumRemove
  <1> HIDE DEF Sum
  <1> SUFFICES ASSUME Off # {} PROVE FALSE
    BY <1>1 DEF Sum
  <1>3. A \in SUBSET Nat /\ A # {}
    BY <1>0
  <1>4. PICK m \in A : \A k \in A : m <= k
    BY <1>3, LeastNatural
  <1>5. PICK s \in Off : m = Cardinality(s)
    BY <1>4
  <1>6. PICK r \in SUBSET s : ~(Sum(r) >= 0 /\ Sum(r) <= Sum(s))
    OBVIOUS
  <1>7. \A x \in s : s \ {x} \in SUBSET T /\ s \ {x} \notin Off
    <2> SUFFICES ASSUME NEW x \in s, s \ {x} \in Off PROVE FALSE
      OBVIOUS
    <2>1. Cardinality(s \ {x}) < Cardinality(s) /\ Cardinality(s \ {x}) \in A
      BY SMTT(40), <1>0, Smaller
    <2> QED
      BY <1>0, <1>4, <1>5, <2>1
  <1>8. CASE s = {}
    BY <1>1, <1>6, <1>8
  <1>9. CASE s # {} /\ r = s
    <2>1. PICK x \in s : TRUE
      BY <1>9
    <2>2. Sum(s \ {x}) >= 0
      BY <1>7
    <2>3. Sum(s) = f[x] + Sum(s \ {x}) /\ f[x] \in Nat /\ Sum(s \ {x}) \in Int
      BY <1>1, <1>2, <1>7
    <2> QED
      BY <1>6, <1>9, <2>2, <2>3
  <1>10. CASE r # s
    <2>1. PICK x \in s : x \notin r
      BY <1>10
    <2>2. Sum(r) >= 0 /\ Sum(r) <= Sum(s \ {x})
      <3>1. r \in SUBSET (s \ {x})
        BY <2>1
      <3> QED
        BY <1>7, <3>1
    <2>3. /\ Sum(s) = f[x] + Sum(s \ {x}) /\ f[x] \in Nat /\ Sum(s \ {x}) \in Int
          /\ Sum(r) \in Int
      BY <1>1, <1>2, <1>7
    <2> QED
      BY <1>6, <2>2, <2>3
  <1> QED
    BY <1>8, <1>9, <1>10

\* A sum over one member more.
LEMMA SumAdd ==
    ASSUME NEW T, IsFiniteSet(T), NEW f, NEW x, x \notin T,
           \A y \in T \cup {x} : f[y] \in Int
    PROVE  SumFunctionOnSet(f, T \cup {x}) = SumFunctionOnSet(f, T) + f[x]
  <1>1. IsFiniteSet(T \cup {x}) /\ (T \cup {x}) \ {x} = T
    BY FS_AddElement
  <1>2. SumFunctionOnSet(f, T \cup {x}) = f[x] + SumFunctionOnSet(f, (T \cup {x}) \ {x})
    BY <1>1, SumRemove
  <1>3. SumFunctionOnSet(f, T) \in Int /\ f[x] \in Int
    BY SumStep
  <1>4. SumFunctionOnSet(f, (T \cup {x}) \ {x}) = SumFunctionOnSet(f, T)
    BY <1>1, Zenon
  <1> QED
    BY <1>2, <1>3, <1>4

-----------------------------------------------------------------------------
(* The counter and the room the calls under way hold. *)

\* The inductive invariant with the sums.
Accounted == Inv /\ NumAccounting /\ RoomAccounting

\* The calls that stand on a line.
At(l) == {t \in Threads : pc[t] = l}

\* The sums of NumAccounting and RoomAccounting are over finite sets of
\* naturals.
LEMMA SumsOfCalls ==
    ASSUME TypeOK
    PROVE  /\ \A T \in SUBSET Threads : IsFiniteSet(T) /\ SumFunctionOnSet(n, T) \in Nat
           /\ \A T \in SUBSET Threads : \A t \in Threads \ T :
                 SumFunctionOnSet(n, T \cup {t}) = SumFunctionOnSet(n, T) + n[t]
           /\ \A T \in SUBSET Threads : \A t \in T :
                 SumFunctionOnSet(n, T) = n[t] + SumFunctionOnSet(n, T \ {t})
  <1>1. \A T \in SUBSET Threads : IsFiniteSet(T)
    BY RingAssumption, FS_Subset
  <1>2. \A t \in Threads : n[t] \in Nat
    BY DEF TypeOK
  <1>3. ASSUME NEW T \in SUBSET Threads PROVE SumFunctionOnSet(n, T) \in Nat
    <2>1. T \in SUBSET T /\ IsFiniteSet(T) /\ \A x \in T : n[x] \in Nat
      BY <1>1, <1>2
    <2> QED
      BY <2>1, SumGrows
  <1>4. ASSUME NEW T \in SUBSET Threads, NEW t \in Threads \ T
        PROVE  SumFunctionOnSet(n, T \cup {t}) = SumFunctionOnSet(n, T) + n[t]
    <2>1. t \notin T /\ IsFiniteSet(T) /\ \A x \in T \cup {t} : n[x] \in Int
      BY <1>1, <1>2
    <2> QED
      BY <2>1, SumAdd
  <1>5. ASSUME NEW T \in SUBSET Threads, NEW t \in T
        PROVE  SumFunctionOnSet(n, T) = n[t] + SumFunctionOnSet(n, T \ {t})
    <2>1. IsFiniteSet(T) /\ \A x \in T : n[x] \in Int
      BY <1>1, <1>2
    <2> QED
      BY <2>1, SumRemove
  <1> QED
    BY <1>1, <1>3, <1>4, <1>5

\* Init.
LEMMA InitAccounted == Init => Accounted
  <1> SUFFICES ASSUME Init PROVE Accounted
    OBVIOUS
  <1>1. Inv
    BY InitInv
  <1>2. IsFiniteSet({}) /\ SumFunctionOnSet(n, {}) = 0
    BY FS_EmptySet, SumStep
  <1>3. At("push_count") = {} /\ At("pop_count") = {} /\ Writing \cup Reading = {}
    BY DEF Init, At, Writing, Reading
  <1>4. /\ SumFunctionOnSet(n, At("push_count")) = 0 /\ SumFunctionOnSet(n, At("pop_count")) = 0
        /\ SumFunctionOnSet(n, Writing \cup Reading) = 0
    BY <1>2, <1>3, Zenon
  <1>5. /\ num = 0 /\ prod.tail = 0 /\ prod.head = 0 /\ cons.tail = 0 /\ cons.head = 0
        /\ \A t \in Threads : pc[t] = "idle"
    BY DEF Init, ring_creat
  <1>6. NumAccounting
    BY <1>4, <1>5 DEF NumAccounting, Uncounted, At
  <1>7. RoomAccounting
    BY <1>4, <1>5 DEF RoomAccounting
  <1> QED
    BY <1>1, <1>6, <1>7 DEF Accounted

\* A call starts: its n is new, but it stands on no line that is summed over.
LEMMA CallsAccounted ==
    ASSUME Accounted, NEW t \in Threads, PushCall(t) \/ PopCall(t)
    PROVE  NumAccounting' /\ RoomAccounting'
  <1>1. TypeOK /\ NumAccounting /\ RoomAccounting
    BY DEF Accounted, Inv
  <1>2. /\ pc[t] = "idle" /\ UNCHANGED <<prod, cons, num, i>>
        /\ \A u \in Threads \ {t} : pc'[u] = pc[u] /\ n'[u] = n[u]
        /\ pc'[t] \in {"push_head", "pop_head"}
    <2>1. CASE PushCall(t)
      BY <1>1, <2>1 DEF PushCall, TypeOK, Goto, PushPc, PopPc
    <2>2. CASE PopCall(t)
      BY <1>1, <2>2 DEF PopCall, TypeOK, Goto, PushPc, PopPc
    <2> QED
      BY <2>1, <2>2
  <1>3. /\ At("push_count")' = At("push_count") /\ At("pop_count")' = At("pop_count")
        /\ (Writing \cup Reading)' = Writing \cup Reading
        /\ t \notin At("push_count") /\ t \notin At("pop_count") /\ t \notin Writing \cup Reading
    BY <1>2 DEF At, Writing, Reading
  <1>4. ASSUME NEW T \in SUBSET Threads, t \notin T
        PROVE  SumFunctionOnSet(n', T) = SumFunctionOnSet(n, T)
    <2>1. IsFiniteSet(T) /\ \A x \in T : n[x] \in Int /\ n[x] = n'[x]
      BY <1>1, <1>2, <1>4, RingAssumption, FS_Subset DEF TypeOK
    <2> QED
      BY <2>1, SumSame
  <1>5. /\ SumFunctionOnSet(n', At("push_count")) = SumFunctionOnSet(n, At("push_count"))
        /\ SumFunctionOnSet(n', At("pop_count")) = SumFunctionOnSet(n, At("pop_count"))
        /\ SumFunctionOnSet(n', Writing \cup Reading) = SumFunctionOnSet(n, Writing \cup Reading)
    BY <1>3, <1>4 DEF At, Writing, Reading
  <1>6. NumAccounting'
    BY <1>1, <1>2, <1>3, <1>5 DEF NumAccounting, Uncounted, At
  <1>7. RoomAccounting'
    BY <1>1, <1>2, <1>3, <1>5 DEF RoomAccounting
  <1> QED
    BY <1>6, <1>7

\* A step inside a call that keeps the thread on its side of the lines summed
\* over, and the indices and the counter as they are.
LEMMA MovesAccounted ==
    ASSUME Accounted, NEW t \in Threads,
           \/ PushReadHead(t) \/ PushCheck(t) \/ PushRetry(t) \/ PushWrite(t)
           \/ PopReadHead(t) \/ PopCheck(t) \/ PopRetry(t) \/ PopRead(t)
    PROVE  NumAccounting' /\ RoomAccounting'
  <1> DEFINE Holding == {"push_write", "push_wait", "pop_read", "pop_wait"}
  <1>1. TypeOK /\ NumAccounting /\ RoomAccounting
    BY DEF Accounted, Inv
  <1>2. /\ UNCHANGED <<prod, cons, num, n>>
        /\ \A u \in Threads \ {t} : pc'[u] = pc[u] /\ i'[u] = i[u]
        /\ pc[t] \notin {"push_count", "pop_count"} /\ pc'[t] \notin {"push_count", "pop_count"}
        /\ (pc[t] \in Holding <=> pc'[t] \in Holding)
    <2>1. CASE PushReadHead(t)
      BY <1>1, <2>1 DEF PushReadHead, TypeOK, Goto
    <2>2. CASE PushCheck(t)
      BY <1>1, <2>2 DEF PushCheck, TypeOK, Goto
    <2>3. CASE PushRetry(t)
      BY <1>1, <2>3 DEF PushRetry, TypeOK, Goto
    <2>4. CASE PushWrite(t)
      BY <1>1, <2>4 DEF PushWrite, TypeOK, Goto
    <2>5. CASE PopReadHead(t)
      BY <1>1, <2>5 DEF PopReadHead, TypeOK, Goto
    <2>6. CASE PopCheck(t)
      BY <1>1, <2>6 DEF PopCheck, TypeOK, Goto
    <2>7. CASE PopRetry(t)
      BY <1>1, <2>7 DEF PopRetry, TypeOK, Goto
    <2>8. CASE PopRead(t)
      BY <1>1, <2>8 DEF PopRead, TypeOK, Goto
    <2> QED
      BY <2>1, <2>2, <2>3, <2>4, <2>5, <2>6, <2>7, <2>8
  <1>3. /\ At("push_count")' = At("push_count") /\ At("pop_count")' = At("pop_count")
        /\ (Writing \cup Reading)' = Writing \cup Reading
    BY <1>2 DEF At, Writing, Reading
  <1>6. NumAccounting'
    BY <1>1, <1>2, <1>3 DEF NumAccounting, Uncounted, At
  <1>7. RoomAccounting'
    BY <1>1, <1>2, <1>3 DEF RoomAccounting
  <1> QED
    BY <1>6, <1>7

\* A reservation moves a head by what the thread now holds.
LEMMA ReservesAccounted ==
    ASSUME Accounted, NEW t \in Threads, PushReserve(t) \/ PopReserve(t)
    PROVE  NumAccounting' /\ RoomAccounting'
  <1>1. TypeOK /\ NumAccounting /\ RoomAccounting
    BY DEF Accounted, Inv
  <1>2. /\ UNCHANGED <<num, n>>
        /\ prod' \in [head : Int, tail : Int] /\ cons' \in [head : Int, tail : Int]
        /\ prod'.tail = prod.tail /\ cons'.tail = cons.tail
        /\ prod'.head + cons'.head = prod.head + cons.head + n[t]
        /\ \A u \in Threads \ {t} : pc'[u] = pc[u] /\ i'[u] = i[u]
        /\ pc[t] \in {"push_cas", "pop_cas"} /\ pc'[t] \in {"push_write", "pop_read"}
    <2>0. /\ prod \in [head : Int, tail : Int] /\ cons \in [head : Int, tail : Int]
          /\ head[t] \in Int /\ n[t] \in Int
      BY <1>1 DEF TypeOK
    <2>1. CASE PushReserve(t)
      <3>1. /\ prod' = [prod EXCEPT !.head = head[t] + n[t]] /\ prod.head = head[t]
            /\ cons' = cons
        BY <2>1 DEF PushReserve
      <3>2. /\ UNCHANGED <<num, n>>
            /\ \A u \in Threads \ {t} : pc'[u] = pc[u] /\ i'[u] = i[u]
            /\ pc[t] = "push_cas" /\ pc'[t] = "push_write"
        BY <1>1, <2>1 DEF PushReserve, TypeOK, Goto
      <3> QED
        BY <2>0, <3>1, <3>2
    <2>2. CASE PopReserve(t)
      <3>1. /\ cons' = [cons EXCEPT !.head = head[t] + n[t]] /\ cons.head = head[t]
            /\ prod' = prod
        BY <2>2 DEF PopReserve
      <3>2. /\ UNCHANGED <<num, n>>
            /\ \A u \in Threads \ {t} : pc'[u] = pc[u] /\ i'[u] = i[u]
            /\ pc[t] = "pop_cas" /\ pc'[t] = "pop_read"
        BY <1>1, <2>2 DEF PopReserve, TypeOK, Goto
      <3> QED
        BY <2>0, <3>1, <3>2
    <2> QED
      BY <2>1, <2>2
  <1>3. /\ At("push_count")' = At("push_count") /\ At("pop_count")' = At("pop_count")
        /\ t \notin Writing \cup Reading
        /\ (Writing \cup Reading)' = (Writing \cup Reading) \cup {t}
    BY <1>2 DEF At, Writing, Reading
  <1>4. /\ Writing \cup Reading \in SUBSET Threads
        /\ SumFunctionOnSet(n, Writing \cup Reading) \in Nat
        /\ SumFunctionOnSet(n, (Writing \cup Reading) \cup {t})
             = SumFunctionOnSet(n, Writing \cup Reading) + n[t]
    <2>1. Writing \cup Reading \in SUBSET Threads
      BY DEF Writing, Reading
    <2> QED
      BY <1>1, <1>3, <2>1, SumsOfCalls
  <1>5. SumFunctionOnSet(n, Writing \cup Reading)' = SumFunctionOnSet(n, Writing \cup Reading) + n[t]
    BY <1>2, <1>3, <1>4, Zenon
  <1>6. NumAccounting'
    BY <1>1, <1>2, <1>3 DEF NumAccounting, Uncounted, At
  <1>7. RoomAccounting'
    <2>1. /\ prod \in [head : Int, tail : Int] /\ cons \in [head : Int, tail : Int] /\ n[t] \in Int
          /\ prod.head - prod.tail + cons.head - cons.tail = SumFunctionOnSet(n, Writing \cup Reading)
      BY <1>1 DEF TypeOK, RoomAccounting
    <2>2. (prod.head - prod.tail + cons.head - cons.tail)'
             = SumFunctionOnSet(n, Writing \cup Reading)'
      BY <1>2, <1>5, <2>1
    <2>3. \A u \in Threads : pc'[u] = "pop_count" => i'[u] = n'[u]
      BY <1>1, <1>2 DEF RoomAccounting
    <2> QED
      BY <2>2, <2>3 DEF RoomAccounting
  <1> QED
    BY <1>6, <1>7

\* Publishing and releasing move a tail by what the thread held and has still
\* to count.
LEMMA TailsAccounted ==
    ASSUME Accounted, NEW t \in Threads, PushPublish(t) \/ PopRelease(t)
    PROVE  NumAccounting' /\ RoomAccounting'
  <1> DEFINE Held0 == Writing \cup Reading
             Pushed == At("push_count")
             Popped == At("pop_count")
             Sum(T) == SumFunctionOnSet(n, T)
  <1>1. TypeOK /\ NumAccounting /\ RoomAccounting /\ Locals(t)
    BY DEF Accounted, Inv
  <1>2. /\ UNCHANGED <<num, n, i>>
        /\ prod' \in [head : Int, tail : Int] /\ cons' \in [head : Int, tail : Int]
        /\ prod'.head = prod.head /\ cons'.head = cons.head
        /\ \A u \in Threads \ {t} : pc'[u] = pc[u]
        /\ \/ /\ pc[t] = "push_wait" /\ pc'[t] = "push_count"
              /\ prod'.tail = prod.tail + n[t] /\ cons'.tail = cons.tail
           \/ /\ pc[t] = "pop_wait" /\ pc'[t] = "pop_count"
              /\ cons'.tail = cons.tail + n[t] /\ prod'.tail = prod.tail
    <2>0. /\ prod \in [head : Int, tail : Int] /\ cons \in [head : Int, tail : Int]
          /\ head[t] \in Int /\ n[t] \in Int
      BY <1>1 DEF TypeOK
    <2>1. CASE PushPublish(t)
      <3>1. /\ prod' = [prod EXCEPT !.tail = head[t] + n[t]] /\ prod.tail = head[t]
            /\ cons' = cons
        BY <2>1 DEF PushPublish
      <3>2. /\ UNCHANGED <<num, n, i>>
            /\ \A u \in Threads \ {t} : pc'[u] = pc[u]
            /\ pc[t] = "push_wait" /\ pc'[t] = "push_count"
        BY <1>1, <2>1 DEF PushPublish, TypeOK, Goto
      <3> QED
        BY <2>0, <3>1, <3>2
    <2>2. CASE PopRelease(t)
      <3>1. /\ cons' = [cons EXCEPT !.tail = head[t] + n[t]] /\ cons.tail = head[t]
            /\ prod' = prod
        BY <2>2 DEF PopRelease
      <3>2. /\ UNCHANGED <<num, n, i>>
            /\ \A u \in Threads \ {t} : pc'[u] = pc[u]
            /\ pc[t] = "pop_wait" /\ pc'[t] = "pop_count"
        BY <1>1, <2>2 DEF PopRelease, TypeOK, Goto
      <3> QED
        BY <2>0, <3>1, <3>2
    <2> QED
      BY <2>1, <2>2
  <1>3. /\ Held0 \in SUBSET Threads /\ Pushed \in SUBSET Threads /\ Popped \in SUBSET Threads
        /\ t \in Held0 /\ t \notin Pushed /\ t \notin Popped
        /\ Held0' = Held0 \ {t}
        /\ pc[t] = "push_wait" => Pushed' = Pushed \cup {t} /\ Popped' = Popped
        /\ pc[t] = "pop_wait" => Pushed' = Pushed /\ Popped' = Popped \cup {t}
    BY <1>2 DEF At, Writing, Reading
  <1>4. /\ Held0 \ {t} \in SUBSET Threads
        /\ Sum(Held0) \in Nat /\ Sum(Pushed) \in Nat /\ Sum(Popped) \in Nat /\ Sum(Held0 \ {t}) \in Nat
        /\ Sum(Held0) = n[t] + Sum(Held0 \ {t})
        /\ Sum(Pushed \cup {t}) = Sum(Pushed) + n[t]
        /\ Sum(Popped \cup {t}) = Sum(Popped) + n[t]
    <2>1. Held0 \ {t} \in SUBSET Threads
      BY <1>3
    <2> HIDE DEF Held0, Pushed, Popped
    <2> QED
      BY <1>1, <1>3, <2>1, SumsOfCalls
  <1>5. /\ Sum(Held0)' = Sum(Held0) - n[t]
        /\ pc[t] = "push_wait" => Sum(Pushed)' = Sum(Pushed) + n[t] /\ Sum(Popped)' = Sum(Popped)
        /\ pc[t] = "pop_wait" => Sum(Pushed)' = Sum(Pushed) /\ Sum(Popped)' = Sum(Popped) + n[t]
    <2>1. n' = n /\ n[t] \in Int
      BY <1>1, <1>2 DEF TypeOK
    <2>2. Sum(Held0)' = Sum(Held0 \ {t})
      BY <1>3, <2>1, Zenon
    <2>3. /\ pc[t] = "push_wait" => Sum(Pushed)' = Sum(Pushed \cup {t}) /\ Sum(Popped)' = Sum(Popped)
          /\ pc[t] = "pop_wait" => Sum(Pushed)' = Sum(Pushed) /\ Sum(Popped)' = Sum(Popped \cup {t})
      BY <1>3, <2>1, Zenon
    <2> QED
      BY <1>4, <2>1, <2>2, <2>3
  <1>6. /\ prod \in [head : Int, tail : Int] /\ cons \in [head : Int, tail : Int] /\ n[t] \in Int
        /\ num \in Int /\ num' = num
        /\ num = prod.tail - cons.tail - Sum(Pushed) + Sum(Popped)
        /\ prod.head - prod.tail + cons.head - cons.tail = Sum(Held0)
    BY <1>1, <1>2 DEF TypeOK, RoomAccounting, NumAccounting, Uncounted, At
  <1>7. /\ (num = prod.tail - cons.tail - Sum(Pushed) + Sum(Popped))'
        /\ (prod.head - prod.tail + cons.head - cons.tail = Sum(Held0))'
    <2> HIDE DEF Sum, Held0, Pushed, Popped
    <2>1. /\ num' = prod'.tail - cons'.tail - Sum(Pushed)' + Sum(Popped)'
          /\ prod'.head - prod'.tail + cons'.head - cons'.tail = Sum(Held0)'
      BY <1>2, <1>4, <1>5, <1>6
    <2> QED
      BY <2>1
  <1>8. \A u \in Threads : pc'[u] = "pop_count" => i'[u] = n'[u]
    BY <1>1, <1>2 DEF RoomAccounting, Locals
  <1> QED
    BY <1>7, <1>8 DEF NumAccounting, RoomAccounting, Uncounted, At

\* Counting moves the counter by what the thread had left uncounted.
LEMMA CountsAccounted ==
    ASSUME Accounted, NEW t \in Threads, PushCount(t) \/ PopCount(t)
    PROVE  NumAccounting' /\ RoomAccounting'
  <1> DEFINE Pushed == At("push_count")
             Popped == At("pop_count")
             Sum(T) == SumFunctionOnSet(n, T)
  <1>1. TypeOK /\ NumAccounting /\ RoomAccounting
    BY DEF Accounted, Inv
  <1>2. /\ UNCHANGED <<prod, cons, n, i>>
        /\ \A u \in Threads \ {t} : pc'[u] = pc[u]
        /\ pc'[t] = "idle"
        /\ \/ pc[t] = "push_count" /\ num' = num + n[t]
           \/ pc[t] = "pop_count" /\ num' = num - n[t]
    <2>1. CASE PushCount(t)
      BY <1>1, <2>1 DEF PushCount, TypeOK, Goto
    <2>2. CASE PopCount(t)
      BY <1>1, <2>2 DEF PopCount, TypeOK, Goto
    <2> QED
      BY <2>1, <2>2
  <1>3. /\ Pushed \in SUBSET Threads /\ Popped \in SUBSET Threads
        /\ Pushed \ {t} \in SUBSET Threads /\ Popped \ {t} \in SUBSET Threads
        /\ (Writing \cup Reading)' = Writing \cup Reading
        /\ pc[t] = "push_count" => t \in Pushed /\ Pushed' = Pushed \ {t} /\ Popped' = Popped
        /\ pc[t] = "pop_count" => t \in Popped /\ Pushed' = Pushed /\ Popped' = Popped \ {t}
    BY <1>2 DEF At, Writing, Reading
  <1>4. /\ Sum(Pushed) \in Nat /\ Sum(Popped) \in Nat
        /\ Sum(Pushed \ {t}) \in Nat /\ Sum(Popped \ {t}) \in Nat
        /\ t \in Pushed => Sum(Pushed) = n[t] + Sum(Pushed \ {t})
        /\ t \in Popped => Sum(Popped) = n[t] + Sum(Popped \ {t})
    <2> HIDE DEF Pushed, Popped
    <2> QED
      BY <1>1, <1>3, SumsOfCalls
  <1>5. /\ pc[t] = "push_count" => Sum(Pushed)' = Sum(Pushed) - n[t] /\ Sum(Popped)' = Sum(Popped)
        /\ pc[t] = "pop_count" => Sum(Pushed)' = Sum(Pushed) /\ Sum(Popped)' = Sum(Popped) - n[t]
    <2>1. n' = n /\ n[t] \in Int
      BY <1>1, <1>2 DEF TypeOK
    <2>3. /\ pc[t] = "push_count" => Sum(Pushed)' = Sum(Pushed \ {t}) /\ Sum(Popped)' = Sum(Popped)
          /\ pc[t] = "pop_count" => Sum(Pushed)' = Sum(Pushed) /\ Sum(Popped)' = Sum(Popped \ {t})
      BY <1>3, <2>1, Zenon
    <2> QED
      BY <1>3, <1>4, <2>1, <2>3
  <1>6. /\ prod \in [head : Int, tail : Int] /\ cons \in [head : Int, tail : Int] /\ n[t] \in Int
        /\ num \in Int
        /\ num = prod.tail - cons.tail - Sum(Pushed) + Sum(Popped)
    BY <1>1, <1>2 DEF TypeOK, RoomAccounting, NumAccounting, Uncounted, At
  <1>7. (num = prod.tail - cons.tail - Sum(Pushed) + Sum(Popped))'
    <2> HIDE DEF Sum, Pushed, Popped
    <2>1. num' = prod'.tail - cons'.tail - Sum(Pushed)' + Sum(Popped)'
      BY <1>2, <1>4, <1>5, <1>6
    <2> QED
      BY <2>1
  <1>8. RoomAccounting'
    <2>1. \A u \in Threads : pc'[u] = "pop_count" => i'[u] = n'[u]
      BY <1>1, <1>2 DEF RoomAccounting
    <2> QED
      BY <1>1, <1>2, <1>3, <2>1 DEF RoomAccounting
  <1> QED
    BY <1>7, <1>8 DEF NumAccounting, Uncounted, At

\* Every step.
LEMMA StepAccounted == Accounted /\ [Next]_vars => Accounted'
  <1> SUFFICES ASSUME Accounted, [Next]_vars PROVE Accounted'
    OBVIOUS
  <1>0. Inv'
    BY StepInv DEF Accounted
  <1>1. ASSUME NEW t \in Threads, PushCall(t) \/ PopCall(t) \/ PushStep(t) \/ PopStep(t)
        PROVE  NumAccounting' /\ RoomAccounting'
    BY <1>1, CallsAccounted, MovesAccounted, ReservesAccounted, TailsAccounted, CountsAccounted
    DEF PushStep, PopStep
  <1>2. CASE UNCHANGED vars
    <2>1. UNCHANGED <<prod, cons, num, n, i, pc>>
      BY <1>2 DEF vars
    <2>2. NumAccounting'
      BY <2>1 DEF Accounted, NumAccounting, Uncounted
    <2>3. Writing' = Writing /\ Reading' = Reading
      BY <2>1 DEF Writing, Reading
    <2>4. RoomAccounting'
      BY <2>1, <2>3 DEF Accounted, RoomAccounting
    <2> QED
      BY <1>0, <2>2, <2>4 DEF Accounted
  <1>3. CASE Finished
    BY <1>2, <1>3 DEF Finished
  <1> QED
    BY <1>0, <1>1, <1>2, <1>3 DEF Next, Accounted

\* The sums hold in every state.
THEOREM RingAccounted == Spec => []Accounted
  BY InitAccounted, StepAccounted, PTL DEF Spec

\* The counter ring_used shows is the number of published pointers that are not
\* yet released, up to the calls between their index and their count (lines
\* 129-131 and 175-177), for every number of threads.
THEOREM CounterKept == Spec => []NumAccounting
  <1>1. Accounted => NumAccounting
    BY DEF Accounted
  <1> QED
    BY <1>1, RingAccounted, PTL

-----------------------------------------------------------------------------
(* Refusals. *)

\* A difference below 2^32 is what the word shows.
LEMMA WordExact == ASSUME NEW k \in Nat, k < Word PROVE k % Word = k
  BY RingAssumption, SMT

\* A step of a thread leaves the others where they are, and one that takes a
\* thread from a check to its return is that check.
LEMMA WhoRefuses ==
    ASSUME Inv, NEW u \in Threads,
           PushCall(u) \/ PopCall(u) \/ PushStep(u) \/ PopStep(u),
           NEW t \in Threads, pc[t] \in {"push_space", "pop_avail"}, pc'[t] = "idle"
    PROVE  PushCheck(t) \/ PopCheck(t)
  <1>1. pc \in [Threads -> {"idle"} \cup PushPc \cup PopPc]
    BY DEF Inv, TypeOK
  <1>2. u = t
    BY <1>1
    DEF PushCall, PopCall, PushStep, PopStep, PushReadHead, PushCheck, PushReserve,
        PushRetry, PushWrite, PushPublish, PushCount, PopReadHead, PopCheck, PopReserve,
        PopRetry, PopRead, PopRelease, PopCount, Goto
  <1> QED
    BY <1>1, <1>2
    DEF PushCall, PopCall, PushStep, PopStep, PushReadHead, PushReserve,
        PushRetry, PushWrite, PushPublish, PushCount, PopReadHead, PopReserve,
        PopRetry, PopRead, PopRelease, PopCount, Goto

\* A refused push asked for more than the ring has free, a refused pop for more
\* than it holds: what they computed from an old head is on the safe side.
LEMMA Refused ==
    ASSUME Inv, InTime, NEW t \in Threads
    PROVE  /\ PushCheck(t) /\ pc'[t] = "idle" => n[t] > Max + cons.tail - prod.head
           /\ PopCheck(t) /\ pc'[t] = "idle" => n[t] > prod.tail - cons.head
  <1>1. /\ head[t] \in Nat /\ n[t] \in Nat /\ Max \in Nat
        /\ cons.tail \in Nat /\ cons.head \in Nat /\ prod.tail \in Nat /\ prod.head \in Nat
        /\ pc \in [Threads -> {"idle"} \cup PushPc \cup PopPc]
    BY RingAssumption DEF Inv, TypeOK
  <1>2. ASSUME PushCheck(t), pc'[t] = "idle" PROVE n[t] > Max + cons.tail - prod.head
    <2> DEFINE room == Max + cons.tail - head[t]
    <2>1. head[t] <= prod.head /\ prod.head <= cons.tail + Max /\ room < Word
      BY <1>2 DEF PushCheck, Inv, IndexOrder, Locals, InTime
    <2>2. room \in Nat
      BY <1>1, <2>1
    <2> HIDE DEF room
    <2>3. room % Word = room
      BY <2>1, <2>2, WordExact
    <2>4. Space(t) = room
      BY <2>3 DEF Space, room
    <2>5. n[t] > Space(t)
      BY <1>1, <1>2 DEF PushCheck, Goto
    <2> QED
      BY <1>1, <2>1, <2>4, <2>5 DEF room
  <1>3. ASSUME PopCheck(t), pc'[t] = "idle" PROVE n[t] > prod.tail - cons.head
    <2> DEFINE stock == prod.tail - head[t]
    <2>1. head[t] <= cons.head /\ cons.head <= prod.tail /\ stock < Word
      BY <1>3 DEF PopCheck, Inv, IndexOrder, Locals, InTime
    <2>2. stock \in Nat
      BY <1>1, <2>1
    <2> HIDE DEF stock
    <2>3. stock % Word = stock
      BY <2>1, <2>2, WordExact
    <2>4. Stock(t) = stock
      BY <2>3 DEF Stock, stock
    <2>5. n[t] > Stock(t)
      BY <1>1, <1>3 DEF PopCheck, Goto
    <2> QED
      BY <1>1, <2>1, <2>4, <2>5 DEF stock
  <1> QED
    BY <1>2, <1>3

\* A call is refused only for a good reason (lines 115-118 and 159-162), as long
\* as no thread sleeps between its two reads while 2^32 pointers pass.
THEOREM RefusalsHonest == Spec /\ []InTime => RefusalHonest
  <1> DEFINE Honest ==
        \A t \in Threads :
          /\ (pc[t] = "push_space" /\ pc'[t] = "idle") => n[t] > Max + cons.tail - prod.head
          /\ (pc[t] = "pop_avail" /\ pc'[t] = "idle") => n[t] > prod.tail - cons.head
  <1>1. ASSUME Inv, InTime, [Next]_vars PROVE [Honest]_vars
    <2> SUFFICES ASSUME Next, NEW t \in Threads,
                        pc[t] \in {"push_space", "pop_avail"}, pc'[t] = "idle"
                 PROVE  /\ pc[t] = "push_space" => n[t] > Max + cons.tail - prod.head
                        /\ pc[t] = "pop_avail" => n[t] > prod.tail - cons.head
      BY <1>1
    <2>1. ~Finished
      BY DEF Finished
    <2>2. PushCheck(t) \/ PopCheck(t)
      BY <1>1, <2>1, WhoRefuses DEF Next
    <2>3. /\ PushCheck(t) => pc[t] = "push_space"
          /\ PopCheck(t) => pc[t] = "pop_avail"
      BY DEF PushCheck, PopCheck
    <2> QED
      BY <1>1, <2>2, <2>3, Refused
  <1>2. Spec /\ []InTime => [][Honest]_vars
    <2> HIDE DEF Honest
    <2>1. Inv /\ InTime /\ [Next]_vars => [Honest]_vars
      BY <1>1
    <2> QED
      BY <2>1, RingInvariant, PTL DEF Spec
  <1> QED
    BY <1>2 DEF RefusalHonest

-----------------------------------------------------------------------------
(* The ring implements the bounded first-in first-out queue. *)

\* The stretch of a sequence from index a + 1 to index b.
LEMMA Stretch ==
    ASSUME NEW S, NEW s \in Seq(S), NEW a \in Nat, NEW b \in Nat, a <= b, b <= Len(s)
    PROVE  /\ SubSeq(s, a + 1, b) \in Seq(S) /\ Len(SubSeq(s, a + 1, b)) = b - a
           /\ \A k \in 1..(b - a) : SubSeq(s, a + 1, b)[k] = s[a + k]
  <1>1. \A k \in (a + 1)..b : s[k] \in S
    BY ElementOfSeq
  <1>2. a + 1 \in Int /\ b \in Int
    OBVIOUS
  <1>3. /\ SubSeq(s, a + 1, b) \in Seq(S)
        /\ Len(SubSeq(s, a + 1, b)) = IF a + 1 <= b THEN b - (a + 1) + 1 ELSE 0
        /\ \A k \in 1..(b - (a + 1) + 1) : SubSeq(s, a + 1, b)[k] = s[(a + 1) + k - 1]
    BY <1>1, <1>2, SubSeqProperties
  <1>4. b - (a + 1) + 1 = b - a /\ \A k \in Int : (a + 1) + k - 1 = a + k
    OBVIOUS
  <1> QED
    BY <1>3, <1>4

\* Two sequences with the same pointers at the indices of a stretch have the
\* same stretch.
LEMMA SameStretch ==
    ASSUME NEW S, NEW s \in Seq(S), NEW w \in Seq(S), NEW a \in Nat, NEW b \in Nat,
           a <= b, b <= Len(s), b <= Len(w), \A k \in 1..b : s[k] = w[k]
    PROVE  SubSeq(s, a + 1, b) = SubSeq(w, a + 1, b)
  <1>1. /\ SubSeq(s, a + 1, b) \in Seq(S) /\ Len(SubSeq(s, a + 1, b)) = b - a
        /\ \A k \in 1..(b - a) : SubSeq(s, a + 1, b)[k] = s[a + k]
    BY Stretch
  <1>2. /\ SubSeq(w, a + 1, b) \in Seq(S) /\ Len(SubSeq(w, a + 1, b)) = b - a
        /\ \A k \in 1..(b - a) : SubSeq(w, a + 1, b)[k] = w[a + k]
    BY Stretch
  <1>3. \A k \in 1..(b - a) : a + k \in 1..b
    OBVIOUS
  <1> QED
    BY <1>1, <1>2, <1>3, SeqEqual

\* A sequence that holds the pointers of a stretch is that stretch.
LEMMA IsStretch ==
    ASSUME NEW S, NEW s \in Seq(S), NEW w, NEW R, w \in Seq(R),
           NEW a \in Nat, a + Len(w) <= Len(s),
           \A k \in 1..Len(w) : w[k] = s[a + k]
    PROVE  w = SubSeq(s, a + 1, a + Len(w))
  <1>1. Len(w) \in Nat
    BY LenProperties
  <1>2. a + Len(w) \in Nat /\ a <= a + Len(w) /\ (a + Len(w)) - a = Len(w)
    BY <1>1
  <1>3. /\ SubSeq(s, a + 1, a + Len(w)) \in Seq(S)
        /\ Len(SubSeq(s, a + 1, a + Len(w))) = Len(w)
        /\ \A k \in 1..Len(w) : SubSeq(s, a + 1, a + Len(w))[k] = s[a + k]
    BY <1>2, Stretch
  <1>4. w \in Seq(S)
    <2>1. \A k \in 1..Len(w) : w[k] \in S
      <3>1. \A k \in 1..Len(w) : a + k \in 1..Len(s)
        BY <1>1
      <3> QED
        BY <3>1, ElementOfSeq
    <2> QED
      BY <2>1, <1>1, LenProperties, ArrayIsSeq
  <1> QED
    BY <1>3, <1>4, SeqEqual

\* Publishing appends to the stretch between the heads of the consumers and the
\* tail of the producers.
LEMMA StretchAppends ==
    ASSUME NEW S, NEW s \in Seq(S), NEW w \in Seq(S), NEW a \in Nat, NEW b \in Nat,
           a <= b, b + Len(w) <= Len(s), \A k \in 1..Len(w) : s[b + k] = w[k]
    PROVE  SubSeq(s, a + 1, b + Len(w)) = SubSeq(s, a + 1, b) \o w
  <1> DEFINE c == b + Len(w)
             x == SubSeq(s, a + 1, c)
             y == SubSeq(s, a + 1, b)
  <1>1. Len(w) \in Nat /\ Len(s) \in Nat
    BY LenProperties
  <1>2. c \in Nat /\ a <= c /\ c <= Len(s) /\ b <= Len(s) /\ b <= c
    BY <1>1
  <1>3. x \in Seq(S) /\ Len(x) = c - a /\ \A k \in 1..(c - a) : x[k] = s[a + k]
    BY <1>2, Stretch
  <1>4. y \in Seq(S) /\ Len(y) = b - a /\ \A k \in 1..(b - a) : y[k] = s[a + k]
    BY <1>2, Stretch
  <1> HIDE DEF x, y
  <1>5. /\ y \o w \in Seq(S) /\ Len(y \o w) = Len(y) + Len(w)
        /\ \A k \in 1..Len(y) : (y \o w)[k] = y[k]
        /\ \A k \in 1..Len(w) : (y \o w)[Len(y) + k] = w[k]
    <2>1. y \in Seq(S) /\ w \in Seq(S)
      BY <1>4
    <2> QED
      BY <2>1, LogGrows
  <1>6. Len(y \o w) = Len(x)
    BY <1>1, <1>3, <1>4, <1>5
  <1>7. ASSUME NEW k \in 1..Len(x) PROVE x[k] = (y \o w)[k]
    <2>1. k \in Int /\ k \in 1..(c - a) /\ k \in 1..(Len(y) + Len(w))
      BY <1>1, <1>3, <1>4
    <2>2. CASE k <= b - a
      BY <1>3, <1>4, <1>5, <2>1, <2>2
    <2>3. CASE k > b - a
      <3>1. /\ k - (b - a) \in 1..Len(w) /\ b + (k - (b - a)) = a + k
            /\ Len(y) + (k - (b - a)) = k
        BY <1>1, <1>4, <2>1, <2>3
      <3>2. s[b + (k - (b - a))] = w[k - (b - a)]
        BY <3>1
      <3> QED
        BY <1>3, <1>4, <1>5, <2>1, <2>3, <3>1, <3>2
    <2> QED
      BY <2>1, <2>2, <2>3
  <1>8. x = y \o w
    BY <1>3, <1>5, <1>6, <1>7, SeqEqual
  <1> QED
    BY <1>8 DEF x, y

\* Claiming cuts the stretch in two.
LEMMA StretchSplits ==
    ASSUME NEW S, NEW s \in Seq(S), NEW a \in Nat, NEW b \in Nat, NEW k \in Nat,
           a + k <= b, b <= Len(s)
    PROVE  /\ Len(SubSeq(s, a + 1, b)) = b - a
           /\ SubSeq(SubSeq(s, a + 1, b), 1, k) = SubSeq(s, a + 1, a + k)
           /\ SubSeq(SubSeq(s, a + 1, b), k + 1, b - a) = SubSeq(s, (a + k) + 1, b)
  <1> DEFINE x == SubSeq(s, a + 1, b)
             front == SubSeq(s, a + 1, a + k)
             back == SubSeq(s, (a + k) + 1, b)
  <1>1. Len(s) \in Nat
    BY LenProperties
  <1>2. a + k \in Nat /\ a <= b /\ a <= a + k /\ a + k <= Len(s) /\ b - a \in Nat /\ k <= b - a
    BY <1>1
  <1>3. x \in Seq(S) /\ Len(x) = b - a /\ \A j \in 1..(b - a) : x[j] = s[a + j]
    BY <1>2, Stretch
  <1>4. /\ front \in Seq(S) /\ Len(front) = k /\ \A j \in 1..k : front[j] = s[a + j]
    <2>1. (a + k) - a = k
      OBVIOUS
    <2> QED
      BY <1>2, <2>1, Stretch
  <1>5. /\ back \in Seq(S) /\ Len(back) = b - (a + k)
        /\ \A j \in 1..(b - (a + k)) : back[j] = s[(a + k) + j]
    BY <1>2, Stretch
  <1> HIDE DEF x, front, back
  <1>6. SubSeq(x, 1, k) = front
    <2>1. /\ SubSeq(x, 0 + 1, k) \in Seq(S) /\ Len(SubSeq(x, 0 + 1, k)) = k - 0
          /\ \A j \in 1..(k - 0) : SubSeq(x, 0 + 1, k)[j] = x[0 + j]
      <3>1. 0 \in Nat /\ 0 <= k /\ k <= Len(x)
        BY <1>2, <1>3
      <3> QED
        BY <1>3, <3>1, Stretch
    <2>2. 0 + 1 = 1 /\ k - 0 = k
      OBVIOUS
    <2>3. \A j \in 1..k : j \in 1..(b - a) /\ 0 + j = j
      BY <1>2
    <2>4. SubSeq(x, 1, k) \in Seq(S) /\ Len(SubSeq(x, 1, k)) = Len(front)
      BY <1>4, <2>1, <2>2
    <2>5. \A j \in 1..Len(front) : SubSeq(x, 1, k)[j] = front[j]
      BY <1>3, <1>4, <2>1, <2>2, <2>3
    <2> QED
      BY <1>4, <2>4, <2>5, SeqEqual
  <1>7. SubSeq(x, k + 1, b - a) = back
    <2>1. /\ SubSeq(x, k + 1, b - a) \in Seq(S) /\ Len(SubSeq(x, k + 1, b - a)) = (b - a) - k
          /\ \A j \in 1..((b - a) - k) : SubSeq(x, k + 1, b - a)[j] = x[k + j]
      BY <1>2, <1>3, Stretch
    <2>2. (b - a) - k = b - (a + k)
      OBVIOUS
    <2>3. \A j \in 1..(b - (a + k)) : k + j \in 1..(b - a) /\ a + (k + j) = (a + k) + j
      BY <1>2
    <2>4. SubSeq(x, k + 1, b - a) \in Seq(S) /\ Len(SubSeq(x, k + 1, b - a)) = Len(back)
      BY <1>5, <2>1, <2>2
    <2>5. \A j \in 1..Len(back) : SubSeq(x, k + 1, b - a)[j] = back[j]
      BY <1>3, <1>5, <2>1, <2>2, <2>3
    <2> QED
      BY <1>5, <2>4, <2>5, SeqEqual
  <1> QED
    BY <1>3, <1>6, <1>7 DEF x, front, back

\* What the promise sees of the ring.
Items == SubSeq(log, cons.head + 1, prod.tail)
Calls == [t \in Threads |-> AbsCall(t)]

\* The call of a thread as the promise sees it, by where the thread stands.
Shown(p, k, a, r) ==
    CASE p = "idle" -> [op |-> "none", n |-> 0, items |-> a]
      [] p \in PushPc \ {"push_count"} -> [op |-> "push", n |-> k, items |-> a]
      [] p = "push_count" -> [op |-> "done", n |-> k, items |-> a]
      [] p \in {"pop_head", "pop_avail", "pop_cas"} -> [op |-> "pop", n |-> k, items |-> <<>>]
      [] OTHER -> [op |-> "done", n |-> k, items |-> r]

LEMMA ShownBy ==
    ASSUME NEW p, NEW k, NEW a, NEW r
    PROVE  /\ p = "idle" => Shown(p, k, a, r) = [op |-> "none", n |-> 0, items |-> a]
           /\ p \in PushPc \ {"push_count"} =>
                Shown(p, k, a, r) = [op |-> "push", n |-> k, items |-> a]
           /\ p = "push_count" => Shown(p, k, a, r) = [op |-> "done", n |-> k, items |-> a]
           /\ p \in {"pop_head", "pop_avail", "pop_cas"} =>
                Shown(p, k, a, r) = [op |-> "pop", n |-> k, items |-> <<>>]
           /\ p \in {"pop_read", "pop_wait", "pop_count"} =>
                Shown(p, k, a, r) = [op |-> "done", n |-> k, items |-> r]
  BY DEF Shown, PushPc

LEMMA AbsCallShown ==
    ASSUME NEW t
    PROVE  /\ AbsCall(t) = Shown(pc[t], n[t], addr[t], Reserved(t))
           /\ AbsCall(t)' = Shown(pc'[t], n'[t], addr'[t], Reserved(t)')
  BY DEF AbsCall, Shown

\* A step of one thread changes the call of that thread only.
LEMMA CallsBecome ==
    ASSUME NEW t \in Threads, NEW c, AbsCall(t)' = c,
           \A u \in Threads \ {t} : AbsCall(u)' = AbsCall(u)
    PROVE  Calls' = [Calls EXCEPT ![t] = c]
  BY DEF Calls

\* The numbers and sequences of a state.
LEMMA Numbers ==
    ASSUME Inv
    PROVE  /\ prod.head \in Nat /\ prod.tail \in Nat /\ cons.head \in Nat /\ cons.tail \in Nat
           /\ cons.tail <= cons.head /\ cons.head <= prod.tail /\ prod.tail <= prod.head
           /\ prod.head <= cons.tail + Max
           /\ Max \in Nat /\ log \in Seq(Value) /\ Len(log) = prod.head
           /\ pc \in [Threads -> {"idle"} \cup PushPc \cup PopPc]
           /\ \A t \in Threads : head[t] \in Nat /\ n[t] \in Nat /\ i[t] \in Nat
  BY RingAssumption DEF Inv, TypeOK, IndexOrder, Written

\* What a thread has taken it took from the log.
LEMMA ReservedInLog ==
    ASSUME Inv, RoomAccounting, NEW t \in Threads, pc[t] \in {"pop_read", "pop_wait", "pop_count"}
    PROVE  head[t] + n[t] <= cons.head
  <1>1. CASE pc[t] \in {"pop_read", "pop_wait"}
    BY <1>1 DEF Inv, Ranges, Reading
  <1>2. CASE pc[t] = "pop_count"
    BY <1>2 DEF Inv, Locals, RoomAccounting
  <1> QED
    BY <1>1, <1>2

\* The calls of the other threads look the same after a step.
LEMMA OthersKept ==
    ASSUME Inv, RoomAccounting, NEW t \in Threads,
           \A u \in Threads \ {t} : /\ pc'[u] = pc[u] /\ n'[u] = n[u] /\ addr'[u] = addr[u]
                                    /\ head'[u] = head[u],
           \/ log' = log
           \/ /\ log' \in Seq(Value) /\ Len(log) <= Len(log')
              /\ \A k \in 1..Len(log) : log'[k] = log[k]
    PROVE  /\ \A u \in Threads \ {t} : AbsCall(u)' = AbsCall(u)
           /\ prod'.tail = prod.tail /\ cons'.head = cons.head => Items' = Items
  <1>1. ASSUME NEW a \in Nat, NEW b \in Nat, a <= b, b <= Len(log)
        PROVE  SubSeq(log', a + 1, b) = SubSeq(log, a + 1, b)
    <2>1. CASE log' = log
      BY <2>1
    <2>2. CASE /\ log' \in Seq(Value) /\ Len(log) <= Len(log')
               /\ \A k \in 1..Len(log) : log'[k] = log[k]
      <3>1. log \in Seq(Value) /\ Len(log) \in Nat /\ Len(log') \in Nat
        BY <2>2, Numbers
      <3>2. b <= Len(log') /\ \A k \in 1..b : log'[k] = log[k]
        BY <1>1, <2>2, <3>1
      <3> QED
        BY <1>1, <2>2, <3>1, <3>2, SameStretch
    <2> QED
      BY <2>1, <2>2
  <1>2. ASSUME NEW u \in Threads \ {t} PROVE AbsCall(u)' = AbsCall(u)
    <2>1. /\ AbsCall(u) = Shown(pc[u], n[u], addr[u], Reserved(u))
          /\ AbsCall(u)' = Shown(pc[u], n[u], addr[u], Reserved(u)')
      <3>1. pc'[u] = pc[u] /\ n'[u] = n[u] /\ addr'[u] = addr[u]
        BY <1>2
      <3> QED
        BY <3>1, AbsCallShown, Zenon
    <2>2. CASE pc[u] \in {"pop_read", "pop_wait", "pop_count"}
      <3>1. head[u] \in Nat /\ head[u] + n[u] \in Nat /\ head[u] <= head[u] + n[u]
            /\ head[u] + n[u] <= Len(log)
        BY <1>2, <2>2, Numbers, ReservedInLog
      <3>2. SubSeq(log', head[u] + 1, head[u] + n[u]) = SubSeq(log, head[u] + 1, head[u] + n[u])
        BY <1>1, <3>1
      <3>3. Reserved(u)' = Reserved(u)
        BY <1>2, <3>2 DEF Reserved
      <3> QED
        BY <2>1, <3>3, Zenon
    <2>3. CASE pc[u] \notin {"pop_read", "pop_wait", "pop_count"}
      <3>1. \/ pc[u] = "idle" \/ pc[u] \in PushPc \ {"push_count"} \/ pc[u] = "push_count"
            \/ pc[u] \in {"pop_head", "pop_avail", "pop_cas"}
        BY <1>2, <2>3, Numbers DEF PushPc, PopPc
      <3> QED
        BY <2>1, <3>1, ShownBy
    <2> QED
      BY <2>2, <2>3
  <1>3. prod'.tail = prod.tail /\ cons'.head = cons.head => Items' = Items
    <2>1. cons.head \in Nat /\ prod.tail \in Nat /\ cons.head <= prod.tail /\ prod.tail <= Len(log)
      BY Numbers
    <2>2. SubSeq(log', cons.head + 1, prod.tail) = SubSeq(log, cons.head + 1, prod.tail)
      BY <1>1, <2>1
    <2> QED
      BY <2>2 DEF Items
  <1> QED
    BY <1>2, <1>3

\* What a step of a thread leaves alone of the others.
LEMMA OthersAlone ==
    ASSUME Inv, NEW t \in Threads, PushCall(t) \/ PopCall(t) \/ PushStep(t) \/ PopStep(t)
    PROVE  \A u \in Threads \ {t} : /\ pc'[u] = pc[u] /\ n'[u] = n[u] /\ addr'[u] = addr[u]
                                    /\ head'[u] = head[u]
  <1>1. /\ pc \in [Threads -> {"idle"} \cup PushPc \cup PopPc]
        /\ n \in [Threads -> Nat] /\ head \in [Threads -> Nat]
        /\ addr \in [Threads -> Seq(Value \cup {Null})]
    BY DEF Inv, TypeOK
  <1> HIDE DEF Inv
  <1>2. CASE PushCall(t)
    BY <1>1, <1>2 DEF PushCall, Goto
  <1>3. CASE PopCall(t)
    BY <1>1, <1>3 DEF PopCall, Goto
  <1>4. CASE PushReadHead(t) \/ PopReadHead(t)
    BY <1>1, <1>4 DEF PushReadHead, PopReadHead, Goto
  <1>5. CASE PushCheck(t) \/ PopCheck(t) \/ PushRetry(t) \/ PopRetry(t)
    BY <1>1, <1>5 DEF PushCheck, PopCheck, PushRetry, PopRetry, Goto
  <1>6. CASE PushReserve(t) \/ PopReserve(t)
    BY <1>1, <1>6 DEF PushReserve, PopReserve, Goto
  <1>7. CASE PushWrite(t) \/ PopRead(t)
    BY <1>1, <1>7 DEF PushWrite, PopRead, Goto
  <1>8. CASE PushPublish(t) \/ PopRelease(t) \/ PushCount(t) \/ PopCount(t)
    BY <1>1, <1>8 DEF PushPublish, PopRelease, PushCount, PopCount, Goto
  <1> QED
    BY <1>2, <1>3, <1>4, <1>5, <1>6, <1>7, <1>8 DEF PushStep, PopStep

\* Reading a head, a check that passes, an attempt that failed, the reservation
\* of a push, filling, reading and releasing are no steps of the promise.
LEMMA Unseen ==
    ASSUME Accounted, NEW t \in Threads,
           \/ PushReadHead(t) \/ PushCheck(t) \/ PushRetry(t) \/ PushReserve(t) \/ PushWrite(t)
           \/ PopReadHead(t) \/ PopCheck(t) \/ PopRetry(t) \/ PopRead(t) \/ PopRelease(t),
           pc'[t] # "idle"
    PROVE  Items' = Items /\ Calls' = Calls
  <1>0. Inv /\ RoomAccounting
    BY DEF Accounted
  <1>1. \A u \in Threads \ {t} : /\ pc'[u] = pc[u] /\ n'[u] = n[u] /\ addr'[u] = addr[u]
                                 /\ head'[u] = head[u]
    BY <1>0, OthersAlone DEF PushStep, PopStep
  <1>2. \/ log' = log
        \/ /\ log' \in Seq(Value) /\ Len(log) <= Len(log')
           /\ \A k \in 1..Len(log) : log'[k] = log[k]
    <2>1. CASE PushReserve(t)
      <3>1. log \in Seq(Value) /\ addr[t] \in Seq(Value) /\ log' = log \o addr[t]
        BY <1>0, <2>1 DEF PushReserve, Inv, TypeOK, Locals, PushPc
      <3>2. /\ log \o addr[t] \in Seq(Value)
            /\ Len(log \o addr[t]) = Len(log) + Len(addr[t])
            /\ \A k \in 1..Len(log) : (log \o addr[t])[k] = log[k]
        BY <3>1, LogGrows
      <3>3. Len(log) \in Nat /\ Len(addr[t]) \in Nat
        BY <3>1, LenProperties
      <3> QED
        BY <3>1, <3>2, <3>3
    <2> QED
      BY <2>1
      DEF PushReadHead, PushCheck, PushRetry, PushWrite, PopReadHead, PopCheck, PopRetry,
          PopRead, PopRelease
  <1>3. prod'.tail = prod.tail /\ cons'.head = cons.head
    <2>1. /\ prod \in [head : Nat, tail : Nat] /\ cons \in [head : Nat, tail : Nat]
      BY <1>0 DEF Inv, TypeOK
    <2>2. CASE PushReserve(t)
      BY <2>1, <2>2 DEF PushReserve
    <2>3. CASE PopRelease(t)
      BY <2>1, <2>3 DEF PopRelease
    <2> QED
      BY <2>2, <2>3
      DEF PushReadHead, PushCheck, PushRetry, PushWrite, PopReadHead, PopCheck, PopRetry, PopRead
  <1>4. Items' = Items /\ \A u \in Threads \ {t} : AbsCall(u)' = AbsCall(u)
    BY <1>0, <1>1, <1>2, <1>3, OthersKept
  <1>5. AbsCall(t)' = AbsCall(t)
    <2>0. /\ pc \in [Threads -> {"idle"} \cup PushPc \cup PopPc]
          /\ i \in [Threads -> Nat] /\ head \in [Threads -> Nat]
          /\ addr \in [Threads -> Seq(Value \cup {Null})]
      BY <1>0 DEF Inv, TypeOK
    <2>1. CASE PushReadHead(t) \/ PushCheck(t) \/ PushRetry(t) \/ PushReserve(t) \/ PushWrite(t)
      <3>1. /\ n'[t] = n[t] /\ addr'[t] = addr[t]
            /\ pc[t] \in PushPc \ {"push_count"} /\ pc'[t] \in PushPc \ {"push_count"}
        BY <2>0, <2>1
        DEF PushReadHead, PushCheck, PushRetry, PushReserve, PushWrite, Goto, PushPc
      <3>2. /\ AbsCall(t) = Shown(pc[t], n[t], addr[t], Reserved(t))
            /\ AbsCall(t)' = Shown(pc'[t], n[t], addr[t], Reserved(t)')
        BY <3>1, AbsCallShown, Zenon
      <3> QED
        BY <3>1, <3>2, ShownBy
    <2>2. CASE PopReadHead(t) \/ PopCheck(t) \/ PopRetry(t)
      <3>1. /\ n'[t] = n[t]
            /\ pc[t] \in {"pop_head", "pop_avail", "pop_cas"}
            /\ pc'[t] \in {"pop_head", "pop_avail", "pop_cas"}
        BY <2>0, <2>2 DEF PopReadHead, PopCheck, PopRetry, Goto
      <3>2. /\ AbsCall(t) = Shown(pc[t], n[t], addr[t], Reserved(t))
            /\ AbsCall(t)' = Shown(pc'[t], n[t], addr'[t], Reserved(t)')
        BY <3>1, AbsCallShown, Zenon
      <3>3. /\ AbsCall(t) = [op |-> "pop", n |-> n[t], items |-> <<>>]
            /\ AbsCall(t)' = [op |-> "pop", n |-> n[t], items |-> <<>>]
        BY <3>1, <3>2, ShownBy
      <3> QED
        BY <3>3
    <2>3. CASE PopRead(t) \/ PopRelease(t)
      <3>1. /\ n' = n /\ head' = head /\ log' = log
            /\ pc[t] \in {"pop_read", "pop_wait", "pop_count"}
            /\ pc'[t] \in {"pop_read", "pop_wait", "pop_count"}
        BY <2>0, <2>3 DEF PopRead, PopRelease, Goto
      <3>2. Reserved(t)' = Reserved(t)
        BY <3>1 DEF Reserved
      <3>3. /\ AbsCall(t) = Shown(pc[t], n[t], addr[t], Reserved(t))
            /\ AbsCall(t)' = Shown(pc'[t], n[t], addr'[t], Reserved(t))
        BY <3>1, <3>2, AbsCallShown, Zenon
      <3>4. /\ AbsCall(t) = [op |-> "done", n |-> n[t], items |-> Reserved(t)]
            /\ AbsCall(t)' = [op |-> "done", n |-> n[t], items |-> Reserved(t)]
        BY <3>1, <3>3, ShownBy
      <3> QED
        BY <3>4
    <2> QED
      BY <2>1, <2>2, <2>3
  <1> QED
    BY <1>4, <1>5 DEF Calls

\* A call and a refusal of the ring are a call and a refusal of the promise.
LEMMA CallsSeen ==
    ASSUME Accounted, NEW t \in Threads, PushCall(t) \/ PopCall(t)
    PROVE  Fifo!CallPush(t) \/ Fifo!CallPop(t)
  <1>0. Inv /\ RoomAccounting
    BY DEF Accounted
  <1>1. \A u \in Threads \ {t} : /\ pc'[u] = pc[u] /\ n'[u] = n[u] /\ addr'[u] = addr[u]
                                 /\ head'[u] = head[u]
    BY <1>0, OthersAlone
  <1>2. log' = log /\ prod' = prod /\ cons' = cons /\ pc[t] = "idle"
    BY DEF PushCall, PopCall
  <1>3. Items' = Items /\ \A u \in Threads \ {t} : AbsCall(u)' = AbsCall(u)
    BY <1>0, <1>1, <1>2, OthersKept
  <1>4. Calls[t].op = "none"
    <2>1. AbsCall(t) = [op |-> "none", n |-> 0, items |-> addr[t]]
      BY <1>2, AbsCallShown, ShownBy
    <2> QED
      BY <2>1 DEF Calls
  <1>5. /\ pc \in [Threads -> {"idle"} \cup PushPc \cup PopPc]
        /\ n \in [Threads -> Nat]
        /\ addr \in [Threads -> Seq(Value \cup {Null})]
    BY <1>0 DEF Inv, TypeOK
  <1>6. ASSUME PushCall(t) PROVE Fifo!CallPush(t)
    <2>1. PICK k \in Batches : \E a \in [1..k -> Value] :
             addr' = [addr EXCEPT ![t] = a] /\ n' = [n EXCEPT ![t] = k]
      BY <1>6 DEF PushCall
    <2>2. PICK a \in [1..k -> Value] :
             addr' = [addr EXCEPT ![t] = a] /\ n' = [n EXCEPT ![t] = k]
      BY <2>1
    <2>3. pc'[t] = "push_head" /\ addr'[t] = a /\ n'[t] = k
      BY <1>5, <1>6, <2>2 DEF PushCall, Goto
    <2>4. AbsCall(t)' = [op |-> "push", n |-> k, items |-> a]
      <3>1. pc'[t] \in PushPc \ {"push_count"}
        BY <2>3 DEF PushPc
      <3>2. AbsCall(t)' = Shown(pc'[t], k, a, Reserved(t)')
        BY <2>3, AbsCallShown, Zenon
      <3> QED
        BY <3>1, <3>2, ShownBy
    <2>5. Calls' = [Calls EXCEPT ![t] = [op |-> "push", n |-> k, items |-> a]]
      BY <1>3, <2>4, CallsBecome
    <2> QED
      BY <1>3, <1>4, <2>5 DEF Fifo!CallPush, Fifo!Become, Calls, Items
  <1>7. ASSUME PopCall(t) PROVE Fifo!CallPop(t)
    <2>1. PICK k \in Batches : n' = [n EXCEPT ![t] = k]
      BY <1>7 DEF PopCall
    <2>3. pc'[t] = "pop_head" /\ n'[t] = k
      BY <1>5, <1>7, <2>1 DEF PopCall, Goto
    <2>4. AbsCall(t)' = [op |-> "pop", n |-> k, items |-> <<>>]
      <3>2. AbsCall(t)' = Shown(pc'[t], k, addr'[t], Reserved(t)')
        BY <2>3, AbsCallShown, Zenon
      <3> QED
        BY <2>3, <3>2, ShownBy
    <2>5. Calls' = [Calls EXCEPT ![t] = [op |-> "pop", n |-> k, items |-> <<>>]]
      BY <1>3, <2>4, CallsBecome
    <2> QED
      BY <1>3, <1>4, <2>5 DEF Fifo!CallPop, Fifo!Become, Calls, Items
  <1> QED
    BY <1>6, <1>7

\* The actions of the promise, on what it sees of the ring.
LEMMA PutIs ==
    ASSUME NEW t,
           Calls[t].op = "push",
           Len(Items) + Calls[t].n <= Max,
           Items' = Items \o Calls[t].items,
           Calls' = [Calls EXCEPT ![t] = [Calls[t] EXCEPT !.op = "done"]]
    PROVE  Fifo!Put(t)
  BY Zenon DEF Fifo!Put, Fifo!Become, Calls, Items

LEMMA TakeIs ==
    ASSUME NEW t,
           Calls[t].op = "pop",
           Calls[t].n <= Len(Items),
           Items' = SubSeq(Items, Calls[t].n + 1, Len(Items)),
           Calls' = [Calls EXCEPT ![t] =
                       [Calls[t] EXCEPT !.op = "done", !.items = SubSeq(Items, 1, Calls[t].n)]]
    PROVE  Fifo!Take(t)
  BY Zenon DEF Fifo!Take, Fifo!Become, Calls, Items

\* What the calls of the others hold.
Rest(t) == SumFunctionOnSet([u \in Threads |-> Calls[u].n], Threads \ {t})

LEMMA RefusePushIs ==
    ASSUME NEW t,
           Calls[t].op = "push",
           Calls[t].n + Len(Items) + Rest(t) > Max,
           Calls' = [Calls EXCEPT ![t] = [op |-> "none", n |-> 0, items |-> Calls[t].items]],
           Items' = Items
    PROVE  Fifo!RefusePush(t)
  <1>1. Fifo!Underway(t) = Rest(t)
    BY Zenon
    DEF Fifo!Underway, Calls, Fifo!SumFunctionOnSet, Fifo!FoldFunctionOnSet, Fifo!MapThenFoldSet,
        Rest, SumFunctionOnSet, FoldFunctionOnSet, MapThenFoldSet
  <1> QED
    BY <1>1, Zenon DEF Fifo!RefusePush, Fifo!Become, Calls, Items

LEMMA RefusePopIs ==
    ASSUME NEW t,
           Calls[t].op = "pop",
           Calls[t].n > Len(Items),
           Calls' = [Calls EXCEPT ![t] = [op |-> "none", n |-> 0, items |-> <<>>]],
           Items' = Items
    PROVE  Fifo!RefusePop(t)
  BY Zenon DEF Fifo!RefusePop, Fifo!Become, Calls, Items

\* The push takes effect when it publishes.
LEMMA PublishPuts ==
    ASSUME Accounted, NEW t \in Threads, PushPublish(t)
    PROVE  Fifo!Put(t)
  <1>0. Inv /\ RoomAccounting
    BY DEF Accounted
  <1>1. \A u \in Threads \ {t} : /\ pc'[u] = pc[u] /\ n'[u] = n[u] /\ addr'[u] = addr[u]
                                 /\ head'[u] = head[u]
    BY <1>0, OthersAlone DEF PushStep
  <1>2. /\ UNCHANGED <<log, cons, n, addr>> /\ pc[t] = "push_wait"
        /\ prod.tail = head[t] /\ prod'.tail = prod.tail + n[t] /\ pc'[t] = "push_count"
    <2>1. prod \in [head : Nat, tail : Nat] /\ pc \in [Threads -> {"idle"} \cup PushPc \cup PopPc]
      BY <1>0 DEF Inv, TypeOK
    <2> QED
      BY <2>1 DEF PushPublish, Goto
  <1>3. \A u \in Threads \ {t} : AbsCall(u)' = AbsCall(u)
    BY <1>0, <1>1, <1>2, OthersKept
  <1>4. /\ t \in Writing /\ addr[t] \in Seq(Value) /\ Len(addr[t]) = n[t] /\ n[t] \in Nat
        /\ head[t] + n[t] <= prod.head
        /\ \A k \in 1..n[t] : log[head[t] + k] = addr[t][k]
    <2>1. t \in Writing
      BY <1>2 DEF Writing
    <2> QED
      BY <1>0, <1>2, <2>1, Numbers DEF Inv, Locals, Ranges, Written, PushPc
  <1>5. /\ AbsCall(t) = [op |-> "push", n |-> n[t], items |-> addr[t]]
        /\ AbsCall(t)' = [op |-> "done", n |-> n[t], items |-> addr[t]]
    <2>1. pc[t] \in PushPc \ {"push_count"}
      BY <1>2 DEF PushPc
    <2>2. /\ AbsCall(t) = Shown(pc[t], n[t], addr[t], Reserved(t))
          /\ AbsCall(t)' = Shown(pc'[t], n[t], addr[t], Reserved(t)')
      BY <1>2, AbsCallShown, Zenon
    <2> QED
      BY <1>2, <2>1, <2>2, ShownBy
  <1>6. Calls' = [Calls EXCEPT ![t] = [op |-> "done", n |-> n[t], items |-> addr[t]]]
    BY <1>3, <1>5, CallsBecome
  <1>7. Calls[t] = [op |-> "push", n |-> n[t], items |-> addr[t]]
    BY <1>5 DEF Calls
  <1>8. Items' = Items \o addr[t]
    <2>1. /\ log \in Seq(Value) /\ cons.head \in Nat /\ prod.tail \in Nat /\ cons.head <= prod.tail
          /\ prod.tail + Len(addr[t]) <= Len(log)
          /\ \A k \in 1..Len(addr[t]) : log[prod.tail + k] = addr[t][k]
      BY <1>0, <1>2, <1>4, Numbers
    <2>2. SubSeq(log, cons.head + 1, prod.tail + Len(addr[t]))
            = SubSeq(log, cons.head + 1, prod.tail) \o addr[t]
      <3> DEFINE a == cons.head
                 b == prod.tail
                 w == addr[t]
      <3>1. /\ log \in Seq(Value) /\ a \in Nat /\ b \in Nat /\ w \in Seq(Value)
            /\ a <= b /\ b + Len(w) <= Len(log) /\ \A k \in 1..Len(w) : log[b + k] = w[k]
        BY <1>4, <2>1
      <3> HIDE DEF a, b, w
      <3>2. SubSeq(log, a + 1, b + Len(w)) = SubSeq(log, a + 1, b) \o w
        BY <3>1, StretchAppends
      <3> QED
        BY <3>2 DEF a, b, w
    <2> QED
      BY <1>2, <1>4, <2>2 DEF Items
  <1>9. Len(Items) + n[t] <= Max
    <2>1. /\ log \in Seq(Value) /\ cons.head \in Nat /\ prod.tail \in Nat /\ cons.head <= prod.tail
          /\ prod.tail <= Len(log)
      BY <1>0, Numbers
    <2>2. Len(Items) = prod.tail - cons.head
      BY <2>1, Stretch DEF Items
    <2>3. /\ prod.head \in Nat /\ cons.tail \in Nat /\ Max \in Nat
          /\ cons.tail <= cons.head /\ prod.head <= cons.tail + Max
      BY <1>0, Numbers
    <2>4. prod.tail + n[t] <= prod.head /\ n[t] \in Nat
      BY <1>2, <1>4
    <2> QED
      BY <2>1, <2>2, <2>3, <2>4
  <1>10. [Calls[t] EXCEPT !.op = "done"] = [op |-> "done", n |-> n[t], items |-> addr[t]]
    BY <1>7
  <1> QED
    <2>1. Calls[t].op = "push" /\ Calls[t].n = n[t] /\ Calls[t].items = addr[t]
      BY <1>7
    <2>2. /\ Len(Items) + Calls[t].n <= Max /\ Items' = Items \o Calls[t].items
          /\ Calls' = [Calls EXCEPT ![t] = [Calls[t] EXCEPT !.op = "done"]]
      BY <1>6, <1>8, <1>9, <1>10, <2>1
    <2> QED
      BY <2>1, <2>2, PutIs, Zenon

\* The pop takes effect when its compare-and-set reserves the pointers.
LEMMA ReserveTakes ==
    ASSUME Accounted, NEW t \in Threads, PopReserve(t)
    PROVE  Fifo!Take(t)
  <1>0. Inv /\ RoomAccounting
    BY DEF Accounted
  <1>1. \A u \in Threads \ {t} : /\ pc'[u] = pc[u] /\ n'[u] = n[u] /\ addr'[u] = addr[u]
                                 /\ head'[u] = head[u]
    BY <1>0, OthersAlone DEF PopStep
  <1>2. /\ UNCHANGED <<log, prod, n, addr, head>> /\ pc[t] = "pop_cas"
        /\ cons.head = head[t] /\ cons'.head = cons.head + n[t] /\ pc'[t] = "pop_read"
    <2>1. cons \in [head : Nat, tail : Nat] /\ pc \in [Threads -> {"idle"} \cup PushPc \cup PopPc]
      BY <1>0 DEF Inv, TypeOK
    <2> QED
      BY <2>1 DEF PopReserve, Goto
  <1>3. \A u \in Threads \ {t} : AbsCall(u)' = AbsCall(u)
    BY <1>0, <1>1, <1>2, OthersKept
  <1>4. /\ log \in Seq(Value) /\ cons.head \in Nat /\ prod.tail \in Nat /\ n[t] \in Nat
        /\ cons.head + n[t] <= prod.tail /\ prod.tail <= Len(log)
    BY <1>0, <1>2, Numbers DEF Inv, Locals
  <1>5. /\ Len(Items) = prod.tail - cons.head
        /\ SubSeq(Items, 1, n[t]) = SubSeq(log, cons.head + 1, cons.head + n[t])
        /\ SubSeq(Items, n[t] + 1, Len(Items)) = SubSeq(log, (cons.head + n[t]) + 1, prod.tail)
    <2>1. /\ Len(SubSeq(log, cons.head + 1, prod.tail)) = prod.tail - cons.head
          /\ SubSeq(SubSeq(log, cons.head + 1, prod.tail), 1, n[t])
               = SubSeq(log, cons.head + 1, cons.head + n[t])
          /\ SubSeq(SubSeq(log, cons.head + 1, prod.tail), n[t] + 1, prod.tail - cons.head)
               = SubSeq(log, (cons.head + n[t]) + 1, prod.tail)
      <3> DEFINE a == cons.head
                 b == prod.tail
                 k == n[t]
      <3>1. /\ log \in Seq(Value) /\ a \in Nat /\ b \in Nat /\ k \in Nat
            /\ a + k <= b /\ b <= Len(log)
        BY <1>4
      <3> HIDE DEF a, b, k
      <3>2. /\ Len(SubSeq(log, a + 1, b)) = b - a
            /\ SubSeq(SubSeq(log, a + 1, b), 1, k) = SubSeq(log, a + 1, a + k)
            /\ SubSeq(SubSeq(log, a + 1, b), k + 1, b - a) = SubSeq(log, (a + k) + 1, b)
        BY <3>1, StretchSplits
      <3> QED
        BY <3>2 DEF a, b, k
    <2> QED
      BY <2>1, Zenon DEF Items
  <1>6. Items' = SubSeq(Items, n[t] + 1, Len(Items))
    BY <1>2, <1>5 DEF Items
  <1>7. /\ AbsCall(t) = [op |-> "pop", n |-> n[t], items |-> <<>>]
        /\ AbsCall(t)' = [op |-> "done", n |-> n[t], items |-> SubSeq(Items, 1, n[t])]
    <2>1. /\ AbsCall(t) = Shown(pc[t], n[t], addr[t], Reserved(t))
          /\ AbsCall(t)' = Shown(pc'[t], n[t], addr[t], Reserved(t)')
      BY <1>2, AbsCallShown, Zenon
    <2>2. Reserved(t)' = SubSeq(Items, 1, n[t])
      BY <1>2, <1>5 DEF Reserved
    <2>3. /\ AbsCall(t) = [op |-> "pop", n |-> n[t], items |-> <<>>]
          /\ AbsCall(t)' = [op |-> "done", n |-> n[t], items |-> Reserved(t)']
      BY <1>2, <2>1, ShownBy
    <2> QED
      BY <2>2, <2>3
  <1>8. Calls' = [Calls EXCEPT ![t] = [op |-> "done", n |-> n[t], items |-> SubSeq(Items, 1, n[t])]]
    BY <1>3, <1>7, CallsBecome
  <1>9. Calls[t] = [op |-> "pop", n |-> n[t], items |-> <<>>]
    BY <1>7 DEF Calls
  <1>10. [Calls[t] EXCEPT !.op = "done", !.items = SubSeq(Items, 1, Calls[t].n)]
           = [op |-> "done", n |-> n[t], items |-> SubSeq(Items, 1, n[t])]
    <2>1. ASSUME NEW c, NEW r, c = [op |-> "pop", n |-> n[t], items |-> <<>>]
          PROVE  [c EXCEPT !.op = "done", !.items = r] = [op |-> "done", n |-> n[t], items |-> r]
      <3>1. [c EXCEPT !.op = "done"] = [op |-> "done", n |-> n[t], items |-> <<>>]
        BY <2>1
      <3>2. ASSUME NEW d, d = [op |-> "done", n |-> n[t], items |-> <<>>]
            PROVE  [d EXCEPT !.items = r] = [op |-> "done", n |-> n[t], items |-> r]
        BY <3>2
      <3> QED
        BY <3>1, <3>2, Zenon
    <2>2. Calls[t].n = n[t]
      BY <1>9
    <2> QED
      BY <1>9, <2>1, <2>2, Zenon
  <1>11. Calls[t].op = "pop" /\ Calls[t].n = n[t] /\ n[t] <= Len(Items)
    <2>1. n[t] <= prod.tail - cons.head
      BY <1>4
    <2> QED
      BY <1>5, <1>9, <2>1
  <1> QED
    <2>1. /\ Calls[t].n <= Len(Items) /\ Items' = SubSeq(Items, Calls[t].n + 1, Len(Items))
          /\ Calls' = [Calls EXCEPT ![t] =
                        [Calls[t] EXCEPT !.op = "done", !.items = SubSeq(Items, 1, Calls[t].n)]]
      BY <1>6, <1>8, <1>10, <1>11, Zenon
    <2> QED
      BY <1>11, <2>1, TakeIs, Zenon

\* Counting is the return of the call, with the pointers it put in or took out.
LEMMA CountReturns ==
    ASSUME Accounted, NEW t \in Threads, PushCount(t) \/ PopCount(t)
    PROVE  Fifo!Return(t)
  <1>0. Inv /\ RoomAccounting
    BY DEF Accounted
  <1>1. \A u \in Threads \ {t} : /\ pc'[u] = pc[u] /\ n'[u] = n[u] /\ addr'[u] = addr[u]
                                 /\ head'[u] = head[u]
    BY <1>0, OthersAlone DEF PushStep, PopStep
  <1>2. /\ UNCHANGED <<log, prod, cons, n, addr, head>> /\ pc'[t] = "idle"
        /\ pc[t] \in {"push_count", "pop_count"}
    <2>1. pc \in [Threads -> {"idle"} \cup PushPc \cup PopPc]
      BY <1>0 DEF Inv, TypeOK
    <2> QED
      BY <2>1 DEF PushCount, PopCount, Goto
  <1>3. Items' = Items /\ \A u \in Threads \ {t} : AbsCall(u)' = AbsCall(u)
    BY <1>0, <1>1, <1>2, OthersKept
  <1>4. AbsCall(t) = [op |-> "done", n |-> n[t], items |-> addr[t]]
    <2>1. CASE pc[t] = "push_count"
      BY <2>1, AbsCallShown, ShownBy
    <2>2. CASE pc[t] = "pop_count"
      <3>1. AbsCall(t) = [op |-> "done", n |-> n[t], items |-> Reserved(t)]
        BY <2>2, AbsCallShown, ShownBy
      <3>2. /\ log \in Seq(Value) /\ head[t] \in Nat /\ n[t] \in Nat
            /\ addr[t] \in Seq(Value \cup {Null}) /\ Len(addr[t]) = n[t]
            /\ \A k \in 1..Len(addr[t]) : addr[t][k] = log[head[t] + k]
        BY <1>0, <2>2, Numbers DEF Inv, TypeOK, Locals, Delivered, RoomAccounting
      <3>3. head[t] + Len(addr[t]) <= Len(log)
        <4>1. head[t] + n[t] <= cons.head
          BY <1>0, <2>2, ReservedInLog
        <4>2. /\ cons.head \in Nat /\ prod.tail \in Nat /\ prod.head \in Nat
              /\ cons.head <= prod.tail /\ prod.tail <= prod.head /\ Len(log) = prod.head
          BY <1>0, Numbers
        <4>3. Len(addr[t]) = n[t] /\ n[t] \in Nat /\ head[t] \in Nat
          BY <3>2
        <4> QED
          BY <4>1, <4>2, <4>3
      <3>4. addr[t] = SubSeq(log, head[t] + 1, head[t] + Len(addr[t]))
        BY <3>2, <3>3, IsStretch
      <3> QED
        BY <3>1, <3>2, <3>4 DEF Reserved
    <2> QED
      BY <1>2, <2>1, <2>2
  <1>5. AbsCall(t)' = [op |-> "none", n |-> 0, items |-> addr[t]]
    <2>1. AbsCall(t)' = Shown(pc'[t], n[t], addr[t], Reserved(t)')
      BY <1>2, AbsCallShown, Zenon
    <2> QED
      BY <1>2, <2>1, ShownBy
  <1>6. Calls' = [Calls EXCEPT ![t] = [op |-> "none", n |-> 0, items |-> addr[t]]]
    BY <1>3, <1>5, CallsBecome
  <1>7. Calls[t].op = "done" /\ Calls[t].items = addr[t]
    BY <1>4 DEF Calls
  <1> QED
    BY <1>3, <1>6, <1>7 DEF Fifo!Return, Fifo!Become, Calls, Items

\* What the others hold, as the promise sees it, is at least what is reserved and
\* not yet published or released.
LEMMA UnderwayCovers ==
    ASSUME Accounted, NEW t \in Threads, t \notin Writing \cup Reading
    PROVE  /\ SumFunctionOnSet([u \in Threads |-> Calls[u].n], Threads \ {t}) \in Nat
           /\ prod.head - prod.tail + cons.head - cons.tail
                <= SumFunctionOnSet([u \in Threads |-> Calls[u].n], Threads \ {t})
  <1> DEFINE shown == [u \in Threads |-> Calls[u].n]
             T == Threads \ {t}
             S == Writing \cup Reading
  <1>0. Inv /\ RoomAccounting
    BY DEF Accounted
  <1>1. \A u \in Threads : /\ shown[u] \in Nat
                           /\ u \in S => shown[u] = n[u]
    <2> SUFFICES ASSUME NEW u \in Threads
                 PROVE  shown[u] \in Nat /\ (u \in S => shown[u] = n[u])
      OBVIOUS
    <2>1. shown[u] = AbsCall(u).n
      BY DEF Calls
    <2>2. n[u] \in Nat /\ pc[u] \in {"idle"} \cup PushPc \cup PopPc
      BY <1>0, Numbers
    <2>3. AbsCall(u) = Shown(pc[u], n[u], addr[u], Reserved(u))
      BY AbsCallShown
    <2>4. /\ pc[u] = "idle" => Shown(pc[u], n[u], addr[u], Reserved(u)).n = 0
          /\ pc[u] # "idle" => Shown(pc[u], n[u], addr[u], Reserved(u)).n = n[u]
      <3>1. \/ pc[u] = "idle" \/ pc[u] \in PushPc \ {"push_count"} \/ pc[u] = "push_count"
            \/ pc[u] \in {"pop_head", "pop_avail", "pop_cas"}
            \/ pc[u] \in {"pop_read", "pop_wait", "pop_count"}
        BY <2>2 DEF PushPc, PopPc
      <3>2. "idle" \notin PushPc
        BY DEF PushPc
      <3> QED
        BY <3>1, <3>2, ShownBy
    <2>5. u \in S => pc[u] # "idle"
      BY DEF Writing, Reading
    <2> QED
      BY <2>1, <2>2, <2>3, <2>4, <2>5
  <1>2. IsFiniteSet(T) /\ S \in SUBSET T /\ IsFiniteSet(S)
    <2>1. T \in SUBSET Threads /\ S \in SUBSET Threads /\ S \in SUBSET T
      BY DEF Writing, Reading
    <2> QED
      BY <2>1, RingAssumption, FS_Subset
  <1> HIDE DEF shown, S
  <1>3. /\ SumFunctionOnSet(shown, S) \in Nat
        /\ SumFunctionOnSet(shown, S) <= SumFunctionOnSet(shown, T)
        /\ SumFunctionOnSet(shown, T) \in Int
    <2>1. (\A x \in T : shown[x] \in Nat) /\ (\A x \in T : shown[x] \in Int)
      BY <1>1
    <2> QED
      BY <1>2, <2>1, SumGrows, SumStep
  <1>4. SumFunctionOnSet(shown, S) = SumFunctionOnSet(n, S)
    <2>1. \A x \in S : shown[x] \in Int /\ shown[x] = n[x]
      BY <1>1, <1>2
    <2> QED
      BY <1>2, <2>1, SumSame
  <1>5. prod.head - prod.tail + cons.head - cons.tail = SumFunctionOnSet(n, S)
    BY <1>0 DEF RoomAccounting, S
  <1> QED
    BY <1>3, <1>4, <1>5 DEF shown

\* A refusal of the ring is one the promise allows.
LEMMA RefusalsSeen ==
    ASSUME Accounted, InTime, NEW t \in Threads,
           PushCheck(t) \/ PopCheck(t), pc'[t] = "idle"
    PROVE  Fifo!RefusePush(t) \/ Fifo!RefusePop(t)
  <1>0. Inv /\ RoomAccounting
    BY DEF Accounted
  <1>1. \A u \in Threads \ {t} : /\ pc'[u] = pc[u] /\ n'[u] = n[u] /\ addr'[u] = addr[u]
                                 /\ head'[u] = head[u]
    BY <1>0, OthersAlone DEF PushStep, PopStep
  <1>2. UNCHANGED <<log, prod, cons, n, addr, head>>
    BY DEF PushCheck, PopCheck
  <1>3. Items' = Items /\ \A u \in Threads \ {t} : AbsCall(u)' = AbsCall(u)
    BY <1>0, <1>1, <1>2, OthersKept
  <1>4. AbsCall(t)' = [op |-> "none", n |-> 0, items |-> addr[t]]
    <2>1. AbsCall(t)' = Shown(pc'[t], n[t], addr[t], Reserved(t)')
      BY <1>2, AbsCallShown, Zenon
    <2> QED
      BY <2>1, ShownBy
  <1>5. Calls' = [Calls EXCEPT ![t] = [op |-> "none", n |-> 0, items |-> addr[t]]]
    BY <1>3, <1>4, CallsBecome
  <1>6. /\ cons.head \in Nat /\ prod.tail \in Nat /\ prod.head \in Nat /\ cons.tail \in Nat
        /\ Max \in Nat /\ n[t] \in Nat /\ Len(Items) = prod.tail - cons.head
    <2>1. /\ log \in Seq(Value) /\ cons.head \in Nat /\ prod.tail \in Nat /\ cons.head <= prod.tail
          /\ prod.tail <= Len(log)
      BY <1>0, Numbers
    <2>2. Len(Items) = prod.tail - cons.head
      BY <2>1, Stretch DEF Items
    <2> QED
      BY <1>0, <2>1, <2>2, Numbers
  <1>7. CASE PushCheck(t)
    <2>1. pc[t] = "push_space" /\ t \notin Writing \cup Reading
      BY <1>7 DEF PushCheck, Writing, Reading
    <2>2. Calls[t] = [op |-> "push", n |-> n[t], items |-> addr[t]]
      <3>1. pc[t] \in PushPc \ {"push_count"}
        BY <2>1 DEF PushPc
      <3>2. AbsCall(t) = [op |-> "push", n |-> n[t], items |-> addr[t]]
        BY <3>1, AbsCallShown, ShownBy
      <3> QED
        BY <3>2 DEF Calls
    <2>3. n[t] > Max + cons.tail - prod.head
      BY <1>0, <1>7, Refused
    <2>4. n[t] + Len(Items) + Rest(t) > Max
      <3>1. Rest(t) \in Nat /\ prod.head - prod.tail + cons.head - cons.tail <= Rest(t)
        BY <2>1, UnderwayCovers DEF Rest
      <3>2. Len(Items) = prod.tail - cons.head /\ cons.tail <= cons.head
        BY <1>0, <1>6, Numbers
      <3> DEFINE ph == prod.head
                 pt == prod.tail
                 ch == cons.head
                 ct == cons.tail
                 len == Len(Items)
                 rest == Rest(t)
                 k == n[t]
      <3>3. /\ ph \in Nat /\ pt \in Nat /\ ch \in Nat /\ ct \in Nat /\ rest \in Nat /\ k \in Nat
            /\ Max \in Nat /\ len = pt - ch /\ k > Max + ct - ph /\ ph - pt + ch - ct <= rest
        BY <1>6, <2>3, <3>1, <3>2
      <3> HIDE DEF ph, pt, ch, ct, len, rest, k
      <3>4. k + len + rest > Max
        BY <3>3
      <3> QED
        BY <3>4 DEF len, rest, k
    <2>5. Fifo!RefusePush(t)
      <3>1. Calls[t].op = "push" /\ Calls[t].n = n[t] /\ Calls[t].items = addr[t]
        BY <2>2
      <3>2. /\ Calls[t].n + Len(Items) + Rest(t) > Max
            /\ Calls' = [Calls EXCEPT ![t] = [op |-> "none", n |-> 0, items |-> Calls[t].items]]
        BY <1>5, <2>4, <3>1, Zenon
      <3> QED
        BY <1>3, <3>1, <3>2, RefusePushIs, Zenon
    <2> QED
      BY <2>5
  <1>8. CASE PopCheck(t)
    <2>1. pc[t] = "pop_avail" /\ addr[t] = <<>>
      BY <1>0, <1>8 DEF PopCheck, Inv, Locals
    <2>2. Calls[t] = [op |-> "pop", n |-> n[t], items |-> <<>>]
      <3>1. AbsCall(t) = [op |-> "pop", n |-> n[t], items |-> <<>>]
        BY <2>1, AbsCallShown, ShownBy
      <3> QED
        BY <3>1 DEF Calls
    <2>3. n[t] > Len(Items)
      BY <1>0, <1>6, <1>8, Refused
    <2>4. Fifo!RefusePop(t)
      <3>1. Calls[t].op = "pop" /\ Calls[t].n = n[t]
        BY <2>2
      <3>2. /\ Calls[t].n > Len(Items)
            /\ Calls' = [Calls EXCEPT ![t] = [op |-> "none", n |-> 0, items |-> <<>>]]
        BY <1>5, <2>1, <2>3, <3>1, Zenon
      <3> QED
        BY <1>3, <3>1, <3>2, RefusePopIs, Zenon
    <2> QED
      BY <2>4
  <1> QED
    BY <1>7, <1>8

\* The ring as ring_creat leaves it is an empty queue nobody is calling.
LEMMA InitPromise == Init => Fifo!Init
  <1> SUFFICES ASSUME Init PROVE Fifo!Init
    OBVIOUS
  <1>1. /\ log = <<>> /\ cons.head = 0 /\ prod.tail = 0
        /\ \A t \in Threads : pc[t] = "idle" /\ addr[t] = <<>>
    BY DEF Init, ring_creat
  <1>2. SubSeq(log, cons.head + 1, prod.tail) = <<>>
    <2>1. cons.head + 1 \in Int /\ prod.tail \in Int /\ prod.tail < cons.head + 1
      BY <1>1
    <2> QED
      BY <2>1, SubSeqEmpty
  <1>3. \A t \in Threads : AbsCall(t) = [op |-> "none", n |-> 0, items |-> <<>>]
    <2> SUFFICES ASSUME NEW t \in Threads
                 PROVE  AbsCall(t) = [op |-> "none", n |-> 0, items |-> <<>>]
      OBVIOUS
    <2>1. pc[t] = "idle" /\ addr[t] = <<>>
      BY <1>1
    <2>2. AbsCall(t) = [op |-> "none", n |-> 0, items |-> addr[t]]
      BY <2>1, AbsCallShown, ShownBy
    <2> QED
      BY <2>1, <2>2
  <1> QED
    BY <1>2, <1>3 DEF Fifo!Init

\* Every step of the ring is a step of the promise or none.
LEMMA StepPromise ==
    ASSUME Accounted, InTime, [Next]_vars
    PROVE  [Fifo!Next]_(Fifo!vars)
  <1>1. ASSUME NEW t \in Threads, PushCall(t) \/ PopCall(t) \/ PushStep(t) \/ PopStep(t)
        PROVE  [Fifo!Next]_(Fifo!vars)
    <2>1. CASE PushCall(t) \/ PopCall(t)
      BY <2>1, CallsSeen DEF Fifo!Next
    <2>2. CASE PushPublish(t)
      BY <2>2, PublishPuts DEF Fifo!Next
    <2>3. CASE PopReserve(t)
      BY <2>3, ReserveTakes DEF Fifo!Next
    <2>4. CASE PushCount(t) \/ PopCount(t)
      BY <2>4, CountReturns DEF Fifo!Next
    <2>5. CASE (PushCheck(t) \/ PopCheck(t)) /\ pc'[t] = "idle"
      BY <2>5, RefusalsSeen DEF Fifo!Next
    <2>6. CASE /\ \/ PushReadHead(t) \/ PushCheck(t) \/ PushRetry(t) \/ PushReserve(t) \/ PushWrite(t)
                  \/ PopReadHead(t) \/ PopCheck(t) \/ PopRetry(t) \/ PopRead(t) \/ PopRelease(t)
               /\ pc'[t] # "idle"
      BY <2>6, Unseen DEF Items, Calls, Fifo!vars
    <2>7. CASE /\ \/ PushReadHead(t) \/ PushRetry(t) \/ PushReserve(t) \/ PushWrite(t)
                  \/ PopReadHead(t) \/ PopRetry(t) \/ PopRead(t) \/ PopRelease(t)
               /\ pc'[t] = "idle"
      <3>1. pc \in [Threads -> {"idle"} \cup PushPc \cup PopPc]
        BY DEF Accounted, Inv, TypeOK
      <3> QED
        BY <2>7, <3>1
        DEF PushReadHead, PushRetry, PushReserve, PushWrite, PopReadHead, PopRetry, PopRead,
            PopRelease, Goto
    <2> QED
      BY <1>1, <2>1, <2>2, <2>3, <2>4, <2>5, <2>6, <2>7 DEF PushStep, PopStep
  <1>2. ASSUME UNCHANGED vars PROVE UNCHANGED Fifo!vars
    <2>1. UNCHANGED <<prod, cons, pc, head, n, addr, log>>
      BY <1>2 DEF vars
    <2>2. \A t \in Threads : AbsCall(t)' = AbsCall(t)
      BY <2>1 DEF AbsCall, Reserved
    <2> QED
      BY <2>1, <2>2 DEF Fifo!vars
  <1>3. Finished => UNCHANGED vars
    BY DEF Finished
  <1> QED
    BY <1>1, <1>2, <1>3 DEF Next

\* Every behaviour of ring_mpush and ring_mpop is one of the bounded first-in
\* first-out queue, for every number of threads, capacity and batch size: a push
\* takes effect where it publishes (line 129) and a pop where its CAS reserves
\* (line 165), as long as no thread sleeps between its two reads while 2^32
\* pointers pass.
THEOREM RingImplementsFifo == Spec /\ []InTime => ImplementsFifo
  <1>1. Init => Fifo!Init
    BY InitPromise
  <1>2. Accounted /\ InTime /\ [Next]_vars => [Fifo!Next]_(Fifo!vars)
    BY StepPromise
  <1> QED
    BY <1>1, <1>2, RingAccounted, PTL DEF Spec, ImplementsFifo, Fifo!Spec
=============================================================================
