------------------------------ MODULE ShmQueue ------------------------------
(***************************************************************************)
(* The queue between processes (shm_queue.c): a ring of offsets of blocks  *)
(* (shm_ring.c) and a pool of the blocks that are free, which is a ring    *)
(* too (shm_slot.c).  No lock: a process reserves places by a              *)
(* compare-and-set of the head, copies, and moves the tail after those who *)
(* reserved before it.  A step is one access of what the processes share.  *)
(*                                                                         *)
(* The indexes of a ring only grow.  They are numbers of 32 bits in the    *)
(* code and never come round here, since MaxAllocs is small.               *)
(***************************************************************************)
EXTENDS Naturals, Sequences, FiniteSets

CONSTANTS
    Procs,      \* processes that attached the queue
    NumBlocks,  \* the blocks, max of shm_queue_creat
    BlockSize,  \* their size
    CallSizes,  \* bound: sizes asked for
    MaxBatch,   \* bound: blocks pushed or popped at once
    MaxAllocs   \* bound: blocks taken from the pool

ASSUME ShmQueueAssumption ==
    /\ IsFiniteSet(Procs)
    /\ NumBlocks \in Nat \ {0} /\ MaxBatch \in 1 .. NumBlocks
    /\ {BlockSize, MaxAllocs} \subseteq Nat /\ CallSizes \subseteq Nat

VARIABLES
    ph, pt,     \* per ring, head and tail of the producers
    ch, ct,     \* per ring, head and tail of the consumers
    off,        \* per ring, the blocks in its array
    num,        \* per ring, its count
    shm,        \* per process, where it is in a call
    filled,     \* per process, the blocks it filled and has not pushed
    taken,      \* per process, the blocks it popped and has not given back
    allocs      \* blocks taken from the pool so far

ringVars == <<ph, pt, ch, ct, off, num>>
shmVars == <<ringVars, shm, filled, taken, allocs>>

\* The pool has its ring behind its own header.
Rings == {"queue", "slot"}
QBlocks == 1 .. NumBlocks

\* The number of places of a ring, a power of two, and the place of an index.
Powers == {2^i : i \in 0 .. NumBlocks}
Cap == CHOOSE c \in Powers : c >= NumBlocks /\ \A d \in Powers : d >= NumBlocks => c <= d
Place(i) == i % Cap

\* The count of a ring, a word, is below zero for a moment when a pop counts before
\* the push it popped.  Sixteen bits stand for the 32 of the code.
Word16 == 2^16

\* Among the first powers of two is one that is large enough; it is a number of the code.
ASSUME CapAssumption ==
    /\ Powers \subseteq Nat
    /\ \E c \in Powers : c >= NumBlocks /\ \A d \in Powers : d >= NumBlocks => c <= d
    /\ Cap < Word16

NoCall == [do |-> "no"]

RingInit(r, n) ==
    /\ ch[r] = 0 /\ ct[r] = 0
    /\ ph[r] = n /\ pt[r] = n /\ num[r] = n

\* Every block is pushed into the pool.
SlotInit ==
    /\ RingInit("slot", NumBlocks)
    /\ \A b \in QBlocks : off["slot"][Place(b - 1)] = b

ShmQueueInit ==
    /\ ph = [r \in Rings |-> IF r = "slot" THEN NumBlocks ELSE 0]
    /\ pt = ph /\ num = ph
    /\ ch = [r \in Rings |-> 0] /\ ct = ch
    /\ off = [r \in Rings |-> [i \in 0 .. Cap - 1 |->
                 IF r = "slot" /\ i < NumBlocks THEN i + 1 ELSE 0]]
    /\ RingInit("queue", 0) /\ SlotInit
    /\ shm = [p \in Procs |-> NoCall]
    /\ filled = [p \in Procs |-> <<>>] /\ taken = [p \in Procs |-> <<>>]
    /\ allocs = 0
-----------------------------------------------------------------------------
\* The calls.  Each is a push or a pop of one of the rings.

Call(p, r, do, n) ==
    /\ shm[p] = NoCall
    /\ shm' = [shm EXCEPT ![p] = [do |-> do, ring |-> r, n |-> n]]

\* shm_queue_malloc: refused when the block is too small.
SlotAlloc(p, size) ==
    /\ size <= BlockSize
    /\ allocs < MaxAllocs
    /\ allocs' = allocs + 1
    /\ Call(p, "slot", "pop_head", 1)
    /\ UNCHANGED <<ringVars, filled, taken>>

SlotDealloc(p) ==
    /\ taken[p] # <<>>
    /\ Call(p, "slot", "push_head", 1)
    /\ UNCHANGED <<ringVars, filled, taken, allocs>>

ShmQueueMpush(p, n) ==
    /\ n <= Len(filled[p])
    /\ Call(p, "queue", "push_head", n)
    /\ UNCHANGED <<ringVars, filled, taken, allocs>>

ShmQueueMpop(p, n) ==
    /\ Call(p, "queue", "pop_head", n)
    /\ UNCHANGED <<ringVars, filled, taken, allocs>>
-----------------------------------------------------------------------------
\* shm_ring_mpush.  What it pushes is what the caller filled, or, into the pool,
\* what the caller popped.
Pushed(p) == IF shm[p].ring = "queue" THEN filled[p] ELSE taken[p]

To(p, do) == shm' = [shm EXCEPT ![p].do = do]

At(p, do) == shm[p].do = do

PushHead(p) ==
    /\ At(p, "push_head")
    /\ shm' = [shm EXCEPT ![p] = [do |-> "push_room", ring |-> @.ring, n |-> @.n,
                                  head |-> ph[shm[p].ring]]]
    /\ UNCHANGED <<ringVars, filled, taken, allocs>>

\* A pool without room is the end of the program (an assertion); a full queue keeps
\* the blocks with the caller.
PushRoom(p) ==
    /\ At(p, "push_room")
    /\ LET r == shm[p].ring
       IN  IF shm[p].n + shm[p].head > Cap + ct[r]
           THEN shm' = [shm EXCEPT ![p] = IF r = "slot" THEN [@ EXCEPT !.do = "abort"] ELSE NoCall]
           ELSE To(p, "push_cas")
    /\ UNCHANGED <<ringVars, filled, taken, allocs>>

PushCas(p) ==
    /\ At(p, "push_cas")
    /\ LET r == shm[p].ring
       IN  IF ph[r] = shm[p].head
           THEN /\ ph' = [ph EXCEPT ![r] = @ + shm[p].n]
                /\ To(p, "push_copy")
           ELSE To(p, "push_head") /\ UNCHANGED ph
    /\ UNCHANGED <<pt, ch, ct, off, num, filled, taken, allocs>>

PushCopy(p) ==
    /\ At(p, "push_copy")
    /\ LET r == shm[p].ring
           h == shm[p].head
       IN  off' = [off EXCEPT ![r] = [i \in DOMAIN @ |->
                     IF \E k \in 1 .. shm[p].n : i = Place(h + k - 1)
                     THEN Pushed(p)[CHOOSE k \in 1 .. shm[p].n : i = Place(h + k - 1)]
                     ELSE @[i]]]
    /\ To(p, "push_tail")
    /\ UNCHANGED <<ph, pt, ch, ct, num, filled, taken, allocs>>

\* Mutant: the tail is moved without waiting for those who reserved before.
PushTailAtOnce(p) ==
    /\ At(p, "push_tail")
    /\ LET r == shm[p].ring
       IN  /\ pt' = [pt EXCEPT ![r] = shm[p].head + shm[p].n]
           /\ IF r = "queue" THEN filled' = [filled EXCEPT ![p] = SubSeq(@, shm[p].n + 1, Len(@))] /\ UNCHANGED taken
              ELSE taken' = [taken EXCEPT ![p] = Tail(@)] /\ UNCHANGED filled
    /\ To(p, "push_num")
    /\ UNCHANGED <<ph, ch, ct, off, num, allocs>>

PushTail(p) ==
    /\ At(p, "push_tail")
    /\ LET r == shm[p].ring
       IN  /\ pt[r] = shm[p].head
           /\ pt' = [pt EXCEPT ![r] = @ + shm[p].n]
           /\ IF r = "queue"
              THEN filled' = [filled EXCEPT ![p] = SubSeq(@, shm[p].n + 1, Len(@))] /\ UNCHANGED taken
              ELSE taken' = [taken EXCEPT ![p] = Tail(@)] /\ UNCHANGED filled
    /\ To(p, "push_num")
    /\ UNCHANGED <<ph, ch, ct, off, num, allocs>>

PushNum(p) ==
    /\ At(p, "push_num")
    /\ num' = [num EXCEPT ![shm[p].ring] = (@ + shm[p].n) % Word16]
    /\ shm' = [shm EXCEPT ![p] = NoCall]
    /\ UNCHANGED <<ph, pt, ch, ct, off, filled, taken, allocs>>
-----------------------------------------------------------------------------
\* shm_ring_mpop: all or nothing.
PopHead(p) ==
    /\ At(p, "pop_head")
    /\ shm' = [shm EXCEPT ![p] = [do |-> "pop_data", ring |-> @.ring, n |-> @.n,
                                  head |-> ch[shm[p].ring]]]
    /\ UNCHANGED <<ringVars, filled, taken, allocs>>

PopData(p) ==
    /\ At(p, "pop_data")
    /\ IF shm[p].n > pt[shm[p].ring] - shm[p].head
       THEN shm' = [shm EXCEPT ![p] = NoCall]
       ELSE To(p, "pop_cas")
    /\ UNCHANGED <<ringVars, filled, taken, allocs>>

PopCas(p) ==
    /\ At(p, "pop_cas")
    /\ LET r == shm[p].ring
       IN  IF ch[r] = shm[p].head
           THEN ch' = [ch EXCEPT ![r] = @ + shm[p].n] /\ To(p, "pop_copy")
           ELSE To(p, "pop_head") /\ UNCHANGED ch
    /\ UNCHANGED <<ph, pt, ct, off, num, filled, taken, allocs>>

\* The block from the pool is filled by the caller.
PopCopy(p) ==
    /\ At(p, "pop_copy")
    /\ LET r == shm[p].ring
           got == [k \in 1 .. shm[p].n |-> off[r][Place(shm[p].head + k - 1)]]
       IN  IF r = "slot" THEN filled' = [filled EXCEPT ![p] = @ \o got] /\ UNCHANGED taken
           ELSE taken' = [taken EXCEPT ![p] = @ \o got] /\ UNCHANGED filled
    /\ To(p, "pop_tail")
    /\ UNCHANGED <<ringVars, allocs>>

PopTail(p) ==
    /\ At(p, "pop_tail")
    /\ LET r == shm[p].ring
       IN  ct[r] = shm[p].head /\ ct' = [ct EXCEPT ![r] = @ + shm[p].n]
    /\ To(p, "pop_num")
    /\ UNCHANGED <<ph, pt, ch, off, num, filled, taken, allocs>>

PopNum(p) ==
    /\ At(p, "pop_num")
    /\ num' = [num EXCEPT ![shm[p].ring] = (@ + (Word16 - shm[p].n)) % Word16]
    /\ shm' = [shm EXCEPT ![p] = NoCall]
    /\ UNCHANGED <<ph, pt, ch, ct, off, filled, taken, allocs>>

RingStep(p) ==
    \/ PushHead(p) \/ PushRoom(p) \/ PushCas(p) \/ PushCopy(p) \/ PushTail(p) \/ PushNum(p)
    \/ PopHead(p) \/ PopData(p) \/ PopCas(p) \/ PopCopy(p) \/ PopTail(p) \/ PopNum(p)

ShmQueueNext ==
    \E p \in Procs :
        \/ RingStep(p)
        \/ SlotDealloc(p)
        \/ \E size \in CallSizes : SlotAlloc(p, size)
        \/ \E n \in 1 .. MaxBatch : ShmQueueMpush(p, n) \/ ShmQueueMpop(p, n)

\* Every process that is in a call goes on.
ShmQueueFairness == \A p \in Procs : WF_shmVars(RingStep(p))
-----------------------------------------------------------------------------
\* The blocks at the indexes of a ring, and the indexes reserved by a pop that has not
\* copied its blocks yet.
RingBlocks(r) == [i \in 0 .. ph[r] |-> off[r][Place(i)]]
Copying(p) == IF At(p, "pop_copy") THEN shm[p].head .. shm[p].head + shm[p].n - 1 ELSE {}

\* The places where a block is: between the heads of a ring, reserved there by a
\* pop, or with a process.
BlockAt(b, what, who, spots, s) == {<<what, who, i>> : i \in {j \in spots : s[j] = b}}
PlacesOf(b) ==
    (UNION {BlockAt(b, "ring", r, ch[r] .. pt[r] - 1, RingBlocks(r)) : r \in Rings})
    \cup (UNION {BlockAt(b, "copy", p, Copying(p), RingBlocks(shm[p].ring)) : p \in Procs})
    \cup (UNION {BlockAt(b, "filled", p, DOMAIN filled[p], filled[p]) : p \in Procs})
    \cup (UNION {BlockAt(b, "taken", p, DOMAIN taken[p], taken[p]) : p \in Procs})

\* A block is in exactly one place: nobody writes to what another process reads, no
\* block is lost, and a block that was popped can always be given back.  When no
\* process is in a call the count of a ring is that of its blocks.
ShmQueueExact ==
    /\ \A b \in QBlocks : Cardinality(PlacesOf(b)) = 1
    /\ \A p \in Procs : ~At(p, "abort")
    /\ (\A p \in Procs : shm[p] = NoCall) =>
          \A r \in Rings : num[r] = pt[r] - ct[r] /\ ph[r] = pt[r] /\ ch[r] = ct[r]

\* Every call returns, although it waits for those who reserved before it.
CallsReturn == \A p \in Procs : []<>(shm[p] = NoCall)
=============================================================================
