------------------------------- MODULE MemPool ------------------------------
(***************************************************************************)
(* The memory pool of mem_pool.c.  Small requests are cut from blocks of   *)
(* one size and come back all at once; larger ones are allocations of      *)
(* their own, which the pool remembers in entries that are themselves cut  *)
(* from its blocks and are used again when their allocation is freed.      *)
(* Block i lies at the addresses from (i - 1) * BlockSize; the larger      *)
(* allocations are numbered, and lie at and after FarAway.                 *)
(***************************************************************************)
EXTENDS Integers, FiniteSets, Sequences

CONSTANTS
    MaxFailed,      \* a block that had no room more often than this is passed over (4)
    Scanned,        \* the entries that are looked at for one to use again (5)
    BlockSize,      \* the size of the pool, and of each block that it adds
    MaxBlocks,      \* a bound on the blocks
    MaxLarge        \* a bound on the larger allocations there are at a time

\* In units of half a pointer: what the heads of the first and of a later block and
\* an entry for a larger allocation take, and the alignment of an address.
PoolHead == 14
BlockHead == 8
EntrySize == 4
Aligned(at) == at + (at % 2)

FarAway == 1000
None == -1

Largest == BlockSize - PoolHead
Start(i) == (i - 1) * BlockSize
End(i) == i * BlockSize

\* A pool: of each block its "last" and how often it had no room, the block in which
\* a request starts, the entries, newest first, and what malloc has given out.
NewPool == [last |-> <<PoolHead>>, failed |-> <<0>>, current |-> 1, large |-> <<>>,
            heap |-> {}]

\* A new block: the blocks that had no room count it, and one that has counted more
\* than MaxFailed before is passed over from now on; the last block counts nothing.
AllocBlock(m, size) ==
    LET n == Len(m.last)
        at == Start(n + 1) + Aligned(BlockHead)
        tired == {i \in m.current..n - 1 : m.failed[i] > MaxFailed}
    IN  [at |-> at,
         m |-> [m EXCEPT
                    !.last = Append(@, at + size),
                    !.failed = Append([i \in 1..n |-> IF i \in m.current..n - 1 THEN @[i] + 1
                                                      ELSE @[i]], 0),
                    !.current = IF tired = {} THEN @
                                ELSE 1 + CHOOSE i \in tired : \A j \in tired : j <= i]]

\* The room is an unsigned number: when the alignment has moved past the end of a
\* block it is a large one, and the request is cut from behind the block.  That takes
\* a block size that is no multiple of the alignment, and no pool has one (see README).
HasRoom(from, end, size) == from > end \/ end - from >= size

\* Room in the first block from the current one on that has it, else a new block.
AllocSmall(m, size, aligned) ==
    LET from(i) == IF aligned THEN Aligned(m.last[i]) ELSE m.last[i]
        fits == {i \in m.current..Len(m.last) : HasRoom(from(i), End(i), size)}
        i == CHOOSE i \in fits : \A j \in fits : i <= j
    IN  IF fits = {} THEN AllocBlock(m, size)
        ELSE [at |-> from(i), m |-> [m EXCEPT !.last = [@ EXCEPT ![i] = from(i) + size]]]

\* malloc: any address that is not in use; here the lowest.
Malloc(m) == CHOOSE at \in FarAway..FarAway + MaxLarge :
    at \notin m.heap /\ \A b \in FarAway..at - 1 : b \in m.heap

\* A new entry at the head of the list.
AddEntry(m, at) ==
    LET r == AllocSmall(m, EntrySize, TRUE)
    IN  [r.m EXCEPT !.large = <<[at |-> r.at, alloc |-> at]>> \o @, !.heap = @ \cup {at}]

\* One of the first entries, if its allocation was freed, else a new one.
AllocLarge(m) ==
    LET at == Malloc(m)
        free == {i \in DOMAIN m.large : i <= Scanned /\ m.large[i].alloc = None}
        i == CHOOSE i \in free : \A j \in free : i <= j
    IN  [at |-> at,
         m |-> IF free = {} THEN AddEntry(m, at)
               ELSE [m EXCEPT !.large = [@ EXCEPT ![i] = [@ EXCEPT !.alloc = at]],
                              !.heap = @ \cup {at}]]

PoolAlloc(m, size, aligned) ==
    IF size <= Largest THEN AllocSmall(m, size, aligned) ELSE AllocLarge(m)

\* An allocation of its own whatever its size.
MemAlign(m) == [at |-> Malloc(m), m |-> AddEntry(m, Malloc(m))]

\* Only a larger allocation is freed, and its entry kept; -1 for any other address.
PoolDealloc(m, at) ==
    LET of == {i \in DOMAIN m.large : m.large[i].alloc = at}
        i == CHOOSE i \in of : \A j \in of : i <= j
    IN  IF of = {} THEN [ret |-> -1, m |-> m]
        ELSE [ret |-> 0, m |-> [m EXCEPT !.large = [@ EXCEPT ![i] = [@ EXCEPT !.alloc = None]],
                                         !.heap = @ \ {at}]]

\* The larger allocations that the list knows are freed.
FreeLarge(m) == m.heap \ {m.large[i].alloc : i \in DOMAIN m.large}

\* Everything comes back; the blocks stay.
PoolReset(m) ==
    [last |-> [i \in DOMAIN m.last |-> Start(i) + PoolHead],
     failed |-> [i \in DOMAIN m.failed |-> 0],
     current |-> 1, large |-> <<>>, heap |-> FreeLarge(m)]

\* Destroyed, the blocks too, and created again.
Renewed(m) == [NewPool EXCEPT !.heap = FreeLarge(m)]

-----------------------------------------------------------------------------
\* What must hold of a pool from which the intervals in "live" were handed out: no
\* two of them, and no entry or head of a block, share a unit; each is within a
\* block; and the larger ones are those of the list, each once.
PoolExact(m, live) ==
    LET small == {x \in live : x.at < FarAway}
        entries == {[at |-> m.large[i].at, size |-> EntrySize] : i \in DOMAIN m.large}
        heads == {[at |-> Start(i), size |-> IF i = 1 THEN PoolHead ELSE BlockHead] :
                    i \in DOMAIN m.last}
        all == small \cup entries \cup heads
        apart(x, y) == x.at + x.size <= y.at \/ y.at + y.size <= x.at
        kept == SelectSeq(m.large, LAMBDA l : l.alloc # None)
    IN  /\ Cardinality(all) = Cardinality(small) + Len(m.large) + Len(m.last)
        /\ \A x, y \in all : x # y => apart(x, y)
        /\ \A x \in all : \E i \in DOMAIN m.last :
                Start(i) <= x.at /\ x.at + x.size <= m.last[i] /\ m.last[i] <= End(i)
        /\ m.heap = {x.at : x \in live \ small}
        /\ m.heap = {kept[i].alloc : i \in DOMAIN kept}
        /\ Cardinality(m.heap) = Len(kept)
=============================================================================
