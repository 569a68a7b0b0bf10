----------------------------- MODULE Allocators -----------------------------
(***************************************************************************)
(* The allocators of lib/core in use: callers ask for memory of any of a   *)
(* few sizes and give back what they hold, in any order.  A behaviour uses *)
(* one allocator.  slab.c takes its lock around a call, and a memory pool  *)
(* has one user, so that their calls are one step.  The lock of shm_slab.c *)
(* is modelled: a call of it that gives back a small chunk may unlock what *)
(* another process has locked, and then two calls change the pool at once; *)
(* what they make of it is not defined, and the model stops there.         *)
(***************************************************************************)
EXTENDS ShmSlab

CONSTANTS
    Allocs,         \* those in use, of "slab", "shm_slab" and "mem_pool"
    SlabSizes,      \* the sizes asked of a slab allocator
    ShmSlabSizes,   \* of the one in shared memory: no run of several pages (see below)
    PoolSizes,      \* of a memory pool
    MaxCallers,     \* bound: processes that call the one in shared memory
    MaxLive,        \* of each allocator, a bound on what is held at a time
    MaxShared,      \* the same where several processes share the allocator
    MaxSmall,       \* a bound on what one process holds of shm_slab, all but one small
    MaxFailed, Scanned, BlockSize, MaxBlocks, MaxLarge      \* those of MemPool

P == INSTANCE MemPool

VARIABLES
    alloc,      \* the allocator
    pool,       \* its pool
    lent,       \* what was handed out and not given back: addresses and sizes
    callers,    \* how many processes call it
    lock        \* the lock, the calls between it and their first unlock, and the
                \* calls before their second

allocVars == <<alloc, pool, lent, callers, lock>>

AllocInit ==
    /\ alloc \in Allocs
    /\ pool = CASE alloc = "slab" -> NewSlab
                [] alloc = "shm_slab" -> NewShmSlab
                [] alloc = "mem_pool" -> P!NewPool
    /\ lent = {}
    /\ callers \in 1..IF alloc = "shm_slab" THEN MaxCallers ELSE 1
    /\ lock = [held |-> FALSE, inside |-> 0, again |-> 0]

Lend(at, size) ==
    lent' = IF at = Nil THEN lent ELSE lent \cup {[at |-> at, size |-> size]}

SlabCall ==
    /\ alloc = "slab"
    /\ \/ \E size \in SlabSizes : LET r == SlabAlloc(pool, size)
                                  IN  pool' = r.s /\ Lend(r.at, size)
       \/ \E x \in lent : pool' = SlabDealloc(pool, x.at) /\ lent' = lent \ {x}
    /\ UNCHANGED lock

\* Two calls are between their lock and their unlock.
Overlap == lock.inside > 1

\* Any call begins by taking the lock.  A process alone finds it free every time: its
\* calls are one step.
ShmSlabLock ==
    /\ callers > 1 /\ lock.inside + lock.again < callers
    /\ ~lock.held
    /\ lock' = [lock EXCEPT !.held = TRUE, !.inside = @ + 1]
    /\ UNCHANGED <<pool, lent>>

\* The lock at the end of a call that may have a second unlock to make.
FirstUnlock(twice) ==
    lock' = IF callers = 1 THEN lock
            ELSE [held |-> FALSE, inside |-> 0,
                  again |-> IF twice THEN lock.again + 1 ELSE lock.again]

ShmSlabCall ==
    /\ callers = 1 \/ lock.inside = 1
    /\ \/ /\ \E size \in ShmSlabSizes : LET r == ShmSlabAlloc(pool, size)
                                        IN  pool' = r.s /\ Lend(r.at, size)
          /\ FirstUnlock(FALSE)
       \/ \E x \in lent :
             /\ pool' = ShmSlabDealloc(pool, x.at) /\ lent' = lent \ {x}
             /\ FirstUnlock(UnlocksTwice(pool, x.at))

\* The second unlock frees the lock, whoever holds it.
ShmSlabUnlock ==
    /\ lock.again > 0
    /\ lock' = [lock EXCEPT !.held = FALSE, !.again = @ - 1]
    /\ UNCHANGED <<pool, lent>>

ShmSlabStep ==
    /\ alloc = "shm_slab"
    /\ \/ ~Overlap /\ (ShmSlabLock \/ ShmSlabCall \/ ShmSlabUnlock)
       \/ Overlap /\ UNCHANGED <<pool, lent, lock>>

\* A request of a memory pool, within the bounds on its blocks and on malloc.
PoolGet ==
    /\ Cardinality(pool.heap) < MaxLarge
    /\ \/ \E size \in PoolSizes, aligned \in BOOLEAN :
            LET r == P!PoolAlloc(pool, size, aligned)
            IN  pool' = r.m /\ Lend(r.at, size)
       \/ LET r == P!MemAlign(pool) IN pool' = r.m /\ Lend(r.at, 1)
    /\ Len(pool'.last) <= MaxBlocks

PoolCall ==
    /\ alloc = "mem_pool"
    /\ UNCHANGED lock
    /\ \/ PoolGet
       \/ \E x \in lent : LET r == P!PoolDealloc(pool, x.at)
                          IN  /\ pool' = r.m
                              /\ lent' = IF r.ret = 0 THEN lent \ {x} ELSE lent
       \/ pool' = P!PoolReset(pool) /\ lent' = {}
       \/ pool' = P!Renewed(pool) /\ lent' = {}

Small == {x \in lent' : ShmTypeOf(x.size) = "small"}

WithinBounds ==
    IF callers > 1 THEN Cardinality(lent') <= MaxShared
    ELSE \/ Cardinality(lent') <= MaxLive[alloc]
         \/ /\ alloc = "shm_slab"
            /\ Cardinality(lent') <= MaxSmall /\ Cardinality(lent' \ Small) <= 1

AllocNext ==
    /\ UNCHANGED <<alloc, callers>>
    /\ SlabCall \/ ShmSlabStep \/ PoolCall
    /\ WithinBounds

\* No two callers hold the same memory, and none holds what the allocator keeps for
\* itself; every page, block and larger allocation is in one place, so that nothing
\* is lost; and the lists and maps agree with what was handed out.  Of the allocator
\* in shared memory this is so until two calls overlap.
MemoryExact ==
    CASE alloc = "slab" -> SlabExact(pool, lent)
      [] alloc = "shm_slab" -> ShmSlabExact(pool, lent)
      [] alloc = "mem_pool" -> P!PoolExact(pool, lent)
=============================================================================
