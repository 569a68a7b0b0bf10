------------------------------ MODULE MemSegRef -----------------------------
(***************************************************************************)
(* Counted references to segments of memory (mem_seg_ref.c).  A tree holds *)
(* an item for each segment, found by any address within it, under a       *)
(* read-write lock.  References are counted under the read lock by atomic  *)
(* operations; who counts down to zero takes the write lock, looks at the  *)
(* count again, takes the item out of the tree, and gives the memory back  *)
(* after it released the lock.  A thread that knows the address may count  *)
(* the segment up before that, when nobody has a reference to it any more, *)
(* and then down to zero once more: two threads free it, what they do is   *)
(* not defined, and the model stops there.                                 *)
(***************************************************************************)
EXTENDS Naturals, FiniteSets

CONSTANTS
    RefUsers,   \* the threads
    MemSize,    \* the addresses of the pool are below
    SegLengths, \* bound: sizes asked for
    MaxRefs     \* bound: references to a segment

ASSUME MemSegRefAssumption ==
    /\ {MemSize, MaxRefs} \subseteq Nat
    /\ SegLengths \subseteq Nat \ {0}

VARIABLES
    items,      \* per place for an item: address, size and count
    refTree,    \* those that are in the tree
    given,      \* the segments the pool has given out, by item or to be
    refs,       \* per thread, how many references it has to the segment at an address
    msr,        \* per thread, where it is in a call
    revived     \* history: items that were counted up from zero

segVars == <<items, refTree, given, refs, msr, revived>>

Addrs == 0 .. MemSize - 1
Span(s) == s.addr .. s.addr + s.size - 1
ItemsAt(a) == {i \in refTree : a \in Span(items[i])}
NoItem == [addr |-> 0, size |-> 0, count |-> 0]
NoSegCall == [do |-> "out"]

MemSegRefInit ==
    /\ items = [i \in Addrs |-> NoItem] /\ refTree = {} /\ given = {}
    /\ refs = [u \in RefUsers |-> [a \in Addrs |-> 0]]
    /\ msr = [u \in RefUsers |-> NoSegCall]
    /\ revived = {}
-----------------------------------------------------------------------------
\* The pool gives out any addresses that are free.
SegAlloc(u, size) ==
    /\ msr[u] = NoSegCall
    /\ \E a \in Addrs :
          LET s == [addr |-> a, size |-> size]
          IN  /\ Span(s) \subseteq Addrs
              /\ \A g \in given : Span(g) \cap Span(s) = {}
              /\ given' = given \cup {s}
              /\ msr' = [msr EXCEPT ![u] = [do |-> "query", seg |-> s]]
    /\ UNCHANGED <<items, refTree, refs, revived>>

\* mem_seg_ref_add counts up an item that is there with the same size, else makes one.
SegQuery(u) ==
    /\ msr[u].do = "query"
    /\ LET s == msr[u].seg
           i == CHOOSE i \in ItemsAt(s.addr) : TRUE
       IN  IF ItemsAt(s.addr) = {}
           THEN msr' = [msr EXCEPT ![u].do = "insert"] /\ UNCHANGED <<items, refs>>
           ELSE /\ msr' = [msr EXCEPT ![u] = NoSegCall]
                /\ refs' = [refs EXCEPT ![u][s.addr] = @ + 1]
                /\ items' = IF items[i].size = s.size
                            THEN [items EXCEPT ![i].count = @ + 1] ELSE items
    /\ UNCHANGED <<refTree, given, revived>>

\* calloc: the place of an item that was freed may be used again.
NewItem == CHOOSE i \in Addrs : /\ items[i] = NoItem
                                /\ \A j \in Addrs : j < i => items[j] # NoItem

\* Mutant: a new item has no reference.
SegInsertZero(u) ==
    /\ msr[u].do = "insert"
    /\ LET s == msr[u].seg
       IN  IF ItemsAt(s.addr) # {}
           THEN msr' = [msr EXCEPT ![u].do = "query"] /\ UNCHANGED <<items, refTree, refs>>
           ELSE /\ items' = [items EXCEPT ![NewItem] = [addr |-> s.addr, size |-> s.size, count |-> 0]]
                /\ refTree' = refTree \cup {NewItem}
                /\ refs' = [refs EXCEPT ![u][s.addr] = @ + 1]
                /\ msr' = [msr EXCEPT ![u] = NoSegCall]
    /\ UNCHANGED <<given, revived>>

SegInsert(u) ==
    /\ msr[u].do = "insert"
    /\ LET s == msr[u].seg
       IN  IF ItemsAt(s.addr) # {}
           THEN msr' = [msr EXCEPT ![u].do = "query"] /\ UNCHANGED <<items, refTree, refs>>
           ELSE /\ items' = [items EXCEPT ![NewItem] = [addr |-> s.addr, size |-> s.size, count |-> 1]]
                /\ refTree' = refTree \cup {NewItem}
                /\ refs' = [refs EXCEPT ![u][s.addr] = @ + 1]
                /\ msr' = [msr EXCEPT ![u] = NoSegCall]
    /\ UNCHANGED <<given, revived>>

\* A thread that was told any address of a segment.
SegIncr(u, at) ==
    /\ msr[u] = NoSegCall
    /\ \E i \in ItemsAt(at) :
          LET a == items[i].addr
          IN  /\ items[i].count < MaxRefs
              /\ items' = [items EXCEPT ![i].count = @ + 1]
              /\ refs' = [refs EXCEPT ![u][a] = @ + 1]
              /\ revived' = IF items[i].count = 0 THEN revived \cup {i} ELSE revived
    /\ UNCHANGED <<refTree, given, msr>>

SegDecr(u, at) ==
    /\ msr[u] = NoSegCall
    /\ \E i \in ItemsAt(at) :
          LET a == items[i].addr
          IN  /\ refs[u][a] > 0
              /\ refs' = [refs EXCEPT ![u][a] = @ - 1]
              /\ items' = [items EXCEPT ![i].count = @ - 1]
              /\ msr' = [msr EXCEPT ![u] = IF items'[i].count = 0 THEN [do |-> "zero", item |-> i]
                                           ELSE NoSegCall]
    /\ UNCHANGED <<refTree, given, revived>>

SegZero(u) ==
    /\ msr[u].do = "zero"
    /\ IF items[msr[u].item].count = 0
       THEN /\ refTree' = refTree \ {msr[u].item}
            /\ msr' = [msr EXCEPT ![u].do = "free"]
       ELSE msr' = [msr EXCEPT ![u] = NoSegCall] /\ UNCHANGED refTree
    /\ UNCHANGED <<items, given, refs, revived>>

SegFree(u) ==
    /\ msr[u].do = "free"
    /\ given' = {g \in given : g.addr # items[msr[u].item].addr}
    /\ items' = [items EXCEPT ![msr[u].item] = NoItem]
    /\ msr' = [msr EXCEPT ![u] = NoSegCall]
    /\ revived' = revived \ {msr[u].item}
    /\ UNCHANGED <<refTree, refs>>

\* Two threads have counted a segment down to zero, and go on to free it.
Freers == {u \in RefUsers : msr[u].do \in {"zero", "free"}}
Twice == \E u, v \in Freers : u # v /\ msr[u].item = msr[v].item

MemSegRefNext ==
    \/ Twice /\ UNCHANGED segVars
    \/ ~Twice /\ \E u \in RefUsers :
        \/ SegQuery(u) \/ SegInsert(u) \/ SegZero(u) \/ SegFree(u)
        \/ \E size \in SegLengths : SegAlloc(u, size)
        \/ \E at \in Addrs : SegIncr(u, at) \/ SegDecr(u, at)
-----------------------------------------------------------------------------
Adding == {u \in RefUsers : msr[u].do \in {"query", "insert"}}

\* The memory a thread has a reference to is in the tree, with a count of all the
\* references to it; one thread frees it when there are none, whatever the others do
\* meanwhile, unless one of them counted it up from zero; and the pool has given out
\* what is in the tree and what is just added or freed, so that none of it is lost and
\* none is freed twice.
SegsExact ==
    /\ \A u \in RefUsers, a \in Addrs : refs[u][a] > 0 => ItemsAt(a) # {}
    /\ \A i \in refTree :
          LET Sum[S \in SUBSET RefUsers] ==
                  IF S = {} THEN 0
                  ELSE LET u == CHOOSE u \in S : TRUE
                       IN  refs[u][items[i].addr] + Sum[S \ {u}]
          IN  /\ items[i].count = Sum[RefUsers]
              /\ items[i].count = 0 => \E u \in Freers : msr[u].item = i
    /\ \A u, v \in Freers : u # v /\ msr[u].item = msr[v].item => msr[u].item \in revived
    /\ LET held == refTree \cup {msr[u].item : u \in Freers}
       IN  /\ given = {[addr |-> items[i].addr, size |-> items[i].size] : i \in held}
                      \cup {msr[u].seg : u \in Adding}
           /\ Cardinality(given) = Cardinality(held) + Cardinality(Adding)
=============================================================================
