------------------------------- MODULE Lists -------------------------------
(***************************************************************************)
(* The linked lists of lib/core: list.c (singly linked, with a tail        *)
(* pointer), list2.c (a doubly linked ring) and shm_list.c (the same ring  *)
(* of offsets in shared memory, whose nodes the caller provides).  A node  *)
(* is named by the data block it carries; 0 is the null pointer and the    *)
(* null offset.  A list has no lock: the user holds one around a call.     *)
(* The module has RECURSIVE operators and is for TLC only.                 *)
(***************************************************************************)
EXTENDS Integers, Sequences, FiniteSets

CONSTANTS
    Kinds,      \* the kinds of list in use, of "list", "list2" and "shm_list"
    NumNodes,   \* the nodes are the numbers from 1 to NumNodes
    Uncalled    \* <<kind, call>> for the calls no code of the repository makes

VARIABLES
    kind,       \* the kind of list
    list,       \* head, tail (list.c only), num, and next and prev of the nodes
    held,       \* the nodes allocated and not freed
    said        \* the answer to the last call

listVars == <<kind, list, held, said>>

Null == 0
Nodes == 1..NumNodes
NoLinks == [n \in Nodes |-> Null]
-----------------------------------------------------------------------------
(* list.c                                                                  *)

Only(l, n) == [l EXCEPT !.head = n, !.tail = n, !.next[n] = Null, !.num = 1]
Emptied(l) == [l EXCEPT !.head = Null, !.tail = Null, !.num = 0]

LPush(l, n) ==
    IF l.head = Null THEN Only(l, n)
    ELSE [l EXCEPT !.next[n] = l.head, !.head = n, !.num = @ + 1]

RPush(l, n) ==
    IF l.tail = Null THEN Only(l, n)
    ELSE [l EXCEPT !.next = [@ EXCEPT ![l.tail] = n, ![n] = Null], !.tail = n, !.num = @ + 1]

\* Mutant: a node inserted after the last one does not become the tail.
InsertAfterTail(l, prev, n) ==
    IF prev = Null THEN LPush(l, n)
    ELSE [l EXCEPT !.next = [@ EXCEPT ![n] = l.next[prev], ![prev] = n], !.num = @ + 1]

InsertAfter(l, prev, n) ==
    IF prev = Null THEN LPush(l, n)
    ELSE IF prev = l.tail THEN RPush(l, n)
    ELSE [l EXCEPT !.next = [@ EXCEPT ![n] = l.next[prev], ![prev] = n], !.num = @ + 1]

\* The last node before the first one that is not greater than n.
RECURSIVE SortPrev(_, _, _, _)
SortPrev(l, prev, curr, n) ==
    IF curr = Null \/ n >= curr THEN prev ELSE SortPrev(l, curr, l.next[curr], n)

LSort(l, n) == InsertAfter(l, SortPrev(l, Null, l.head, n), n)

LPop(l) == IF l.head = l.tail THEN Emptied(l) ELSE [l EXCEPT !.head = l.next[l.head], !.num = @ - 1]

RECURSIVE PrevOf(_, _, _)
PrevOf(l, prev, n) == IF l.next[prev] = n THEN prev ELSE PrevOf(l, l.next[prev], n)

RPop(l) ==
    LET prev == PrevOf(l, l.head, l.tail)
    IN  IF l.head = l.tail THEN Emptied(l)
        ELSE [l EXCEPT !.next[prev] = Null, !.tail = prev, !.num = @ - 1]

LRemove(l, n) ==
    LET prev == PrevOf(l, l.head, n)
        cut == [l EXCEPT !.next[prev] = l.next[n], !.num = @ - 1]
    IN  IF n = l.head THEN LPop(l)
        ELSE IF n = l.tail THEN [cut EXCEPT !.tail = prev]
        ELSE cut

\* The tail is left as it is, whichever node goes.
LFindAndDel(l, n) ==
    IF l.num = 1 THEN [l EXCEPT !.head = Null, !.num = 0]
    ELSE IF n = l.head THEN [l EXCEPT !.head = l.next[n], !.num = @ - 1]
    ELSE [l EXCEPT !.next[PrevOf(l, l.head, n)] = l.next[n], !.num = @ - 1]

RECURSIVE NextFrom(_, _, _)
NextFrom(l, n, idx) == IF idx = 0 THEN n ELSE NextFrom(l, l.next[n], idx - 1)

\* The node at an index from 0, or null.
LFetch(l, idx) == IF idx >= l.num THEN Null ELSE NextFrom(l, l.head, idx)
-----------------------------------------------------------------------------
(* list2.c and shm_list.c                                                  *)

Last2(l) == l.prev[l.head]

\* Links n between two nodes, or alone into a circle.
Link(l, tail, n, head) ==
    [l EXCEPT !.next = [@ EXCEPT ![n] = head, ![tail] = n],
              !.prev = [@ EXCEPT ![n] = tail, ![head] = n], !.num = @ + 1]

RPush2(l, n) ==
    IF l.head = Null THEN [l EXCEPT !.head = n, !.prev[n] = n, !.next[n] = n, !.num = 1]
    ELSE Link(l, Last2(l), n, l.head)

LPush2(l, n) == [RPush2(l, n) EXCEPT !.head = n]

Cut(l, n) ==
    [l EXCEPT !.next[l.prev[n]] = l.next[n], !.prev[l.next[n]] = l.prev[n], !.num = @ - 1]

\* Takes n out of a ring, whose head moves on when n was its head.
Delete2(l, n) ==
    IF l.prev[n] = n THEN [l EXCEPT !.head = Null, !.num = 0]
    ELSE [Cut(l, n) EXCEPT !.head = IF n = l.head THEN l.next[n] ELSE @]

LPop2(l) == Delete2(l, l.head)
RPop2(l) == Delete2(l, Last2(l))

RECURSIVE Find2(_, _, _)
\* The node that carries the data, from a node of the ring on.
Find2(l, from, n) == IF from = n THEN from ELSE Find2(l, l.next[from], n)

FindAndDel2(l, n) == Delete2(l, Find2(l, l.head, n))

\* A node in the middle is unlinked, and the count is not changed.
ShmDelete(l, n) ==
    IF n \in {l.head, Last2(l)} THEN Delete2(l, n) ELSE [Cut(l, n) EXCEPT !.num = l.num]

Roll2(l) == [l EXCEPT !.head = l.next[l.head]]
-----------------------------------------------------------------------------
RECURSIVE WalkFrom(_, _, _)
\* The nodes from n on, to a null pointer or back to the head.
WalkFrom(l, n, seen) ==
    IF n = Null \/ n \in seen THEN <<>>
    ELSE <<n>> \o WalkFrom(l, l.next[n], seen \cup {n})

Walk(l) == WalkFrom(l, l.head, {})

ListInit ==
    /\ kind \in Kinds
    /\ list = [head |-> Null, tail |-> Null, num |-> 0, next |-> NoLinks, prev |-> NoLinks]
    /\ held = {}
    /\ said = [op |-> "creat", item |-> 0, at |-> 0, ret |-> "ok"]

SayAt(op, item, at, ret) == said' = [op |-> op, item |-> item, at |-> at, ret |-> ret]
Say(op, item, ret) == SayAt(op, item, 0, ret)

Single == kind = "list"

\* A call that puts a block in; without memory for a node it changes nothing.
Adds(op, n, at, l) ==
    /\ n \notin held
    /\ UNCHANGED kind
    /\ \/ /\ list' = l
          /\ held' = held \cup {n}
          /\ SayAt(op, n, at, "ok")
       \/ /\ kind # "shm_list"
          /\ UNCHANGED <<list, held>>
          /\ Say(op, n, "err")

\* A call that takes the block n out and frees its node.
Takes(op, n, l) ==
    /\ UNCHANGED kind
    /\ list' = [l EXCEPT !.next[n] = Null, !.prev[n] = Null]
    /\ held' = held \ {n}
    /\ Say(op, n, "ok")

Absent(op, n) == UNCHANGED <<kind, list, held>> /\ Say(op, n, "none")

PushLeft(n) == Adds("lpush", n, 0, IF Single THEN LPush(list, n) ELSE LPush2(list, n))

PushRight(n) == Adds("rpush", n, 0, IF Single THEN RPush(list, n) ELSE RPush2(list, n))

SortIn(n) == Single /\ Adds("sort", n, 0, LSort(list, n))

Insert1(n) == Single /\ \E prev \in held : Adds("insert", n, prev, InsertAfter(list, prev, n))

PopLeft ==
    \/ list.head = Null /\ Absent("lpop", 0)
    \/ /\ list.head # Null
       /\ Takes("lpop", list.head, IF Single THEN LPop(list) ELSE LPop2(list))

PopRight ==
    \/ list.head = Null /\ Absent("rpop", 0)
    \/ list.head # Null /\ Single /\ Takes("rpop", list.tail, RPop(list))
    \/ list.head # Null /\ ~Single /\ Takes("rpop", Last2(list), RPop2(list))

\* The calls that take a block out by name: list_remove and list_find_and_del,
\* list2_delete and list2_find_and_del, shm_list_delete and
\* shm_list_query_and_delete.
Removed(call, n) ==
    CASE Single -> IF call = "find_and_del" THEN LFindAndDel(list, n) ELSE LRemove(list, n)
      [] kind = "shm_list" /\ call = "delete" -> ShmDelete(list, n)
      [] ~Single /\ call = "find_and_del" -> FindAndDel2(list, n)
      [] OTHER -> Delete2(list, n)

RemoveNode(n) ==
    \/ n \notin held /\ Absent("remove", n)
    \/ /\ n \in held
       /\ \E call \in {"remove", "find_and_del", "delete"} :
             <<kind, call>> \notin Uncalled /\ Takes("remove", n, Removed(call, n))

Roll ==
    /\ kind = "list2"
    /\ list.head # Null
    /\ list' = Roll2(list)
    /\ Say("roll", list.head, "ok")
    /\ UNCHANGED <<kind, held>>

ListNext ==
    \/ \E n \in Nodes :
          \/ PushLeft(n) \/ PushRight(n) \/ SortIn(n) \/ Insert1(n)
          \/ RemoveNode(n)
    \/ PopLeft \/ PopRight \/ Roll
-----------------------------------------------------------------------------
\* Every call does to the chain of nodes what it does to a sequence, and answers
\* accordingly: the three lists implement Deque.
Dq == INSTANCE Deque WITH Items <- Nodes, items <- Walk(list), answer <- said
DequeStep == [Dq!Next]_<<Walk(list), said>>

\* The pointers agree after any calls: the count is the length of the chain (what
\* list_assert and list2_assert abort on), the tail is its last node, the nodes
\* allocated are those on the chain and no freed one is pointed to, in a ring prev
\* is the inverse of next, and fetching by index meets the chain.
Linked ==
    LET chain == Walk(list)
        Seen(i) == chain[i]
    IN  /\ list.num = Len(chain)
        /\ held = {Seen(i) : i \in DOMAIN chain}
        /\ Single => /\ list.tail = IF chain = <<>> THEN Null ELSE Seen(Len(chain))
                     /\ list.tail # Null => list.next[list.tail] = Null
                     /\ \A i \in 0..NumNodes :
                            LFetch(list, i) = IF i < Len(chain) THEN Seen(i + 1) ELSE Null
        /\ ~Single => \A n \in held : list.prev[list.next[n]] = n /\ list.next[list.prev[n]] = n
=============================================================================
