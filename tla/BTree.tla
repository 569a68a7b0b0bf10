------------------------------- MODULE BTree --------------------------------
(***************************************************************************)
(* The B-tree of order m of lib/core/btree.c.  A node is a record of its   *)
(* keys and its children, which a leaf has none of: the parent pointer of  *)
(* the code is the nesting, and its loops up the parents are the return    *)
(* from the recursion.  The module has RECURSIVE operators and is for TLC  *)
(* only.                                                                   *)
(***************************************************************************)
EXTENDS Integers, Sequences, SequencesExt

\* The bounds on the keys of a node of a tree of order m, and the index of the
\* key that goes up when a node is split.
BMax(m) == m - 1
BMin(m) == (IF m % 2 = 0 THEN m \div 2 ELSE m \div 2 + 1) - 1
SepIdx(m) == m \div 2

BNil == <<>>
BNode(keys, child) == [k |-> keys, c |-> child]
IsLeaf(n) == n.c = <<>>

RECURSIVE BSearchIn(_, _, _, _, _)
BSearchIn(keys, key, low, high, mid) ==
    LET at == (low + high) \div 2
    IN  IF high < low THEN mid
        ELSE IF key = keys[at + 1] THEN at
        ELSE IF key < keys[at + 1] THEN BSearchIn(keys, key, low, at - 1, at)
        ELSE BSearchIn(keys, key, at + 1, high, at)

\* The index, from 0, the binary search of a node ends at.
BSearch(keys, key) == BSearchIn(keys, key, 0, Len(keys) - 1, 0)

\* The index of the child to go on with, from 0, when the key is not at idx.
ChildIdx(n, key) ==
    LET idx == BSearch(n.k, key) IN IF key > n.k[idx + 1] THEN idx + 1 ELSE idx

Holds(n, key) == key = n.k[BSearch(n.k, key) + 1]

RECURSIVE BtFinds(_, _)
BtFinds(n, key) ==
    /\ n # BNil
    /\ Holds(n, key) \/ (~IsLeaf(n) /\ BtFinds(n.c[ChildIdx(n, key) + 1], key))

\* A full node keeps the keys before the separator; the separator goes to the
\* parent, the keys after it to a new node on the right.
Split(p, i, m) ==
    LET n == p.c[i + 1]
        sep == SepIdx(m)
        sepkey == n.k[sep + 1]
        at == Len(SelectSeq(p.k, LAMBDA key : key <= sepkey))
        Half(from, to) == BNode(SubSeq(n.k, from, to),
                                IF IsLeaf(n) THEN <<>> ELSE SubSeq(n.c, from, to + 1))
    IN  IF Len(n.k) <= BMax(m) THEN p
        ELSE BNode(InsertAt(p.k, at + 1, sepkey),
                   InsertAt(ReplaceAt(p.c, i + 1, Half(1, sep)), at + 2, Half(sep + 2, Len(n.k))))

RECURSIVE BInsertIn(_, _, _)
BInsertIn(n, key, m) ==
    LET i == ChildIdx(n, key)
    IN  IF Holds(n, key) THEN n
        ELSE IF IsLeaf(n) THEN BNode(InsertAt(n.k, i + 1, key), <<>>)
        ELSE Split([n EXCEPT !.c[i + 1] = BInsertIn(@, key, m)], i, m)

\* A root that is split gets a new root above it.  Zero is returned when the key
\* is there already, too.
BtInsert(t, key, m) ==
    IF t = BNil THEN BNode(<<key>>, <<>>)
    ELSE LET n == BInsertIn(t, key, m)
             top == Split(BNode(<<>>, <<n>>), 0, m)
         IN  IF Len(n.k) <= BMax(m) THEN n ELSE top

\* Mutant: the key between the two children does not come down.
MergeChildrenShort(p, mid) ==
    LET left == p.c[mid + 1]
        right == p.c[mid + 2]
    IN  BNode(RemoveAt(p.k, mid + 1),
              ReplaceAt(RemoveAt(p.c, mid + 2), mid + 1, BNode(left.k \o right.k, left.c \o right.c)))

\* The child at mid takes the key between it and the next child, and then that
\* child's keys.
MergeChildren(p, mid) ==
    LET left == p.c[mid + 1]
        right == p.c[mid + 2]
        both == BNode(left.k \o <<p.k[mid + 1]>> \o right.k, left.c \o right.c)
    IN  BNode(RemoveAt(p.k, mid + 1), ReplaceAt(RemoveAt(p.c, mid + 2), mid + 1, both))

\* The last key of the left sibling goes up, the key between comes down.
BorrowLeft(p, mid) ==
    LET left == p.c[mid + 1]
        node == p.c[mid + 2]
        moved == IF IsLeaf(left) THEN <<>> ELSE <<left.c[Len(left.c)]>>
    IN  [p EXCEPT !.k[mid + 1] = left.k[Len(left.k)],
                  !.c[mid + 1] = BNode(Front(left.k), IF IsLeaf(left) THEN <<>> ELSE Front(left.c)),
                  !.c[mid + 2] = BNode(<<p.k[mid + 1]>> \o node.k, moved \o node.c)]

\* The first key of the right sibling goes up, the key between comes down.
BorrowRight(p, mid) ==
    LET node == p.c[mid + 1]
        right == p.c[mid + 2]
        moved == IF IsLeaf(right) THEN <<>> ELSE <<right.c[1]>>
    IN  [p EXCEPT !.k[mid + 1] = right.k[1],
                  !.c[mid + 1] = BNode(node.k \o <<p.k[mid + 1]>>, node.c \o moved),
                  !.c[mid + 2] = BNode(Tail(right.k), IF IsLeaf(right) THEN <<>> ELSE Tail(right.c))]

\* Child i has lost a key: merge it with a sibling, or borrow from the sibling
\* that has too many to be merged.  The last child turns to its left sibling.
Merge(p, i, m) ==
    LET last == i = Len(p.k)
        mid == IF last THEN i - 1 ELSE i
        fits == Len(p.c[mid + 1].k) + Len(p.c[mid + 2].k) + 1 <= BMax(m)
    IN  IF Len(p.c[i + 1].k) >= BMin(m) THEN p
        ELSE IF fits THEN MergeChildren(p, mid)
        ELSE IF last THEN BorrowLeft(p, mid)
        ELSE BorrowRight(p, mid)

RECURSIVE RemoveLast(_, _)

\* Takes the largest key of a subtree away.
RemoveLast(n, m) ==
    IF IsLeaf(n) THEN [n |-> BNode(Front(n.k), <<>>), key |-> n.k[Len(n.k)]]
    ELSE LET sub == RemoveLast(n.c[Len(n.c)], m)
         IN  [n |-> Merge([n EXCEPT !.c[Len(n.c)] = sub.n], Len(n.k), m), key |-> sub.key]

\* The largest key below the key replaces it.  In a leaf that is the leaf's own
\* last key, which takes the place of the key it removes.
RemoveHere(n, idx, m) ==
    IF IsLeaf(n) THEN BNode(Front(ReplaceAt(n.k, idx + 1, n.k[Len(n.k)])), <<>>)
    ELSE LET sub == RemoveLast(n.c[idx + 1], m)
         IN  Merge([n EXCEPT !.k[idx + 1] = sub.key, !.c[idx + 1] = sub.n], idx, m)

RECURSIVE RemoveIn(_, _, _)
RemoveIn(n, key, m) ==
    LET i == ChildIdx(n, key)
    IN  IF Holds(n, key) THEN RemoveHere(n, BSearch(n.k, key), m)
        ELSE IF IsLeaf(n) THEN n
        ELSE Merge([n EXCEPT !.c[i + 1] = RemoveIn(@, key, m)], i, m)

\* A root without keys gives way to its only child.
BtRemove(t, key, m) ==
    IF t = BNil THEN BNil
    ELSE LET n == RemoveIn(t, key, m)
         IN  IF n.k # <<>> THEN n ELSE IF IsLeaf(n) THEN BNil ELSE n.c[1]
-----------------------------------------------------------------------------
RECURSIVE BtKeys(_)
\* The keys from left to right.
BtKeys(n) ==
    IF n = BNil THEN <<>>
    ELSE FlattenSeq([i \in 1..Len(n.k) |->
             (IF IsLeaf(n) THEN <<>> ELSE BtKeys(n.c[i])) \o <<n.k[i]>>])
         \o (IF IsLeaf(n) THEN <<>> ELSE BtKeys(n.c[Len(n.c)]))

RECURSIVE BtDepths(_)
BtDepths(n) == IF IsLeaf(n) THEN {1} ELSE {d + 1 : d \in UNION {BtDepths(n.c[i]) : i \in DOMAIN n.c}}

RECURSIVE BtFilled(_, _, _)
\* Every node but the root has between Min and Max keys and one child more.
BtFilled(n, root, m) ==
    /\ Len(n.k) \in (IF root THEN 1 ELSE BMin(m))..BMax(m)
    /\ IsLeaf(n) \/ Len(n.c) = Len(n.k) + 1
    /\ \A i \in DOMAIN n.c : BtFilled(n.c[i], FALSE, m)

\* The features 1 to 3 of a B-tree in the comment at the top of btree.c.
BtBalanced(t, m) ==
    t = BNil \/ (BtFilled(t, TRUE, m) /\ \A d, e \in BtDepths(t) : d = e)
=============================================================================
