------------------------------ MODULE ShmBTree ------------------------------
(***************************************************************************)
(* The B-tree in shared memory of lib/core/shm_btree.c, with the nodes as  *)
(* they lie there: arrays of keys and children with room for one more than *)
(* a node may have, and the offset of the parent.  A node's blocks are     *)
(* allocated and freed together, so a node is one object, and a key stands *)
(* for itself and its data, which the code always moves together.  Nodes   *)
(* are numbered; 0 is no node.                                             *)
(***************************************************************************)
EXTENDS BTree, FiniteSets

Gone == -1

\* "node" holds the nodes there are; one that was freed in a call has "num" Gone.
ShmBtNew == [root |-> 0, node |-> <<>>]

Padded(s, len) == s \o [i \in 1..len - Len(s) |-> 0]

NodeAlloc(m) == [num |-> 0, key |-> Padded(<<>>, BMax(m) + 1),
                 child |-> Padded(<<>>, BMax(m) + 2), parent |-> 0]

\* The index, from 0, the binary search of a node ends at, and the child to go on
\* with when the key is not there.
ShmSearch(n, key) == BSearch(SubSeq(n.key, 1, n.num), key)
ShmChildIdx(n, key) ==
    LET idx == ShmSearch(n, key) IN IF key > n.key[idx + 1] THEN idx + 1 ELSE idx

RECURSIVE ShmDescend(_, _, _)
\* The node that holds the key, or in which the descent ends.
ShmDescend(t, id, key) ==
    LET n == t.node[id]
        next == n.child[ShmChildIdx(n, key) + 1]
    IN  IF n.key[ShmSearch(n, key) + 1] = key \/ next = 0 THEN id
        ELSE ShmDescend(t, next, key)

ShmHolds(t, id, key) == t.node[id].key[ShmSearch(t.node[id], key) + 1] = key

RECURSIVE ShmFindsIn(_, _, _)
\* Is the key in a node or below it?
ShmFindsIn(t, id, key) ==
    \E n \in {t.node[i] : i \in {id} \ {0}} : \E idx \in {ShmChildIdx(n, key)} :
        \/ n.key[ShmSearch(n, key) + 1] = key
        \/ \E next \in {n.child[idx + 1]} : ShmFindsIn(t, next, key)
ShmBtFinds(t, key) == ShmFindsIn(t, t.root, key)

\* A key, and a child after it, at an index of a node.
PutKey(n, idx, key, child) ==
    [n EXCEPT !.num = @ + 1,
              !.key = Front(InsertAt(@, idx + 1, key)),
              !.child = Front(InsertAt(@, idx + 2, child))]

\* The nodes among some children get a parent.
Adopt(nodes, children, parent) ==
    FoldLeft(LAMBDA all, id : IF id = 0 THEN all
                              ELSE [all EXCEPT ![id] = [@ EXCEPT !.parent = parent]],
             nodes, children)

\* The children a node uses.
ChildrenOf(n) == SubSeq(n.child, 1, n.num + 1)

\* The keys and children of a node from an index on, at the front of a new one.
RightHalf(n, from, m) ==
    [num |-> n.num - from,
     key |-> Padded(SubSeq(n.key, from + 1, n.num), BMax(m) + 1),
     child |-> Padded(SubSeq(n.child, from + 1, n.num + 1), BMax(m) + 2),
     parent |-> n.parent]

LeftHalf(n, num) ==
    [n EXCEPT !.num = num,
              !.key = Padded(SubSeq(@, 1, num), Len(@)),
              !.child = Padded(SubSeq(@, 1, num + 1), Len(@))]

RECURSIVE ShmSplit(_, _, _)
\* A node with too many keys keeps those before the separator; the separator goes to
\* the parent, or to a new root, and those after it to a new node on its right.
ShmSplit(t, id, m) ==
    LET n == t.node[id]
        sep == SepIdx(m)
        id2 == Len(t.node) + 1
        n2 == RightHalf(n, sep + 1, m)
        top == IF n.parent = 0 THEN id2 + 1 ELSE n.parent
        p == IF n.parent = 0 THEN [NodeAlloc(m) EXCEPT !.child = [@ EXCEPT ![1] = id]]
             ELSE t.node[n.parent]
        at == Len(SelectSeq(SubSeq(p.key, 1, p.num), LAMBDA key : key <= n.key[sep + 1]))
        p2 == PutKey(p, at, n.key[sep + 1], id2)
        halves == Append([t.node EXCEPT ![id] = LeftHalf(n, sep)], n2)
        all == IF n.parent = 0 THEN Append(halves, p2) ELSE [halves EXCEPT ![top] = p2]
    IN  IF n.num <= BMax(m) THEN t
        ELSE ShmSplit([root |-> IF n.parent = 0 THEN top ELSE t.root,
                       node |-> Adopt(Adopt(all, ChildrenOf(n2), id2), <<id, id2>>, top)],
                      top, m)

-----------------------------------------------------------------------------
\* A key, and the child after it, leave a node.
DropKey(n, idx) ==
    [n EXCEPT !.num = @ - 1,
              !.key = Append(RemoveAt(@, idx + 1), 0),
              !.child = Append(RemoveAt(@, idx + 2), 0)]

\* The left one of two siblings takes the key between them and all of the right one.
Joined(left, key, right) ==
    [left EXCEPT
        !.num = @ + 1 + right.num,
        !.key = Padded(SubSeq(@, 1, left.num) \o <<key>> \o SubSeq(right.key, 1, right.num),
                       Len(@)),
        !.child = Padded(ChildrenOf(left) \o ChildrenOf(right), Len(@))]

\* Two siblings become one; the right one is freed.
ShmMergeNodes(t, l, r, mid) ==
    LET p == t.node[l].parent
        both == Joined(t.node[l], t.node[p].key[mid + 1], t.node[r])
        all == [t.node EXCEPT ![l] = both, ![p] = DropKey(@, mid),
                              ![r] = [@ EXCEPT !.num = Gone]]
    IN  [t EXCEPT !.node = Adopt(all, ChildrenOf(t.node[r]), l)]

\* The last key of the left sibling goes up, and the key between comes down.
ShmBorrowLeft(t, id, l, mid) ==
    LET p == t.node[id].parent
        left == t.node[l]
        got == left.child[left.num + 1]
        down == t.node[p].key[mid + 1]
        all == [t.node EXCEPT
                    ![l] = LeftHalf(@, left.num - 1),
                    ![p] = [@ EXCEPT !.key = [@ EXCEPT ![mid + 1] = left.key[left.num]]],
                    ![id] = [@ EXCEPT !.num = @ + 1,
                                      !.key = Front(<<down>> \o @),
                                      !.child = Front(<<got>> \o @)]]
    IN  [t EXCEPT !.node = Adopt(all, <<got>>, id)]

\* The first key of the right sibling goes up, and the key between comes down.
ShmBorrowRight(t, id, r, mid) ==
    LET p == t.node[id].parent
        got == t.node[r].child[1]
        down == t.node[p].key[mid + 1]
        all == [t.node EXCEPT
                    ![r] = [@ EXCEPT !.num = @ - 1,
                                     !.key = Append(Tail(@), 0),
                                     !.child = Append(Tail(@), 0)],
                    ![p] = [@ EXCEPT !.key = [@ EXCEPT ![mid + 1] = t.node[r].key[1]]],
                    ![id] = PutKey(@, @.num, down, got)]
    IN  [t EXCEPT !.node = Adopt(all, <<got>>, id)]

\* A root without keys is freed, and its only child, if it has one, is the root.
DropRoot(t) ==
    LET child == t.node[t.root].child[1]
    IN  [root |-> child,
         node |-> Adopt([t.node EXCEPT ![t.root] = [@ EXCEPT !.num = Gone]], <<child>>, 0)]

RECURSIVE ShmMerge(_, _, _)
\* A node with too few keys is merged with a sibling, the left one if it is the last
\* child, or takes a key from it if both have too many for one node; after a merge
\* the parent may have too few.
ShmMerge(t, id, m) ==
    LET n == t.node[id]
        p == t.node[n.parent]
        idx == CHOOSE i \in 0..p.num : p.child[i + 1] = id
        last == idx = p.num
        mid == IF last THEN idx - 1 ELSE idx
        l == IF last THEN p.child[mid + 1] ELSE id
        r == IF last THEN id ELSE p.child[mid + 2]
        both == ShmMergeNodes(t, l, r, mid)
    IN  IF n.parent = 0 THEN IF n.num = 0 THEN DropRoot(t) ELSE t
        ELSE IF t.node[l].num + t.node[r].num + 1 <= BMax(m)
        THEN IF p.num - 1 < BMin(m) THEN ShmMerge(both, n.parent, m) ELSE both
        ELSE IF last THEN ShmBorrowLeft(t, id, l, mid) ELSE ShmBorrowRight(t, id, r, mid)

RECURSIVE Follow(_, _, _)
\* The node whose last key replaces a key: at every level the child of one index.
Follow(t, id, idx) ==
    LET next == t.node[id].child[idx + 1] IN IF next = 0 THEN id ELSE Follow(t, next, idx)

\* The last key of that node takes the place of the key, and leaves the node.
ShmRemoveAt(t, id, idx, m) ==
    LET from == Follow(t, id, idx)
        n == t.node[from]
        put == [t.node EXCEPT ![id] = [@ EXCEPT !.key = [@ EXCEPT ![idx + 1] = n.key[n.num]]]]
        cut == [put EXCEPT ![from] = [@ EXCEPT !.num = @ - 1,
                                               !.key = [@ EXCEPT ![n.num] = 0]]]
        short == [t EXCEPT !.node = cut]
    IN  IF n.num - 1 < BMin(m) THEN ShmMerge(short, from, m) ELSE short

-----------------------------------------------------------------------------
RECURSIVE ShmIds(_, _)
\* The nodes below and with a node, each before its children.
ShmIds(t, id) ==
    IF id = 0 THEN <<>>
    ELSE <<id>> \o FlattenSeq([i \in 1..t.node[id].num + 1 |->
                                ShmIds(t, t.node[id].child[i])])

\* The nodes there are, numbered again from the root: which block a node lies in is
\* all that this changes.  Those the tree has lost come last.
Renumbered(t) ==
    LET tree == ShmIds(t, t.root)
        lost == SelectSeq([i \in DOMAIN t.node |-> i],
                          LAMBDA i : t.node[i].num # Gone /\ ~Contains(tree, i))
        order == tree \o lost
        new(id) == IF Contains(order, id) THEN CHOOSE i \in DOMAIN order : order[i] = id
                   ELSE IF id = 0 THEN 0 ELSE Gone
    IN  [root |-> new(t.root),
         node |-> [i \in DOMAIN order |->
            [t.node[order[i]] EXCEPT
                !.parent = new(@),
                !.child = [j \in DOMAIN @ |-> new(@[j])]]]]

\* Zero is returned when the key is there already, too.
ShmBtInsert(t, key, m) ==
    LET id == ShmDescend(t, t.root, key)
        at == ShmChildIdx(t.node[id], key)
        put == [t EXCEPT !.node = [@ EXCEPT ![id] = PutKey(@, at, key, 0)]]
    IN  IF t.root = 0 THEN [root |-> 1, node |-> <<PutKey(NodeAlloc(m), 0, key, 0)>>]
        ELSE IF ShmHolds(t, id, key) THEN t
        ELSE Renumbered(ShmSplit(put, id, m))

ShmBtRemove(t, key, m) ==
    LET id == ShmDescend(t, t.root, key)
    IN  IF ShmBtFinds(t, key)
        THEN Renumbered(ShmRemoveAt(t, id, ShmSearch(t.node[id], key), m))
        ELSE t

\* Would the removal of a key follow its own index into a node that has another last
\* child (lines 487 to 494)?
Astray(t, key) ==
    LET id == ShmDescend(t, t.root, key)
        idx == ShmSearch(t.node[id], key)
        next == t.node[id].child[idx + 1]
    IN  /\ ShmBtFinds(t, key) /\ next # 0
        /\ t.node[next].child[1] # 0 /\ t.node[next].num # idx

RECURSIVE ShmQueryFrom(_, _, _)
\* A query that has to turn right looks at the same node for ever.
ShmQueryFrom(t, id, key) ==
    LET n == t.node[id]
        idx == ShmSearch(n, key)
    IN  IF id = 0 THEN "none"
        ELSE IF key = n.key[idx + 1] THEN "found"
        ELSE IF key < n.key[idx + 1] THEN ShmQueryFrom(t, n.child[idx + 1], key)
        ELSE "loops"
ShmBtQuery(t, key) == ShmQueryFrom(t, t.root, key)

RECURSIVE NodeDealloc(_, _)
\* The nodes that are freed, in that order: the children of a node, then the node.
NodeDealloc(t, id) ==
    LET n == t.node[id]
        below == SelectSeq(ChildrenOf(n), LAMBDA c : c # 0)
    IN  FlattenSeq([i \in DOMAIN below |-> NodeDealloc(t, below[i])]) \o <<id>>

ShmBtDestroy(t) == IF t.root = 0 THEN <<>> ELSE NodeDealloc(t, t.root)

-----------------------------------------------------------------------------
RECURSIVE ShmKeys(_, _)
\* The keys from left to right.
ShmKeys(t, id) ==
    LET n == t.node[id]
    IN  IF id = 0 THEN <<>>
        ELSE FlattenSeq([i \in 1..n.num |-> Append(ShmKeys(t, n.child[i]), n.key[i])])
                \o ShmKeys(t, n.child[n.num + 1])

ShmBtTrav(t) == ShmKeys(t, t.root)

RECURSIVE ShmDepths(_, _)
\* The depths of the leaves, which have no child at all.
ShmDepths(t, id) ==
    LET children == ToSet(ChildrenOf(t.node[id]))
    IN  IF children = {0} THEN {1}
        ELSE {d + 1 : d \in UNION {IF c = 0 THEN {0} ELSE ShmDepths(t, c) : c \in children}}

\* The rule of a B-tree, and of its memory: no node is lost, every child knows its
\* parent, and there is no child that a node does not use.
ShmBtBalanced(t, m) ==
    /\ t.root # 0 => Cardinality(ShmDepths(t, t.root)) = 1
    /\ ShmIds(t, t.root) = [i \in DOMAIN t.node |-> i]
    /\ \A id \in DOMAIN t.node :
        LET n == t.node[id]
        IN  /\ n.num \in (IF id = t.root THEN 1 ELSE BMin(m))..BMax(m)
            /\ \A i \in DOMAIN n.child : n.child[i] # 0 => t.node[n.child[i]].parent = id
            /\ \A i \in DOMAIN n.child : i > n.num + 1 => n.child[i] = 0
            /\ n.parent = 0 <=> id = t.root
=============================================================================
