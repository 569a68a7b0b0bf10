------------------------------- MODULE RbTree -------------------------------
(***************************************************************************)
(* The red-black tree of lib/core/rb_tree.c.  Its loops follow parent      *)
(* pointers, and its traversals a stack of nodes, so the tree is a set of  *)
(* nodes with pointers here: t.l, t.r and t.p are functions of the node,   *)
(* t.red is the set of red ones, and a node is named by the key it holds.  *)
(* When a deletion copies the data of another node into the node it keeps, *)
(* that node changes its name.  The sentinel is a node like the others,    *)
(* named 0: its parent pointer is written by a deletion and read by the    *)
(* repair that follows. The module has RECURSIVE operators and is for TLC  *)
(* only.                                                                   *)
(***************************************************************************)
EXTENDS Integers, Sequences

CONSTANT RbKeys     \* the keys, positive numbers

Sentinel == 0
RbNodes == RbKeys \cup {Sentinel}

RbNew ==
    [root |-> Sentinel, num |-> 0,
     l |-> [n \in RbNodes |-> Sentinel], r |-> [n \in RbNodes |-> Sentinel],
     p |-> [n \in RbNodes |-> Sentinel], red |-> {}]

\* The parent pointer of the sentinel is left alone.
SetParent(p, child, n) == IF child = Sentinel THEN p ELSE [p EXCEPT ![child] = n]

SetL(t, n, child) == [t EXCEPT !.l[n] = child, !.p = SetParent(@, child, n)]

SetR(t, n, child) == [t EXCEPT !.r[n] = child, !.p = SetParent(@, child, n)]

\* The child takes the place of n below the parent of n.
Lift(t, n, child) ==
    LET parent == t.p[n]
    IN  IF parent = Sentinel THEN [t EXCEPT !.root = child, !.p[child] = Sentinel]
        ELSE IF n = t.l[parent] THEN SetL(t, parent, child)
        ELSE SetR(t, parent, child)

RightRotate(t, n) ==
    LET child == t.l[n]
        lifted == Lift(t, n, child)
    IN  SetR(SetL(lifted, n, lifted.r[child]), child, n)

LeftRotate(t, n) ==
    LET child == t.r[n]
        lifted == Lift(t, n, child)
    IN  SetL(SetR(lifted, n, lifted.l[child]), child, n)

Color(t, reds, blacks) == [t EXCEPT !.red = (@ \cup reds) \ blacks]

RECURSIVE InsertFixup(_, _)

\* Goes up from a red node below a red node: a red uncle moves the problem to
\* the grandparent, a black one is settled by one or two rotations.
InsertFixup(t, node) ==
    LET parent == t.p[node]
        grandpa == t.p[parent]
        left == parent = t.l[grandpa]
        uncle == IF left THEN t.r[grandpa] ELSE t.l[grandpa]
        repainted == Color(t, {grandpa}, {parent})
    IN  IF node \notin t.red \/ parent \notin t.red THEN t
        ELSE IF uncle \in t.red
        THEN InsertFixup(Color(t, {grandpa} \ {t.root}, {parent, uncle}), grandpa)
        ELSE IF left /\ node = t.l[parent]
        THEN InsertFixup(RightRotate(repainted, grandpa), t.p[grandpa])
        ELSE IF left
        THEN InsertFixup(LeftRotate(t, parent), parent)
        ELSE IF node = t.l[parent]
        THEN InsertFixup(RightRotate(t, parent), parent)
        ELSE InsertFixup(LeftRotate(repainted, grandpa), t.p[grandpa])

\* A new red node that is the left or the right child of its parent.
CreatNode(t, key, parent) ==
    LET new == [t EXCEPT !.red = @ \cup {key}, !.l[key] = Sentinel, !.r[key] = Sentinel]
    IN  IF key < parent THEN SetL(new, parent, key) ELSE SetR(new, parent, key)

\* The node a search for the key ends at: the key itself or its parent to be.
RECURSIVE RbSearch(_, _, _)
RbSearch(t, key, n) ==
    LET child == IF key < n THEN t.l[n] ELSE t.r[n]
    IN  IF key = n \/ child = Sentinel THEN n ELSE RbSearch(t, key, child)

RbInsert(t, key, mem) ==
    LET at == RbSearch(t, key, t.root)
    IN  IF t.root = Sentinel
        THEN [t |-> IF mem THEN [t EXCEPT !.root = key, !.num = @ + 1, !.p[key] = Sentinel] ELSE t,
              ret |-> IF mem THEN "ok" ELSE "err"]
        ELSE IF at = key THEN [t |-> t, ret |-> "exist"]
        ELSE IF ~mem THEN [t |-> t, ret |-> "err"]
        ELSE [t |-> InsertFixup(CreatNode([t EXCEPT !.num = @ + 1], key, at), key), ret |-> "ok"]

Near(left, u, n) == IF left THEN u.l[n] ELSE u.r[n]
Far(left, u, n) == IF left THEN u.r[n] ELSE u.l[n]
Toward(left, u, n) == IF left THEN LeftRotate(u, n) ELSE RightRotate(u, n)
Away(left, u, n) == IF left THEN RightRotate(u, n) ELSE LeftRotate(u, n)

RECURSIVE DeleteFixup(_, _)
BlackRoot(t) == DeleteFixup(t, t.root)

\* A red nephew away from the node is rotated over it, and the repair ends.
Rotated(t, left, parent) ==
    LET last == Far(left, t, parent)
        red == IF parent \in t.red THEN {last} ELSE {}
    IN  BlackRoot(Toward(left, Color(t, red, {Far(left, t, last), parent, last} \ red), parent))

\* Two black nephews move the problem up; a red one near the node is rotated away first.
Repaired(t, left, parent, brother) ==
    IF {t.l[brother], t.r[brother]} \cap t.red = {}
    THEN DeleteFixup(Color(t, {brother}, {}), parent)
    ELSE Rotated(IF Far(left, t, brother) \in t.red THEN t
                 ELSE Away(left, Color(t, {brother}, {Near(left, t, brother)}), brother),
                 left, parent)

\* The subtree at node lacks one black node.  A red sibling is rotated away first.
DeleteFixup(t, node) ==
    LET parent == t.p[node]
        left == node = t.l[parent]
        sibling == Far(left, t, parent)
        u == IF sibling \in t.red THEN Toward(left, Color(t, {parent}, {sibling}), parent) ELSE t
    IN  IF node \in t.red \/ t.root = node THEN Color(t, {}, {node})
        ELSE Repaired(u, left, parent, Far(left, u, parent))

\* The only child of n, or the sentinel, takes the place of n; its parent
\* pointer is set even when it is the sentinel.
Unlink(t, n) ==
    LET child == IF t.l[n] = Sentinel THEN t.r[n] ELSE t.l[n]
        parent == t.p[n]
        u == [t EXCEPT !.p[child] = parent]
    IN  IF parent = Sentinel THEN [u EXCEPT !.root = child]
        ELSE IF n = t.l[parent] THEN [u EXCEPT !.l[parent] = child]
        ELSE [u EXCEPT !.r[parent] = child]

Freed(t, n) ==
    [t EXCEPT !.l[n] = Sentinel, !.r[n] = Sentinel, !.p[n] = Sentinel, !.red = @ \ {n}]

\* The node d, which gets the data of the freed node s, is called s from now on.
Renamed(t, d, s) ==
    LET u == SetR(SetL(Lift(t, d, s), s, t.l[d]), s, t.r[d])
        v == IF d \in t.red THEN Color(u, {s}, {}) ELSE Color(u, {}, {s})
    IN  Freed([v EXCEPT !.p[Sentinel] = IF @ = d THEN s ELSE @], d)

RECURSIVE Successor(_, _)
Successor(t, n) == IF t.l[n] = Sentinel THEN n ELSE Successor(t, t.l[n])

\* A node with two children gets the data of its successor, which is unlinked in
\* its place.  The tree is repaired when a black node went.  Nothing reads the
\* parent pointer of the sentinel after that, and it is put back here.
RbDelete(t, key) ==
    LET two == t.l[key] # Sentinel /\ t.r[key] # Sentinel
        gone == IF two THEN Successor(t, t.r[key]) ELSE key
        refer == IF t.l[gone] = Sentinel THEN t.r[gone] ELSE t.l[gone]
        cut == Unlink(t, gone)
        u == IF two THEN Renamed(cut, key, gone) ELSE Freed(cut, key)
        v == IF gone \in t.red THEN u ELSE DeleteFixup(u, refer)
    IN  IF t.root = Sentinel \/ RbSearch(t, key, t.root) # key
        THEN [t |-> t, ret |-> "none"]
        ELSE [t |-> [v EXCEPT !.num = t.num - 1, !.p[Sentinel] = Sentinel], ret |-> "ok"]

RbFinds(t, key) == t.root # Sentinel /\ RbSearch(t, key, t.root) = key
-----------------------------------------------------------------------------
(* The traversals: a loop over a stack, whose first element is the top.    *)

RECURSIVE Leftmost(_, _, _)
Leftmost(t, n, stack) ==
    IF t.l[n] = Sentinel THEN [n |-> n, stack |-> stack]
    ELSE Leftmost(t, t.l[n], <<n>> \o stack)

\* Is the node on top of the stack done with once n is?
Done(t, n, stack) == stack # <<>> /\ (n = t.r[Head(stack)] \/ t.r[Head(stack)] = Sentinel)

RECURSIVE Climb(_, _, _)
Climb(t, n, stack) ==
    IF Done(t, n, stack) THEN Climb(t, Head(stack), Tail(stack)) ELSE [n |-> n, stack |-> stack]

RECURSIVE TravFrom(_, _, _, _)
TravFrom(t, n, stack, out) ==
    LET d == Leftmost(t, n, stack)
        visited == Append(out, d.n)
        parent == Head(d.stack)
        first == t.l[parent] = d.n
        up == IF first THEN Climb(t, parent, Tail(d.stack)) ELSE Climb(t, d.n, d.stack)
        seen == IF first THEN Append(visited, parent) ELSE visited
    IN  IF t.r[d.n] # Sentinel THEN TravFrom(t, t.r[d.n], <<d.n>> \o d.stack, visited)
        ELSE IF d.stack = <<>> THEN visited
        ELSE IF first /\ t.r[parent] # Sentinel THEN TravFrom(t, t.r[parent], d.stack, seen)
        ELSE IF up.stack = <<>> THEN seen
        ELSE TravFrom(t, t.r[Head(up.stack)], up.stack, Append(seen, Head(up.stack)))

RbTrav(t) == IF t.root = Sentinel THEN <<>> ELSE TravFrom(t, t.root, <<>>, <<>>)

\* The same walk, which ends at the first key the caller's callback accepts.
RbFind(t, accept) ==
    LET found == SelectSeq(RbTrav(t), LAMBDA key : key \in accept)
    IN  IF found = <<>> THEN <<>> ELSE <<Head(found)>>

\* Frees every node that is popped, the one popped last in the next round.
RECURSIVE FreeUp(_, _, _, _)
FreeUp(t, n, stack, out) ==
    IF Done(t, n, stack) THEN FreeUp(t, Head(stack), Tail(stack), Append(out, n))
    ELSE [stack |-> stack, out |-> Append(out, n)]

RECURSIVE DestroyFrom(_, _, _, _)
DestroyFrom(t, n, stack, out) ==
    LET d == Leftmost(t, n, stack)
        up == FreeUp(t, d.n, d.stack, out)
    IN  IF t.r[d.n] # Sentinel THEN DestroyFrom(t, t.r[d.n], <<d.n>> \o d.stack, out)
        ELSE IF up.stack = <<>> THEN up.out
        ELSE DestroyFrom(t, t.r[Head(up.stack)], up.stack, up.out)

RbDestroy(t) == IF t.root = Sentinel THEN <<>> ELSE DestroyFrom(t, t.root, <<>>, <<>>)
-----------------------------------------------------------------------------
RbLinked(t) == {n \in RbKeys : n = t.root \/ \E m \in RbKeys : n \in {t.l[m], t.r[m]}}

\* The number of black nodes on a path down from n when all paths agree, else -1.
RECURSIVE BlackHeight(_, _)
BlackHeight(t, n) ==
    IF n = Sentinel THEN 1
    ELSE LET l == BlackHeight(t, t.l[n])
             r == BlackHeight(t, t.r[n])
         IN  IF l # r \/ l < 0 THEN -1 ELSE l + (IF n \in t.red THEN 0 ELSE 1)

\* The five rules in the comment of rbt_creat, and the check of rbt_assert.
RbBalanced(t) ==
    /\ {t.root, Sentinel} \cap t.red = {}
    /\ BlackHeight(t, t.root) > 0
    /\ \A n \in RbLinked(t) :
          /\ n \in t.red => {t.l[n], t.r[n]} \cap t.red = {}
          /\ n # t.root => n \in {t.l[t.p[n]], t.r[t.p[n]]}
=============================================================================
