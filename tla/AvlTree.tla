------------------------------ MODULE AvlTree ------------------------------
(***************************************************************************)
(* The AVL tree of lib/core/avl_tree.c.  A node is a record that holds its *)
(* children; the parent pointer of the code is the nesting, which          *)
(* avl_set_lchild, avl_set_rchild and avl_replace_child keep.  The code    *)
(* passes "has the subtree grown" and "has it shrunk" up the recursion     *)
(* through taller and lower, as the operators do here.  Module SearchTrees *)
(* runs the operations; the module has RECURSIVE operators and is for TLC  *)
(* only.                                                                   *)
(***************************************************************************)
EXTENDS Integers, Sequences

\* avl_tree.h: which subtree is the higher one.
LH == 1
EH == 0
RH == -1

AvlNil == <<>>

AvlLeaf(key) == [key |-> key, bf |-> EH, l |-> AvlNil, r |-> AvlNil]

\* The balance factors a double rotation leaves, from that of the grandchild.
LeftOf(bf) == IF bf = RH THEN LH ELSE EH
RightOf(bf) == IF bf = LH THEN RH ELSE EH

\* A rotation to the left about n, and a rotation to the right.
RRBalance(n) ==
    [n.r EXCEPT !.bf = EH, !.l = [n EXCEPT !.bf = EH, !.r = n.r.l]]

LLBalance(n) ==
    [n.l EXCEPT !.bf = EH, !.r = [n EXCEPT !.bf = EH, !.l = n.l.r]]

\* Right about the child and then left about n; left and then right.
RLBalance(n) ==
    LET g == n.r.l
    IN  [g EXCEPT !.bf = EH,
                  !.l = [n EXCEPT !.bf = LeftOf(g.bf), !.r = g.l],
                  !.r = [n.r EXCEPT !.bf = RightOf(g.bf), !.l = g.r]]

LRBalance(n) ==
    LET g == n.l.r
    IN  [g EXCEPT !.bf = EH,
                  !.l = [n.l EXCEPT !.bf = LeftOf(g.bf), !.r = g.l],
                  !.r = [n EXCEPT !.bf = RightOf(g.bf), !.l = g.r]]

\* With a child of even height the code returns AVL_ERR and rotates nothing.
RightBalance(n) ==
    IF n.r.bf = RH THEN RRBalance(n)
    ELSE IF n.r.bf = LH THEN RLBalance(n)
    ELSE n

LeftBalance(n) ==
    IF n.l.bf = LH THEN LLBalance(n)
    ELSE IF n.l.bf = RH THEN LRBalance(n)
    ELSE n

\* What a call on a subtree leaves: the subtree, the return code and whether
\* its height changed.
Result(n, ret, changed) == [n |-> n, ret |-> ret, changed |-> changed]

RECURSIVE AvlInsertAt(_, _, _)

\* The child that was empty gets a new node if there is memory for one.
InsertInto(child, key, mem) ==
    IF child # AvlNil THEN AvlInsertAt(child, key, mem)
    ELSE IF mem THEN Result(AvlLeaf(key), "ok", TRUE)
    ELSE Result(AvlNil, "err", FALSE)

InsertRight(n, key, mem) ==
    LET sub == InsertInto(n.r, key, mem)
        m == [n EXCEPT !.r = sub.n]
    IN  IF sub.ret # "ok" \/ ~sub.changed THEN Result(m, sub.ret, FALSE)
        ELSE CASE n.bf = LH -> Result([m EXCEPT !.bf = EH], "ok", FALSE)
               [] n.bf = EH -> Result([m EXCEPT !.bf = RH], "ok", TRUE)
               [] n.bf = RH -> Result(RightBalance(m), "ok", FALSE)

InsertLeft(n, key, mem) ==
    LET sub == InsertInto(n.l, key, mem)
        m == [n EXCEPT !.l = sub.n]
    IN  IF sub.ret # "ok" \/ ~sub.changed THEN Result(m, sub.ret, FALSE)
        ELSE CASE n.bf = RH -> Result([m EXCEPT !.bf = EH], "ok", FALSE)
               [] n.bf = EH -> Result([m EXCEPT !.bf = LH], "ok", TRUE)
               [] n.bf = LH -> Result(LeftBalance(m), "ok", FALSE)

AvlInsertAt(n, key, mem) ==
    IF key = n.key THEN Result(n, "exist", FALSE)
    ELSE IF key < n.key THEN InsertLeft(n, key, mem)
    ELSE InsertRight(n, key, mem)

AvlNew == [root |-> AvlNil, num |-> 0]

\* The first node sets the count to 1 and later ones add to it.
AvlInsert(t, key, mem) ==
    LET sub == InsertInto(t.root, key, mem)
    IN  [t |-> [root |-> sub.n,
                num |-> IF sub.ret # "ok" THEN t.num
                        ELSE IF t.root = AvlNil THEN 1 ELSE t.num + 1],
         ret |-> sub.ret]

\* Mutant: a rotation about a child of even height is taken to lower the tree.
DeleteLeftBalanceEven(n) ==
    CASE n.bf = LH -> Result([n EXCEPT !.bf = EH], "ok", TRUE)
      [] n.bf = EH -> Result([n EXCEPT !.bf = RH], "ok", FALSE)
      [] n.bf = RH /\ n.r.bf = LH -> Result(RLBalance(n), "ok", TRUE)
      [] n.bf = RH /\ n.r.bf # LH -> Result(RRBalance(n), "ok", TRUE)

\* The left subtree of n is lower than it was.
DeleteLeftBalance(n) ==
    CASE n.bf = LH -> Result([n EXCEPT !.bf = EH], "ok", TRUE)
      [] n.bf = EH -> Result([n EXCEPT !.bf = RH], "ok", FALSE)
      [] n.bf = RH /\ n.r.bf = EH ->
            Result([n.r EXCEPT !.bf = LH, !.l = [n EXCEPT !.bf = RH, !.r = n.r.l]], "ok", FALSE)
      [] n.bf = RH /\ n.r.bf = RH -> Result(RRBalance(n), "ok", TRUE)
      [] n.bf = RH /\ n.r.bf = LH -> Result(RLBalance(n), "ok", TRUE)

\* The right subtree of n is lower than it was.
DeleteRightBalance(n) ==
    CASE n.bf = RH -> Result([n EXCEPT !.bf = EH], "ok", TRUE)
      [] n.bf = EH -> Result([n EXCEPT !.bf = LH], "ok", FALSE)
      [] n.bf = LH /\ n.l.bf = EH ->
            Result([n.l EXCEPT !.bf = RH, !.r = [n EXCEPT !.bf = LH, !.l = n.l.r]], "ok", FALSE)
      [] n.bf = LH /\ n.l.bf = LH -> Result(LLBalance(n), "ok", TRUE)
      [] n.bf = LH /\ n.l.bf = RH -> Result(LRBalance(n), "ok", TRUE)

RECURSIVE ReplaceAndDelete(_)

\* Unlinks the last node of a left subtree: what remains of the subtree, the key
\* that goes to the node being deleted, and whether the subtree is lower.  A
\* right child that became lower is balanced here, the first node by the caller.
ReplaceAndDelete(prev) ==
    IF prev.r = AvlNil
    THEN [n |-> prev.l, key |-> prev.key, changed |-> TRUE]
    ELSE LET sub == ReplaceAndDelete(prev.r)
             m == [prev EXCEPT !.r = sub.n]
             b == IF sub.changed THEN DeleteRightBalance(m) ELSE Result(m, "ok", FALSE)
         IN  [n |-> b.n, key |-> sub.key, changed |-> b.changed]

RECURSIVE AvlDeleteAt(_, _)

AvlDeleteAt(n, key) ==
    IF n = AvlNil THEN Result(n, "none", FALSE)
    ELSE IF key < n.key
    THEN LET sub == AvlDeleteAt(n.l, key)
             m == [n EXCEPT !.l = sub.n]
             b == IF sub.changed THEN DeleteLeftBalance(m) ELSE Result(m, "ok", FALSE)
         IN  Result(b.n, sub.ret, b.changed)
    ELSE IF key > n.key
    THEN LET sub == AvlDeleteAt(n.r, key)
             m == [n EXCEPT !.r = sub.n]
             b == IF sub.changed THEN DeleteRightBalance(m) ELSE Result(m, "ok", FALSE)
         IN  Result(b.n, sub.ret, b.changed)
    ELSE IF n.r = AvlNil THEN Result(n.l, "ok", TRUE)
    ELSE IF n.l = AvlNil THEN Result(n.r, "ok", TRUE)
    ELSE LET sub == ReplaceAndDelete(n.l)
             m == [n EXCEPT !.key = sub.key, !.l = sub.n]
             b == IF sub.changed THEN DeleteLeftBalance(m) ELSE Result(m, "ok", FALSE)
         IN  Result(b.n, "ok", b.changed)

\* Mutant: the count goes down although no node was found.
AvlDeleteCounts(t, key) ==
    LET sub == AvlDeleteAt(t.root, key)
    IN  [t |-> [root |-> sub.n, num |-> t.num - 1], ret |-> sub.ret]

\* The data of the deleted node is handed out; "none" is the null pointer.
AvlDelete(t, key) ==
    LET sub == AvlDeleteAt(t.root, key)
    IN  [t |-> [root |-> sub.n, num |-> IF sub.ret = "ok" THEN t.num - 1 ELSE t.num],
         ret |-> sub.ret]

RECURSIVE AvlFinds(_, _)
AvlFinds(n, key) ==
    /\ n # AvlNil
    /\ \/ key = n.key
       \/ key < n.key /\ AvlFinds(n.l, key)
       \/ key > n.key /\ AvlFinds(n.r, key)

RECURSIVE AvlTrav(_)
AvlTrav(n) == IF n = AvlNil THEN <<>> ELSE AvlTrav(n.l) \o <<n.key>> \o AvlTrav(n.r)

\* The first key in ascending order that the caller's callback accepts, as a
\* sequence of at most one key.
RECURSIVE AvlFind(_, _)
AvlFind(n, accept) ==
    IF n = AvlNil THEN <<>>
    ELSE LET below == AvlFind(n.l, accept)
         IN  IF below # <<>> THEN below
             ELSE IF n.key \in accept THEN <<n.key>>
             ELSE AvlFind(n.r, accept)

\* The order in which the nodes are freed: children before their parent.
RECURSIVE AvlDestroy(_)
AvlDestroy(n) == IF n = AvlNil THEN <<>> ELSE AvlDestroy(n.l) \o AvlDestroy(n.r) \o <<n.key>>
-----------------------------------------------------------------------------
RECURSIVE AvlHeight(_)
AvlHeight(n) ==
    IF n = AvlNil THEN 0
    ELSE LET l == AvlHeight(n.l)
             r == AvlHeight(n.r)
         IN  1 + (IF l > r THEN l ELSE r)

\* Every balance factor is the difference of the heights of the two subtrees.
RECURSIVE AvlBalanced(_)
AvlBalanced(n) ==
    \/ n = AvlNil
    \/ /\ n.bf \in {LH, EH, RH}
       /\ n.bf = AvlHeight(n.l) - AvlHeight(n.r)
       /\ AvlBalanced(n.l)
       /\ AvlBalanced(n.r)
=============================================================================
