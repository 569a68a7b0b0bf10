---------------------------- MODULE SearchTrees -----------------------------
(***************************************************************************)
(* The search trees of lib/core in use: a caller inserts and removes keys  *)
(* in any order, and an allocation may fail where the code gives the tree  *)
(* back as it was.  A tree is one value, built by the operators of the     *)
(* module of its kind.  No tree has a lock of its own: its user holds one  *)
(* around every call, so that a call is one step.                          *)
(***************************************************************************)
EXTENDS AvlTree, ShmBTree, FiniteSets

CONSTANTS
    Trees,      \* the kinds of tree in use, of "avl", "rb", "btree" and "shm_btree"
    NumKeys,    \* the keys are the numbers from 1 to NumKeys
    Order,      \* the order m of the B-tree
    NoMemory    \* may an allocation fail?

Keys == 1..NumKeys

Rb == INSTANCE RbTree WITH RbKeys <- Keys

VARIABLES
    tree,       \* the kind of tree
    root,       \* the tree
    told        \* the answer to the last call

treeVars == <<tree, root, told>>

Ascending(set) == SelectSeq([i \in Keys |-> i], LAMBDA key : key \in set)

New(kind) ==
    CASE kind = "avl" -> AvlNew
      [] kind = "rb" -> Rb!RbNew
      [] kind = "btree" -> BNil
      [] kind = "shm_btree" -> ShmBtNew

Trav ==
    CASE tree = "avl" -> AvlTrav(root.root)
      [] tree = "rb" -> Rb!RbTrav(root)
      [] tree = "btree" -> BtKeys(root)
      [] tree = "shm_btree" -> ShmBtTrav(root)

Finds(key) ==
    CASE tree = "avl" -> AvlFinds(root.root, key)
      [] tree = "rb" -> Rb!RbFinds(root, key)
      [] tree = "btree" -> BtFinds(root, key)
      [] tree = "shm_btree" -> ShmBtFinds(root, key)

\* The keys a search finds.
Found == {key \in Keys : Finds(key)}

TreesInit ==
    /\ tree \in Trees
    /\ root = New(tree)
    /\ told = [op |-> "creat", key |-> 0, ret |-> "ok"]

Tell(op, key, ret) == told' = [op |-> op, key |-> key, ret |-> ret]

Insert(key) ==
    /\ UNCHANGED tree
    /\ \/ /\ tree = "avl"
          /\ \E mem \in {TRUE, ~NoMemory} :
                LET r == AvlInsert(root, key, mem)
                IN  root' = r.t /\ Tell("insert", key, r.ret)
       \/ /\ tree = "rb"
          /\ \E mem \in {TRUE, ~NoMemory} :
                LET r == Rb!RbInsert(root, key, mem)
                IN  root' = r.t /\ Tell("insert", key, r.ret)
       \/ /\ tree = "btree"
          /\ root' = BtInsert(root, key, Order)
          /\ Tell("insert", key, "ok")
       \/ /\ tree = "shm_btree"
          /\ root' = ShmBtInsert(root, key, Order)
          /\ Tell("insert", key, "ok")

\* A removal from the B-tree in shared memory that would go astray is left out.
Delete(key) ==
    /\ UNCHANGED tree
    /\ \/ /\ tree = "avl"
          /\ LET r == AvlDelete(root, key)
             IN  root' = r.t /\ Tell("remove", key, r.ret)
       \/ /\ tree = "rb"
          /\ \E r \in {Rb!RbDelete(root, key)} : root' = r.t /\ Tell("remove", key, r.ret)
       \/ /\ tree = "btree"
          /\ root' = BtRemove(root, key, Order)
          /\ Tell("remove", key, IF Finds(key) THEN "ok" ELSE "none")
       \/ /\ tree = "shm_btree"
          /\ ~Astray(root, key)
          /\ root' = ShmBtRemove(root, key, Order)
          /\ Tell("remove", key, IF Finds(key) THEN "ok" ELSE "none")

TreesNext == \E key \in Keys : Insert(key) \/ Delete(key)
-----------------------------------------------------------------------------
\* The keys a search can find are those inserted and not removed since, and every
\* answer is the right one, whatever shape the tree took on the way.
Dict == INSTANCE Dictionary WITH keys <- Found, answer <- told
DictStep == [Dict!Next]_<<tree, Found, told>>

\* Each tree keeps its own rule of balance after any number of calls: heights and
\* balance factors (AVL), colours, black heights and parent pointers (red-black),
\* fill and depth of the nodes (B-tree), and in shared memory its blocks and offsets.
Balanced ==
    /\ tree = "avl" => AvlBalanced(root.root)
    /\ tree = "rb" => Rb!RbBalanced(root)
    /\ tree = "btree" => BtBalanced(root, Order)
    /\ tree = "shm_btree" => ShmBtBalanced(root, Order)

Count == IF tree \in {"btree", "shm_btree"} THEN Cardinality(Found) ELSE root.num

\* A walk of the tree hands each key to the callback once and in ascending order,
\* the count is the number of keys, a find stops at the first key accepted, and
\* destroying the tree frees each node exactly once.
WalksExact ==
    /\ Trav = Ascending(Found)
    /\ Count = Cardinality(Found)
    /\ \A low \in Keys :
          LET accept == {key \in Keys : key >= low}
              first == SelectSeq(Trav, LAMBDA key : key >= low)
              want == IF first = <<>> THEN <<>> ELSE <<Head(first)>>
          IN  /\ tree = "avl" => AvlFind(root.root, accept) = want
              /\ tree = "rb" => Rb!RbFind(root, accept) = want
    /\ tree \in {"avl", "rb"} =>
          LET freed == IF tree = "avl" THEN AvlDestroy(root.root) ELSE Rb!RbDestroy(root)
          IN  Len(freed) = Cardinality(Found) /\ ToSet(freed) = Found
    /\ tree = "shm_btree" =>
          /\ Len(ShmBtDestroy(root)) = Len(root.node)
          /\ ToSet(ShmBtDestroy(root)) = DOMAIN root.node
          /\ \A key \in Keys : ShmBtQuery(root, key) = "found" => key \in Found
          /\ \A key \in Keys : ShmBtQuery(root, key) = "none" => key \notin Found

\* The fourth feature of a B-tree in the comment at the top of btree.c: the keys
\* ascend.  It fails from order 4 on, where a leaf can hold three keys and the
\* removal of the first one puts the last one in its place.
KeysInOrder == tree = "btree" => Trav = Ascending(ToSet(Trav))
=============================================================================
