------------------------------ MODULE ShmHash ------------------------------
(***************************************************************************)
(* The hash table in shared memory (shm_hash.c): an array of shm_list      *)
(* rings, a pool of their nodes and a pool of blocks for the data, both    *)
(* shm_ring queues.  The lock of a slot is taken by nobody, so that one    *)
(* process uses the table.  The user finds a block again by its key, and   *)
(* keeps it: the call that would give a block back negates its offset      *)
(* (see "What is left out" in the README) and no code here makes it but    *)
(* after a push that failed.                                               *)
(***************************************************************************)
EXTENDS Lists

CONSTANTS
    HashKeys,   \* the keys
    HashLen,    \* the slots, head->len
    HashMax     \* nodes and blocks, head->max

ASSUME ShmHashAssumption ==
    /\ HashKeys \subseteq Nat
    /\ HashLen \in Nat \ {0} /\ HashMax \in 1 .. NumNodes

VARIABLES
    table,      \* per slot, its ring of nodes
    nodePool,   \* the nodes not in use
    dataPool,   \* the blocks not in use
    item,       \* per node, the block it carries
    keyOf,      \* per block, the key its user wrote into it
    app,        \* the blocks the user has
    stacks      \* history: per key, the blocks pushed and not popped, last first

hashVars == <<table, nodePool, dataPool, item, keyOf, app, stacks>>

Blocks == 1 .. HashMax
SlotOf(key) == key % HashLen
EmptyRing == [head |-> Null, tail |-> Null, num |-> 0, next |-> NoLinks, prev |-> NoLinks]

HashInit ==
    /\ table = [i \in 0 .. HashLen - 1 |-> EmptyRing]
    /\ nodePool = [i \in Blocks |-> i] /\ dataPool = [i \in Blocks |-> i]
    /\ item = [n \in Blocks |-> 0] /\ keyOf = [b \in Blocks |-> 0]
    /\ app = {}
    /\ stacks = [key \in HashKeys |-> <<>>]
-----------------------------------------------------------------------------
HashAlloc ==
    /\ dataPool # <<>>
    /\ app' = app \cup {Head(dataPool)}
    /\ dataPool' = Tail(dataPool)
    /\ UNCHANGED <<table, nodePool, item, keyOf, stacks>>

\* There is a node for every block.
HashPush(key, b) ==
    /\ b \in app /\ nodePool # <<>>
    /\ LET n == Head(nodePool)
       IN  /\ item' = [item EXCEPT ![n] = b]
           /\ table' = [table EXCEPT ![SlotOf(key)] = LPush2(@, n)]
    /\ nodePool' = Tail(nodePool)
    /\ keyOf' = [keyOf EXCEPT ![b] = key]
    /\ app' = app \ {b}
    /\ stacks' = [stacks EXCEPT ![key] = <<b>> \o @]
    /\ UNCHANGED dataPool

\* What a node that is not in use holds is of no consequence.
Taken(i, n) == [Delete2(table[i], n) EXCEPT !.next[n] = Null, !.prev[n] = Null]
PopNode(key, n) ==
    /\ table' = [table EXCEPT ![SlotOf(key)] = Taken(SlotOf(key), n)]
    /\ item' = [item EXCEPT ![n] = 0]
    /\ keyOf' = [keyOf EXCEPT ![item[n]] = 0]
    /\ app' = app \cup {item[n]}
    /\ stacks' = [stacks EXCEPT ![key] = Tail(@)]
    /\ UNCHANGED dataPool

Nodes2(key) == Walk(table[SlotOf(key)])
Matches(key) == SelectSeq(Nodes2(key), LAMBDA n : keyOf[item[n]] = key)

\* Mutant: the node of the ring is not given back.
HashPopKeepsNode(key) ==
    \E ns \in {Matches(key)} :
        /\ ns # <<>>
        /\ PopNode(key, ns[1])
        /\ UNCHANGED nodePool

\* A key that is not there changes nothing.
HashPop(key) ==
    \E ns \in {Matches(key)} :
        /\ ns # <<>>
        /\ PopNode(key, ns[1])
        /\ nodePool' = Append(nodePool, ns[1])

HashNext ==
    \/ HashAlloc
    \/ \E key \in HashKeys : HashPop(key) \/ \E b \in Blocks : HashPush(key, b)
-----------------------------------------------------------------------------
Elems(s) == {s[i] : i \in DOMAIN s}

\* A key finds the blocks pushed under it, the last one first, whatever other keys
\* share its slot; a block is with the user, in its pool or under one key; and every
\* node is in its pool or on one ring, so that a push finds one.
HashExact ==
    /\ \A key \in HashKeys : LET found == Matches(key)
           IN [i \in DOMAIN found |-> item[found[i]]] = stacks[key]
    /\ \A b \in Blocks :
          Cardinality({key \in HashKeys : b \in Elems(stacks[key])})
              = IF b \in app \cup Elems(dataPool) THEN 0 ELSE 1
    /\ Len(nodePool) = Cardinality(app) + Len(dataPool)
    /\ \A i \in DOMAIN table :
          /\ table[i].num = Len(Walk(table[i]))
          /\ \A n \in Elems(Walk(table[i])) : n \notin Elems(nodePool)
=============================================================================
