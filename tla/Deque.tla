------------------------------- MODULE Deque -------------------------------
(***************************************************************************)
(* What a linked list promises its callers: a sequence of data blocks, to  *)
(* which a call adds a block at the end it names, after the block it names *)
(* or before the first block that is not greater, and from which a call    *)
(* takes the first, the last or the named block.  A call that answers      *)
(* "err" changes nothing.                                                  *)
(***************************************************************************)
EXTENDS Naturals, Sequences

CONSTANT Items      \* the data blocks, numbers

VARIABLES
    items,      \* the blocks in order
    answer      \* the answer to the last call

\* A call op, the block it gave or got, the block after which it put it (or 0),
\* and what it said.
AnswerAt(op, item, at, ret) == [op |-> op, item |-> item, at |-> at, ret |-> ret]
Answer(op, item, ret) == AnswerAt(op, item, 0, ret)

Init ==
    /\ items = <<>>
    /\ answer = Answer("creat", 0, "ok")

Without(x) == SelectSeq(items, LAMBDA y : y # x)
Put(i, x) == SubSeq(items, 1, i) \o <<x>> \o SubSeq(items, i + 1, Len(items))
\* How many blocks come before a block that is inserted in descending order.
Greater(x) == CHOOSE i \in 0..Len(items) :
    /\ \A j \in 1..i : items[j] > x
    /\ i < Len(items) => items[i + 1] <= x

Add(x) ==
    \/ answer' = Answer("lpush", x, "ok") /\ items' = Put(0, x)
    \/ answer' = Answer("rpush", x, "ok") /\ items' = Put(Len(items), x)
    \/ answer' = Answer("sort", x, "ok") /\ items' = Put(Greater(x), x)
    \/ \E i \in 1..Len(items) :
          answer' = AnswerAt("insert", x, items[i], "ok") /\ items' = Put(i, x)

Take(x) ==
    /\ items' = Without(x)
    /\ \/ answer' = Answer("lpop", x, "ok") /\ items # <<>> /\ x = items[1]
       \/ answer' = Answer("rpop", x, "ok") /\ items # <<>> /\ x = items[Len(items)]
       \/ answer' = Answer("remove", x, "ok") /\ \E i \in DOMAIN items : items[i] = x

\* Nothing is taken from an empty sequence, or by the name of an absent block.
Refuse(x) ==
    /\ items' = items
    /\ \/ answer' \in {Answer(op, x, "err") : op \in {"lpush", "rpush", "sort", "insert"}}
       \/ answer' \in {Answer("lpop", 0, "none"), Answer("rpop", 0, "none")} /\ items = <<>>
       \/ answer' = Answer("remove", x, "none") /\ \A i \in DOMAIN items : items[i] # x

\* The first block becomes the last one.
Roll ==
    /\ items # <<>>
    /\ answer' = Answer("roll", items[1], "ok")
    /\ items' = Tail(items) \o <<items[1]>>

Next == Roll \/ \E x \in Items : Add(x) \/ Take(x) \/ Refuse(x)

Spec == Init /\ [][Next]_<<items, answer>>
=============================================================================
