------------------------------ MODULE RingFifo ------------------------------
(***************************************************************************)
(* What the ring promises its callers: a first-in first-out queue of       *)
(* bounded size.  Between its call and its return, a push appends all its  *)
(* pointers at once and a pop takes all of its pointers at once from the   *)
(* front, or the call is refused and changes nothing.  A pop is refused    *)
(* only when there are too few pointers, a push only when the queue and    *)
(* the other calls under way together leave it no room.                    *)
(***************************************************************************)
EXTENDS Integers, Sequences, Functions

CONSTANTS Threads, Value, Max, Batches

VARIABLES
    fifo,       \* the pointers in the queue, the oldest first
    call        \* call[t]: the call of thread t and how far it is

vars == <<fifo, call>>

Init ==
    /\ fifo = <<>>
    /\ call = [t \in Threads |-> [op |-> "none", n |-> 0, items |-> <<>>]]

Become(t, c) == call' = [call EXCEPT ![t] = c]

CallPush(t) ==
    /\ call[t].op = "none"
    /\ \E k \in Batches : \E a \in [1..k -> Value] :
          Become(t, [op |-> "push", n |-> k, items |-> a])
    /\ UNCHANGED fifo

CallPop(t) ==
    /\ call[t].op = "none"
    /\ \E k \in Batches : Become(t, [op |-> "pop", n |-> k, items |-> <<>>])
    /\ UNCHANGED fifo

Put(t) ==
    /\ call[t].op = "push"
    /\ Len(fifo) + call[t].n <= Max
    /\ fifo' = fifo \o call[t].items
    /\ Become(t, [call[t] EXCEPT !.op = "done"])

Take(t) ==
    /\ call[t].op = "pop"
    /\ call[t].n <= Len(fifo)
    /\ fifo' = SubSeq(fifo, call[t].n + 1, Len(fifo))
    /\ Become(t, [call[t] EXCEPT !.op = "done", !.items = SubSeq(fifo, 1, call[t].n)])

\* What the other calls hold of the room: pointers about to be appended, and
\* taken pointers whose room is not given back before the call returns.
Underway(t) == SumFunctionOnSet([u \in Threads |-> call[u].n], Threads \ {t})

RefusePush(t) ==
    /\ call[t].op = "push"
    /\ call[t].n + Len(fifo) + Underway(t) > Max
    /\ Become(t, [op |-> "none", n |-> 0, items |-> call[t].items])
    /\ UNCHANGED fifo

RefusePop(t) ==
    /\ call[t].op = "pop"
    /\ call[t].n > Len(fifo)
    /\ Become(t, [op |-> "none", n |-> 0, items |-> <<>>])
    /\ UNCHANGED fifo

\* The result is the array of pointers the call put in or took out.
Return(t) ==
    /\ call[t].op = "done"
    /\ Become(t, [op |-> "none", n |-> 0, items |-> call[t].items])
    /\ UNCHANGED fifo

Next == \E t \in Threads :
    \/ CallPush(t) \/ CallPop(t) \/ Put(t) \/ Take(t)
    \/ RefusePush(t) \/ RefusePop(t) \/ Return(t)

Spec == Init /\ [][Next]_vars
=============================================================================
