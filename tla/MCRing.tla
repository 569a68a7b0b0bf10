------------------------------- MODULE MCRing -------------------------------
(***************************************************************************)
(* Ring on a small instance, and the refinement of RingFifo: a push takes  *)
(* effect when it publishes (line 129), a pop when its CAS reserves the    *)
(* pointers (line 165).                                                    *)
(***************************************************************************)
EXTENDS Ring

\* What a pop has reserved, as the producers pushed it.
Reserved(t) == SubSeq(log, head[t] + 1, head[t] + n[t])

AbsCall(t) ==
    CASE pc[t] = "idle" -> [op |-> "none", n |-> 0, items |-> addr[t]]
      [] pc[t] \in PushPc \ {"push_count"} -> [op |-> "push", n |-> n[t], items |-> addr[t]]
      [] pc[t] = "push_count" -> [op |-> "done", n |-> n[t], items |-> addr[t]]
      [] pc[t] \in {"pop_head", "pop_avail", "pop_cas"} ->
            [op |-> "pop", n |-> n[t], items |-> <<>>]
      [] OTHER -> [op |-> "done", n |-> n[t], items |-> Reserved(t)]

Fifo == INSTANCE RingFifo WITH
            fifo <- SubSeq(log, cons.head + 1, prod.tail),
            call <- [t \in Threads |-> AbsCall(t)]

\* Every behaviour of ring_mpush and ring_mpop is one of the bounded first-in
\* first-out queue: nothing is lost, doubled or reordered between the calls.
ImplementsFifo == Fifo!Spec
=============================================================================
