-------------------------------- MODULE Ring --------------------------------
(***************************************************************************)
(* The lock-free ring of src/lib/core/ring.c: any number of threads call   *)
(* ring_mpush and ring_mpop (ring_push and ring_pop are the calls with one *)
(* pointer).  One action per access of a shared word; a thread's locals    *)
(* are functions on Threads, and pc[t] names the next access of thread t.  *)
(*                                                                         *)
(* The four indices only grow and are kept as naturals.  The code keeps    *)
(* them in words of 32 bits; what it does with them is modelled by what    *)
(* the word shows: the space and the stock it computes, and the counter    *)
(* num, are taken modulo Word, and the slot of an index is index % Max     *)
(* (index & mask).  Word is a multiple of Max, so wrapping does not move a *)
(* slot.  A compare-and-set that succeeds because the word went round      *)
(* exactly once while a thread stood between its read and its CAS is left  *)
(* out.                                                                    *)
(***************************************************************************)
EXTENDS Integers, Sequences, FiniteSets, Functions

CONSTANTS
    Threads,    \* the threads that share the ring
    Value,      \* the pointers they push
    Null,       \* what calloc leaves in a slot
    Max,        \* rq->max
    Word,       \* 2^32: the range of an unsigned int
    Batches,    \* the numbers of pointers the calls ask for
    MaxCalls    \* bound: calls the threads make in all

ASSUME RingAssumption ==
    /\ IsFiniteSet(Threads)
    /\ Max \in Nat \ {0}
    /\ Word \in Nat /\ Word > Max
    /\ Batches \subseteq Nat \ {0}
    /\ MaxCalls \in Nat
    /\ Null \notin Value

VARIABLES
    prod,       \* [head, tail]: reserved by / published by producers
    cons,       \* [head, tail]: reserved by / released by consumers
    num,        \* the counter, without the wrap: ring_used shows it % Word
    data,       \* the slots
    pc,         \* pc[t]: the next access of thread t
    head,       \* the local prod_head or cons_head
    n,          \* the parameter num of the running call
    i,          \* the loop counter over slots
    addr,       \* the array of pointers of the call (the result, for a pop)
    calls,      \* calls made so far (bound only)
    log         \* history: the pointer each index was reserved for

vars == <<prod, cons, num, data, pc, head, n, i, addr, calls, log>>

PushPc == {"push_head", "push_space", "push_cas", "push_write", "push_wait", "push_count"}
PopPc  == {"pop_head", "pop_avail", "pop_cas", "pop_read", "pop_wait", "pop_count"}

\* The slot of an index (index & mask).
Slot(k) == k % Max

\* Mutant of Space: one slot too many.
SpaceOffByOne(t) == (Max + cons.tail - head[t] + 1) % Word

\* The space a producer computes at line 115, the stock a consumer computes
\* at line 159: unsigned differences.
Space(t) == (Max + cons.tail - head[t]) % Word
Stock(t) == (prod.tail - head[t]) % Word

Goto(t, l) == pc' = [pc EXCEPT ![t] = l]

ring_creat ==
    /\ prod = [head |-> 0, tail |-> 0]
    /\ cons = [head |-> 0, tail |-> 0]
    /\ num = 0
    /\ data = [s \in 0..(Max - 1) |-> Null]
    /\ log = <<>>

Init ==
    /\ ring_creat
    /\ pc = [t \in Threads |-> "idle"]
    /\ head = [t \in Threads |-> 0]
    /\ n = [t \in Threads |-> 0]
    /\ i = [t \in Threads |-> 0]
    /\ addr = [t \in Threads |-> <<>>]
    /\ calls = 0

-----------------------------------------------------------------------------
\* ring_mpush(rq, a, Len(a)) is called.
PushCall(t) ==
    /\ pc[t] = "idle"
    /\ calls < MaxCalls
    /\ \E k \in Batches : \E a \in [1..k -> Value] :
          /\ addr' = [addr EXCEPT ![t] = a]
          /\ n' = [n EXCEPT ![t] = k]
    /\ calls' = calls + 1
    /\ Goto(t, "push_head")
    /\ UNCHANGED <<prod, cons, num, data, head, i, log>>

PushReadHead(t) ==
    /\ pc[t] = "push_head"
    /\ head' = [head EXCEPT ![t] = prod.head]
    /\ Goto(t, "push_space")
    /\ UNCHANGED <<prod, cons, num, data, n, i, addr, calls, log>>

\* Mutant of PushCheck: a push that would fill the ring is refused.
PushCheckStrict(t) ==
    /\ pc[t] = "push_space"
    /\ Goto(t, IF n[t] >= Space(t) THEN "idle" ELSE "push_cas")
    /\ UNCHANGED <<prod, cons, num, data, head, n, i, addr, calls, log>>

\* cons.tail is read and compared; without space the call returns -1.
PushCheck(t) ==
    /\ pc[t] = "push_space"
    /\ Goto(t, IF n[t] > Space(t) THEN "idle" ELSE "push_cas")
    /\ UNCHANGED <<prod, cons, num, data, head, n, i, addr, calls, log>>

\* atomic32_cmp_and_set on prod.head: reserve the slots, or start over.
PushReserve(t) ==
    /\ pc[t] = "push_cas"
    /\ prod.head = head[t]
    /\ prod' = [prod EXCEPT !.head = head[t] + n[t]]
    /\ log' = log \o addr[t]
    /\ i' = [i EXCEPT ![t] = 0]
    /\ Goto(t, "push_write")
    /\ UNCHANGED <<cons, num, data, head, n, addr, calls>>

PushRetry(t) ==
    /\ pc[t] = "push_cas"
    /\ prod.head # head[t]
    /\ Goto(t, "push_head")
    /\ UNCHANGED <<prod, cons, num, data, head, n, i, addr, calls, log>>

PushWrite(t) ==
    /\ pc[t] = "push_write"
    /\ data' = [data EXCEPT ![Slot(head[t] + i[t])] = addr[t][i[t] + 1]]
    /\ i' = [i EXCEPT ![t] = @ + 1]
    /\ Goto(t, IF i[t] + 1 = n[t] THEN "push_wait" ELSE "push_write")
    /\ UNCHANGED <<prod, cons, num, head, n, addr, calls, log>>

\* Mutant of PushPublish: the spin at line 128 is dropped.
PushPublishAtOnce(t) ==
    /\ pc[t] = "push_wait"
    /\ prod' = [prod EXCEPT !.tail = head[t] + n[t]]
    /\ Goto(t, "push_count")
    /\ UNCHANGED <<cons, num, data, head, n, i, addr, calls, log>>

\* Mutant of PushPublish: prod.head is waited for instead of prod.tail.
PushPublishOnHead(t) ==
    /\ pc[t] = "push_wait"
    /\ prod.head = head[t]
    /\ prod' = [prod EXCEPT !.tail = head[t] + n[t]]
    /\ Goto(t, "push_count")
    /\ UNCHANGED <<cons, num, data, head, n, i, addr, calls, log>>

\* The spin ends when the earlier producers have published.
PushPublish(t) ==
    /\ pc[t] = "push_wait"
    /\ prod.tail = head[t]
    /\ prod' = [prod EXCEPT !.tail = head[t] + n[t]]
    /\ Goto(t, "push_count")
    /\ UNCHANGED <<cons, num, data, head, n, i, addr, calls, log>>

\* Mutant of PushCount: calls are counted, not pointers.
PushCountOne(t) ==
    /\ pc[t] = "push_count"
    /\ num' = num + 1
    /\ Goto(t, "idle")
    /\ UNCHANGED <<prod, cons, data, head, n, i, addr, calls, log>>

PushCount(t) ==
    /\ pc[t] = "push_count"
    /\ num' = num + n[t]
    /\ Goto(t, "idle")
    /\ UNCHANGED <<prod, cons, data, head, n, i, addr, calls, log>>

-----------------------------------------------------------------------------
\* ring_mpop(rq, addr, k) is called.
PopCall(t) ==
    /\ pc[t] = "idle"
    /\ calls < MaxCalls
    /\ \E k \in Batches : n' = [n EXCEPT ![t] = k]
    /\ addr' = [addr EXCEPT ![t] = <<>>]
    /\ calls' = calls + 1
    /\ Goto(t, "pop_head")
    /\ UNCHANGED <<prod, cons, num, data, head, i, log>>

PopReadHead(t) ==
    /\ pc[t] = "pop_head"
    /\ head' = [head EXCEPT ![t] = cons.head]
    /\ Goto(t, "pop_avail")
    /\ UNCHANGED <<prod, cons, num, data, n, i, addr, calls, log>>

\* prod.tail is read and compared; with fewer pointers the call returns 0.
PopCheck(t) ==
    /\ pc[t] = "pop_avail"
    /\ Goto(t, IF n[t] > Stock(t) THEN "idle" ELSE "pop_cas")
    /\ UNCHANGED <<prod, cons, num, data, head, n, i, addr, calls, log>>

\* Mutant of PopReserve: a plain store instead of the compare-and-set.
PopReserveBlind(t) ==
    /\ pc[t] = "pop_cas"
    /\ cons' = [cons EXCEPT !.head = head[t] + n[t]]
    /\ i' = [i EXCEPT ![t] = 0]
    /\ Goto(t, "pop_read")
    /\ UNCHANGED <<prod, num, data, head, n, addr, calls, log>>

PopReserve(t) ==
    /\ pc[t] = "pop_cas"
    /\ cons.head = head[t]
    /\ cons' = [cons EXCEPT !.head = head[t] + n[t]]
    /\ i' = [i EXCEPT ![t] = 0]
    /\ Goto(t, "pop_read")
    /\ UNCHANGED <<prod, num, data, head, n, addr, calls, log>>

PopRetry(t) ==
    /\ pc[t] = "pop_cas"
    /\ cons.head # head[t]
    /\ Goto(t, "pop_head")
    /\ UNCHANGED <<prod, cons, num, data, head, n, i, addr, calls, log>>

PopRead(t) ==
    /\ pc[t] = "pop_read"
    /\ addr' = [addr EXCEPT ![t] = Append(@, data[Slot(head[t] + i[t])])]
    /\ i' = [i EXCEPT ![t] = @ + 1]
    /\ Goto(t, IF i[t] + 1 = n[t] THEN "pop_wait" ELSE "pop_read")
    /\ UNCHANGED <<prod, cons, num, data, head, n, calls, log>>

\* Mutant of PopRelease: the spin at line 174 is dropped.
PopReleaseAtOnce(t) ==
    /\ pc[t] = "pop_wait"
    /\ cons' = [cons EXCEPT !.tail = head[t] + n[t]]
    /\ Goto(t, "pop_count")
    /\ UNCHANGED <<prod, num, data, head, n, i, addr, calls, log>>

PopRelease(t) ==
    /\ pc[t] = "pop_wait"
    /\ cons.tail = head[t]
    /\ cons' = [cons EXCEPT !.tail = head[t] + n[t]]
    /\ Goto(t, "pop_count")
    /\ UNCHANGED <<prod, num, data, head, n, i, addr, calls, log>>

PopCount(t) ==
    /\ pc[t] = "pop_count"
    /\ num' = num - n[t]
    /\ Goto(t, "idle")
    /\ UNCHANGED <<prod, cons, data, head, n, i, addr, calls, log>>

-----------------------------------------------------------------------------
\* A step inside a call.
PushStep(t) == \/ PushReadHead(t) \/ PushCheck(t) \/ PushReserve(t) \/ PushRetry(t)
               \/ PushWrite(t) \/ PushPublish(t) \/ PushCount(t)
PopStep(t)  == \/ PopReadHead(t) \/ PopCheck(t) \/ PopReserve(t) \/ PopRetry(t)
               \/ PopRead(t) \/ PopRelease(t) \/ PopCount(t)

\* The bound on calls is used up and every call has returned.
Finished ==
    /\ \A t \in Threads : pc[t] = "idle"
    /\ calls = MaxCalls
    /\ UNCHANGED vars

Next ==
    \/ \E t \in Threads : PushCall(t) \/ PopCall(t) \/ PushStep(t) \/ PopStep(t)
    \/ Finished

Spec == Init /\ [][Next]_vars

\* The scheduler runs every thread that can move (a call in progress only:
\* nothing obliges a thread to call).
FairSpec == Spec /\ \A t \in Threads : WF_vars(PushStep(t) \/ PopStep(t))

-----------------------------------------------------------------------------
\* Calls that hold reserved slots.
Writing == {t \in Threads : pc[t] \in {"push_write", "push_wait"}}
Reading == {t \in Threads : pc[t] \in {"pop_read", "pop_wait"}}

TypeOK ==
    /\ prod \in [head : Nat, tail : Nat]
    /\ cons \in [head : Nat, tail : Nat]
    /\ num \in Int
    /\ data \in [0..(Max - 1) -> Value \cup {Null}]
    /\ pc \in [Threads -> {"idle"} \cup PushPc \cup PopPc]
    /\ head \in [Threads -> Nat]
    /\ n \in [Threads -> Nat]
    /\ i \in [Threads -> Nat]
    /\ addr \in [Threads -> Seq(Value \cup {Null})]
    /\ calls \in Nat
    /\ log \in Seq(Value)

\* The indices never overtake one another and never span more than the ring.
IndexOrder ==
    /\ cons.tail <= cons.head
    /\ cons.head <= prod.tail
    /\ prod.tail <= prod.head
    /\ prod.head <= cons.tail + Max

\* Two threads never touch the same slot at the same time, one of them
\* writing it: the slots a producer fills, the slots a consumer empties and
\* the slots that hold published pointers are all different.
Held(t) == {Slot(head[t] + k) : k \in i[t]..(n[t] - 1)}
NoSlotRace ==
    \A t \in Writing : \A u \in (Writing \cup Reading) \ {t} : Held(t) \cap Held(u) = {}

\* What is published and not yet released is in its slot.
Published ==
    \A k \in cons.tail..(prod.tail - 1) : data[Slot(k)] = log[k + 1]

\* A consumer reads exactly the pointers pushed for the indices it reserved,
\* whatever the other threads do between its accesses.
Delivered ==
    \A t \in Threads : pc[t] \in {"pop_read", "pop_wait", "pop_count"} =>
        \A k \in 1..i[t] : addr[t][k] = log[head[t] + k]

\* The inductive invariant behind the four above.  The locals of a call fit
\* where it stands ...
Locals(t) ==
    /\ pc[t] \in PushPc => addr[t] \in Seq(Value) /\ Len(addr[t]) = n[t] /\ n[t] > 0
    /\ pc[t] \in PopPc => n[t] > 0
    /\ pc[t] \in {"push_space", "push_cas"} => head[t] <= prod.head
    /\ pc[t] = "push_cas" => head[t] + n[t] <= cons.tail + Max
    /\ pc[t] = "push_write" => i[t] < n[t]
    /\ pc[t] = "push_wait" => i[t] = n[t]
    /\ pc[t] \in {"pop_head", "pop_avail", "pop_cas"} => addr[t] = <<>>
    /\ pc[t] \in {"pop_avail", "pop_cas"} => head[t] <= cons.head
    /\ pc[t] = "pop_cas" => head[t] + n[t] <= prod.tail
    /\ pc[t] = "pop_read" => i[t] < n[t]
    /\ pc[t] = "pop_wait" => i[t] = n[t]
    /\ pc[t] \in {"pop_read", "pop_wait", "pop_count"} =>
          Len(addr[t]) = i[t] /\ head[t] + i[t] <= cons.head

\* ... reserved ranges lie where they were cut out and are disjoint ...
Before(t, u) == head[t] + n[t] <= head[u]
Ranges ==
    /\ \A t \in Writing : prod.tail <= head[t] /\ head[t] + n[t] <= prod.head
    /\ \A t \in Reading : cons.tail <= head[t] /\ head[t] + n[t] <= cons.head
    /\ \A t, u \in Writing : t = u \/ Before(t, u) \/ Before(u, t)
    /\ \A t, u \in Reading : t = u \/ Before(t, u) \/ Before(u, t)

\* ... and what a producer has written so far is in its slots.
Written ==
    /\ Len(log) = prod.head
    /\ \A t \in Writing :
          /\ \A k \in 1..n[t] : log[head[t] + k] = addr[t][k]
          /\ \A k \in 0..(i[t] - 1) : data[Slot(head[t] + k)] = addr[t][k + 1]

Inv ==
    /\ TypeOK
    /\ IndexOrder
    /\ \A t \in Threads : Locals(t)
    /\ Ranges
    /\ Written
    /\ Published
    /\ Delivered

\* The counter is the number of published pointers not yet released, give or
\* take the calls that stand between their index update and their count.
Uncounted(l) == SumFunctionOnSet(n, {t \in Threads : pc[t] = l})
NumAccounting ==
    num = prod.tail - cons.tail - Uncounted("push_count") + Uncounted("pop_count")

\* What is reserved and not yet published or released is what the calls that
\* stand between the two hold.
RoomAccounting ==
    /\ prod.head - prod.tail + cons.head - cons.tail = SumFunctionOnSet(n, Writing \cup Reading)
    /\ \A t \in Threads : pc[t] = "pop_count" => i[t] = n[t]

\* A push is refused only when the ring really lacks the room, and a pop only
\* when it really lacks the pointers: the check uses a head that other threads
\* may have moved since it was read, and must err on neither side.
RefusalHonest ==
    [][\A t \in Threads :
          /\ (pc[t] = "push_space" /\ pc'[t] = "idle") => n[t] > Max + cons.tail - prod.head
          /\ (pc[t] = "pop_avail" /\ pc'[t] = "idle") => n[t] > prod.tail - cons.head]_vars

\* No thread stays between its read of an index and its check of the room or the
\* stock while so many pointers pass that the difference exceeds a word.
InTime ==
    \A t \in Threads :
        /\ pc[t] = "push_space" => Max + cons.tail - head[t] < Word
        /\ pc[t] = "pop_avail" => prod.tail - head[t] < Word

\* A thread that reserved slots gets through the spins at lines 128 and 174 and
\* returns: the earlier reservations it waits for never wait for it.
ReservationCompletes ==
    \A t \in Threads :
        pc[t] \in {"push_write", "push_wait", "pop_read", "pop_wait"} ~> pc[t] = "idle"
=============================================================================
