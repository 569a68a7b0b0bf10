--------------------------- MODULE RtmqServerRecv ---------------------------
(***************************************************************************)
(* How a message from a client reaches a worker of the RTMQ server.  A     *)
(* receiving thread reads a connection into a buffer, hands each message   *)
(* to a receive queue as a reference into the buffer, and goes on; when a  *)
(* buffer is full it switches to a new one, taking the incomplete message  *)
(* along.  Workers handle the references.  A buffer is freed by whoever    *)
(* releases the last reference: a worker, or the thread that switches or   *)
(* deletes the connection.                                                 *)
(*                                                                         *)
(* One action is one access of state that threads share: a queue or its    *)
(* pool (FIFOs here, module Ring), a pipe, a reference count, the table of *)
(* the counts under its lock.  Which connection a thread serves next is a  *)
(* choice; RtmqServerSend has the traversals.                              *)
(***************************************************************************)
EXTENDS Naturals, FiniteSets, FiniteSetsExt, SequencesExt

CONSTANTS
    Conns,      \* connections
    Rsvrs,      \* receiving threads
    RsvrOf,     \* RsvrOf[c]: the thread of connection c
    Stream,     \* Stream[c]: what the client writes, in units (see Unit)
    Refused,    \* connections with a wrong password
    Quit,       \* connections that may end at any time
    WorkNum,    \* conf.work_thd_num
    HdlQnum,    \* RTMQ_WORKER_HDL_QNUM
    QueueMax,   \* recvq.max
    BuffLen,    \* RTMQ_BUFF_SIZE, in units
    BuffNum,    \* addresses of buffers (bound; see EnoughBuffers)
    PipeMax,    \* commands a pipe holds
    MaxIdle,    \* times a receiving thread finds nothing to do for a second (bound)
    None

Workers == 0..(WorkNum - 1)
\* conf.recvq_num
RecvqNum == HdlQnum * WorkNum
Recvqs == 0..(RecvqNum - 1)
Buffs == 1..BuffNum

\* A unit of a stream belongs to a message: its number (no two messages of the
\* clients have the same), its length in units and its kind, and which unit of the
\* message it is.  Messages are authentication requests, messages for the
\* application, and such with a node id that is not the sender's.  The header is in
\* the first unit.
Unit == [no : Nat, at : Nat, len : Nat, kind : {"auth", "exp", "alien"}]

\* A client writes whole messages, one after the other: from its first unit a message
\* is there to the end, and every other unit follows the one before it.
WellFormed(s) ==
    /\ \A i \in DOMAIN s : s[i].at = 1 =>
          \A k \in 1..s[i].len : i + k - 1 \in DOMAIN s /\ s[i + k - 1] = [s[i] EXCEPT !.at = k]
    /\ \A i \in DOMAIN s : s[i].at \in 1..s[i].len
    /\ \A i \in DOMAIN s : s[i].at > 1 => i > 1 /\ s[i - 1] = [s[i] EXCEPT !.at = @ - 1]
    /\ \A i, j \in DOMAIN s : i < j /\ s[j].at = 1 => s[i].no < s[j].no

\* The numbers of the messages a connection brings.
Messages(c) == {Stream[c][i].no : i \in DOMAIN Stream[c]}

\* There is an address for every connection, for every block of the queues, and for
\* a second buffer of every thread, so that an allocation succeeds.
EnoughBuffers ==
    BuffNum >= Cardinality(Conns) + RecvqNum * QueueMax + Cardinality(Rsvrs)

ASSUME RecvAssumption ==
    /\ IsFiniteSet(Conns) /\ IsFiniteSet(Rsvrs)
    /\ RsvrOf \in [Conns -> Rsvrs]
    /\ \A c \in Conns : Stream[c] \in Seq(Unit) /\ WellFormed(Stream[c])
    /\ \A c, d \in Conns : c # d => Messages(c) \cap Messages(d) = {}
    /\ Refused \cup Quit \subseteq Conns
    /\ {WorkNum, HdlQnum, QueueMax, BuffLen, BuffNum, PipeMax} \subseteq Nat \ {0}
    /\ MaxIdle \in Nat
    /\ EnoughBuffers
    /\ None \notin Conns \cup Nat

VARIABLES
    \* buffers, as mref.c counts them
    count,      \* count[b]: references of buffer b; None if it is not in the table
    mem,        \* mem[b]: what has been written to it
    \* connections
    connq,      \* connections not yet added
    base,       \* base[c]: recv.base; None if c is not on a list
    optr,       \* optr[c]: units before recv.optr; recv.iptr is at the end of mem
    got,        \* units read from the stream
    auth,       \* connections with auth_succ
    \* queues
    pool,       \* pool[q]: free blocks of receive queue q
    recvq,      \* recvq[q]: items [base, at, no], no the message it is for
    pipe,       \* pipe[w]: queues named by the commands in it
    \* receiving threads
    rpc,        \* "idle", "read", "parse", "inc", "push", "cmd", "all", "dec", "free"
    cur,        \* connection served
    rq,         \* queue chosen, or next queue to name in a command
    old,        \* buffer to release
    idle,       \* seconds so far in which a thread found nothing to do
    \* workers
    wpc,        \* "select", "pop", "proc", "free", "back"
    visit,      \* queues still to look at, the current one first
    batch,      \* items popped and not yet released
    \* history
    handled     \* handled[q]: messages the workers have handled from queue q

\* queue_creat: the blocks of a queue.
SlotNum == QueueMax

bvars == <<count, mem>>
cvars == <<connq, base, optr, got, auth>>
qvars == <<pool, recvq, pipe>>
rvars == <<rpc, cur, rq, old, idle>>
wvars == <<wpc, visit, batch>>
vars  == <<bvars, cvars, qvars, rvars, wvars, handled>>

Init ==
    /\ count = [b \in Buffs |-> None]
    /\ mem = [b \in Buffs |-> <<>>]
    /\ connq = Conns
    /\ base = [c \in Conns |-> None]
    /\ optr = [c \in Conns |-> 0]
    /\ got = [c \in Conns |-> 0]
    /\ auth = {}
    /\ pool = [q \in Recvqs |-> SlotNum]
    /\ recvq = [q \in Recvqs |-> <<>>]
    /\ pipe = [w \in Workers |-> <<>>]
    /\ rpc = [r \in Rsvrs |-> "idle"]
    /\ cur = [r \in Rsvrs |-> None]
    /\ rq = [r \in Rsvrs |-> None]
    /\ old = [r \in Rsvrs |-> None]
    /\ idle = 0
    /\ wpc = [w \in Workers |-> "select"]
    /\ visit = [w \in Workers |-> <<>>]
    /\ batch = [w \in Workers |-> <<>>]
    /\ handled = [q \in Recvqs |-> <<>>]

-----------------------------------------------------------------------------
(* Buffers.  The addresses of freed buffers are used again at once. *)

FreeAddr == Min({b \in Buffs : count[b] = None})

\* mref_alloc: a buffer with one reference, to hold these units.
Alloc(b, units) ==
    /\ count' = [count EXCEPT ![b] = 1]
    /\ mem' = [mem EXCEPT ![b] = units]

\* Mutant of Inc: the reference of the item is not counted.
NoInc(b) == UNCHANGED count

\* mref_inc.
Inc(b) == count' = [count EXCEPT ![b] = @ + 1]

\* mref_dec: the count, under the read lock, and whether it has come to zero.
Dec(b) == count' = [count EXCEPT ![b] = @ - 1]
LastRef(b) == count[b] = 1

\* mref_dec: looked up again under the write lock, and freed if still zero.
Free(b) ==
    /\ count' = [count EXCEPT ![b] = IF @ = 0 THEN None ELSE @]
    /\ mem' = [mem EXCEPT ![b] = IF count[b] = 0 THEN <<>> ELSE @]

-----------------------------------------------------------------------------
(* A receiving thread *)

Listed(r) == {c \in Conns : RsvrOf[c] = r /\ base[c] # None}
Iptr(c) == Len(mem[base[c]])

Left(c) == BuffLen - Iptr(c)

\* rtmq_rsvr_data_proc.
Header(c) == mem[base[c]][optr[c] + 1]
Complete(c) == optr[c] < Iptr(c) /\ optr[c] + Header(c).len <= Iptr(c)

\* Mutant of Accepted: the connection need not have authenticated.
AcceptedAny(c) == Header(c).kind = "exp"

\* rtmq_rsvr_exp_mesg_proc: of an authenticated connection, and with its node id.
Accepted(c) == Header(c).kind = "exp" /\ c \in auth

Consume(c) == optr' = [optr EXCEPT ![c] = @ + Header(c).len]

\* The thread is about to read: it comes from the list or from a switch, or what it
\* has read ends inside a message and the buffer has room.
Reading(r) ==
    \/ rpc[r] = "read"
    \/ rpc[r] = "parse" /\ ~Complete(cur[r]) /\ Left(cur[r]) > 0

AddConn(r) ==
    /\ rpc[r] = "idle"
    /\ \E c \in connq :
          /\ RsvrOf[c] = r
          /\ connq' = connq \ {c}
          /\ base' = [base EXCEPT ![c] = FreeAddr]
    /\ Alloc(FreeAddr, <<>>)
    /\ UNCHANGED <<optr, got, auth, qvars, rvars, wvars, handled>>

\* rtmq_rsvr_trav_recv: a connection that is readable.
Serve(r) ==
    /\ rpc[r] = "idle"
    /\ \E c \in Listed(r) :
          /\ got[c] < Len(Stream[c]) \/ c \in Quit
          /\ cur' = [cur EXCEPT ![r] = c]
    /\ rpc' = [rpc EXCEPT ![r] = "read"]
    /\ UNCHANGED <<bvars, cvars, qvars, rq, old, idle, wvars, handled>>

\* rtmq_rsvr_recv_proc: what has arrived is read, as far as there is room.
Read(r) ==
    LET c == cur[r]
    IN  /\ Reading(r)
        /\ \E n \in 1..Left(c) :
              /\ got[c] + n <= Len(Stream[c])
              /\ mem' = [mem EXCEPT ![base[c]] = @ \o SubSeq(Stream[c], got[c] + 1, got[c] + n)]
              /\ got' = [got EXCEPT ![c] = @ + n]
        /\ rpc' = [rpc EXCEPT ![r] = "parse"]
        /\ UNCHANGED <<count, connq, base, optr, auth, qvars, cur, rq, old, idle, wvars, handled>>

\* Nothing more has arrived.
ReadAgain(r) ==
    /\ Reading(r)
    /\ Left(cur[r]) > 0
    /\ rpc' = [rpc EXCEPT ![r] = "idle"]
    /\ cur' = [cur EXCEPT ![r] = None]
    /\ UNCHANGED <<bvars, cvars, qvars, rq, old, idle, wvars, handled>>

\* The connection leaves the list; its buffer is to be released.
DelConn(r, c) ==
    /\ base' = [base EXCEPT ![c] = None]
    /\ old' = [old EXCEPT ![r] = base[c]]
    /\ cur' = [cur EXCEPT ![r] = None]
    /\ rpc' = [rpc EXCEPT ![r] = "dec"]

\* A read returns nothing: the client has closed, or no room is left, because a
\* message is longer than a buffer.
Disconnected(r) ==
    /\ Reading(r)
    /\ cur[r] \in Quit \/ Left(cur[r]) = 0
    /\ DelConn(r, cur[r])
    /\ UNCHANGED <<bvars, connq, optr, got, auth, qvars, rq, idle, wvars, handled>>

\* A connection is deleted as silent before the select (rtmq_rsvr_set_rdset), or
\* because a write to it failed (rtmq_rsvr_trav_send).
Dropped(r) ==
    /\ rpc[r] = "idle"
    /\ \E c \in Listed(r) \cap Quit : DelConn(r, c)
    /\ UNCHANGED <<bvars, connq, optr, got, auth, qvars, rq, idle, wvars, handled>>

\* rtmq_rsvr_event_timeout_hdl: a silent connection is deleted.  Commands for all
\* queues follow when its buffer is released.
Silent(r) ==
    /\ rpc[r] = "idle"
    /\ idle < MaxIdle
    /\ \E c \in Listed(r) \cap Quit : DelConn(r, c)
    /\ idle' = idle + 1
    /\ rq' = [rq EXCEPT ![r] = 0]
    /\ UNCHANGED <<bvars, connq, optr, got, auth, qvars, wvars, handled>>

\* What is still to be handled of a buffer.
Rest(c) == SubSeq(mem[base[c]], optr[c] + 1, Iptr(c))

\* Mutant of Switch: the rest is moved to the front of the buffer.
SwitchInPlace(r) ==
    LET c == cur[r]
    IN  /\ rpc[r] = "parse"
        /\ ~Complete(c) /\ Left(c) = 0
        /\ mem' = [mem EXCEPT ![base[c]] = Rest(c)]
        /\ optr' = [optr EXCEPT ![c] = 0]
        /\ rpc' = [rpc EXCEPT ![r] = "read"]
        /\ UNCHANGED <<count, connq, base, got, auth, qvars, cur, rq, old, idle, wvars, handled>>

\* rtmq_rsvr_switch_recv_buff.
Switch(r) ==
    LET c == cur[r]
    IN  /\ rpc[r] = "parse"
        /\ ~Complete(c) /\ Left(c) = 0
        /\ Alloc(FreeAddr, Rest(c))
        /\ base' = [base EXCEPT ![c] = FreeAddr]
        /\ optr' = [optr EXCEPT ![c] = 0]
        /\ old' = [old EXCEPT ![r] = base[c]]
        /\ rpc' = [rpc EXCEPT ![r] = "dec"]
        /\ UNCHANGED <<connq, got, auth, qvars, cur, rq, idle, wvars, handled>>

\* An authentication request, or a message that is dropped.
ParseSkip(r) ==
    LET c == cur[r]
    IN  /\ rpc[r] = "parse"
        /\ Complete(c) /\ ~Accepted(c)
        /\ auth' = IF Header(c).kind = "auth" /\ c \notin Refused THEN auth \cup {c} ELSE auth
        /\ Consume(c)
        /\ UNCHANGED <<bvars, connq, base, got, qvars, rvars, wvars, handled>>

\* rtmq_rsvr_exp_mesg_proc: a block of a random queue is taken; if there is none the
\* message is dropped and the workers are told of all queues.
ParseExp(r) ==
    LET c == cur[r]
    IN  /\ rpc[r] = "parse"
        /\ Complete(c) /\ Accepted(c)
        /\ \E q \in Recvqs :
              IF pool[q] > 0
              THEN /\ pool' = [pool EXCEPT ![q] = @ - 1]
                   /\ rq' = [rq EXCEPT ![r] = q]
                   /\ rpc' = [rpc EXCEPT ![r] = "inc"]
              ELSE /\ rq' = [rq EXCEPT ![r] = 0]
                   /\ rpc' = [rpc EXCEPT ![r] = "all"]
                   /\ UNCHANGED pool
        /\ UNCHANGED <<bvars, cvars, recvq, pipe, cur, old, idle, wvars, handled>>

IncRef(r) ==
    /\ rpc[r] = "inc"
    /\ Inc(base[cur[r]])
    /\ rpc' = [rpc EXCEPT ![r] = "push"]
    /\ UNCHANGED <<mem, cvars, qvars, cur, rq, old, idle, wvars, handled>>

\* queue_push; a refusal is not noticed.
Push(r) ==
    LET c == cur[r]
        q == rq[r]
        item == [base |-> base[c], at |-> optr[c], no |-> Header(c).no]
    IN  /\ rpc[r] = "push"
        /\ recvq' = IF Len(recvq[q]) < QueueMax THEN [recvq EXCEPT ![q] = Append(@, item)] ELSE recvq
        /\ rpc' = [rpc EXCEPT ![r] = "cmd"]
        /\ UNCHANGED <<bvars, cvars, pool, pipe, cur, rq, old, idle, wvars, handled>>

\* rtmq_rsvr_cmd_proc_req; a command that finds the pipe full is lost.
CmdProcReq(q) ==
    LET w == q \div HdlQnum
    IN  pipe' = IF Len(pipe[w]) < PipeMax THEN [pipe EXCEPT ![w] = Append(@, q)] ELSE pipe

\* The message is done with; the thread looks at the next one.
Cmd(r) ==
    /\ rpc[r] = "cmd"
    /\ CmdProcReq(rq[r])
    /\ Consume(cur[r])
    /\ rq' = [rq EXCEPT ![r] = None]
    /\ rpc' = [rpc EXCEPT ![r] = "parse"]
    /\ UNCHANGED <<bvars, connq, base, got, auth, pool, recvq, cur, old, idle, wvars, handled>>

\* rtmq_rsvr_cmd_proc_all_req, for a message that was dropped or in an idle second.
All(r) ==
    LET last == rq[r] = RecvqNum - 1
    IN  /\ rpc[r] = "all"
        /\ CmdProcReq(rq[r])
        /\ rq' = [rq EXCEPT ![r] = IF last THEN None ELSE @ + 1]
        /\ rpc' = [rpc EXCEPT ![r] = CASE ~last -> "all"
                                       [] last /\ cur[r] # None -> "parse"
                                       [] last /\ cur[r] = None -> "idle"]
        /\ IF last /\ cur[r] # None THEN Consume(cur[r]) ELSE UNCHANGED optr
        /\ UNCHANGED <<bvars, connq, base, got, auth, pool, recvq, cur, old, idle, wvars, handled>>

\* rtmq_rsvr_event_timeout_hdl: no connection is silent.
Timeout(r) ==
    /\ rpc[r] = "idle"
    /\ Listed(r) # {}
    /\ idle < MaxIdle
    /\ idle' = idle + 1
    /\ rq' = [rq EXCEPT ![r] = 0]
    /\ rpc' = [rpc EXCEPT ![r] = "all"]
    /\ UNCHANGED <<bvars, cvars, qvars, cur, old, wvars, handled>>

\* The old buffer is released; the thread goes back to the read, or to the list.
Resume(r) ==
    /\ old' = [old EXCEPT ![r] = None]
    /\ rpc' = [rpc EXCEPT ![r] = CASE cur[r] # None -> "read"
                                   [] cur[r] = None /\ rq[r] # None -> "all"
                                   [] cur[r] = None /\ rq[r] = None -> "idle"]

DecOld(r) ==
    /\ rpc[r] = "dec"
    /\ Dec(old[r])
    /\ IF LastRef(old[r]) THEN rpc' = [rpc EXCEPT ![r] = "free"] /\ UNCHANGED old ELSE Resume(r)
    /\ UNCHANGED <<mem, cvars, qvars, cur, rq, idle, wvars, handled>>

FreeOld(r) ==
    /\ rpc[r] = "free"
    /\ Free(old[r])
    /\ Resume(r)
    /\ UNCHANGED <<cvars, qvars, cur, rq, idle, wvars, handled>>

RsvrStep(r) ==
    \/ AddConn(r) \/ Serve(r) \/ Read(r) \/ ReadAgain(r) \/ Disconnected(r)
    \/ Dropped(r) \/ Silent(r)
    \/ Switch(r) \/ ParseSkip(r) \/ ParseExp(r)
    \/ IncRef(r) \/ Push(r) \/ Cmd(r) \/ All(r) \/ Timeout(r)
    \/ DecOld(r) \/ FreeOld(r)

-----------------------------------------------------------------------------
(* A worker *)

\* Mutant of Own: the sweep ends one queue early.
OwnButLast(w) == [i \in 1..(HdlQnum - 1) |-> HdlQnum * w + i - 1]

\* The queues of a worker, as the sweep visits them.
Own(w) == [i \in 1..HdlQnum |-> HdlQnum * w + i - 1]

\* rtmq_worker_event_core_hdl: a command is read.
WorkCmd(w) ==
    /\ wpc[w] = "select"
    /\ pipe[w] # <<>>
    /\ visit' = [visit EXCEPT ![w] = <<Head(pipe[w])>>]
    /\ pipe' = [pipe EXCEPT ![w] = Tail(@)]
    /\ wpc' = [wpc EXCEPT ![w] = "pop"]
    /\ UNCHANGED <<bvars, cvars, pool, recvq, rvars, batch, handled>>

\* No command for half a minute.  With nothing to find the sweep changes nothing.
WorkSweep(w) ==
    /\ wpc[w] = "select"
    /\ pipe[w] = <<>>
    /\ \E q \in Range(Own(w)) : recvq[q] # <<>>
    /\ visit' = [visit EXCEPT ![w] = Own(w)]
    /\ wpc' = [wpc EXCEPT ![w] = "pop"]
    /\ UNCHANGED <<bvars, cvars, qvars, rvars, batch, handled>>

\* rtmq_worker_cmd_proc_req_hdl: all of the queue, until it is empty.
WorkPop(w) ==
    LET q == Head(visit[w])
    IN  /\ wpc[w] = "pop"
        /\ batch' = [batch EXCEPT ![w] = recvq[q]]
        /\ recvq' = [recvq EXCEPT ![q] = <<>>]
        /\ visit' = IF recvq[q] = <<>> THEN [visit EXCEPT ![w] = Tail(@)] ELSE visit
        /\ wpc' = [wpc EXCEPT ![w] = CASE recvq[q] # <<>> -> "proc"
                                       [] recvq[q] = <<>> /\ Len(visit[w]) > 1 -> "pop"
                                       [] OTHER -> "select"]
        /\ UNCHANGED <<bvars, cvars, pool, pipe, rvars, handled>>

\* The callback registered for the type gets the message in the buffer, then the
\* reference is released.
WorkProc(w) ==
    LET item == Head(batch[w])
    IN  /\ wpc[w] = "proc"
        /\ handled' = [handled EXCEPT ![Head(visit[w])] = Append(@, mem[item.base][item.at + 1].no)]
        /\ Dec(item.base)
        /\ wpc' = [wpc EXCEPT ![w] = IF LastRef(item.base) THEN "free" ELSE "back"]
        /\ UNCHANGED <<mem, cvars, qvars, rvars, visit, batch>>

WorkFree(w) ==
    /\ wpc[w] = "free"
    /\ Free(Head(batch[w]).base)
    /\ wpc' = [wpc EXCEPT ![w] = "back"]
    /\ UNCHANGED <<cvars, qvars, rvars, visit, batch, handled>>

\* queue_dealloc: the block goes back to the pool, and the next item is handled.
WorkBack(w) ==
    /\ wpc[w] = "back"
    /\ pool' = [pool EXCEPT ![Head(visit[w])] = @ + 1]
    /\ batch' = [batch EXCEPT ![w] = Tail(@)]
    /\ wpc' = [wpc EXCEPT ![w] = IF Len(batch[w]) > 1 THEN "proc" ELSE "pop"]
    /\ UNCHANGED <<bvars, cvars, recvq, pipe, rvars, visit, handled>>

WorkStep(w) ==
    WorkCmd(w) \/ WorkSweep(w) \/ WorkPop(w) \/ WorkProc(w) \/ WorkFree(w) \/ WorkBack(w)

Next == (\E r \in Rsvrs : RsvrStep(r)) \/ (\E w \in Workers : WorkStep(w))

Spec == Init /\ [][Next]_vars

\* Every worker is scheduled.
FairSpec == Spec /\ \A w \in Workers : WF_vars(WorkStep(w))

-----------------------------------------------------------------------------
(* Properties *)

Item == [base : Buffs, at : 0..(BuffLen - 1), no : Nat]

BuffsOK ==
    /\ count \in [Buffs -> Nat \cup {None}]
    /\ mem \in [Buffs -> Seq(Unit)]
    /\ \A b \in Buffs : Len(mem[b]) <= BuffLen

ConnsOK ==
    /\ connq \subseteq Conns
    /\ auth \subseteq Conns \ (connq \cup Refused)
    /\ base \in [Conns -> Buffs \cup {None}]
    /\ optr \in [Conns -> 0..BuffLen]
    /\ got \in [Conns -> Nat]

QueuesOK ==
    /\ pool \in [Recvqs -> 0..QueueMax]
    /\ recvq \in [Recvqs -> Seq(Item)]
    /\ pipe \in [Workers -> Seq(Recvqs)]
    /\ \A w \in Workers : Len(pipe[w]) <= PipeMax

RsvrsOK ==
    /\ rpc \in [Rsvrs -> {"idle", "read", "parse", "inc", "push", "cmd", "all", "dec", "free"}]
    /\ cur \in [Rsvrs -> Conns \cup {None}]
    /\ rq \in [Rsvrs -> Recvqs \cup {None}]
    /\ old \in [Rsvrs -> Buffs \cup {None}]
    /\ idle \in 0..MaxIdle

WorkersOK ==
    /\ wpc \in [Workers -> {"select", "pop", "proc", "free", "back"}]
    /\ visit \in [Workers -> Seq(Recvqs)]
    /\ batch \in [Workers -> Seq(Item)]
    /\ handled \in [Recvqs -> Seq(Nat)]

\* Every variable has its type; a buffer is never written beyond its end.
TypeOK == BuffsOK /\ ConnsOK /\ QueuesOK /\ RsvrsOK /\ WorkersOK

\* Items of a worker's batch that it has not released.
Pending(w) == DOMAIN batch[w] \ (IF wpc[w] \in {"free", "back"} THEN {1} ELSE {})

\* Who holds a reference to a buffer: a connection, a thread that has still to
\* release it or has counted one for an item it is about to push, an item in a receive
\* queue or with a worker.
ConnRefs(b)  == {<<"conn", c>> : c \in {x \in Conns : base[x] = b}}
OldRefs(b)   == {<<"old", r>> : r \in {x \in Rsvrs : rpc[x] = "dec" /\ old[x] = b}}
NewRefs(b)   == {<<"new", r>> : r \in {x \in Rsvrs : rpc[x] = "push" /\ base[cur[x]] = b}}
RecvqRefs(b) == UNION {{<<"recvq", q, i>> : i \in {x \in DOMAIN recvq[q] : recvq[q][x].base = b}} : q \in Recvqs}
BatchRefs(b) == UNION {{<<"batch", w, i>> : i \in {x \in Pending(w) : batch[w][x].base = b}} : w \in Workers}
Holders(b)   == ConnRefs(b) \cup OldRefs(b) \cup NewRefs(b) \cup RecvqRefs(b) \cup BatchRefs(b)

\* Threads between the decrement that found the last reference and the freeing.
Freeing(b) ==
    {<<"rsvr", r>> : r \in {x \in Rsvrs : rpc[x] = "free" /\ old[x] = b}}
    \cup {<<"worker", w>> : w \in {x \in Workers : wpc[x] = "free" /\ Head(batch[x]).base = b}}

\* The count of a buffer is the number of references to it; when it is zero exactly
\* one thread is about to free the buffer, and a freed buffer has no reference:
\* mref_inc and mref_dec by receiving threads and workers (mref.c:160-250).  A push
\* to a receive queue that failed would keep a count without a reference: it never
\* fails, as a block returns to the pool after its item has left the ring.
BuffersCounted ==
    \A b \in Buffs :
        IF count[b] = None
        THEN Holders(b) = {} /\ Freeing(b) = {}
        ELSE /\ count[b] = Cardinality(Holders(b))
             /\ Cardinality(Freeing(b)) = IF count[b] = 0 THEN 1 ELSE 0

Whole(item) ==
    /\ count[item.base] # None
    /\ item.at < Len(mem[item.base])
    /\ LET first == mem[item.base][item.at + 1]
       IN  /\ first.no = item.no /\ first.at = 1
           /\ item.at + first.len <= Len(mem[item.base])
           /\ \A k \in 1..first.len : mem[item.base][item.at + k] = [first EXCEPT !.at = k]

\* An item shows its message, whole, until it is released: no switch, deletion or
\* later read of the connection disturbs it (rtmq_rsvr.c:1580-1610).
Intact ==
    /\ \A q \in Recvqs : \A i \in DOMAIN recvq[q] : Whole(recvq[q][i])
    /\ \A w \in Workers : \A i \in Pending(w) : Whole(batch[w][i])

Exps(c) == {u.no : u \in {x \in Range(Stream[c]) : x.kind = "exp"}}

\* Workers see messages for the application of connections that have authenticated
\* only, each at most once, and those of a connection in the order they were sent as
\* far as one queue holds them, whatever buffers a message was split over.
HandledInOrder ==
    /\ \A q \in Recvqs : \A i \in DOMAIN handled[q] :
          \E c \in Conns \ Refused : handled[q][i] \in Exps(c)
    /\ \A c \in Conns, q \in Recvqs : \A i, j \in DOMAIN handled[q] :
          i < j /\ {handled[q][i], handled[q][j]} \subseteq Messages(c) => handled[q][i] < handled[q][j]
    /\ \A p, q \in Recvqs : p # q => Range(handled[p]) \cap Range(handled[q]) = {}

Queued(n) == \E q \in Recvqs : \E i \in DOMAIN recvq[q] : recvq[q][i].no = n
Handled(n) == \E q \in Recvqs : n \in Range(handled[q])

\* What is in a receive queue is handled, although the command that announces it is
\* lost when the pipe is full, even if the connection and its thread stop for good.
AcceptedHandled == \A c \in Conns : \A n \in Exps(c) : Queued(n) ~> Handled(n)
=============================================================================
