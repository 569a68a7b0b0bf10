-------------------------- MODULE RtmqProxyWork --------------------------
(***************************************************************************)
(* What the rtmq proxy receives for the application: a sending thread      *)
(* copies a message into a block of one of the receive queues, chosen at   *)
(* random, and writes a command to the pipe of that queue                  *)
(* (rtmq_proxy_tsvr.c); the workers, jobs of a thread pool that never      *)
(* return, empty the queues (rtmq_proxy_worker.c).  There is one queue and *)
(* one pipe for each worker, but a worker without a command goes over the  *)
(* queues with the index of a sending thread.  The queues are atomic here: *)
(* the ring below implements a FIFO.                                       *)
(***************************************************************************)
EXTENDS ThreadPool, FiniteSets

CONSTANTS
    Tsvrs,      \* the sending threads, which also receive
    SendNum,    \* conf->send_thd_num
    RecvMax,    \* blocks of a receive queue
    WorkPipe,   \* commands a pipe holds
    Launcher,   \* the thread that calls rtmq_proxy_launch
    TypeOf,     \* [1 .. MaxMesgs -> type]: the messages the server sends
    TooLong,    \* the messages too long for a block
    Registered, \* the types with a callback; "any" stands for type 0
    MaxMesgs    \* bound: messages received

\* The configuration is not checked for the first of these, without which a sweep
\* runs past the array of queues.
ASSUME WorkAssumption ==
    /\ SendNum \in 0 .. ThreadNum
    /\ {RecvMax, WorkPipe, MaxMesgs} \subseteq Nat

VARIABLES
    recvq,      \* the queues: sequences of [b, no], a block and the message in it
    free,       \* the blocks in the pool of each queue
    chan,       \* commands in the pipe of each worker
    tsvr,       \* per sending thread: about to push a block, or to notify
    work,       \* per worker, what it is doing
    mesgs,      \* messages received
    handled     \* history: <<no, callback>> of the messages handled

workVars == <<recvq, free, chan, tsvr, work, mesgs, handled>>

Queues == Threads
RecvBlocks == 1 .. RecvMax
Selecting == [do |-> "select"]

WorkInit ==
    /\ recvq = [q \in Queues |-> <<>>]
    /\ free = [q \in Queues |-> RecvBlocks]
    /\ chan = [q \in Queues |-> 0]
    /\ tsvr = [s \in Tsvrs |-> [do |-> "recv"]]
    /\ work = [w \in Threads |-> [do |-> "off"]]
    /\ mesgs = 0
    /\ handled = {}
-----------------------------------------------------------------------------
\* Sending threads.  A message that is too long for the queues, or for which the
\* pool of the queue has no block, is dropped.
DropMesg(s) ==
    /\ tsvr[s].do = "recv"
    /\ mesgs < MaxMesgs
    /\ mesgs + 1 \in TooLong \/ \E q \in Queues : free[q] = {}
    /\ mesgs' = mesgs + 1
    /\ UNCHANGED <<recvq, free, chan, tsvr, work, handled>>

AllocRecv(s, q) ==
    /\ tsvr[s].do = "recv"
    /\ mesgs < MaxMesgs
    /\ mesgs + 1 \notin TooLong
    /\ mesgs' = mesgs + 1
    /\ \E b \in free[q] :
          /\ \A a \in free[q] : b <= a
          /\ free' = [free EXCEPT ![q] = @ \ {b}]
          /\ tsvr' = [tsvr EXCEPT ![s] = [do |-> "push", q |-> q, b |-> b, no |-> mesgs + 1]]
    /\ UNCHANGED <<recvq, chan, work, handled>>

\* The push finds room: the ring has a slot for every block.
PushRecv(s) ==
    /\ tsvr[s].do = "push"
    /\ recvq' = [recvq EXCEPT ![tsvr[s].q] = Append(@, [b |-> tsvr[s].b, no |-> tsvr[s].no])]
    /\ tsvr' = [tsvr EXCEPT ![s] = [do |-> "cmd", q |-> tsvr[s].q]]
    /\ UNCHANGED <<free, chan, work, mesgs, handled>>

\* Mutant: the command goes to the first worker, whatever the queue.
CmdProcReqFirst(s) ==
    /\ tsvr[s].do = "cmd"
    /\ chan' = [chan EXCEPT ![0] = IF @ < WorkPipe THEN @ + 1 ELSE @]
    /\ tsvr' = [tsvr EXCEPT ![s] = [do |-> "recv"]]
    /\ UNCHANGED <<recvq, free, work, mesgs, handled>>

\* A full pipe loses the command.
CmdProcReq(s) ==
    /\ tsvr[s].do = "cmd"
    /\ LET q == tsvr[s].q
       IN  chan' = [chan EXCEPT ![q] = IF @ < WorkPipe THEN @ + 1 ELSE @]
    /\ tsvr' = [tsvr EXCEPT ![s] = [do |-> "recv"]]
    /\ UNCHANGED <<recvq, free, work, mesgs, handled>>
-----------------------------------------------------------------------------
\* Workers.  Each finds its queue and pipe by its place in the thread pool.
GetCurr(w) ==
    /\ thr[w].at = "run" /\ thr[w].job.proc = "rtmq_worker_routine"
    /\ work[w].do = "off"
    /\ work' = [work EXCEPT ![w] = Selecting]
    /\ UNCHANGED <<recvq, free, chan, tsvr, mesgs, handled>>

Visit(w, from, to) ==
    work' = [work EXCEPT ![w] =
        IF from > to THEN Selecting ELSE [do |-> "used", q |-> from, last |-> to]]

WorkerCmd(w) ==
    /\ work[w].do = "select"
    /\ chan[w] > 0
    /\ chan' = [chan EXCEPT ![w] = @ - 1]
    /\ Visit(w, w, w)
    /\ UNCHANGED <<recvq, free, tsvr, mesgs, handled>>

\* No command for a second.  SendNum is 0 .. SendNum - 1 queues.
WorkerSweep(w) ==
    /\ work[w].do = "select"
    /\ chan[w] = 0
    /\ SendNum > 0
    /\ Visit(w, 0, SendNum - 1)
    /\ UNCHANGED <<recvq, free, chan, tsvr, mesgs, handled>>

\* The next queue when this one is empty.
QueueUsed(w) ==
    /\ work[w].do = "used"
    /\ LET q == work[w].q
       IN  IF recvq[q] = <<>>
           THEN Visit(w, q + 1, work[w].last)
           ELSE work' = [work EXCEPT ![w] = [do |-> "mpop", q |-> q, last |-> work[w].last,
                                             num |-> Len(recvq[q])]]
    /\ UNCHANGED <<recvq, free, chan, tsvr, mesgs, handled>>

\* All or nothing: another worker may have taken some of what was counted.
QueueMpop(w) ==
    /\ work[w].do = "mpop"
    /\ LET q == work[w].q
           n == work[w].num
       IN  IF n > Len(recvq[q])
           THEN /\ work' = [work EXCEPT ![w] = [do |-> "used", q |-> q, last |-> work[w].last]]
                /\ UNCHANGED recvq
           ELSE /\ work' = [work EXCEPT ![w] = [do |-> "proc", q |-> q, last |-> work[w].last,
                                                batch |-> SubSeq(recvq[q], 1, n)]]
                /\ recvq' = [recvq EXCEPT ![q] = SubSeq(@, n + 1, Len(@))]
    /\ UNCHANGED <<free, chan, tsvr, mesgs, handled>>

Callback(no) ==
    IF TypeOf[no] \in Registered THEN TypeOf[no]
    ELSE IF "any" \in Registered THEN "any" ELSE "none"

\* Mutant: the blocks of a batch are given back with its first message.
WorkerProcAll(w) ==
    /\ work[w].do = "proc"
    /\ LET q == work[w].q
           batch == work[w].batch
       IN  IF batch = <<>>
           THEN /\ work' = [work EXCEPT ![w] = [do |-> "used", q |-> q, last |-> work[w].last]]
                /\ UNCHANGED <<free, handled>>
           ELSE /\ handled' = handled \cup {<<batch[1].no, Callback(batch[1].no)>>}
                /\ free' = [free EXCEPT ![q] = @ \cup {batch[i].b : i \in DOMAIN batch}]
                /\ work' = [work EXCEPT ![w].batch = Tail(@)]
    /\ UNCHANGED <<recvq, chan, tsvr, mesgs>>

\* The next message of the batch is handled, or dropped for want of a callback, and
\* its block given back.
WorkerProc(w) ==
    /\ work[w].do = "proc"
    /\ LET q == work[w].q
           batch == work[w].batch
       IN  IF batch = <<>>
           THEN /\ work' = [work EXCEPT ![w] = [do |-> "used", q |-> q, last |-> work[w].last]]
                /\ UNCHANGED <<free, handled>>
           ELSE /\ handled' = handled \cup {<<batch[1].no, Callback(batch[1].no)>>}
                /\ free' = [free EXCEPT ![q] = @ \cup {batch[1].b}]
                /\ work' = [work EXCEPT ![w].batch = Tail(@)]
    /\ UNCHANGED <<recvq, chan, tsvr, mesgs>>

WorkerStep(w) ==
    \/ GetCurr(w) \/ WorkerCmd(w) \/ WorkerSweep(w)
    \/ QueueUsed(w) \/ QueueMpop(w) \/ WorkerProc(w)

TsvrRecvStep(s) ==
    \/ DropMesg(s) \/ PushRecv(s) \/ CmdProcReq(s)
    \/ \E q \in Queues : AllocRecv(s, q)

\* rtmq_proxy_launch adds the routine once for every worker, and then the routines
\* of the sending threads to another pool.
LaunchWorkers == added < ThreadNum /\ AddWorker(Launcher, "rtmq_worker_routine")
Launched == added = ThreadNum /\ adding = {}

ProxyWorkNext ==
    \/ /\ PoolStep \/ LaunchWorkers \/ Signal(Launcher)
       /\ UNCHANGED workVars
    \/ /\ \/ \E w \in Threads : WorkerStep(w)
          \/ Launched /\ \E s \in Tsvrs : TsvrRecvStep(s)
       /\ UNCHANGED jobVars

\* Every thread runs; nobody is obliged to send a message.
ProxyWorkFairness ==
    /\ \A w \in Threads : WF_workVars(WorkerStep(w))
    /\ \A s \in Tsvrs : WF_workVars(PushRecv(s) \/ CmdProcReq(s))
-----------------------------------------------------------------------------
Batch(w, q) == IF work[w].do = "proc" /\ work[w].q = q THEN work[w].batch ELSE <<>>

\* In how many places block b of queue q is used outside its pool.
Uses(q, b) ==
    Cardinality({s \in Tsvrs : tsvr[s].do = "push" /\ tsvr[s].q = q /\ tsvr[s].b = b})
    + Cardinality({i \in DOMAIN recvq[q] : recvq[q][i].b = b})
    + Cardinality({p \in Threads \X RecvBlocks :
                      p[2] \in DOMAIN Batch(p[1], q) /\ Batch(p[1], q)[p[2]].b = b})

\* A block is in its pool or used in one place, and a message that was handled is in
\* none: commands and sweeps of several workers over one queue do not get into each
\* other's way.
WorkExact ==
    /\ JobsOnce
    /\ \A q \in Queues, b \in RecvBlocks :
          Uses(q, b) = IF b \in free[q] THEN 0 ELSE 1
    /\ \A q \in Queues, h \in handled :
          /\ \A i \in DOMAIN recvq[q] : recvq[q][i].no # h[1]
          /\ \A w \in Threads : \A i \in DOMAIN Batch(w, q) : Batch(w, q)[i].no # h[1]

\* Again and again all that was received has been handled, although a full pipe
\* loses commands and only some queues are swept; and no job waits in the pool while
\* a thread has nothing to do, although it is signalled without the mutex.
WorkHandled ==
    []<>(/\ jobs = <<>> \/ Running = Threads
         /\ added < ThreadNum \/ \A q \in Queues : recvq[q] = <<>>)
=============================================================================
