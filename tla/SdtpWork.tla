------------------------------ MODULE SdtpWork ------------------------------
(***************************************************************************)
(* What the sdtp sender receives for the application: its sending threads  *)
(* copy each message into a block of one of the receive queues, chosen at  *)
(* random (sdsd_ssvr.c), and tell nobody: the workers, jobs of a thread    *)
(* pool that never return, go over all the queues once a second            *)
(* (sdsd_worker.c).  The application registers its callbacks and launches  *)
(* the threads (sdsd_send.c).  The queues are atomic here: module Ring     *)
(* implements a FIFO.                                                      *)
(***************************************************************************)
EXTENDS ThreadPool, FiniteSets

CONSTANTS
    Ssvrs,      \* the sending threads
    RecvqNum,   \* the queues: one for each sending thread
    QueueMax,   \* blocks of a queue
    SdtpStarter,\* the thread that calls sdsd_launch
    Callbacks,  \* the callbacks the application has
    SdtpTypes,  \* the types of the messages
    MaxRecvs    \* bound: messages received

\* The queues are counted by the sending threads and used by the number of the
\* workers: with more workers than sending threads the code runs past the array.
ASSUME SdtpWorkAssumption ==
    /\ RecvqNum = Cardinality(Ssvrs) /\ ThreadNum <= RecvqNum
    /\ {QueueMax, MaxRecvs} \subseteq Nat

VARIABLES
    reg,        \* the callback of each type
    came,       \* the types of the messages received so far
    rq,         \* per queue, its blocks: [b, no], a block and the message in it
    spare,      \* per queue, the blocks in its pool
    ssvr,       \* per sending thread: the block it is about to push
    swork,      \* per worker, what it is doing
    done        \* history: <<no, callback>> of the messages handled

sworkVars == <<reg, came, rq, spare, ssvr, swork, done>>

Recvqs == 0 .. ThreadNum - 1
Nobody == "nobody"
Waits == [do |-> "wait"]

\* sdsd_init, and what the threads start with.
SdtpWorkInit ==
    /\ reg = [ty \in SdtpTypes |-> Nobody]
    /\ came = <<>>
    /\ rq = [q \in Recvqs |-> <<>>]
    /\ spare = [q \in Recvqs |-> 1 .. QueueMax]
    /\ ssvr = [s \in Ssvrs |-> [do |-> "recv"]]
    /\ swork = [w \in Threads |-> [do |-> "off"]]
    /\ done = {}
-----------------------------------------------------------------------------
\* Callbacks are registered before the launch, each type once.
SdsdRegister(ty, cb) ==
    /\ added = 0
    /\ reg[ty] = Nobody
    /\ reg' = [reg EXCEPT ![ty] = cb]
    /\ UNCHANGED <<came, rq, spare, ssvr, swork, done>>

SdsdCreatWorktp == added < ThreadNum /\ AddWorker(SdtpStarter, "sdsd_worker_routine")

\* The sending threads are started after the workers.
SdsdLaunched == added = ThreadNum /\ adding = {}
-----------------------------------------------------------------------------
\* A message, of any type, which is dropped when the pool of its queue is empty.
ExpMesgProc(s, ty, q) ==
    /\ ssvr[s].do = "recv"
    /\ Len(came) < MaxRecvs
    /\ came' = Append(came, ty)
    /\ IF spare[q] = {} THEN UNCHANGED <<spare, ssvr>>
       ELSE \E b \in spare[q] :
              /\ \A a \in spare[q] : b <= a
              /\ spare' = [spare EXCEPT ![q] = @ \ {b}]
              /\ ssvr' = [ssvr EXCEPT ![s] = [do |-> "push", q |-> q, b |-> b, no |-> Len(came')]]
    /\ UNCHANGED <<reg, rq, swork, done>>

\* The push finds room: the ring has a place for every block.
ExpMesgPush(s) ==
    /\ ssvr[s].do = "push"
    /\ rq' = [rq EXCEPT ![ssvr[s].q] = Append(@, [b |-> ssvr[s].b, no |-> ssvr[s].no])]
    /\ ssvr' = [ssvr EXCEPT ![s] = [do |-> "recv"]]
    /\ UNCHANGED <<reg, came, spare, swork, done>>
-----------------------------------------------------------------------------
\* Workers find their object by their place in the thread pool.
WorkerGetCurr(w) ==
    /\ thr[w].at = "run" /\ thr[w].job.proc = "sdsd_worker_routine"
    /\ swork[w].do = "off"
    /\ swork' = [swork EXCEPT ![w] = Waits]
    /\ UNCHANGED <<reg, came, rq, spare, ssvr, done>>

ToQueue(w, q) == swork' = [swork EXCEPT ![w] = IF q = ThreadNum THEN Waits ELSE [do |-> "pop", q |-> q]]

\* A second passes: no command ever comes, for nobody sends one.  The worker calls
\* the handler of the command for every queue.
WorkerTimeout(w) ==
    /\ swork[w].do = "wait"
    /\ ToQueue(w, 0)
    /\ UNCHANGED <<reg, came, rq, spare, ssvr, done>>

\* Mutant: a worker goes no further than the first empty queue.
WorkerPopOne(w) ==
    /\ swork[w].do = "pop"
    /\ LET q == swork[w].q
       IN  IF rq[q] = <<>> THEN swork' = [swork EXCEPT ![w] = Waits] /\ UNCHANGED rq
           ELSE /\ swork' = [swork EXCEPT ![w] = [do |-> "proc", q |-> q, mesg |-> Head(rq[q])]]
                /\ rq' = [rq EXCEPT ![q] = Tail(@)]
    /\ UNCHANGED <<reg, came, spare, ssvr, done>>

\* Messages are taken one by one until the queue is empty, then it is the turn of
\* the next queue.
WorkerPop(w) ==
    /\ swork[w].do = "pop"
    /\ LET q == swork[w].q
       IN  IF rq[q] = <<>> THEN ToQueue(w, q + 1) /\ UNCHANGED rq
           ELSE /\ swork' = [swork EXCEPT ![w] = [do |-> "proc", q |-> q, mesg |-> Head(rq[q])]]
                /\ rq' = [rq EXCEPT ![q] = Tail(@)]
    /\ UNCHANGED <<reg, came, spare, ssvr, done>>

\* A message without a callback is counted and dropped.
WorkerProcReq(w) ==
    /\ swork[w].do = "proc"
    /\ LET q == swork[w].q
           m == swork[w].mesg
       IN  /\ done' = done \cup {<<m.no, reg[came[m.no]]>>}
           /\ spare' = [spare EXCEPT ![q] = @ \cup {m.b}]
           /\ swork' = [swork EXCEPT ![w] = [do |-> "pop", q |-> q]]
    /\ UNCHANGED <<reg, came, rq, ssvr>>

SworkStep(w) == WorkerGetCurr(w) \/ WorkerTimeout(w) \/ WorkerPop(w) \/ WorkerProcReq(w)

SdtpWorkNext ==
    \/ /\ PoolStep \/ SdsdCreatWorktp \/ Signal(SdtpStarter)
       /\ UNCHANGED sworkVars
    \/ /\ \/ \E ty \in SdtpTypes, cb \in Callbacks : SdsdRegister(ty, cb)
          \/ \E w \in Threads : SworkStep(w)
          \/ /\ SdsdLaunched
             /\ \E s \in Ssvrs : \/ ExpMesgPush(s)
                                 \/ \E ty \in SdtpTypes, q \in Recvqs : ExpMesgProc(s, ty, q)
       /\ UNCHANGED jobVars

\* Every thread runs; nobody is obliged to send a message.
SdtpWorkFairness ==
    /\ \A w \in Threads : WF_sworkVars(SworkStep(w))
    /\ \A s \in Ssvrs : WF_sworkVars(ExpMesgPush(s))
-----------------------------------------------------------------------------
\* In how many places block b of queue q is used outside its pool.
SdtpUses(q, b) ==
    Cardinality({s \in Ssvrs : ssvr[s].do = "push" /\ ssvr[s].q = q /\ ssvr[s].b = b})
    + Cardinality({i \in DOMAIN rq[q] : rq[q][i].b = b})
    + Cardinality({w \in Threads : swork[w].do = "proc" /\ swork[w].q = q /\ swork[w].mesg.b = b})

\* A block is in its pool or used in one place, and a message is handled once, by
\* the callback registered for its type, although every worker goes over every
\* queue.
SdtpWorkExact ==
    /\ \A q \in Recvqs, b \in 1 .. QueueMax :
          SdtpUses(q, b) = IF b \in spare[q] THEN 0 ELSE 1
    /\ \A h \in done :
          /\ h[2] = reg[came[h[1]]]
          /\ \A q \in Recvqs : \A i \in DOMAIN rq[q] : rq[q][i].no # h[1]
          /\ \A w \in Threads : swork[w].do = "proc" => swork[w].mesg.no # h[1]

\* Again and again every queue is empty: no message waits for a command.
SdtpHandled == []<>(added < ThreadNum \/ \A q \in Recvqs : rq[q] = <<>>)
=============================================================================
