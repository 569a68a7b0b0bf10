--------------------------- MODULE RtmqProxySend ---------------------------
(***************************************************************************)
(* The sending side of an RTMQ proxy (lib/rtmq/proxy).  Application        *)
(* threads call rtmq_proxy_async_send: a block of the send queue's pool is *)
(* filled and pushed, and a command is written to a pipe.  One sender      *)
(* thread per server address (rtmq_proxy_tsvr_routine) shares the queue    *)
(* and the pipe with the senders of the other addresses; each keeps one    *)
(* connection, waits for edge-triggered events, gathers messages into a    *)
(* write vector (wiov) and writes it to the socket.  The server may close  *)
(* a connection at any time.                                               *)
(*                                                                         *)
(* The rings under the queue and its pool are atomic here (RingFifo), the  *)
(* kernel (sockets, epoll, pipes) is external.  A message is two units on  *)
(* the wire, so that a short write can end inside one.                     *)
(***************************************************************************)
EXTENDS Integers, Sequences, SequencesExt, FiniteSets

CONSTANTS
    Callers,    \* application threads
    Tsvr,       \* sender threads that share one send queue, one per address
    Types,      \* the types the application registered before launch
    QueueMax,   \* conf->sendq.max: blocks of the pool, and room in the ring
    IOV_MAX,    \* entries writev takes, and the cap on a write vector
    PipeMax,    \* commands a pipe holds before a write is refused
    Idle,       \* bound: senders that are ever idle for RTMQ_KPALIVE_INTV
    MaxSend,    \* bound: messages each caller sends
    MaxClose,   \* bound: connections the servers close
    MaxShort    \* bound: short writes

ASSUME ProxySendAssumption ==
    /\ QueueMax \in Nat \ {0}
    /\ IOV_MAX \in Nat \ {0}
    /\ PipeMax \in Nat \ {0}
    /\ Idle \subseteq Tsvr
    /\ IsFiniteSet(Callers) /\ IsFiniteSet(Tsvr) /\ IsFiniteSet(Types)
    /\ MaxSend \in Nat
    /\ MaxClose \in Nat
    /\ MaxShort \in Nat

VARIABLES
    \* application threads
    made,       \* made[c]: messages caller c has begun to send
    cpc,        \* cpc[c]: "idle", "push" (holds a block), "notify"
    \* shared
    free,       \* blocks in the pool of the send queue
    sendq,      \* the send queue
    pipe,       \* commands in send_cmd_fd
    \* sender threads
    pc,         \* where the routine of t stands
    batch,      \* events epoll_wait returned and the thread has not handled
    fd,         \* whether sck->fd is a connection
    mesg_list,  \* system messages to send
    wiov,       \* [cnt, items, part]: iov_cnt, the unsent items, units sent of the first
    num,        \* the local num of wiov_add
    kpalive,    \* sck->kpalive
    \* kernel and server, per connection
    armed,      \* an EPOLLOUT edge is due
    cmdev,      \* an edge of the command pipe is due
    blocked,    \* the socket buffer is full
    inbox,      \* what the server has sent and the proxy has not read
    closed,     \* the server has closed
    asked,      \* keepalive requests the server has not answered
    closes,     \* connections the servers closed (bound only)
    shorts,     \* short writes (bound only)
    \* history
    wire,       \* [done, part, framed]: what the server got on this connection
    sent,       \* messages released as sent
    lost        \* messages released unsent

cvars == <<made, cpc>>
kvars == <<armed, cmdev, blocked, inbox, closed, asked, closes, shorts>>
vars  == <<cvars, free, sendq, pipe, pc, batch, fd, mesg_list, wiov, num, kpalive,
           kvars, wire, sent, lost>>

Msg(c, k) == [kind |-> "exp", by |-> c, no |-> k]
AuthReq == [kind |-> "auth"]
SubReq(y) == [kind |-> "sub", type |-> y]
KpReq == [kind |-> "kp"]

EmptyWiov == [cnt |-> 0, items |-> <<>>, part |-> 0]
EmptyWire == [done |-> <<>>, part |-> <<>>, framed |-> TRUE]

\* Every thread starts without a connection.
Init ==
    /\ made = [c \in Callers |-> 0]
    /\ cpc = [c \in Callers |-> "idle"]
    /\ free = QueueMax
    /\ sendq = <<>>
    /\ pipe = 0
    /\ pc = [t \in Tsvr |-> "wait"]
    /\ batch = [t \in Tsvr |-> <<>>]
    /\ fd = [t \in Tsvr |-> FALSE]
    /\ mesg_list = [t \in Tsvr |-> <<>>]
    /\ wiov = [t \in Tsvr |-> EmptyWiov]
    /\ num = [t \in Tsvr |-> 0]
    /\ kpalive = [t \in Tsvr |-> "unknown"]
    /\ armed = [t \in Tsvr |-> FALSE]
    /\ cmdev = [t \in Tsvr |-> FALSE]
    /\ blocked = [t \in Tsvr |-> FALSE]
    /\ inbox = [t \in Tsvr |-> {}]
    /\ closed = [t \in Tsvr |-> FALSE]
    /\ asked = [t \in Tsvr |-> {}]
    /\ closes = 0
    /\ shorts = 0
    /\ wire = [t \in Tsvr |-> EmptyWire]
    /\ sent = {}
    /\ lost = {}

-----------------------------------------------------------------------------
(* Application threads: rtmq_proxy_async_send. *)

\* queue_malloc and the copy of the message.  With an empty pool the call is
\* refused and nothing changes.
Alloc(c) ==
    /\ cpc[c] = "idle" /\ made[c] < MaxSend
    /\ free > 0
    /\ free' = free - 1
    /\ made' = [made EXCEPT ![c] = @ + 1]
    /\ cpc' = [cpc EXCEPT ![c] = "push"]
    /\ UNCHANGED <<sendq, pipe, pc, batch, fd, mesg_list, wiov, num, kpalive, kvars, wire, sent, lost>>

\* queue_push; a full ring gives the block back and refuses the message.
Push(c) ==
    /\ cpc[c] = "push"
    /\ IF Len(sendq) < QueueMax
       THEN /\ sendq' = Append(sendq, Msg(c, made[c]))
            /\ cpc' = [cpc EXCEPT ![c] = "notify"]
            /\ UNCHANGED free
       ELSE /\ free' = free + 1
            /\ cpc' = [cpc EXCEPT ![c] = "idle"]
            /\ UNCHANGED sendq
    /\ UNCHANGED <<made, pipe, pc, batch, fd, mesg_list, wiov, num, kpalive, kvars, wire, sent, lost>>

\* rtmq_proxy_cmd_send_req: the pipe does not block and a full one takes
\* nothing; every sender polls the same pipe and sees the edge.
Notify(c) ==
    /\ cpc[c] = "notify"
    /\ cpc' = [cpc EXCEPT ![c] = "idle"]
    /\ IF pipe < PipeMax
       THEN /\ pipe' = pipe + 1
            /\ cmdev' = [t \in Tsvr |-> TRUE]
       ELSE UNCHANGED <<pipe, cmdev>>
    /\ UNCHANGED <<made, free, sendq, pc, batch, fd, mesg_list, wiov, num, kpalive,
                   armed, blocked, inbox, closed, asked, closes, shorts, wire, sent, lost>>

-----------------------------------------------------------------------------
(* Sender threads. *)

\* The messages of the application among the items, and the blocks they hold.
ExpIn(items) == {m \in ToSet(items) : m.kind = "exp"}
Blocks(items) == Cardinality({i \in DOMAIN items : items[i].kind = "exp"})

\* The thread goes on with the events b, or back to the top of its loop.
GoOn(t, b) ==
    /\ batch' = [batch EXCEPT ![t] = b]
    /\ pc' = [pc EXCEPT ![t] = IF b = <<>> THEN "wait" ELSE "next"]

\* Mutant: the vector is emptied and its blocks are not freed.
DelConnLeaks(t) ==
    /\ fd' = [fd EXCEPT ![t] = FALSE]
    /\ wiov' = [wiov EXCEPT ![t] = EmptyWiov]
    /\ free' = free
    /\ lost' = lost \cup ExpIn(wiov[t].items)
    /\ armed' = [armed EXCEPT ![t] = FALSE]
    /\ blocked' = [blocked EXCEPT ![t] = FALSE]
    /\ inbox' = [inbox EXCEPT ![t] = {}]
    /\ closed' = [closed EXCEPT ![t] = FALSE]
    /\ asked' = [asked EXCEPT ![t] = {}]
    /\ UNCHANGED <<cmdev, closes, shorts>>

\* Mutant: the vector is left for the next connection.
DelConnKeeps(t) ==
    /\ fd' = [fd EXCEPT ![t] = FALSE]
    /\ wiov' = wiov
    /\ free' = free
    /\ lost' = lost
    /\ armed' = [armed EXCEPT ![t] = FALSE]
    /\ blocked' = [blocked EXCEPT ![t] = FALSE]
    /\ inbox' = [inbox EXCEPT ![t] = {}]
    /\ closed' = [closed EXCEPT ![t] = FALSE]
    /\ asked' = [asked EXCEPT ![t] = {}]
    /\ UNCHANGED <<cmdev, closes, shorts>>

\* rtmq_proxy_tsvr_del_conn: close, and release what the write vector holds.
DelConn(t) ==
    /\ fd' = [fd EXCEPT ![t] = FALSE]
    /\ wiov' = [wiov EXCEPT ![t] = EmptyWiov]
    /\ free' = free + Blocks(wiov[t].items)
    /\ lost' = lost \cup ExpIn(wiov[t].items)
    /\ armed' = [armed EXCEPT ![t] = FALSE]
    /\ blocked' = [blocked EXCEPT ![t] = FALSE]
    /\ inbox' = [inbox EXCEPT ![t] = {}]
    /\ closed' = [closed EXCEPT ![t] = FALSE]
    /\ asked' = [asked EXCEPT ![t] = {}]
    /\ UNCHANGED <<cmdev, closes, shorts>>

\* The subscriptions in the order of the registration tree.
SubReqs == LET types == SetToSeq(Types)
           IN  [k \in 1..Len(types) |-> SubReq(types[k])]

\* Mutant: the keepalive state of the last connection is kept.
ReconnKeeps(t) ==
    /\ pc[t] = "wait" /\ ~fd[t]
    /\ fd' = [fd EXCEPT ![t] = TRUE]
    /\ mesg_list' = [mesg_list EXCEPT ![t] = <<AuthReq>> \o SubReqs]
    /\ armed' = [armed EXCEPT ![t] = TRUE]
    /\ wire' = [wire EXCEPT ![t] = EmptyWire]
    /\ UNCHANGED <<cvars, free, sendq, pipe, pc, batch, wiov, num, kpalive, cmdev, blocked, inbox,
                   closed, asked, closes, shorts, sent, lost>>

\* The top of the loop without a connection: clear the message list, connect,
\* queue the authentication and the subscriptions, and wait for EPOLLOUT.
Reconn(t) ==
    /\ pc[t] = "wait" /\ ~fd[t]
    /\ fd' = [fd EXCEPT ![t] = TRUE]
    /\ kpalive' = [kpalive EXCEPT ![t] = "unknown"]
    /\ mesg_list' = [mesg_list EXCEPT ![t] = <<AuthReq>> \o SubReqs]
    /\ armed' = [armed EXCEPT ![t] = TRUE]
    /\ wire' = [wire EXCEPT ![t] = EmptyWire]
    /\ UNCHANGED <<cvars, free, sendq, pipe, pc, batch, wiov, num, cmdev, blocked, inbox,
                   closed, asked, closes, shorts, sent, lost>>

\* What epoll_wait has to report: edges that are due.  An event of the socket
\* carries its whole state.
SckReady(t) == fd[t] /\ ((armed[t] /\ ~blocked[t]) \/ inbox[t] # {} \/ closed[t])
CmdReady(t) == cmdev[t] /\ pipe > 0
SckEvent(t) == [src |-> "sck", in |-> inbox[t] # {} \/ closed[t], out |-> ~blocked[t]]
CmdEvent == [src |-> "cmd", in |-> TRUE, out |-> FALSE]
Ready(t) == (IF SckReady(t) THEN {SckEvent(t)} ELSE {}) \cup (IF CmdReady(t) THEN {CmdEvent} ELSE {})

EpollWait(t) ==
    /\ pc[t] = "wait" /\ fd[t]
    /\ Ready(t) # {}
    /\ \E b \in SetToSeqs(Ready(t)) : GoOn(t, b)
    /\ armed' = [armed EXCEPT ![t] = armed[t] /\ ~SckReady(t)]
    /\ cmdev' = [cmdev EXCEPT ![t] = FALSE]
    /\ UNCHANGED <<cvars, free, sendq, pipe, fd, mesg_list, wiov, num, kpalive,
                   blocked, inbox, closed, asked, closes, shorts, wire, sent, lost>>

\* epoll_wait timed out and the last write is RTMQ_KPALIVE_INTV ago
\* (rtmq_proxy_tsvr_timeout_hdl): an unanswered request drops the connection,
\* otherwise a request is queued and EPOLLOUT asked for.
Keepalive(t) ==
    /\ t \in Idle
    /\ pc[t] = "wait" /\ fd[t]
    /\ Ready(t) = {}
    /\ IF kpalive[t] = "sent"
       THEN /\ DelConn(t)
            /\ UNCHANGED <<mesg_list, kpalive>>
       ELSE /\ mesg_list' = [mesg_list EXCEPT ![t] = Append(@, KpReq)]
            /\ kpalive' = [kpalive EXCEPT ![t] = "sent"]
            /\ armed' = [armed EXCEPT ![t] = TRUE]
            /\ UNCHANGED <<free, fd, wiov, lost, cmdev, blocked, inbox, closed, asked, closes, shorts>>
    /\ UNCHANGED <<cvars, sendq, pipe, pc, batch, num, wire, sent>>

\* rtmq_proxy_tsvr_recv_cmd: one command is read, and EPOLLOUT asked for if
\* there is a connection; an empty pipe ends the loop.
RecvCmd(t) ==
    /\ pc[t] = "next" /\ Head(batch[t]).src = "cmd"
    /\ IF pipe > 0
       THEN /\ pipe' = pipe - 1
            /\ armed' = [armed EXCEPT ![t] = armed[t] \/ fd[t]]
            /\ UNCHANGED <<pc, batch>>
       ELSE /\ GoOn(t, Tail(batch[t]))
            /\ UNCHANGED <<pipe, armed>>
    /\ UNCHANGED <<cvars, free, sendq, fd, mesg_list, wiov, num, kpalive, cmdev, blocked,
                   inbox, closed, asked, closes, shorts, wire, sent, lost>>

\* rtmq_proxy_tsvr_recv_proc: read all there is; the end of the stream closes
\* the connection and skips the rest of the event.
RecvProc(t) ==
    /\ pc[t] = "next" /\ Head(batch[t]).src = "sck" /\ Head(batch[t]).in
    /\ kpalive' = [kpalive EXCEPT ![t] = IF "kp" \in inbox[t] THEN "succ" ELSE @]
    /\ IF closed[t]
       THEN /\ DelConn(t)
            /\ GoOn(t, Tail(batch[t]))
       ELSE /\ inbox' = [inbox EXCEPT ![t] = {}]
            /\ batch' = [batch EXCEPT ![t] = <<[Head(@) EXCEPT !.in = FALSE]>> \o Tail(@)]
            /\ UNCHANGED <<pc, free, fd, wiov, lost, armed, cmdev, blocked, closed, asked, closes, shorts>>
    /\ UNCHANGED <<cvars, sendq, pipe, mesg_list, num, wire, sent>>

SkipOut(t) ==
    /\ pc[t] = "next" /\ Head(batch[t]).src = "sck"
    /\ ~Head(batch[t]).in /\ ~Head(batch[t]).out
    /\ GoOn(t, Tail(batch[t]))
    /\ UNCHANGED <<cvars, free, sendq, pipe, fd, mesg_list, wiov, num, kpalive, kvars, wire, sent, lost>>

\* wiov_init is asked for 2 * conf->sendq.max entries and caps them.
IovMax == IF 2 * QueueMax > IOV_MAX THEN IOV_MAX ELSE 2 * QueueMax

Left(t) == IovMax - wiov[t].cnt
\* Mutant: new entries go in front.
PutFront(w, s) == [w EXCEPT !.cnt = @ + Len(s), !.items = s \o @]
Put(w, s) == [w EXCEPT !.cnt = @ + Len(s), !.items = @ \o s]

\* rtmq_proxy_tsvr_send_data begins; unless the vector is full it first takes
\* the message list (first loop of rtmq_proxy_tsvr_wiov_add).
SendData(t) ==
    /\ pc[t] = "next" /\ Head(batch[t]).src = "sck"
    /\ ~Head(batch[t]).in /\ Head(batch[t]).out
    /\ LET list == mesg_list[t]
           k == IF Left(t) < Len(list) THEN Left(t) ELSE Len(list)
       IN  /\ wiov' = [wiov EXCEPT ![t] = Put(@, SubSeq(list, 1, k))]
           /\ mesg_list' = [mesg_list EXCEPT ![t] = SubSeq(list, k + 1, Len(list))]
    /\ pc' = [pc EXCEPT ![t] = IF Left(t) = 0 THEN "writev" ELSE "used"]
    /\ UNCHANGED <<cvars, free, sendq, pipe, batch, fd, num, kpalive, kvars, wire, sent, lost>>

\* The vector is filled: write it, or be done when there is nothing.
Filled(t) == IF wiov[t].cnt = 0 THEN GoOn(t, Tail(batch[t]))
             ELSE pc' = [pc EXCEPT ![t] = "writev"] /\ UNCHANGED batch

\* num = MIN(num, queue_used(sendq)), lines 619-620: the macro reads the
\* counter of the shared queue, and reads it again unless num is below it.
ReadUsed(t) ==
    /\ pc[t] = "used"
    /\ IF Left(t) < Len(sendq)
       THEN /\ num' = [num EXCEPT ![t] = Left(t)]
            /\ IF Left(t) = 0 THEN Filled(t) ELSE pc' = [pc EXCEPT ![t] = "mpop"] /\ UNCHANGED batch
       ELSE /\ pc' = [pc EXCEPT ![t] = "reread"]
            /\ UNCHANGED <<num, batch>>
    /\ UNCHANGED <<cvars, free, sendq, pipe, fd, mesg_list, wiov, kpalive, kvars, wire, sent, lost>>

\* Mutant: one message short.
RereadUsedShort(t) ==
    /\ pc[t] = "reread"
    /\ num' = [num EXCEPT ![t] = IF sendq = <<>> THEN 0 ELSE Len(sendq) - 1]
    /\ IF num'[t] = 0 THEN Filled(t) ELSE pc' = [pc EXCEPT ![t] = "mpop"] /\ UNCHANGED batch
    /\ UNCHANGED <<cvars, free, sendq, pipe, fd, mesg_list, wiov, kpalive, kvars, wire, sent, lost>>

RereadUsed(t) ==
    /\ pc[t] = "reread"
    /\ num' = [num EXCEPT ![t] = Len(sendq)]
    /\ IF sendq = <<>> THEN Filled(t) ELSE pc' = [pc EXCEPT ![t] = "mpop"] /\ UNCHANGED batch
    /\ UNCHANGED <<cvars, free, sendq, pipe, fd, mesg_list, wiov, kpalive, kvars, wire, sent, lost>>

\* queue_mpop takes num messages or none (another sender was faster).
Mpop(t) ==
    /\ pc[t] = "mpop"
    /\ IF num[t] <= Len(sendq)
       THEN /\ wiov' = [wiov EXCEPT ![t] = Put(@, SubSeq(sendq, 1, num[t]))]
            /\ sendq' = SubSeq(sendq, num[t] + 1, Len(sendq))
       ELSE UNCHANGED <<wiov, sendq>>
    /\ pc' = [pc EXCEPT ![t] = "used"]
    /\ UNCHANGED <<cvars, free, pipe, batch, fd, mesg_list, num, kpalive, kvars, wire, sent, lost>>

\* What the server makes of the next unit <<m, half>> of its byte stream.
Receive(w, u) ==
    CASE w.part = <<>> /\ u[2] = 1 -> [w EXCEPT !.part = <<u[1]>>]
      [] w.part = <<u[1]>> /\ u[2] = 2 ->
            [w EXCEPT !.part = <<>>, !.done = IF u[1] = KpReq THEN @ ELSE Append(@, u[1])]
      [] OTHER -> [w EXCEPT !.framed = FALSE]

Take(w, units) ==
    LET got[k \in 0..Len(units)] == IF k = 0 THEN w ELSE Receive(got[k - 1], units[k])
    IN  got[Len(units)]

\* The units of the write vector that are not sent.
Unsent(w) == [j \in 1..(2 * Len(w.items) - w.part) |->
                LET u == w.part + j
                IN  <<w.items[(u + 1) \div 2], IF u % 2 = 1 THEN 1 ELSE 2>>]

\* Mutant: the message that is partly sent is sent again from its start.
AdjustWhole(w, n) ==
    LET k == (w.part + n) \div 2
    IN  IF k = Len(w.items) THEN EmptyWiov
        ELSE [w EXCEPT !.items = SubSeq(@, k + 1, Len(@)), !.part = 0]

\* wiov_item_adjust: n units are gone.  Finished items are released, the first
\* unfinished one keeps its rest, and the slots are used again only when none
\* is left.
Adjust(w, n) ==
    LET k == (w.part + n) \div 2
    IN  IF k = Len(w.items) THEN EmptyWiov
        ELSE [w EXCEPT !.items = SubSeq(@, k + 1, Len(@)), !.part = (w.part + n) % 2]

Requests(s) == {m.kind : m \in ToSet(s)} \cap {"auth", "kp"}

\* writev of the whole vector: a short write leaves the socket buffer full.
\* After the server has closed, the bytes go nowhere.
Writev(t) ==
    /\ pc[t] = "writev"
    /\ \E n \in 1..Len(Unsent(wiov[t])) :
        LET w == wiov[t]
            units == SubSeq(Unsent(w), 1, n)
            short == n < Len(Unsent(w))
            released == SubSeq(w.items, 1, (w.part + n) \div 2)
        IN  /\ short => shorts < MaxShort
            /\ shorts' = IF short THEN shorts + 1 ELSE shorts
            /\ blocked' = [blocked EXCEPT ![t] = short]
            /\ wiov' = [wiov EXCEPT ![t] = Adjust(w, n)]
            /\ free' = free + Blocks(released)
            /\ sent' = sent \cup ExpIn(released)
            /\ IF closed[t] THEN UNCHANGED <<wire, asked>>
               ELSE /\ wire' = [wire EXCEPT ![t] = Take(@, units)]
                    /\ asked' = [asked EXCEPT ![t] = @ \cup Requests(released)]
    /\ GoOn(t, Tail(batch[t]))
    /\ UNCHANGED <<cvars, sendq, pipe, fd, mesg_list, num, kpalive, armed, cmdev,
                   inbox, closed, closes, lost>>

\* The server has closed and the socket knows: writev fails.
WritevFails(t) ==
    /\ pc[t] = "writev" /\ closed[t]
    /\ DelConn(t)
    /\ GoOn(t, Tail(batch[t]))
    /\ UNCHANGED <<cvars, sendq, pipe, mesg_list, num, kpalive, wire, sent>>

-----------------------------------------------------------------------------
(* Kernel and server. *)

BufferDrains(t) ==
    /\ blocked[t]
    /\ blocked' = [blocked EXCEPT ![t] = FALSE]
    /\ armed' = [armed EXCEPT ![t] = TRUE]
    /\ UNCHANGED <<cvars, free, sendq, pipe, pc, batch, fd, mesg_list, wiov, num, kpalive,
                   cmdev, inbox, closed, asked, closes, shorts, wire, sent, lost>>

ServerAnswers(t) ==
    /\ ~closed[t]
    /\ \E q \in asked[t] : /\ asked' = [asked EXCEPT ![t] = @ \ {q}]
                          /\ inbox' = [inbox EXCEPT ![t] = @ \cup {q}]
    /\ UNCHANGED <<cvars, free, sendq, pipe, pc, batch, fd, mesg_list, wiov, num, kpalive,
                   armed, cmdev, blocked, closed, closes, shorts, wire, sent, lost>>

ServerCloses(t) ==
    /\ fd[t] /\ ~closed[t] /\ closes < MaxClose
    /\ closed' = [closed EXCEPT ![t] = TRUE]
    /\ closes' = closes + 1
    /\ UNCHANGED <<cvars, free, sendq, pipe, pc, batch, fd, mesg_list, wiov, num, kpalive,
                   armed, cmdev, blocked, inbox, asked, shorts, wire, sent, lost>>

-----------------------------------------------------------------------------
\* An entry was written behind the end of the vector's arrays.  What the C
\* program does then is undefined, and the model stops.
Overrun == \E t \in Tsvr : wiov[t].cnt > IovMax

CallerStep(c) == ~Overrun /\ (Alloc(c) \/ Push(c) \/ Notify(c))

TsvrStep(t) ==
    /\ ~Overrun
    /\ \/ Reconn(t) \/ EpollWait(t) \/ Keepalive(t) \/ RecvCmd(t) \/ RecvProc(t)
       \/ SkipOut(t) \/ SendData(t) \/ ReadUsed(t) \/ RereadUsed(t) \/ Mpop(t)
       \/ Writev(t) \/ WritevFails(t)

Environment(t) == ~Overrun /\ (BufferDrains(t) \/ ServerAnswers(t) \/ ServerCloses(t))

Next == \/ \E c \in Callers : CallerStep(c)
        \/ \E t \in Tsvr : TsvrStep(t) \/ Environment(t)

Spec == Init /\ [][Next]_vars

\* Threads run, epoll_wait times out, a connection attempt succeeds in the end
\* and the server reads what it is sent.  It need not answer.
FairSpec ==
    /\ Spec
    /\ \A c \in Callers : WF_vars(CallerStep(c) /\ cpc[c] # "idle")
    /\ \A t \in Tsvr : WF_vars(TsvrStep(t)) /\ WF_vars(~Overrun /\ BufferDrains(t))

-----------------------------------------------------------------------------
Made == UNION {{Msg(c, k) : k \in 1..made[c]} : c \in Callers}
Held == {Msg(c, made[c]) : c \in {d \in Callers : cpc[d] = "push"}}

Exps == [kind : {"exp"}, by : Callers, no : 1..MaxSend]
Mesgs == Exps \cup {AuthReq, KpReq} \cup {SubReq(y) : y \in Types}
Events == [src : {"sck", "cmd"}, in : BOOLEAN, out : BOOLEAN]

SharedOK ==
    /\ made \in [Callers -> 0..MaxSend]
    /\ cpc \in [Callers -> {"idle", "push", "notify"}]
    /\ free \in 0..QueueMax /\ pipe \in 0..PipeMax
    /\ sendq \in Seq(Exps) /\ sent \subseteq Exps /\ lost \subseteq Exps

TsvrsOK ==
    /\ pc \in [Tsvr -> {"wait", "next", "used", "reread", "mpop", "writev"}]
    /\ batch \in [Tsvr -> Seq(Events)]
    /\ fd \in [Tsvr -> BOOLEAN]
    /\ mesg_list \in [Tsvr -> Seq(Mesgs)]
    /\ wiov \in [Tsvr -> [cnt : Nat, items : Seq(Mesgs), part : 0..1]]
    /\ num \in [Tsvr -> 0..QueueMax]
    /\ kpalive \in [Tsvr -> {"unknown", "sent", "succ"}]

LinksOK ==
    /\ \A f \in {armed, cmdev, blocked, closed} : f \in [Tsvr -> BOOLEAN]
    /\ \A f \in {inbox, asked} : f \in [Tsvr -> SUBSET {"auth", "kp"}]
    /\ closes \in 0..MaxClose /\ shorts \in 0..MaxShort
    /\ wire \in [Tsvr -> [done : Seq(Mesgs), part : Seq(Mesgs), framed : BOOLEAN]]

TypeOK == SharedOK /\ TsvrsOK /\ LinksOK

\* Where a message can be.
Places == {<<p, 0>> : p \in {"held", "sendq", "sent", "lost"}} \cup {<<"wiov", t>> : t \in Tsvr}
In(p) == CASE p[1] = "held"  -> Held
           [] p[1] = "sendq" -> ToSet(sendq)
           [] p[1] = "sent"  -> sent
           [] p[1] = "lost"  -> lost
           [] p[1] = "wiov"  -> ExpIn(wiov[p[2]].items)

\* A message is in one place: with its caller, in the queue, in one write
\* vector, or released, as sent or as lost.  What a server has taken whole is
\* released as sent, so no other connection sends it again.
OnePlace ==
    /\ Made = UNION {In(p) : p \in Places}
    /\ \A p, q \in Places : p # q => In(p) \cap In(q) = {}
    /\ IsInjective(sendq)
    /\ \A t \in Tsvr : \A i, j \in DOMAIN wiov[t].items :
          wiov[t].items[i] = wiov[t].items[j] /\ wiov[t].items[i].kind = "exp" => i = j
    /\ \A t \in Tsvr : ExpIn(wire[t].done) \subseteq sent

\* Every block of the pool is free, in the hands of a caller, in the queue or in
\* a write vector, whatever connections break on the way: none leaks and none is
\* freed twice; and its message is in that one place only.
SlotsAccounted ==
    /\ free + Cardinality(UNION {In(p) : p \in {q \in Places : q[1] \notin {"sent", "lost"}}}) = QueueMax
    /\ OnePlace

\* The server can parse every connection's byte stream: short writes resume in
\* the message they stopped in, and a new connection starts with a message.
Framed == \A t \in Tsvr : wire[t].framed

\* A connection begins with the authentication, and the subscriptions come before
\* the messages of the application.
AuthFirst ==
    \A t \in Tsvr :
        LET done == wire[t].done
        IN  /\ done # <<>> => done[1] = AuthReq
            /\ \A i, j \in DOMAIN done :
                 i < j => done[j] # AuthReq /\ ~(done[i].kind = "exp" /\ done[j].kind = "sub")

\* The messages of a caller that take the same connection arrive in the order in
\* which they were sent.
CallerOrder ==
    \A t \in Tsvr : \A i, j \in DOMAIN wire[t].done :
        LET x == wire[t].done[i]
            y == wire[t].done[j]
        IN  i < j /\ x.kind = "exp" /\ y.kind = "exp" /\ x.by = y.by => x.no < y.no

\* While a connection counts a keepalive request as sent, the request or its
\* answer is on the way, so that the next timeout means something.
KeepaliveOutstanding ==
    \A t \in Tsvr :
        kpalive[t] = "sent" /\ fd[t] /\ ~closed[t] =>
            \/ KpReq \in ToSet(mesg_list[t]) \cup ToSet(wiov[t].items)
            \/ "kp" \in asked[t] \cup inbox[t]

\* A connection is dropped for an unanswered keepalive request only after the
\* request was sent: when the drop is due and the socket has room, the request
\* is not still waiting in the message list.
KeepaliveSent ==
    \A t \in Tsvr :
        pc[t] = "wait" /\ fd[t] /\ ~blocked[t] /\ kpalive[t] = "sent" /\ Ready(t) = {} =>
            KpReq \notin ToSet(mesg_list[t])

\* No entry is added to a full write vector.
WiovWithinBounds == ~Overrun

\* A queued message leaves the queue, although commands get lost, senders share
\* the pipe, and one event writes one vector.
QueueDrains == \A m \in {Msg(c, k) : c \in Callers, k \in 1..MaxSend} :
                  m \in ToSet(sendq) ~> m \notin ToSet(sendq) \/ Overrun
=============================================================================
