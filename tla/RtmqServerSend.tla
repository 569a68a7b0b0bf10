--------------------------- MODULE RtmqServerSend ---------------------------
(***************************************************************************)
(* How a message of the RTMQ server reaches a client: rtmq_async_send puts *)
(* a reference counted block into a distribution queue, the distribution   *)
(* thread maps the destination node to a receiving thread and moves the    *)
(* block to its send queue, and the receiving thread puts it on the list   *)
(* of one connection of the node and writes it.  With it the life of the   *)
(* connections: accepted by the listener, added, authenticated, deleted by *)
(* their thread, and the map from nodes to threads that they keep.         *)
(*                                                                         *)
(* One action is one step between two accesses of shared state: a ring, a  *)
(* pipe, the map under its lock.  A ring is a FIFO here (module Ring); a   *)
(* connection belongs to one thread.                                       *)
(***************************************************************************)
EXTENDS Naturals, FiniteSets, FiniteSetsExt, SequencesExt

CONSTANTS
    Senders,    \* threads that call rtmq_async_send
    DistqNum,   \* conf.distq_num
    RsvrNum,    \* conf.recv_thd_num
    Nodes,      \* node ids of the clients
    ConnNum,    \* connections clients make (bound); session ids are 1..ConnNum
    NodeOf,     \* NodeOf[c]: the node that connects as c
    Refused,    \* connections with a wrong password
    Kp,         \* connections that send a keepalive request
    Quit,       \* connections the client closes at some time
    Silent,     \* connections that fall silent for more than 30 seconds
    QueueMax,   \* size of the distribution and send queues
    PipeMax,    \* commands a pipe holds
    MapMax,     \* RTRD_NODE_TO_SVR_MAX_LEN
    IovMax,     \* entries of a write vector, the smaller of 2 * sendq.max and IOV_MAX
    MaxSend,    \* messages sent (bound)
    None

Conns  == 1..ConnNum
Distqs == 1..DistqNum
Rsvrs  == 0..(RsvrNum - 1)

\* The 1024 pointers of the local arrays hold what a queue can hold; the check
\* of that limit reads a shared counter twice (see RtmqProxySend).
ASSUME ServerAssumption ==
    /\ {DistqNum, RsvrNum, QueueMax, PipeMax, MapMax, IovMax} \subseteq Nat \ {0}
    /\ {ConnNum, MaxSend} \subseteq Nat
    /\ QueueMax <= 1024
    /\ NodeOf \in [Conns -> Nodes]
    /\ UNION {Refused, Kp, Quit, Silent} \subseteq Conns
    /\ None \notin Nodes

VARIABLES
    \* senders
    made,       \* messages begun
    spc,        \* spc[s]: "idle", "cmd"
    \* shared
    live,       \* blocks mref_alloc gave and mref_dec has not freed
    distq, sendq, dpipe, rpipe, connq,
    map,        \* map[n]: rsvr_id[0..num-1] of node n, empty if n has no entry
    \* distribution thread
    dpc,        \* "select", "pop", "map", "push", "cmd"
    d,          \* queue to visit
    data,       \* messages popped and not yet distributed
    idx,        \* the thread the map gave
    \* listener
    sid,        \* lsn->sid
    lpc,        \* "accept", "cmd"
    \* receiving threads
    rpc,        \* rpc[r]: "select", "cmd", "dist", "recv", "send"
    rdset, wrset,
    todo,       \* connections the traversal has still to visit
    conn_list,  \* a set: the list is in the order of the session ids, as connq is
    batch,      \* messages popped and not yet routed
    \* connections
    nid,        \* sck->nid, None until authenticated
    mesg_list,
    wiov,       \* [cnt, items]: iov_cnt and the items from iov_idx on
    \* clients and network
    reqs,       \* requests in the socket
    talks,      \* keepalives not yet sent
    hup,        \* connections the client has closed
    inbox,      \* what a client has got
    gone        \* connections deleted (history)

svars == <<made, spc>>
dvars == <<dpc, d, data, idx>>
lvars == <<sid, lpc>>
rvars == <<rpc, rdset, wrset, todo, conn_list, batch>>
cvars == <<nid, mesg_list, wiov>>
nvars == <<reqs, talks, hup>>
vars  == <<svars, live, distq, sendq, dpipe, rpipe, connq, map, dvars, lvars, rvars,
           cvars, nvars, inbox, gone>>

Exp(k, s, q, n) == [kind |-> "exp", no |-> k, by |-> s, via |-> q, dest |-> n]
AuthAck(c) == [kind |-> "auth", conn |-> c]
KpAck(c) == [kind |-> "kp", conn |-> c]

Empty == [cnt |-> 0, items |-> <<>>]

Init ==
    /\ made = 0
    /\ spc = [s \in Senders |-> "idle"]
    /\ live = {}
    /\ distq = [q \in Distqs |-> <<>>]
    /\ sendq = [r \in Rsvrs |-> <<>>]
    /\ dpipe = 0
    /\ rpipe = [r \in Rsvrs |-> <<>>]
    /\ connq = [r \in Rsvrs |-> {}]
    /\ map = [n \in Nodes |-> <<>>]
    /\ dpc = "select" /\ d = 1 /\ data = <<>> /\ idx = None
    /\ sid = 0 /\ lpc = "accept"
    /\ rpc = [r \in Rsvrs |-> "select"]
    /\ rdset = [r \in Rsvrs |-> {}]
    /\ wrset = [r \in Rsvrs |-> {}]
    /\ todo = [r \in Rsvrs |-> {}]
    /\ conn_list = [r \in Rsvrs |-> {}]
    /\ batch = [r \in Rsvrs |-> <<>>]
    /\ nid = [c \in Conns |-> None]
    /\ mesg_list = [c \in Conns |-> <<>>]
    /\ wiov = [c \in Conns |-> Empty]
    /\ reqs = [c \in Conns |-> <<>>]
    /\ talks = Kp
    /\ hup = {}
    /\ inbox = [c \in Conns |-> <<>>]
    /\ gone = {}

-----------------------------------------------------------------------------
(* rtmq_async_send *)

\* pipe_write on a non-blocking pipe: a command that does not fit is dropped.
Write(pipe, cmd) == IF Len(pipe) < PipeMax THEN Append(pipe, cmd) ELSE pipe

\* A block is allocated and pushed to a random queue, or freed if that is full.
AsyncSend(s) ==
    /\ spc[s] = "idle"
    /\ made < MaxSend
    /\ made' = made + 1
    /\ \E q \in Distqs, n \in Nodes :
          IF Len(distq[q]) < QueueMax
          THEN /\ distq' = [distq EXCEPT ![q] = Append(@, Exp(made', s, q, n))]
               /\ live' = live \cup {Exp(made', s, q, n)}
          ELSE UNCHANGED <<distq, live>>
    /\ spc' = [spc EXCEPT ![s] = "cmd"]
    /\ UNCHANGED <<sendq, dpipe, rpipe, connq, map, dvars, lvars, rvars, cvars, nvars,
                   inbox, gone>>

SendDistReq(s) ==
    /\ spc[s] = "cmd"
    /\ spc' = [spc EXCEPT ![s] = "idle"]
    /\ dpipe' = IF dpipe < PipeMax THEN dpipe + 1 ELSE dpipe
    /\ UNCHANGED <<made, live, distq, sendq, rpipe, connq, map, dvars, lvars, rvars,
                   cvars, nvars, inbox, gone>>

-----------------------------------------------------------------------------
(* The distribution thread *)

\* select returns a command, or nothing after a second: both distribute.
DsvrSelect ==
    /\ dpc = "select"
    /\ dpipe > 0 \/ \E q \in Distqs : distq[q] # <<>>
    /\ dpipe' = IF dpipe > 0 THEN dpipe - 1 ELSE 0
    /\ dpc' = "pop"
    /\ d' = 1
    /\ UNCHANGED <<svars, live, distq, sendq, rpipe, connq, map, data, idx, lvars,
                   rvars, cvars, nvars, inbox, gone>>

\* The loops go on: with the next message, the next queue, or with select.
NextMessage(next) ==
    dpc' = CASE data' # <<>>                    -> "map"
             [] data' = <<>> /\ next <= DistqNum -> "pop"
             [] data' = <<>> /\ next > DistqNum  -> "select"

DsvrPop ==
    /\ dpc = "pop"
    /\ data' = distq[d]
    /\ distq' = [distq EXCEPT ![d] = <<>>]
    /\ d' = d + 1
    /\ NextMessage(d')
    /\ UNCHANGED <<svars, live, sendq, dpipe, rpipe, connq, map, idx, lvars, rvars,
                   cvars, nvars, inbox, gone>>

Drop == live' = live \ {Head(data)} /\ data' = Tail(data) /\ NextMessage(d)

\* rtmq_node_to_svr_map_rand, under the read lock of the map.
DsvrMap ==
    /\ dpc = "map"
    /\ \/ /\ map[Head(data).dest] = <<>>
          /\ Drop
          /\ UNCHANGED idx
       \/ /\ idx' \in ToSet(map[Head(data).dest])
          /\ dpc' = "push"
          /\ UNCHANGED <<live, data>>
    /\ UNCHANGED <<svars, distq, sendq, dpipe, rpipe, connq, map, d, lvars, rvars,
                   cvars, nvars, inbox, gone>>

DsvrPush ==
    /\ dpc = "push"
    /\ IF Len(sendq[idx]) < QueueMax
       THEN /\ sendq' = [sendq EXCEPT ![idx] = Append(@, Head(data))]
            /\ data' = Tail(data)
            /\ dpc' = "cmd"
            /\ UNCHANGED live
       ELSE Drop /\ UNCHANGED sendq
    /\ UNCHANGED <<svars, distq, dpipe, rpipe, connq, map, d, idx, lvars, rvars,
                   cvars, nvars, inbox, gone>>

\* Mutant of DsvrCmd: one command for a batch, to the thread of its last message.
DsvrCmdOnce ==
    /\ dpc = "cmd"
    /\ rpipe' = IF data = <<>> THEN [rpipe EXCEPT ![idx] = Write(@, "dist")] ELSE rpipe
    /\ UNCHANGED data
    /\ NextMessage(d)
    /\ UNCHANGED <<svars, live, distq, sendq, dpipe, connq, map, d, idx, lvars, rvars,
                   cvars, nvars, inbox, gone>>

DsvrCmd ==
    /\ dpc = "cmd"
    /\ rpipe' = [rpipe EXCEPT ![idx] = Write(@, "dist")]
    /\ UNCHANGED data
    /\ NextMessage(d)
    /\ UNCHANGED <<svars, live, distq, sendq, dpipe, connq, map, d, idx, lvars, rvars,
                   cvars, nvars, inbox, gone>>

DsvrStep == DsvrSelect \/ DsvrPop \/ DsvrMap \/ DsvrPush \/ DsvrCmd

-----------------------------------------------------------------------------
(* The listener, and the clients *)

\* A client connects; its authentication request follows at once.  Connections
\* are dealt to the receiving threads in turn.
RsvrOf(c) == (c - 1) % RsvrNum

Accept ==
    /\ lpc = "accept"
    /\ sid < ConnNum
    /\ sid' = sid + 1
    /\ connq' = [connq EXCEPT ![RsvrOf(sid')] = @ \cup {sid'}]
    /\ reqs' = [reqs EXCEPT ![sid'] = <<"auth">>]
    /\ lpc' = "cmd"
    /\ UNCHANGED <<svars, live, distq, sendq, dpipe, rpipe, map, dvars, rvars, cvars,
                   talks, hup, inbox, gone>>

AddCmd ==
    /\ lpc = "cmd"
    /\ rpipe' = [rpipe EXCEPT ![RsvrOf(sid)] = Write(@, "add")]
    /\ lpc' = "accept"
    /\ UNCHANGED <<svars, live, distq, sendq, dpipe, connq, map, dvars, sid, rvars,
                   cvars, nvars, inbox, gone>>

ClientKeepalive(c) ==
    /\ c \in talks \ hup
    /\ c <= sid
    /\ reqs' = [reqs EXCEPT ![c] = Append(@, "kp")]
    /\ talks' = talks \ {c}
    /\ UNCHANGED <<svars, live, distq, sendq, dpipe, rpipe, connq, map, dvars, lvars,
                   rvars, cvars, hup, inbox, gone>>

ClientCloses(c) ==
    /\ c \in Quit \ hup
    /\ c <= sid
    /\ hup' = hup \cup {c}
    /\ UNCHANGED <<svars, live, distq, sendq, dpipe, rpipe, connq, map, dvars, lvars,
                   rvars, cvars, reqs, talks, inbox, gone>>

-----------------------------------------------------------------------------
(* A receiving thread *)

Blocks(c) == ToSet(mesg_list[c]) \cup ToSet(wiov[c].items)

\* Mutant of Unmap: all entries of the thread leave the map.
UnmapAll(entries, r) == SelectSeq(entries, LAMBDA x : x # r)

\* The first entry of the thread leaves the map; the last entry takes its place.
Unmap(entries, r) ==
    IF r \in ToSet(entries)
    THEN LET k == Min({j \in DOMAIN entries : entries[j] = r})
             n == Len(entries)
         IN  SubSeq([entries EXCEPT ![k] = entries[n]], 1, n - 1)
    ELSE entries

\* Mutant of DelConn: the write vector keeps its blocks.
DelConnLeaks(r, c, n) ==
    /\ conn_list' = [conn_list EXCEPT ![r] = @ \ {c}]
    /\ map' = IF n = None THEN map ELSE [map EXCEPT ![n] = Unmap(@, r)]
    /\ live' = live \ ToSet(mesg_list[c])
    /\ mesg_list' = [mesg_list EXCEPT ![c] = <<>>]
    /\ wiov' = [wiov EXCEPT ![c] = Empty]
    /\ gone' = gone \cup {c}

\* rtmq_rsvr_del_conn_hdl of a connection with nid n: off the list and the map, its
\* blocks released.
DelConn(r, c, n) ==
    /\ conn_list' = [conn_list EXCEPT ![r] = @ \ {c}]
    /\ map' = IF n = None THEN map ELSE [map EXCEPT ![n] = Unmap(@, r)]
    /\ live' = live \ Blocks(c)
    /\ mesg_list' = [mesg_list EXCEPT ![c] = <<>>]
    /\ wiov' = [wiov EXCEPT ![c] = Empty]
    /\ gone' = gone \cup {c}

\* A connection silent for 30 seconds is deleted when the read set is built, one
\* silent for 60 when select returns nothing.
RsvrDropsSilent(r) ==
    /\ rpc[r] = "select"
    /\ \E c \in Silent \cap conn_list[r] : DelConn(r, c, nid[c])
    /\ UNCHANGED <<svars, distq, sendq, dpipe, rpipe, connq, dvars, lvars, rpc, rdset,
                   wrset, todo, batch, nid, nvars, inbox>>

\* The traversals visit the connections of their set in list order: first for
\* receiving, then for sending, then the thread is back at select.
At(r, phase, set) ==
    /\ rpc' = [rpc EXCEPT ![r] = phase]
    /\ todo' = [todo EXCEPT ![r] = set]

ToSend(r, out) ==
    At(r, IF conn_list'[r] \cap out = {} THEN "select" ELSE "send", conn_list'[r] \cap out)

ToRecv(r, in, out) ==
    IF conn_list'[r] \cap in = {} THEN ToSend(r, out) ELSE At(r, "recv", conn_list'[r] \cap in)

NextRecv(r, c) == IF todo[r] = {c} THEN ToSend(r, wrset[r])
                  ELSE At(r, "recv", todo[r] \ {c})

NextSend(r, c) == At(r, IF todo[r] = {c} THEN "select" ELSE "send", todo[r] \ {c})

\* rtmq_rsvr_set_rdset, set_wrset and select.
RsvrSelect(r) ==
    LET in  == {c \in conn_list[r] : reqs[c] # <<>> \/ c \in hup}
        out == {c \in conn_list[r] : mesg_list[c] # <<>> \/ wiov[c].items # <<>>}
    IN  /\ rpc[r] = "select"
        /\ rpipe[r] # <<>> \/ in # {} \/ out # {}
        /\ rdset' = [rdset EXCEPT ![r] = in]
        /\ wrset' = [wrset EXCEPT ![r] = out]
        /\ UNCHANGED <<conn_list, batch>>
        /\ IF rpipe[r] # <<>>
           THEN rpc' = [rpc EXCEPT ![r] = "cmd"] /\ UNCHANGED todo
           ELSE ToRecv(r, in, out)
        /\ UNCHANGED <<svars, live, distq, sendq, dpipe, rpipe, connq, map, dvars,
                       lvars, cvars, nvars, inbox, gone>>

\* rtmq_rsvr_recv_cmd: one command; all connections that wait in the queue are added.
RsvrCmd(r) ==
    /\ rpc[r] = "cmd"
    /\ rpipe' = [rpipe EXCEPT ![r] = Tail(@)]
    /\ IF Head(rpipe[r]) = "add"
       THEN /\ conn_list' = [conn_list EXCEPT ![r] = @ \cup connq[r]]
            /\ connq' = [connq EXCEPT ![r] = {}]
            /\ ToRecv(r, rdset[r], wrset[r])
       ELSE /\ rpc' = [rpc EXCEPT ![r] = "dist"]
            /\ UNCHANGED <<conn_list, connq, todo>>
    /\ UNCHANGED <<svars, live, distq, sendq, dpipe, map, dvars, lvars, rdset, wrset,
                   batch, cvars, nvars, inbox, gone>>

\* rtmq_rsvr_dist_data: the queue is popped until it is empty.
RsvrPop(r) ==
    /\ rpc[r] = "dist" /\ batch[r] = <<>>
    /\ batch' = [batch EXCEPT ![r] = sendq[r]]
    /\ sendq' = [sendq EXCEPT ![r] = <<>>]
    /\ UNCHANGED conn_list
    /\ IF sendq[r] = <<>> THEN ToRecv(r, rdset[r], wrset[r]) ELSE UNCHANGED <<rpc, todo>>
    /\ UNCHANGED <<svars, live, distq, dpipe, rpipe, connq, map, dvars, lvars, rdset,
                   wrset, cvars, nvars, inbox, gone>>

\* Mutant of On: any connection of the thread will do.
OnAny(r, n) == conn_list[r]

\* The connections of node n on thread r.
On(r, n) == {c \in conn_list[r] : nid[c] = n}

\* A message goes to the list of a random connection of its node, or is freed if
\* the thread has none.
RsvrRoute(r) ==
    /\ rpc[r] = "dist" /\ batch[r] # <<>>
    /\ LET m == Head(batch[r])
       IN  \/ /\ On(r, m.dest) = {}
              /\ live' = live \ {m}
              /\ UNCHANGED mesg_list
           \/ /\ \E c \in On(r, m.dest) :
                    mesg_list' = [mesg_list EXCEPT ![c] = Append(@, m)]
              /\ UNCHANGED live
    /\ batch' = [batch EXCEPT ![r] = Tail(@)]
    /\ UNCHANGED <<svars, distq, sendq, dpipe, rpipe, connq, map, dvars, lvars, rpc,
                   rdset, wrset, todo, conn_list, nid, wiov, nvars, inbox, gone>>

\* Mutant of Reply: an answer goes before what is on the list.
ReplyFront(c, m) ==
    /\ mesg_list' = [mesg_list EXCEPT ![c] = <<m>> \o @]
    /\ live' = live \cup {m}

\* A block is allocated for an answer and put on the list.
Reply(c, m) ==
    /\ mesg_list' = [mesg_list EXCEPT ![c] = Append(@, m)]
    /\ live' = live \cup {m}

Read(c) == reqs' = [reqs EXCEPT ![c] = Tail(@)]

\* Authentication of a node the map has no room for ends the connection, with
\* nid set.
AuthReq(r, c) ==
    LET n == NodeOf[c]
    IN  /\ Head(reqs[c]) = "auth"
        /\ Read(c)
        /\ IF c \in Refused
           THEN /\ Reply(c, AuthAck(c))
                /\ UNCHANGED <<nid, map, conn_list, rpc, todo, wiov, gone>>
           ELSE /\ nid' = [nid EXCEPT ![c] = n]
                /\ IF Len(map[n]) < MapMax
                   THEN /\ map' = [map EXCEPT ![n] = Append(@, r)]
                        /\ Reply(c, AuthAck(c))
                        /\ UNCHANGED <<conn_list, rpc, todo, wiov, gone>>
                   ELSE DelConn(r, c, n) /\ NextRecv(r, c)

\* A keepalive request is answered if the connection is authenticated, else it
\* ends it.
KeepaliveReq(r, c) ==
    /\ Head(reqs[c]) = "kp"
    /\ Read(c)
    /\ IF nid[c] # None
       THEN /\ Reply(c, KpAck(c))
            /\ UNCHANGED <<map, conn_list, rpc, todo, wiov, gone>>
       ELSE DelConn(r, c, nid[c]) /\ NextRecv(r, c)
    /\ UNCHANGED nid

\* rtmq_rsvr_trav_recv and recv_proc: what is in the socket is read until nothing
\* is left or the client has closed.
RsvrRecv(r) ==
    /\ rpc[r] = "recv"
    /\ LET c == Min(todo[r])
       IN  \/ reqs[c] # <<>> /\ (AuthReq(r, c) \/ KeepaliveReq(r, c))
           \/ /\ reqs[c] = <<>>
              /\ IF c \in hup
                 THEN DelConn(r, c, nid[c])
                 ELSE UNCHANGED <<live, map, conn_list, mesg_list, wiov, gone>>
              /\ NextRecv(r, c)
              /\ UNCHANGED <<nid, reqs>>
    /\ UNCHANGED <<svars, distq, sendq, dpipe, rpipe, connq, dvars, lvars, rdset, wrset,
                   batch, talks, hup, inbox>>

\* rtmq_rsvr_wiov_add moves the list behind the items of the vector.
Room(c) == IF Len(mesg_list[c]) < IovMax - wiov[c].cnt
           THEN Len(mesg_list[c]) ELSE IovMax - wiov[c].cnt

\* Mutant of Fill: messages are taken from the end of the list.
FillBack(c) ==
    LET from == Len(mesg_list[c]) - Room(c)
    IN  [cnt |-> wiov[c].cnt + Room(c),
         items |-> wiov[c].items \o Reverse(SubSeq(mesg_list[c], from + 1, Len(mesg_list[c])))]

Fill(c) == [cnt |-> wiov[c].cnt + Room(c),
            items |-> wiov[c].items \o SubSeq(mesg_list[c], 1, Room(c))]

\* wiov_item_adjust: the first k items are sent and their blocks released.
Adjust(w, k) == IF k = Len(w.items) THEN Empty
                ELSE [cnt |-> w.cnt, items |-> SubSeq(w.items, k + 1, Len(w.items))]

\* rtmq_rsvr_trav_send: one writev for each connection of the set.  A write may be
\* short; one that ends before the first item does is left out.  To a client that
\* has closed it may still go, or fail; a failure ends the connection and the
\* traversal.
RsvrSend(r) ==
    /\ rpc[r] = "send"
    /\ LET c == Min(todo[r])
           w == Fill(c)
       IN  \/ \E k \in 1..Len(w.items) :
              LET out == SubSeq(w.items, 1, k)
              IN  /\ wiov' = [wiov EXCEPT ![c] = Adjust(w, k)]
                  /\ mesg_list' = [mesg_list EXCEPT ![c] = SubSeq(@, Room(c) + 1, Len(@))]
                  /\ live' = live \ ToSet(out)
                  /\ inbox' = IF c \in hup THEN inbox ELSE [inbox EXCEPT ![c] = @ \o out]
                  /\ NextSend(r, c)
                  /\ UNCHANGED <<map, conn_list, gone>>
           \/ /\ c \in hup
              /\ DelConn(r, c, nid[c])
              /\ At(r, "select", {})
              /\ UNCHANGED inbox
    /\ UNCHANGED <<svars, distq, sendq, dpipe, rpipe, connq, dvars, lvars, rdset, wrset,
                   batch, nid, nvars>>

RsvrStep(r) == RsvrSelect(r) \/ RsvrCmd(r) \/ RsvrPop(r) \/ RsvrRoute(r)
               \/ RsvrRecv(r) \/ RsvrSend(r)

Next ==
    \/ \E s \in Senders : AsyncSend(s) \/ SendDistReq(s)
    \/ DsvrStep
    \/ Accept \/ AddCmd
    \/ \E c \in Conns : ClientKeepalive(c) \/ ClientCloses(c)
    \/ \E r \in Rsvrs : RsvrDropsSilent(r) \/ RsvrStep(r)

Spec == Init /\ [][Next]_vars

\* Every thread runs, and finishes what it has begun; nobody has to send, connect
\* or close.
FairSpec ==
    /\ Spec
    /\ \A s \in Senders : WF_vars(SendDistReq(s))
    /\ WF_vars(DsvrStep)
    /\ WF_vars(AddCmd)
    /\ \A r \in Rsvrs : WF_vars(RsvrStep(r))

-----------------------------------------------------------------------------
(* Properties *)

Orders == [kind : {"exp"}, no : 1..MaxSend, by : Senders, via : Distqs, dest : Nodes]
Messages == Orders \cup [kind : {"auth", "kp"}, conn : Conns]

SendersOK ==
    /\ made \in 0..MaxSend
    /\ spc \in [Senders -> {"idle", "cmd"}]

SharedOK ==
    /\ live \subseteq Messages
    /\ distq \in [Distqs -> Seq(Orders)]
    /\ sendq \in [Rsvrs -> Seq(Orders)]
    /\ dpipe \in 0..PipeMax
    /\ rpipe \in [Rsvrs -> Seq({"add", "dist"})]
    /\ connq \in [Rsvrs -> SUBSET Conns]
    /\ map \in [Nodes -> Seq(Rsvrs)]

DsvrOK ==
    /\ dpc \in {"select", "pop", "map", "push", "cmd"}
    /\ d \in 1..(DistqNum + 1)
    /\ data \in Seq(Orders)
    /\ idx \in Rsvrs \cup {None}

LsnOK == sid \in 0..ConnNum /\ lpc \in {"accept", "cmd"}

RsvrsOK ==
    /\ rpc \in [Rsvrs -> {"select", "cmd", "dist", "recv", "send"}]
    /\ rdset \in [Rsvrs -> SUBSET Conns]
    /\ wrset \in [Rsvrs -> SUBSET Conns]
    /\ todo \in [Rsvrs -> SUBSET Conns]
    /\ conn_list \in [Rsvrs -> SUBSET Conns]
    /\ batch \in [Rsvrs -> Seq(Orders)]

ConnsOK ==
    /\ nid \in [Conns -> Nodes \cup {None}]
    /\ mesg_list \in [Conns -> Seq(Messages)]
    /\ wiov \in [Conns -> [cnt : 0..IovMax, items : Seq(Messages)]]
    /\ gone \subseteq Conns

ClientsOK ==
    /\ reqs \in [Conns -> Seq({"auth", "kp"})]
    /\ talks \subseteq Conns
    /\ hup \subseteq Conns
    /\ inbox \in [Conns -> Seq(Messages)]

TypeOK == SendersOK /\ SharedOK /\ DsvrOK /\ LsnOK /\ RsvrsOK /\ ConnsOK /\ ClientsOK

\* The reference counts: a block that is not freed is in exactly one place (a
\* queue, the batch of a thread, the list or the write vector of one connection), and
\* a freed one in none.  Blocks are passed from thread to thread and freed by whoever
\* cannot pass them on.
Places == ({"distq"} \X Distqs) \cup ({"sendq", "batch"} \X Rsvrs) \cup {<<"data", 0>>}
          \cup ({"list", "iov"} \X Conns)

Held(p) == CASE p[1] = "distq" -> distq[p[2]]
             [] p[1] = "sendq" -> sendq[p[2]]
             [] p[1] = "data"  -> data
             [] p[1] = "batch" -> batch[p[2]]
             [] p[1] = "list"  -> mesg_list[p[2]]
             [] p[1] = "iov"   -> wiov[p[2]].items

BlocksAccounted ==
    /\ \A p \in Places : IsInjective(Held(p))
    /\ \A p, q \in Places : p # q => ToSet(Held(p)) \cap ToSet(Held(q)) = {}
    /\ live = UNION {ToSet(Held(p)) : p \in Places}

\* The map has one entry for each authenticated connection of a node, with the
\* thread that serves it, and no other entry: entries are added and removed by
\* all receiving threads, each for its own connections.
MapExact ==
    \A n \in Nodes, r \in Rsvrs :
        Cardinality({k \in DOMAIN map[n] : map[n][k] = r}) = Cardinality(On(r, n))

\* "Finds and deletes the sck_serial node in the list" (rtmq_comm.c:149): deleting
\* a connection takes its own entry out of the map, so every authenticated
\* connection can be reached.
MapCovers ==
    \A r \in Rsvrs : \A c \in conn_list[r] :
        nid[c] # None => r \in ToSet(map[nid[c]])

\* A message is dropped for want of a connection only if the node has none when it
\* is routed, or the thread it was routed to has deleted one of the node since.
Lost == {m \in live \ live' : m.kind = "exp"}

JustifiedDrop ==
    /\ dpc = "map" /\ dpc' # "push" =>
          \A m \in Lost \cap ToSet(data) : \A r \in Rsvrs : On(r, m.dest) = {}
    /\ \A r \in Rsvrs : rpc[r] = "dist" =>
          \A m \in Lost \cap ToSet(batch[r]) :
              \E c \in gone : RsvrOf(c) = r /\ nid[c] = m.dest

\* Every drop for want of a connection is justified (rtmq_dsvr_dist_data_hdl,
\* rtmq_rsvr_dist_data).
DropsJustified == [][JustifiedDrop]_vars

\* The first thing a client reads on a connection is the answer to its
\* authentication, although messages for its node come from other threads at any
\* time.
AckFirst ==
    \A c \in Conns : inbox[c] # <<>> => inbox[c][1] = AuthAck(c)

\* A message is sent only to a client of the node it is addressed to, and only on
\* a connection that was authenticated as that node.
RightNode ==
    \A c \in Conns : \A m \in ToSet(inbox[c] \o wiov[c].items \o mesg_list[c]) :
        m.kind = "exp" => m.dest = NodeOf[c] /\ c \notin Refused

\* What one thread sends through one distribution queue arrives in that order on a
\* connection, past the queues, the routing and short writes.
ConnOrder ==
    \A c \in Conns : \A j, k \in DOMAIN inbox[c] :
        LET x == inbox[c][j]
            y == inbox[c][k]
        IN  (j < k /\ x.kind = "exp" /\ y.kind = "exp" /\ x.by = y.by /\ x.via = y.via)
                => x.no < y.no

\* A message does not stay in the server: it is sent or dropped, although commands
\* may be lost in a full pipe.
Settles ==
    \A q \in Distqs : \A n \in Nodes : \A s \in Senders : \A k \in 1..MaxSend :
        Exp(k, s, q, n) \in live ~> Exp(k, s, q, n) \notin live
=============================================================================
