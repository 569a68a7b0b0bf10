------------------------------ MODULE Access ------------------------------
(***************************************************************************)
(* The access layer: listeners accept connections and hand them to the     *)
(* receiving threads through queues and pipes (acc_lsn.c); a receiving     *)
(* thread waits with epoll, edge-triggered, and treats the events of a     *)
(* batch one after the other, the commands of its pipe among them          *)
(* (acc_rsvr.c); the threads of the application queue messages and the     *)
(* removal of a connection for it (acc_comm.c).                            *)
(*                                                                         *)
(* A message to a client, and one from it, is two units long, so that a    *)
(* read or a write can end inside it.                                      *)
(***************************************************************************)
EXTENDS Naturals, Sequences, FiniteSets

CONSTANTS
    Lsvrs,      \* the listening threads
    RsvrNum,    \* receiving threads
    Apps,       \* the threads that call acc_async_send and acc_async_kick
    MaxAccept,  \* bound: connections accepted
    ConnMax,    \* slots of the queues of connections and of kicks
    SendMax,    \* slots of the ring of a receiving thread
    PipeMax,    \* commands a pipe holds
    MaxSends,   \* bound: messages queued
    MaxUnits    \* bound: units the clients send

ASSUME AccessAssumption ==
    /\ RsvrNum \in Nat \ {0} /\ ConnMax \in Nat \ {0} /\ SendMax \in Nat \ {0}
    /\ {MaxAccept, PipeMax, MaxSends, MaxUnits} \subseteq Nat

VARIABLES
    cids,       \* connections counted so far
    lsn,        \* per listener, the connection it has accepted and what is next
    connq,      \* per receiving thread, connections to add
    sendq,      \* messages, <<cid, number>>
    kickq,      \* connections to delete
    kicked,     \* the kicks that got a slot of kickq, which nobody gives back
    pipe,       \* the pipe: commands not yet read
    app,        \* per application thread, what it is doing
    now,         \* per receiving thread, the event it is treating
    batch,      \* the other events epoll_wait returned with it
    wild,       \* connections whose socket_t was used after it was freed
    sck,        \* per connection, its socket_t: where it is, send_list, the units left
                \* of the message being written, the events epoll watches, those it is
                \* ready for and has not reported, the units its client has sent and
                \* nobody read, and two histories: the messages queued for it and the
                \* units written
    units,      \* units the clients have sent
    sends       \* messages the application has queued

queueVars == <<connq, sendq, kickq, kicked, pipe>>
threadVars == <<lsn, app, now, batch, wild>>
accVars == <<cids, queueVars, threadVars, sck, units, sends>>

Cids == 1 .. MaxAccept
Rids == 0 .. RsvrNum - 1
Rid(c) == c % RsvrNum
Whole(m) == <<<<m, 1>>, <<m, 2>>>>
Unwritten(c) == sck[c].list # <<>> \/ sck[c].cur # <<>>
Waiting == [src |-> 0, ev |-> {}]
Socket(where) == [st |-> where, list |-> <<>>, cur |-> <<>>, watch |-> {}, ready |-> {},
                  input |-> 0, pushed |-> 0, wire |-> <<>>]

AccessInit ==
    /\ cids = 0
    /\ lsn = [l \in Lsvrs |-> [do |-> "select", cid |-> 0]]
    /\ connq = [r \in Rids |-> <<>>]
    /\ sendq = [r \in Rids |-> <<>>]
    /\ kickq = [r \in Rids |-> <<>>]
    /\ kicked = [r \in Rids |-> <<>>]
    /\ pipe = [r \in Rids |-> <<>>]
    /\ app = [a \in Apps |-> [do |-> "idle", cid |-> 0]]
    /\ now = [r \in Rids |-> Waiting] /\ batch = [r \in Rids |-> {}]
    /\ wild = {}
    /\ sck = [c \in Cids |-> Socket("none")] /\ units = 0 /\ sends = 0

\* A full pipe loses the command: nobody looks at what pipe_write returns.
Tell(r, cmd) ==
    pipe' = IF Len(pipe[r]) < PipeMax THEN [pipe EXCEPT ![r] = Append(@, cmd)] ELSE pipe
-----------------------------------------------------------------------------
\* Listeners.  The lock is tried once and held until the connection has a number.

Accept(l) ==
    /\ lsn[l].do = "select"
    /\ cids < MaxAccept
    /\ cids' = cids + 1
    /\ lsn' = [lsn EXCEPT ![l] = [do |-> "push", cid |-> cids']]
    /\ sck' = [sck EXCEPT ![cids'].st = "accepted"]
    /\ UNCHANGED <<queueVars, app, now, batch, wild, units, sends>>

PushConn(l) ==
    /\ lsn[l].do = "push"
    /\ LET c == lsn[l].cid
           full == Len(connq[Rid(c)]) = ConnMax
       IN  /\ connq' = [connq EXCEPT ![Rid(c)] = IF full THEN @ ELSE Append(@, c)]
           /\ sck' = [sck EXCEPT ![c] = IF full THEN Socket("closed")
                                        ELSE [@ EXCEPT !.st = "queued"]]
           /\ lsn' = [lsn EXCEPT ![l].do = IF full THEN "select" ELSE "tell"]
    /\ UNCHANGED <<cids, sendq, kickq, kicked, pipe, app, now, batch, wild, units, sends>>

TellAdd(l) ==
    /\ lsn[l].do = "tell"
    /\ Tell(Rid(lsn[l].cid), "ADD_SCK")
    /\ lsn' = [lsn EXCEPT ![l].do = "select"]
    /\ UNCHANGED <<cids, connq, sendq, kickq, kicked, app, now, batch, wild, sck, units,
                   sends>>

\* A second without a connection: the command is sent again for what is queued.
LsvrTimeout(l, r) ==
    /\ lsn[l].do = "select"
    /\ connq[r] # <<>> /\ pipe[r] = <<>>                           \* bound
    /\ Tell(r, "ADD_SCK")
    /\ UNCHANGED <<cids, connq, sendq, kickq, kicked, threadVars, sck, units, sends>>
-----------------------------------------------------------------------------
\* The application, which knows a connection from its callbacks.

AppCall(a) ==
    /\ app[a].do = "idle"
    /\ \E c \in {c \in Cids : sck[c].st = "open"} :
          \/ /\ sends < MaxSends
             /\ app' = [app EXCEPT ![a] = [do |-> "send", cid |-> c]]
          \/ /\ Len(kicked[Rid(c)]) < ConnMax         \* refused, it changes nothing
             /\ app' = [app EXCEPT ![a] = [do |-> "kick", cid |-> c]]
    /\ UNCHANGED <<cids, queueVars, lsn, now, batch, wild, sck, units, sends>>

\* Refused when the ring is full.
AppSend(a) ==
    /\ app[a].do = "send"
    /\ LET c == app[a].cid
           full == Len(sendq[Rid(c)]) = SendMax
           nr == sck[c].pushed + 1
       IN  /\ sendq' = [sendq EXCEPT ![Rid(c)] = IF full THEN @ ELSE Append(@, <<c, nr>>)]
           /\ sck' = [sck EXCEPT ![c].pushed =
                        IF full \/ sck[c].st = "closed" THEN @ ELSE nr]
           /\ sends' = IF full THEN sends ELSE sends + 1
           /\ app' = [app EXCEPT ![a].do = IF full THEN "idle" ELSE "DIST_DATA"]
    /\ UNCHANGED <<cids, connq, kickq, kicked, pipe, lsn, now, batch, wild, units>>

\* Refused when every slot was used once.
AppKick(a) ==
    /\ app[a].do = "kick"
    /\ LET c == app[a].cid
           full == Len(kicked[Rid(c)]) = ConnMax
       IN  /\ kickq' = [kickq EXCEPT ![Rid(c)] = IF full THEN @ ELSE Append(@, c)]
           /\ kicked' = [kicked EXCEPT ![Rid(c)] = IF full THEN @ ELSE Append(@, c)]
           /\ app' = [app EXCEPT ![a].do = IF full THEN "idle" ELSE "KICK_CONN"]
    /\ UNCHANGED <<cids, connq, sendq, pipe, lsn, now, batch, wild, sck, units, sends>>

AppTell(a) ==
    /\ app[a].do \in {"DIST_DATA", "KICK_CONN"}
    /\ Tell(Rid(app[a].cid), app[a].do)
    /\ app' = [app EXCEPT ![a].do = "idle"]
    /\ UNCHANGED <<cids, connq, sendq, kickq, kicked, lsn, now, batch, wild, sck, units,
                   sends>>
-----------------------------------------------------------------------------
\* The clients.

ClientSend(c) ==
    /\ sck[c].st \in {"accepted", "queued", "open"}
    /\ units < MaxUnits
    /\ units' = units + 1
    /\ sck' = [sck EXCEPT ![c].input = @ + 1, ![c].ready = @ \cup {"IN"}]
    /\ UNCHANGED <<cids, queueVars, threadVars, sends>>

\* The socket takes more: the client has read, or it always did.
Writable(c) ==
    /\ sck[c].st = "open"
    /\ "OUT" \in sck[c].watch \ sck[c].ready
    /\ sck' = [sck EXCEPT ![c].ready = @ \cup {"OUT"}]
    /\ UNCHANGED <<cids, queueVars, threadVars, units, sends>>
-----------------------------------------------------------------------------
\* The receiving threads.  A thread that uses a freed socket_t may do anything; here
\* it stops.

Open(r) == {c \in Cids : Rid(c) = r /\ sck[c].st = "open"}
Alive(r) == \A c \in wild : Rid(c) # r
Elements(q) == {q[k] : k \in DOMAIN q}

Events(r) ==
    {e \in {[src |-> c, ev |-> sck[c].watch \cap sck[c].ready] : c \in Open(r)} : e.ev # {}}
    \cup (IF pipe[r] = <<>> THEN {} ELSE {[src |-> 0, ev |-> {"IN"}]})

EpollWait(r) ==
    /\ Alive(r) /\ now[r] = Waiting /\ batch[r] = {}
    /\ Events(r) # {}
    /\ batch' = [batch EXCEPT ![r] = Events(r)]
    /\ sck' = [c \in Cids |-> IF c \in Open(r)
                              THEN [sck[c] EXCEPT !.ready = @ \ sck[c].watch] ELSE sck[c]]
    /\ UNCHANGED <<cids, queueVars, lsn, app, now, wild, units, sends>>

\* The next event of the batch; its pointer may be stale by now.
NextEvent(r) ==
    /\ Alive(r) /\ now[r] = Waiting
    /\ \E e \in batch[r] :
          /\ batch' = [batch EXCEPT ![r] = @ \ {e}]
          /\ IF e.src = 0 \/ e.src \in Open(r)
             THEN now' = [now EXCEPT ![r] = e] /\ UNCHANGED wild
             ELSE wild' = wild \cup {e.src} /\ UNCHANGED now
    /\ UNCHANGED <<cids, queueVars, lsn, app, sck, units, sends>>

Delete(cs) == sck' = [c \in Cids |-> IF c \in cs THEN Socket("closed") ELSE sck[c]]

AddConn(r) ==
    /\ sck' = [c \in Cids |-> IF c \in Elements(connq[r])
                              THEN [sck[c] EXCEPT !.st = "open", !.watch = {"IN"}]
                              ELSE sck[c]]
    /\ connq' = [connq EXCEPT ![r] = <<>>]
    /\ UNCHANGED <<sendq, kickq>>

\* The messages of a queue that are for one connection, taken one after the other.
MesgsFor(c, q) ==
    LET mine[k \in 0 .. Len(q)] ==
            IF k = 0 THEN <<>>
            ELSE IF q[k][1] = c THEN Append(mine[k - 1], q[k]) ELSE mine[k - 1]
    IN  mine[Len(q)]

\* Mutant: messages go to the front of the list.
DistSendDataFront(r) ==
    /\ sck' = [c \in Cids |-> LET ms == MesgsFor(c, sendq[r])
                              IN  IF c \in Open(r) /\ ms # <<>>
                                  THEN [sck[c] EXCEPT !.list = ms \o @, !.watch = {"OUT"}]
                                  ELSE sck[c]]
    /\ sendq' = [sendq EXCEPT ![r] = <<>>]
    /\ UNCHANGED <<connq, kickq>>

\* Every message of the ring goes to the list of its connection, if there is one.
DistSendData(r) ==
    /\ sck' = [c \in Cids |-> LET ms == MesgsFor(c, sendq[r])
                              IN  IF c \in Open(r) /\ ms # <<>>
                                  THEN [sck[c] EXCEPT !.list = @ \o ms, !.watch = {"OUT"}]
                                  ELSE sck[c]]
    /\ sendq' = [sendq EXCEPT ![r] = <<>>]
    /\ UNCHANGED <<connq, kickq>>

KickConn(r) ==
    /\ Delete(Open(r) \cap Elements(kickq[r]))
    /\ kickq' = [kickq EXCEPT ![r] = <<>>]
    /\ UNCHANGED <<connq, sendq>>

\* One command; the pipe is read until it is empty.
CmdHdl(r) ==
    /\ Alive(r) /\ now[r].src = 0 /\ now[r].ev # {}
    /\ IF pipe[r] = <<>>
       THEN /\ now' = [now EXCEPT ![r] = Waiting]
            /\ UNCHANGED <<connq, sendq, kickq, pipe, sck>>
       ELSE /\ pipe' = [pipe EXCEPT ![r] = Tail(@)]
            /\ CASE Head(pipe[r]) = "ADD_SCK" -> AddConn(r)
                 [] Head(pipe[r]) = "DIST_DATA" -> DistSendData(r)
                 [] Head(pipe[r]) = "KICK_CONN" -> KickConn(r)
            /\ UNCHANGED now
    /\ UNCHANGED <<cids, kicked, lsn, app, batch, wild, units, sends>>

\* Until read fails with EAGAIN, message after message.
Drained(s) == [s EXCEPT !.input = 0]

\* The socket is read until it has no more.  The callback of the application may
\* refuse a message, and a client may have closed: the connection is deleted, and
\* what else the event said is not looked at.
AccRecvData(r) ==
    /\ Alive(r) /\ now[r].src # 0 /\ "IN" \in now[r].ev
    /\ LET c == now[r].src
       IN  \/ /\ sck' = [sck EXCEPT ![c] = Drained(@)]
              /\ now' = [now EXCEPT ![r] = IF "OUT" \in @.ev THEN [@ EXCEPT !.ev = {"OUT"}]
                                         ELSE Waiting]
           \/ /\ Delete({c})
              /\ now' = [now EXCEPT ![r] = Waiting]
    /\ UNCHANGED <<cids, queueVars, lsn, app, batch, wild, units, sends>>

\* epoll looks at the socket anew when the watched set changes.
Watched(s, events) ==
    [s EXCEPT !.watch = events, !.ready = @ \cup (IF s.input > 0 THEN {"IN"} ELSE {})]

\* Mutant: the socket is not watched for writing while messages are left.
AfterWriteIn(left) == {"IN"}

AfterWrite(left) == IF left = <<>> THEN {"IN"} ELSE {"IN", "OUT"}

\* A message that is written whole changes what epoll watches; a socket that takes
\* nothing is treated as a failure.
WriteItem(r, c) ==
    LET s == sck[c]
        left == IF s.cur # <<>> THEN s.cur ELSE Whole(Head(s.list))
        Written(k) == [s EXCEPT !.cur = SubSeq(left, k + 1, Len(left)),
                                !.list = IF s.cur # <<>> THEN @ ELSE Tail(@),
                                !.wire = @ \o SubSeq(left, 1, k)]
        all == Written(Len(left))
    IN  \/ /\ sck' = [sck EXCEPT ![c] = Watched(all, AfterWrite(all.list))]
           /\ UNCHANGED now
        \/ /\ \E k \in 1 .. Len(left) - 1 : sck' = [sck EXCEPT ![c] = Written(k)]
           /\ now' = [now EXCEPT ![r] = Waiting]
        \/ /\ Delete({c})
           /\ now' = [now EXCEPT ![r] = Waiting]

AccSendData(r) ==
    /\ Alive(r) /\ now[r].src # 0 /\ now[r].ev = {"OUT"}
    /\ LET c == now[r].src
       IN  \/ Unwritten(c) /\ WriteItem(r, c)
           \/ ~Unwritten(c) /\ now' = [now EXCEPT ![r] = Waiting] /\ UNCHANGED sck
    /\ UNCHANGED <<cids, queueVars, lsn, app, batch, wild, units, sends>>

\* Mutant: the scan comes before the events of the batch.
ConnTimeoutFirst(r) ==
    /\ Alive(r) /\ now[r] = Waiting
    /\ \E silent \in (SUBSET Open(r)) \ {{}} : Delete(silent)
    /\ UNCHANGED <<cids, queueVars, threadVars, units, sends>>

\* The scan after a batch deletes the connections nothing was written to for 180
\* seconds, which may be any: the time of the last read is never brought up to date.
ConnTimeout(r) ==
    /\ Alive(r) /\ now[r] = Waiting /\ batch[r] = {}
    /\ \E silent \in (SUBSET Open(r)) \ {{}} : Delete(silent)
    /\ UNCHANGED <<cids, queueVars, threadVars, units, sends>>
-----------------------------------------------------------------------------
LsvrStep(l) == PushConn(l) \/ TellAdd(l)
AppStep(a) == AppSend(a) \/ AppKick(a) \/ AppTell(a)
RsvrStep(r) == EpollWait(r) \/ NextEvent(r) \/ CmdHdl(r) \/ AccRecvData(r) \/ AccSendData(r)

AccessNext ==
    \/ \E l \in Lsvrs : Accept(l) \/ LsvrStep(l) \/ \E r \in Rids : LsvrTimeout(l, r)
    \/ \E a \in Apps : AppCall(a) \/ AppStep(a)
    \/ \E c \in Cids : ClientSend(c) \/ Writable(c)
    \/ \E r \in Rids : RsvrStep(r) \/ ConnTimeout(r)

\* Threads go on with what they do, and a client reads what it is sent.
AccessFairness ==
    /\ \A l \in Lsvrs : WF_accVars(LsvrStep(l))
    /\ \A a \in Apps : WF_accVars(AppStep(a))
    /\ \A r \in Rids : WF_accVars(RsvrStep(r))
    /\ \A c \in Cids : WF_accVars(Writable(c))
-----------------------------------------------------------------------------
\* A connection carries the messages queued for it, and no others, whole and in the
\* order they went through the ring, up to where it is now.
ItemsInOrder ==
    \A c \in Cids : \A k \in DOMAIN sck[c].wire :
        /\ k <= 2 * sck[c].pushed
        /\ sck[c].wire[k] = Whole(<<c, (k + 1) \div 2>>)[IF k % 2 = 1 THEN 1 ELSE 2]

\* A batch holds an event of a connection that is gone only when the application
\* had it kicked: no other handler frees a socket that is still to be treated.
EventsFresh == \A c \in wild : c \in Elements(kicked[Rid(c)])

Done(r) ==
    /\ connq[r] = <<>> /\ sendq[r] = <<>>
    /\ \A c \in Open(r) :
          ~Unwritten(c) /\ sck[c].input = 0 /\ c \notin Elements(kicked[r])

\* Once the clients and the application ask for nothing more, everything handed to a
\* receiving thread has got there, however the commands, the events and the changes
\* of the watched set interleaved: the connections are added, the messages written,
\* what the clients sent is read, and the kicks ended their connections.
Served == \A r \in Rids : <>[](Alive(r) => Done(r))
=============================================================================
