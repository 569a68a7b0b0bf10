------------------------------ MODULE SdtpSend ------------------------------
(***************************************************************************)
(* The sending side of sdtp.  The clients of a machine put messages into   *)
(* the pages of a pool in shared memory, each page under its own lock      *)
(* (sdsd_pool.c, sdsd_cli.c).  One sending thread makes a page read-only,  *)
(* writes it to its connection, which carries the requests of the thread   *)
(* itself too, and gives the page back (sdsd_ssvr.c).                      *)
(*                                                                         *)
(* Every message is two units long, its header and its body, so that a     *)
(* write can end inside a message.                                         *)
(***************************************************************************)
EXTENDS Naturals, Sequences, FiniteSets

CONSTANTS
    Clients,    \* the threads that call sdsd_cli_send
    NumMesgs,   \* bound: messages each of them sends
    NumPages,   \* SDSD_POOL_PAGE_NUM
    PageSize,   \* messages a page holds
    SysBuff,    \* messages the buffer of the thread's own requests holds
    MaxConns,   \* bound: connections; the last one does not break
    MaxKpalive  \* bound: keepalive requests on a connection

ASSUME SdtpSendAssumption ==
    /\ NumPages \in Nat \ {0} /\ PageSize \in Nat \ {0}
    /\ SysBuff \in Nat \ {0} /\ MaxConns \in Nat \ {0}
    /\ {NumMesgs, MaxKpalive} \subseteq Nat

VARIABLES
    page,       \* per page, its mode and its messages
    old,        \* the pages whose send_tm is five seconds past
    cli,        \* per client, its next message and where it is in the pool
    pc,         \* where the sending thread is in its loop
    cur,        \* the page it looks at
    fd,         \* its connection, 0 when it has none
    sendType,   \* which of its two buffers it writes from
    mesgList,   \* requests not yet in the buffer
    sys,        \* what is left to write of the requests in the buffer
    exp,        \* page, written and total units of the page being sent
    kpalive,    \* the answer to the keepalive request
    cmds,       \* a command of a client waits in the socket
    accepted,   \* history: messages sdsd_pool_push took
    conns,      \* connections made so far
    wire,       \* history: the units written on the last connection
    begun,      \* history: the units it had to begin with
    sent,       \* history: how often each unit of a message was written
    lost        \* history: units dropped with a broken connection

poolVars == <<page, cli, accepted>>
histVars == <<wire, begun, sent, lost>>
linkVars == <<fd, conns, sendType, mesgList, sys, exp, kpalive, histVars>>
sdtpVars == <<poolVars, old, pc, cur, linkVars, cmds>>

Pages == 1 .. NumPages
AuthReq == <<"AUTH", 0>>
KpaliveReq == <<"KPALIVE", 0>>
Mesgs == Clients \X (1 .. NumMesgs)

\* Message i in units, whoever made it.
Units(ms) == [k \in 1 .. 2 * Len(ms) |-> <<ms[(k + 1) \div 2], IF k % 2 = 1 THEN 1 ELSE 2>>]

Away == [idx |-> 0, left |-> 0]
Unattached == [idx |-> 0, left |-> 1]

SdtpInit ==
    /\ page = [p \in Pages |-> [mode |-> "WR", data |-> <<>>]]
    /\ old = {}
    /\ cli = [c \in Clients |-> [next |-> 1, at |-> Unattached]]
    /\ pc = "none" /\ cur = 0
    /\ fd = 0
    /\ sendType = "SYS"
    /\ mesgList = <<>> /\ sys = <<>> /\ exp = [page |-> 0, o |-> 0, n |-> 0]
    /\ kpalive = "UNKNOWN"
    /\ cmds = FALSE
    /\ conns = 0
    /\ wire = <<>> /\ begun = <<>> /\ lost = {} /\ accepted = {}
    /\ sent = [u \in Mesgs \X {1, 2} |-> 0]
-----------------------------------------------------------------------------
\* Clients.  A message refused by every page is refused to the caller, who may
\* send it again.

\* Mutant: the mode of the page is not looked at.
HasRoomAnyMode(p) == Len(page[p].data) < PageSize

HasRoom(p) == page[p].mode = "WR" /\ Len(page[p].data) < PageSize

\* A push wakes the sending thread when the counter of the client is a multiple of
\* 1000, which for its 8 bits means 0.
CmdSendReq == cmds' \in {cmds, TRUE}

\* A client attaches the pool of the sending thread, which must have made it.
CliShmat == pc # "none"

SdsdCliInit(c) ==
    /\ cli[c].at = Unattached
    /\ CliShmat
    /\ cli' = [cli EXCEPT ![c].at = Away]
    /\ UNCHANGED <<page, accepted, old, pc, cur, linkVars, cmds>>

\* One page, under its lock, and the first is any.
PoolPush(c) ==
    /\ cli[c].next <= NumMesgs /\ cli[c].at # Unattached
    /\ \E at \in IF cli[c].at # Away THEN {cli[c].at}
                 ELSE {[idx |-> p, left |-> NumPages] : p \in Pages} :
          \/ /\ HasRoom(at.idx)
             /\ page' = [page EXCEPT ![at.idx].data = Append(@, <<c, cli[c].next>>)]
             /\ accepted' = accepted \cup {<<c, cli[c].next>>}
             /\ cli' = [cli EXCEPT ![c] = [next |-> @.next + 1, at |-> Away]]
             /\ CmdSendReq
          \/ /\ ~HasRoom(at.idx)
             /\ cli' = [cli EXCEPT ![c].at =
                          IF at.left = 1 THEN Away
                          ELSE [idx |-> (at.idx % NumPages) + 1, left |-> at.left - 1]]
             /\ UNCHANGED <<page, accepted, cmds>>
    /\ UNCHANGED <<old, pc, cur, linkVars>>

\* Five seconds pass since send_tm of a page, which shows when it has a message.
PageAges(p) ==
    /\ p \notin old /\ page[p].data # <<>>
    /\ old' = old \cup {p}
    /\ UNCHANGED <<poolVars, pc, cur, linkVars, cmds>>
-----------------------------------------------------------------------------
\* The sending thread.

Unsent == SubSeq(Units(page[exp.page].data), exp.o + 1, exp.n)

\* The pool, the list and the buffers are made before the threads are started.
SsvrInit ==
    /\ pc = "none"
    /\ pc' = "off"
    /\ UNCHANGED <<poolVars, old, cur, linkVars, cmds>>

Launch ==
    /\ pc = "off"
    /\ pc' = "top"
    /\ UNCHANGED <<poolVars, old, cur, linkVars, cmds>>

ClearMesg == <<>>

\* A refused connection leaves the thread here.  The requests in the list go with
\* the old connection, what is in the buffers stays.
Connect ==
    /\ pc = "top" /\ fd = 0
    /\ conns < MaxConns
    /\ conns' = conns + 1
    /\ fd' = conns'
    /\ wire' = <<>>
    /\ mesgList' \in {Append(ClearMesg, AuthReq), ClearMesg}     \* without memory, none
    /\ begun' = sys \o (IF exp.page = 0 THEN <<>> ELSE Unsent) \o Units(mesgList')
    /\ kpalive' = "UNKNOWN"
    /\ UNCHANGED <<poolVars, old, pc, cur, sendType, sys, exp, sent, lost, cmds>>

\* What keeps the thread with the buffer it has.
StaysWithSys == sendType = "SYS" /\ (mesgList # <<>> \/ sys # <<>>)
StaysWithExp == sendType = "EXP" /\ exp.o # exp.n
\* Mutant: requests do not wait for the page to be written.
TurnsToSysAtOnce == sendType = "EXP" /\ mesgList # <<>>
TurnsToSys == sendType = "EXP" /\ exp.o = exp.n /\ mesgList # <<>>

SwitchSendBuff ==
    /\ pc = "top" /\ fd # 0
    /\ \/ /\ StaysWithSys \/ StaysWithExp \/ TurnsToSys
          /\ sendType' = IF TurnsToSys THEN "SYS" ELSE sendType
          /\ pc' = "wait"
          /\ UNCHANGED <<page, old, cur>>
       \/ /\ ~(StaysWithSys \/ StaysWithExp \/ TurnsToSys)
          \* no lock: clients keep off a page until its mode says otherwise
          /\ page' = [p \in Pages |-> IF page[p].mode = "RD"
                                      THEN [mode |-> "WR", data |-> <<>>] ELSE page[p]]
          /\ old' = old \ {p \in Pages : page[p].mode = "RD"}
          /\ cur' = 1
          /\ pc' = "scan"
          /\ UNCHANGED sendType
    /\ UNCHANGED <<cli, accepted, fd, conns, mesgList, sys, exp, kpalive, histVars,
                   cmds>>

\* Mutant: the age of a page is not looked at.
ReadyHalf(p) == 2 * Len(page[p].data) > PageSize

Ready(p) ==
    \/ 2 * Len(page[p].data) > PageSize
    \/ p \in old /\ page[p].data # <<>>

\* The pages are read without their locks.
PoolScan ==
    /\ pc = "scan"
    /\ IF Ready(cur) THEN pc' = "take" /\ UNCHANGED cur
       ELSE IF cur < NumPages THEN cur' = cur + 1 /\ UNCHANGED pc
       ELSE cur' = 0 /\ pc' = "wait"
    /\ UNCHANGED <<poolVars, old, linkVars, cmds>>

PoolTake ==
    /\ pc = "take"
    /\ page' = [page EXCEPT ![cur].mode = "RD"]
    /\ sendType' = "EXP"
    /\ exp' = [page |-> cur, o |-> 0, n |-> 2 * Len(page[cur].data)]
    /\ cur' = 0
    /\ pc' = "wait"
    /\ UNCHANGED <<cli, accepted, old, fd, conns, mesgList, sys, kpalive, histVars,
                   cmds>>

\* Only the last of MaxConns connections lasts.
Breaks == fd # 0 /\ conns < MaxConns

SetRwset == mesgList # <<>> \/ sys # <<>> \/ exp.o # exp.n

\* select() reports the descriptors that are ready, each tried in this order.
SelectWrite ==
    /\ pc = "wait" /\ SetRwset
    /\ pc' = "send"
    /\ UNCHANGED <<poolVars, old, cur, linkVars, cmds>>

NumKpalive ==
    Cardinality({k \in DOMAIN wire : wire[k] = <<KpaliveReq, 1>>})
        + Cardinality({k \in DOMAIN mesgList : mesgList[k] = KpaliveReq})

\* One second without an event, and thirty without a write.  Without memory for
\* the request nothing changes.
TimeoutHdl ==
    /\ pc = "wait"
    /\ pc' = "top"
    /\ \/ /\ kpalive = "SENT" /\ Breaks
          /\ fd' = 0
          /\ sys' = <<>>
          /\ UNCHANGED <<mesgList, kpalive>>
       \/ /\ kpalive # "SENT" /\ NumKpalive < MaxKpalive
          /\ mesgList' = Append(mesgList, KpaliveReq)
          /\ kpalive' = "SENT"
          /\ UNCHANGED <<fd, sys>>
    /\ UNCHANGED <<poolVars, old, cur, conns, sendType, exp, histVars, cmds>>

Written(us) ==
    /\ wire' = wire \o us
    /\ sent' = [u \in DOMAIN sent |->
                   sent[u] + Cardinality({k \in DOMAIN us : us[k] = u})]

FillSendBuff ==
    LET take == IF Len(mesgList) < SysBuff THEN Len(mesgList) ELSE SysBuff
    IN  IF sys # <<>> THEN [buff |-> sys, list |-> mesgList]
        ELSE [buff |-> Units(SubSeq(mesgList, 1, take)),
              list |-> SubSeq(mesgList, take + 1, Len(mesgList))]

\* The requests fill the buffer when it is empty and are written until the list is
\* empty too, or the socket takes no more.
SendSysData(next) ==
    LET buff == FillSendBuff.buff
        list == FillSendBuff.list
    IN  /\ \/ /\ buff = <<>>
              /\ pc' = next
              /\ UNCHANGED <<fd, mesgList, sys, wire, sent>>
           \/ /\ buff # <<>>
              /\ mesgList' = list
              /\ \/ /\ Breaks                                 \* Writen() fails
                    /\ fd' = 0 /\ sys' = <<>> /\ pc' = next
                    /\ UNCHANGED <<wire, sent>>
                 \/ \E n \in 1 .. Len(buff) :
                       /\ Written(SubSeq(buff, 1, n))
                       /\ sys' = SubSeq(buff, n + 1, Len(buff))
                       /\ pc' = IF n = Len(buff) THEN pc ELSE next
                       /\ UNCHANGED fd
        /\ UNCHANGED <<conns, sendType, exp, kpalive, begun, lost>>

Reset == [page |-> 0, o |-> 0, n |-> 0]

SendExpData(next) ==
    /\ pc' = next
    /\ \/ exp.o = exp.n /\ exp' = Reset /\ UNCHANGED <<fd, wire, sent, lost>>
       \/ /\ exp.o # exp.n
          /\ \/ /\ Breaks                                     \* Writen() fails
                /\ fd' = 0 /\ exp' = Reset
                /\ lost' = lost \cup {Unsent[k] : k \in DOMAIN Unsent}
                /\ UNCHANGED <<wire, sent>>
             \/ \E n \in 1 .. exp.n - exp.o :
                   /\ Written(SubSeq(Unsent, 1, n))
                   /\ exp' = IF exp.o + n = exp.n THEN Reset ELSE [exp EXCEPT !.o = @ + n]
                   /\ UNCHANGED <<fd, lost>>
    /\ UNCHANGED <<conns, sendType, mesgList, sys, kpalive, begun>>

SendData ==
    /\ \/ pc = "send" /\ IF sendType = "SYS" THEN SendSysData("cmd") ELSE SendExpData("cmd")
       \/ pc = "push" /\ IF sendType = "SYS" THEN SendSysData("read") ELSE SendExpData("read")
    /\ UNCHANGED <<poolVars, old, cur, cmds>>

\* Is the socket writable now?
ProcCmd == \/ fd # 0 /\ pc' = "push"
           \/ pc' = "read"

\* A command writes at once if the socket takes it.
RecvCmd ==
    /\ pc \in {"wait", "cmd"}
    /\ cmds
    /\ cmds' = FALSE
    /\ ProcCmd
    /\ UNCHANGED <<poolVars, old, cur, linkVars>>

\* Of what the peer answers, only the answer to a keepalive request changes anything.
SysMesgProc(head) == kpalive' = IF head = "KPALIVE_REP" THEN "SUCC" ELSE kpalive

Answers == {"LINK_AUTH_REP"} \cup
    IF <<KpaliveReq, 2>> \in {wire[k] : k \in DOMAIN wire} THEN {"KPALIVE_REP"} ELSE {}

DataProc == fd # 0 /\ \E head \in Answers : SysMesgProc(head)

\* What the peer may send: the answer to a keepalive request it has read, messages
\* for the application, which go to the queues of the workers, or the end of the
\* connection.  With nothing to read, or a second without an event, the loop starts
\* over.
RecvProc ==
    /\ pc \in {"wait", "cmd", "read"}
    /\ pc' = "top"
    /\ \/ UNCHANGED <<fd, kpalive>>
       \/ DataProc /\ UNCHANGED fd
       \/ /\ Breaks
          /\ fd' = 0
          /\ UNCHANGED kpalive
    /\ UNCHANGED <<poolVars, old, cur, conns, sendType, mesgList, sys, exp, histVars, cmds>>
-----------------------------------------------------------------------------
SenderStep ==
    Connect \/ SwitchSendBuff \/ PoolScan \/ PoolTake \/ SendData
        \/ RecvCmd \/ RecvProc

SdtpSendNext ==
    \/ \E c \in Clients : SdsdCliInit(c) \/ PoolPush(c)
    \/ \E p \in Pages : PageAges(p)
    \/ SsvrInit \/ Launch \/ SenderStep \/ SelectWrite \/ TimeoutHdl

\* Once launched the thread never stops, select() tells it of a socket that is writable, and time
\* goes on.  A connection is writable again and again while its peer reads.
SdtpSendFairness ==
    /\ WF_sdtpVars(SenderStep)
    /\ SF_sdtpVars(SelectWrite)
    /\ \A p \in Pages : WF_sdtpVars(PageAges(p))
-----------------------------------------------------------------------------
\* A unit of an accepted message that is still to be written: its page takes more
\* messages, or is the page being sent.
ToWrite(m, h) ==
    \E p \in Pages : \E j \in DOMAIN page[p].data :
        /\ page[p].data[j] = m
        /\ \/ page[p].mode = "WR"
           \/ exp.page = p /\ 2 * (j - 1) + h \in exp.o + 1 .. exp.n

\* Every unit of an accepted message is in one place: waiting in a page, written
\* once, or dropped with a connection that broke while its page was sent.  No
\* client writes into a page that is being sent, and no page is given back before
\* the last unit is written.
PoolExact ==
    \A m \in Mesgs : \A h \in 1 .. 2 :
        sent[<<m, h>>] =
            IF m \notin accepted \/ ToWrite(m, h) \/ <<m, h>> \in lost THEN 0 ELSE 1

\* A connection begins with the units the buffers held when it was made, which may
\* be the end of a message begun on the one before, then the authentication
\* request; from there on it carries whole messages.
Framed ==
    \A k \in DOMAIN wire :
        IF k <= Len(begun) THEN wire[k] = begun[k]
        ELSE IF (k - Len(begun)) % 2 = 1 THEN wire[k][2] = 1
        ELSE wire[k] = <<wire[k - 1][1], 2>>

\* Once the thread runs and its connections last, every accepted message is written,
\* or was dropped with a connection, although a page that is not half full waits for
\* its age and the requests of the thread come first.
Flushed ==
    []<>(pc \in {"none", "off"} \/ \A m \in accepted : \A h \in 1 .. 2 :
                           <<m, h>> \in lost \/ sent[<<m, h>>] = 1)
=============================================================================
