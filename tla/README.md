# cctrl in TLA+

A verification project for cctrl, a C library for servers: lock-free queues and
containers (`src/lib/core`), the RTMQ message transport built on them
(`src/lib/rtmq`: a *proxy* linked into a client and a *server*), the older SDTP
transport over shared memory (`src/lib/sdtp`), and an access layer for client
connections (`src/lib/access`).  Paths below are relative to the repository; the
line numbers in `PROJECT.json` ("map") say which code each definition stands for.

Contents: 1 inventory, 2 plan, 3 the modules, 4 the runs, 5 fairness, 6 what is
proved, 7 findings, 8 what is left out.

## 1. Inventory

### Modelled, or partly

| Component | State | Operations | Interacts with | Hard part | Correct when |
|---|---|---|---|---|---|
| Ring (`core/ring.c`) | four indices, a counter, an array of pointers | `ring_mpush`, `ring_mpop` (and the calls with one pointer) | under every queue and pool | lock-free: reserve by compare-and-set, copy, publish in order by spinning; counter updated last | a bounded FIFO; no slot is used by two threads; calls complete |
| Queue, slot (`core/queue.c`, `slot.c`) | a ring, a pool of blocks in a ring | alloc, dealloc, push, pop | proxies, workers, listeners | a block lives in the pool, with a caller, in the queue or in a write vector | blocks neither leak nor double |
| Write vector (`core/iovec.c`) | iovec array with count and index, original blocks | add, adjust after a write, clean | all senders | short writes that end inside a message; capacity checked by the caller | what is released is what was sent |
| Pipe (`core/pipe.c`) | bytes | non-blocking write of a command, read | wakes every thread | a command that does not fit is dropped | nobody relies on the dropped one |
| RTMQ proxy, sending (`rtmq/proxy/rtmq_proxy.c`, `rtmq_proxy_tsvr.c`) | send queue and pipe shared by all sender threads; a connection, message list, write vector, keepalive state for each | async send; epoll loop: connect, authenticate, subscribe, keepalive, read, write | application threads, server | edge-triggered events, shared queue, reconnects with a half-sent message, full pipe | nothing leaks, doubles or is reordered; the stream is parseable; authentication first; queues drain |
| RTMQ server, sending (`rtmq/server/rtmq_recv.c`, `rtmq_dist.c`, `rtmq_rsvr.c`, `rtmq_lsn.c`, node map of `rtmq_comm.c`) | distribution queues, send queue, pipe and connection queue per receiving thread, map from node to threads, connections with list and vector | `rtmq_async_send`; the distribution thread; the listener; a receiving thread adds, authenticates, answers, routes, writes, times out and deletes connections | clients, applications | a route found stale when used; reference counted blocks passed over five places and three threads; a full map; dropped commands | each block freed once; map exact; messages reach their node only, in order, after the authentication answer; none dropped while the node is connected; none stays |
| RTMQ server, receiving (`rtmq/server/rtmq_rsvr.c`, `rtmq_worker.c`) | a receive buffer per connection; receive queues with pools; a command pipe per worker | read, split into messages, queue a reference, switch buffers; workers pop batches, call the application, release | clients, the application | a buffer shared with workers while its connection switches or goes away; a full queue drops the message, a full pipe the command | a buffer is freed once, after the last user; messages stay whole, are handled once and in order; what is queued is handled |
| Reference counts (`core/mref.c`) | a table from address to count | alloc, inc, dec | receive buffers, messages | the count reaches zero under a read lock, the block is freed under the write lock | counts are exact |
| RTMQ subscriptions (`rtmq_comm.c`, `rtmq_rsvr.c`, `core/hash_tab.c`) | a hash table of types, groups, clients; the list of each connection | subscribe, connection deleted, publish | receiving threads, the application | find, then insert without the lock between; early returns with a lock held | table and connections agree, locks are released, a publication finds a member |
| Thread pool (`core/thread_pool.c`) | a list of jobs, mutex, condition variable | add a job, take one | the workers below, the log server | signalled after the mutex is released | a job is with one thread, none is forgotten |
| RTMQ proxy, receiving (`rtmq_proxy_tsvr.c`, `rtmq_proxy_worker.c`) | receive queues with pools, a pipe per worker | push and command; commands, sweep after a second | sender threads, pool, application | random queue; lost commands; a sweep over an index range of another size | received messages are handled once |
| SDTP sender (`sdtp/sdsd_*.c`) | two pages in shared memory with ticket locks, one connection; receive queues | clients put messages; the thread switches pages, writes, reconnects; workers | clients in other processes, a server | pages switched by one process while others write; two buffers on one connection; messages pushed without a command | a page is sent once, whole; pages get sent; messages are handled once |
| Access layer (`access/*.c`) | connections with list and receive state, a ring and a pipe per thread, a queue of kicks | accept, read, write, send, kick, timeout | clients, the application | batches of edge-triggered events over connections that earlier events free | streams whole and in order, no stale event but after a kick, everything is served |
| Queue in shared memory (`shm_queue.c`, `shm_ring.c`, `shm_slot.c`) | two rings of offsets | alloc, push, pop, dealloc by processes | other processes | as the ring | a block is in one place |
| Segments (`shm_opt.c`) | a file with number, size, digest; the segment | create, attach, crash | other processes | the file is written piece by piece, the segment marked for removal early | users share one segment |
| Log (`log.c`, `logsvr.c`) | buffer, open file, the tree of logs | write, sync, rotate | all writers, the log server | the file is renamed and removed while lines come | each line once, in order |
| Timer (`core/timer.c`) | heap of tasks | start, stop, the routine | callers, the pool | check and pop are two critical sections, stored positions go stale | each task is in the heap or with the routine; due in order |
| Reference counted segments (`mem_seg_ref.c`) | a tree of items | add, incr, decr | threads | counted under the read lock, freed after the write lock | freed once, by the last |
| Trees (`avl_tree.c`, `rb_tree.c`, `btree.c`, `shm_btree.c`) | nodes and pointers | insert, remove, query, walks | everything | rebalancing | a set of keys, balanced |
| Lists (`list.c`, `list2.c`, `shm_list.c`), hash table in shared memory (`shm_hash.c`) | nodes and pointers | calls at both ends and in the middle | everything | tail pointers and counts | a sequence; every node found or free |
| XML (`xml_*.c`) | a tree of nodes with flags | parse, edit, print, measure, search, free | configuration files, `shm_opt.c` | printers and lengths rely on flags and counts | what is printed says what the tree says |
| Allocators (`slab.c`, `shm_slab.c`, `mem_pool.c`) | pages, slots, bit maps; blocks and entries | alloc, free | trees, XML, connections | three layouts of the bit map, runs that merge | memory is handed out once |

### Not modelled

The SDTP receiver (`sdtp/sdrd_*.c`): it cannot run, since a receiving thread
dereferences in its first round a list of connections nothing creates
(`sdrd_rsvr.c:137`).  The signalled queue (`sig_queue.c`): only a demo calls it.
Trie, vector, quick sort, the inverted index; socket and system wrappers (no state
of their own, the kernel is external); strings, URIs, HTTP, menu (sequential text
processing); redis and gumbo adapters and the demos (thin wrappers and examples).
Each is listed in `PROJECT.json` with its status; section 8 says what is left out of
the parts that are modelled.

## 2. Plan

Done, most important behaviour first:

1. `Ring`, `RingFifo`, `Ring_proofs`: everything else stands on the ring.
   Abstract specification: the bounded FIFO.
2. `RtmqProxySend`: uses the FIFO for its queue.
3. `RtmqServerSend`: uses the FIFO for its queues.  Its clients are what
   `RtmqProxySend` promises: one authentication request, before anything else.
4. `RtmqServerRecv`: buffers with reference counts, receive queues, workers.
5. Services, composed in `MCServices`: `RtmqSub`; `SdtpSend`; `Access`; `ThreadPool`
   with `RtmqProxyWork` and `SdtpWork`, whose workers are its jobs; `ShmQueue`;
   `ShmOpt`; `Log`.
6. Containers, composed in `MCContainers`: `SearchTrees` (over `AvlTree`, `RbTree`,
   `BTree`, `ShmBTree`) against `Dictionary`; `Lists` against `Deque`; `ShmHash`;
   `Timer`; `Xml` over `XmlTree`; `Allocators` (over `Slab`, `ShmSlab`, `MemPool`);
   `MemSegRef`.

Runs are few and each asks one question: one or two for a module, and one for
each disagreement with the documentation.  Components that share nothing are put
side by side in one run: the variable `unit` chooses the one a behaviour is of, so the
states add up and do not multiply.  Instances are two or three threads, connections
or nodes, queues of one or two, so that every queue overflows.

Theorems: the ring's invariant and what follows from it, the safety of the three
RTMQ modules, of the subscriptions, the SDTP sender, the shared segment and queue, the
pool with its workers, the log and the access layer (section 6).  The containers, the
timer, XML and the allocators follow pointers by RECURSIVE operators and stay with TLC.

## 3. The modules

### Ring, RingFifo, MCRing, Ring_proofs

`Ring` is `ring_mpush` and `ring_mpop` with one action per access of a shared
word; `pc[t]` names the next access of thread `t`, locals of the call are
functions on `Threads`.  `prod`, `cons`, `num` and `data` are the words of
`ring_t`.  Reserving is a compare-and-set with a success and a retry action
(`PushReserve`, `PushRetry`); publishing waits for earlier reservations
(`PushPublish`); `PushCount` is the late update of the counter.  `log` is a
history: the pointer each index was reserved for.

`RingFifo` is what callers may assume: a push or pop takes effect at once between
its call and its return, or is refused and changes nothing.  A pop is refused
only for want of pointers; a push only if the queue with the other calls under
way leaves it no room.  `MCRing` gives the refinement mapping: a push takes effect
when it publishes, a pop when it reserves.

Indices are naturals; the words the code computes from them (room, stock, the
counter) are taken modulo `Word`.  Not modelled: a compare-and-set that succeeds
because the index came round 2^32 reservations while a thread slept; weaker
memory than the build's (x86, `-O0`, locked instructions).

### RtmqProxySend, RtmqProxySend_proofs

Callers run `rtmq_proxy_async_send` in three steps (`Alloc`, `Push`, `Notify`).  A
sender thread is the epoll loop of `rtmq_proxy_tsvr_routine`: `pc[t]` is where it
stands, `batch[t]` the events still to handle.  `EpollWait` takes the ready events;
`RecvCmd`, `RecvProc`, `SendData`, `Writev`, `WritevFails` handle them;
`ReadUsed`, `RereadUsed`, `Mpop` are the three accesses with which
`rtmq_proxy_tsvr_wiov_add` takes messages from the shared queue (the macro `MIN`
reads the counter twice); `Reconn` and `DelConn` change the connection,
`Keepalive` is the timeout.  The kernel and the server are external:
`BufferDrains`, `ServerAnswers`, `ServerCloses`.  A message is two units on the
wire so that a short write can end inside one; `wire` is a history of what the
server reads (`Take` gives it unit after unit to `Receive`), `sent` and `lost` of what was
released.

### RtmqServerSend; RtmqServerSend_proofs, RtmqServerBlocks_proofs

`AsyncSend` and `SendDistReq` are `rtmq_async_send`; `DsvrSelect`, `DsvrPop`,
`DsvrMap`, `DsvrPush`, `DsvrCmd` the distribution thread between accesses of queues,
map and pipe; `Accept`, `AddCmd` the listener.  A receiving thread `r` goes from
`select` to `cmd`, `dist`, `recv`, `send` and back, as `rtmq_rsvr_event_core_hdl`
does: `RsvrSelect` fixes the read and write sets, `RsvrCmd` takes one command,
`RsvrPop` and `RsvrRoute` route until its queue is empty, `RsvrRecv` visits the
readable connections and handles their requests, `RsvrSend` the writable ones with one
`writev` each.  `DelConn` is `rtmq_rsvr_del_conn_hdl` with all it frees, called from
six places.  `live` is the set of blocks allocated and not freed (`mref_alloc`,
`mref_dec`); `map[n]` is the array `rsvr_id[0..num-1]` of node `n`.

A connection belongs to one thread, so steps that touch only connections of that
thread are one action.  Traversals over an empty set are merged with the step
before.  The list of a thread's connections is a set visited in ascending order:
it is only ever in the order of the session ids.  What the instances leave out is
in section 8.

### RtmqServerRecv; RtmqServerRecv_proofs, RtmqServerRecvBuffs_proofs

A receiving thread `r` goes from `idle` (at its select) to `read` and `parse` for one
connection: `Read` is a read of whatever part has arrived, `ParseSkip` and
`ParseExp` handle one complete message, `IncRef`, `Push` and `Cmd` are the accesses
with which `rtmq_rsvr_exp_mesg_proc` hands it to a queue, `All` the commands to all
workers when the queue is full or the thread idle.  `Switch` is
`rtmq_rsvr_switch_recv_buff`; it and `DelConn` leave the old buffer in `old`, which
`DecOld` and `FreeOld` release, the two critical sections of `mref_dec`.  A worker
goes from `select` by a command (`WorkCmd`) or after half a minute (`WorkSweep`) to
`WorkPop`, `WorkProc`, `WorkFree`, `WorkBack`.  `count` is the table of `mref.c`, `mem`
what a buffer holds; freed addresses are used again at once.  The pointer `optr` of
the code is an offset here and `iptr` the length of what was read.  A stream is a
sequence of units; a message has one or more, so that reads and buffers can end
inside one.

The order in which a thread visits its connections is a choice here
(`RtmqServerSend` has the traversals), and so is which connection is silent or
fails on a write (those in `Quit`).

### MCServices and its modules; Services_proofs, ShmQueueAccess_proofs

`RtmqSub`: a receiving thread handles a subscription request in steps: query under the
lock of the slot (`SubQuery`), insertion when the type is absent (`SubInsert`), and the
query again, then the list of the connection (`SubRecord`, `SubUndo`); a deletion
(`SubClose`, `FreeItem`) goes over the types of the connection.  `stuck` holds the slots
whose lock was left held by an early return; `noMem` makes allocations fail.  A group that
finds no place in its tree is freed and queried again with the lock held
(`rtmq_comm.c:455-458`, `SubGroup`): memory decides whether that ends, and no thread that
needs the slot goes on meanwhile (`Unlocked`).  `SubEnds` is the liveness of handlers
unless a thread stays in that loop for ever.

`SdtpSend`: `PoolPush` puts a message on a page under its lock; the sending thread
selects, takes a page that is ready (`PoolScan`, `PoolTake`), fills the buffer of its own
requests, writes part of one of the two (`SendSysData`, `SendExpData`), reconnects.  A message is two units long.  `begun` is what the
buffers hold when a connection is made: a half-written page continues on the next
connection, which is what the code does and `Framed` says exactly.

`Access`: listeners, receiving threads with a batch of events treated one after
the other, and threads of the application; the pointer of an event outlives its
connection, and `wild` is the history of the events that were stale.

`ThreadPool` is extended by `RtmqProxyWork` and `SdtpWork`, whose workers are jobs that
never return: a launcher adds them while messages already arrive.  Commands are
counted per pipe in the proxy; SDTP has none (`ExpMesgPush` tells nobody).

`ShmQueue` is the algorithm of `Ring` once more, for two rings at a time and with the
blocks in them: `off`, the four indices and the count of each ring, one shared
access per step.  `ShmOpt`: the file is absent, empty, torn or
whole; a process may die between any two steps and within the write; the kernel keeps a marked segment as long as somebody is
attached.

`Log`: `LogWrite` is a call with its lock taken; the sync inside it is the steps `Stat`,
`Reopen`, `WriteOut`, `Rename`, between which an outsider removes the file.  Each of them
may fail.  A failed `lstat`, open or `lseek` empties the buffer, and so does a write, of which
nobody asks how much was written: `dropped` has the lines that are lost, and `WriteOut`
writes any number of lines from the first on.  A failed `lseek` also gives a size larger
than the limit, so that the file is renamed with nothing added.  Files are
numbers, a path names one of them or none; a rename within the same second takes
another file's name.  The room that a line needs does not count its dump, which takes no
part in the buffer if it is larger than what is left (`DumpRoom`); printed, it takes five
times its size, so that a wide one overruns the buffer (`Overrun`): the model stops there,
since what is overwritten is not defined.  `widest` is the history of the dumps in the buffer.

### MCContainers and its modules

Each call is one step, because the code has no lock of its own in the container or
holds it throughout (`Timer` and `MemSegRef` are cut at their critical sections, and the
allocator in shared memory at its lock).

`AvlTree`, `RbTree`, `BTree`, `ShmBTree` translate the rotations, fix-ups, splits and
merges as operators on a tree value; `SearchTrees` calls them in any order.  Its
refinement mapping `Dict` gives the keys and the answers to `Dictionary`; `DictStep` is
that every step is a step of it.  `Lists` and `Deque` do the same for lists: a list is
its pointers, the deque the sequence they spell.  `ShmHash` puts `shm_list` rings, and the
pools of nodes and blocks, together.

`Timer` keeps the heap as an array with its one odd child of the root, the places tasks
have written down, and the routine between its check, its pop and its put back.

`XmlTree` has nodes with flags and counts as in the code, the printers with their stack,
and the length computations; `Xml` the parser on sequences of characters.  Documents grow
by pieces, with decoration the tree does not keep (spaces, quotes, notes), and a piece
says what it means; `XmlExact` compares the parsed tree with what the pieces say,
what it prints with its length, and what is printed with the tree it parses to.  An
element whose only child was deleted keeps its flag for children (`Childless`,
`xml_comm.c:1174-1185`).  Without a value it is printed as `<a/>` and then closed once more
(`TwiceClosed`, `xml_print.c:516`), and `ReadBack` says that the parser refuses that text;
with one it is printed as it should be.  Its length with tabs may be more than what is
printed, never less (`Measured`).  The parser accepts documents of `XmlMaxDepth` levels, and
all of them can be printed; the tree of one is not freed as a whole, because the root
takes a place of the stack (section 7).

`Slab`, `ShmSlab`, `MemPool` compute addresses and bit maps; `Allocators` asks for
memory and gives it back; `MemoryExact` says that what is lent overlaps nothing, and
that the free lists and maps account for all the rest.  The lock of the allocator in shared
memory is in the model where two processes call it: a call takes it (`ShmSlabLock`), does its work and
unlocks (`ShmSlabCall`), and one that gives back a small chunk of a page that stays in use
unlocks again (`ShmSlabUnlock`; `shm_slab.c:763`, `:803`), which frees the lock even if the other
process has it by now.  Then two calls may change the pool at once (`Overlap`); the model
stops there.  Up to that point `MemoryExact` holds, and a process alone, as in the one user the tree
has, a demo of the B-tree, never comes there.  `MemSegRef`: threads
count up and down, segments that share no address.  A thread that knows an address may
count up from zero before the one who counted down looks again, and then the segment
stays; if it counts down once more at once, two threads free it (`Twice`), and the
model stops.  `SegsExact` says that this takes a count up from zero (`revived`).

## 4. The runs

Deadlock is checked in `containers` (some call is always possible).  In the other runs
calls, messages and connections are bounded, so every instance comes to an end.

| Run | Instance | Checks | Shows |
|---|---|---|---|
| `ring` | 3 threads, 2 slots, batches of 1 and 2, 3 calls | `Inv`, `Delivered`, `NoSlotRace`, `NumAccounting`, `RefusalHonest`, `ImplementsFifo`, `ReservationCompletes` | reservations never overlap, pops deliver what was pushed, refusals are justified, the ring is a FIFO, reservations complete |
| `proxy_send` | 1 caller, 2 senders on one queue and pipe, a close | `SlotsAccounted`, `CallerOrder` | no block leaks or doubles, order kept |
| `proxy_link` | 1 sender, short write, keepalive, close | `Framed`, `AuthFirst`, `KeepaliveOutstanding`, `QueueDrains` | the stream stays parseable, authentication first, a keepalive marked as sent is on its way, queued messages leave |
| `proxy_iov` | 1 sender | `WiovWithinBounds` violated | finding 1 |
| `proxy_kpalive` | 1 sender, short write, keepalive | `KeepaliveSent` violated | finding 2 |
| `server_send` | 1 sender, 2 receiving threads with a connection of one node each, one closes, pipes of 2 | `BlocksAccounted`, `ConnOrder`, `Settles` | blocks freed once, order kept, every message leaves although commands are dropped |
| `server_conn` | 1 receiving thread, 3 connections of 2 nodes: refused, silent, closing, keepalives | `MapExact`, `AckFirst`, `RightNode`, `DropsJustified` | map exact, answer first, right node only, drops justified |
| `server_recv` | 1 receiving thread with 2 connections, one refused, one that may end at any time; 1 worker with 2 queues of one block, a pipe of 1 | `BuffersCounted`, `Intact`, `HandledInOrder`, `AcceptedHandled` | counts exact, messages whole, handled once and in order, none left in a queue |
| `server_map` | map of one entry, 2 connections | `MapCovers` violated | finding 3 |
| `services` | one of nine services at a time, see below | `QueuesExact`, `ShmShared`, `SubExact`, `PoolExact`, `Framed`, `AccessExact`, `AllHandled`, `SubEnds`, `Flushed`, `Served` | tables and connections agree, blocks and lines are in one place, streams are whole, calls end and messages are handled |
| `containers` | one of seven containers at a time, see below | `MemoryKept`, `XmlExact`, `TimerExact`, `WellFormed`, `WalksExact`, `Implements` | trees and lists implement a set and a sequence; the others keep their rules under any sequence of calls |
| `btree_order` | B-tree of order 4 | `KeysInOrder` violated | finding 4 |

Five properties are conjunctions, one conjunct for each service or container with
the same question, about the one in use: `QueuesExact` of the two kinds of workers, the queue in shared memory and
the log; `AllHandled` of the same; `WellFormed`, `MemoryKept` and `Implements` of containers.

Why the bounds are enough to meet the hazards:

- Ring: two slots and batches of two make every second push fill the ring and go
  round it; three threads are the least with which a reservation waits for
  another while a third moves the indices.
- Proxy: the queue holds two blocks and the write vector three entries (system
  messages included), so both are full at times; the pipe holds one command, so
  commands are dropped; two senders race for one message, and one caller's two
  messages show order.  A close with a half-sent message is in `proxy_link`
  (`MaxShort`, `MaxClose` bound short writes and closes).
- Server: two messages against queues of two; `server_send` has the route that is
  stale when used (the connection goes away between `DsvrMap` and `RsvrRoute`), two
  threads that pass blocks, and pipes that overflow.  `server_conn` has two
  connections of the node on one thread, needed to see a removal that takes too
  much, and a connection of another node that never authenticates.  `ConnNum`,
  `MaxSend`, and the sets `Kp`, `Quit`, `Silent`, `Refused` bound the environment.
- Receiving: a buffer of four units holds the authentication, two messages and half
  of a third, so a count reaches three and a message is split; queues of one block
  drop messages and a pipe of one command, shared by two queues, loses commands.  A
  second worker would release references as the first does; two threads that
  decrement one count are the worker and the receiving thread.  `MaxIdle` bounds the
  seconds in which a thread finds nothing to do.
- Subscriptions: two types in one slot and three connections on two threads, two of
  one group: a race to insert, a group that loses its last member while another
  joins, an entry removed between query and insertion, a thread that waits for the
  slot while the other tries again to add a group.
- SDTP: pages of two messages, two clients with a message each, so that one page is
  sent while the other is written; a connection that breaks and one that lasts
  (`MaxConns`); one keepalive.
- Access: one receiving thread with two connections: a batch has three elements, the
  pipe among them, which is what a stale event needs; `MaxSends` and `MaxUnits`
  bound messages and input.
- Pool and workers: two threads, four jobs from two adders; two workers over queues of
  two (proxy) and one (SDTP) blocks, a pipe of one command, a type with no callback
  and a message that is too long.
- Shared memory: two processes on two blocks, calls for one or two blocks at once,
  three allocations, so that both rings go round; a creator and two that attach,
  three segments and three crashes.
- Log: one writer, who stands for any number, since a call holds the lock from its first
  step to its last; a buffer that two lines bring over the fifth, one of them with a
  dump, and that a second dump overruns; a file of two lines against four, so that two
  files are renamed in one second; two seconds, a removal, one sync that fails or writes less.
- Trees: seven keys and order 3 make three levels, all rebalancing cases, splits and
  merges up to the root; lists of four nodes have a first, a last and two in
  between.  The hash table has two slots, three keys and a pool of three.
- Timer: five tasks make three levels of the heap; two seconds make tasks due in turn;
  one stop.  (With two, a position that one stop made stale is used by the other:
  `TimerExact` holds there too, but the run takes twice the time.)
- XML: six pieces, one of which opens three elements, make documents as deep as
  `XmlMaxDepth`, three, and deeper; trees of up to five nodes are built by edits, so that
  an element on the third level loses its only child.
- Allocators: pages of 16 units and words of four bits reach all three layouts of the
  map with three pages; blocks of 24 units are filled by two requests.  A page of small
  chunks in shared memory has seven: eight are held at most (`MaxSmall`), so that its map is full
  and a second page is linked.  Two processes hold two chunks (`MaxShared`).

Every property of a passing run has a mutant in `PROJECT.json`: a plausible bug in
a mapped definition with which the same run violates it.

## 5. Fairness

Weak fairness of a thread's own steps, where the operating system schedules every
thread and the step does not wait for anybody: a call of the ring in progress
(`ring`), a sender thread of the proxy (`proxy_link`), the threads of the server
(`server_send`), the workers (`server_recv`).  `RtmqProxySend!FairSpec` also lets a full
socket buffer drain.  Nobody is obliged to call, send, connect, answer or close.  In
`RtmqServerSend` a select without a command still distributes after a second, which is
why the distribution thread runs whenever a queue is not empty; a receiving
thread has no such second chance.  A worker has one after half a minute without a
command, and `AcceptedHandled` needs it: the receiving threads are not assumed to go
on.

`services`: the receiving threads of `RtmqSub` within a handler (the lock of a slot is
waited for, and free again as long as `stuck` is empty and nobody tries for ever to add a
group: of that loop no fairness is assumed, and `SubEnds` has its end as a premise).  The sending thread of `SdtpSend`,
with strong fairness for `SelectWrite`: a connection that lasts is writable again and
again, while its other events may come in between; and a page grows old.  Every thread of
`Access`, and a socket becomes writable again.  In `ThreadPool` a thread looks at the list
when there is something in it (it was signalled, or has just returned from a job), and an
adder that released the mutex signals.  Workers go on by themselves, since their select
ends after a second.  A process within a call of `ShmQueue` goes on: one that dies
there would stop the others (section 8).  The log server, a sync in progress and
the start of the log, once begun, go on; writers need not.  No fair action is enabled in
the initial state of a service, so those that a behaviour leaves idle do not make its
fairness unsatisfiable.

## 6. What is proved

`Ring_proofs` proves, for every set of threads, capacity, batch sizes and word
width that `RingAssumption` allows (finitely many threads, the capacity positive and
smaller than the range of a word, batches positive):

- `RingInvariant`: `Spec => []Inv`;
- `PopsDeliver`: a pop returns the pointers pushed at the indices it reserved;
- `NoRace`: no slot is used by two threads with one of them writing;
- `CounterKept`: `Spec => []NumAccounting`;
- `RefusalsHonest`: `Spec /\ []InTime => RefusalHonest`;
- `RingImplementsFifo`: `Spec /\ []InTime => ImplementsFifo`: the ring implements the
  bounded first-in first-out queue `RingFifo`, step by step.

`Inv` is inductive.  `Delivered` alone is not: that a slot still holds the pointer
when it is read needs that no producer has reserved it again (`IndexOrder`: the
indices span at most the capacity), that the reserved ranges lie between the right
indices and do not overlap (`Ranges`), that what producers have copied so far is in
their slots (`Written`), and that what is published stays (`Published`); `Locals`
says where a call stands what its locals satisfy, the check against a stale `cons.tail`
included: a stale view only makes the room look smaller.  `NoRace` follows from
ranges of distinct indices that span at most `Max` having distinct slots
(`SlotsDiffer`).  The proof has one lemma for each pair of actions.  The indices
are naturals in the model, so the theorem does not speak of the wrap of the
indices themselves.

`NumAccounting` and the guard of `RingFifo!RefusePush` are sums over threads, so
`Ring_proofs` first proves what `SumFunctionOnSet` of the community modules computes
over a finite set (`SumStep`, `SumRemove`, `SumSame`, `SumGrows`); `RoomAccounting` then
says that what is reserved and neither published nor released is what the calls between
hold.  The mapping (`MCRing`) takes the stretch of the log between the heads of the
consumers and the tail of the producers for the queue: publishing appends to it
(`PublishPuts`), a successful CAS of a pop cuts its front off (`ReserveTakes`), and the
count is the return (`CountReturns`).  A refused push saw a `cons.tail` and a `prod.head`
of different times; that the promise allows the refusal takes both the order of the
indices and the sums (`RefusalsSeen`).

`InTime` is a hypothesis the code does not establish: a thread that sleeps between its
two reads while more than 2^32 pointers pass computes room or stock modulo 2^32 and may
refuse a call without reason.  Its CAS fails if it does not refuse, so the other theorems
need no such hypothesis.

`RtmqServerSend_proofs` proves, for every number of senders, queues, threads, nodes and connections and every assignment of
connections to nodes that `ServerAssumption` allows:

- `TypeCorrect`: `Spec => []TypeOK`.  Inductive is `Typed`, which adds what a thread
  that stands at a step relies on: the distribution thread has a message to route
  and a thread to give it to, a receiving thread at `cmd` has a command, one in a
  traversal a connection to visit.
- `RightNodeHolds`: `Spec => []RightNode`.  A message is routed by the `nid` of a
  connection, so the invariant adds `NidRight` (a connection carries its own node's
  id and had the right password) and speaks of all that is on the way to a client
  (`Routed`).
- `AckFirstHolds`: `Spec => []AckFirst`.  A message may be put on a list only after
  the answer was (`AckLeads`: the answer is the first of what has been sent, else of
  the write vector, else of the list).  That needs the life of a connection
  (`ConnsKept`): it waits in the queue of one thread, then is on the list of that
  thread, then is gone for good, and a traversal visits only connections of the list.

`RtmqServerBlocks_proofs` goes on from there:

- `OneOwner`: `Spec => []BlocksAccounted`.  `BlockInv` adds `Batches` (a batch
  is worked off before the next is popped) and `Fresh` (what can still be allocated is
  not live: a connection asks for its authentication once, and for a keepalive once at
  most).  A step does one of a few things
  to the places (passes a block on, drops it, makes one, writes a prefix, takes all),
  and each has its lemma (`BlockPasses` and those after it).
- `OrderKept`: `Spec => []ConnOrder`.  Order is a chain of six stages on the way to a
  connection (`Stages`: sent, write vector, message list, batch of its thread, send queue
  of its thread, batch of the distribution thread), then the distribution queues; each
  stage is in order, and what is farther was sent before what is nearer (`ChainIn`).
- `MapKept`, under `MapRoom`: the map has room for the connections of each node.  Without
  it the property is false: run `server_map` is the counterexample for `MapCovers`
  (finding 3).  `MapLen` counts the entries of a node, which is what makes room a
  consequence of `MapRoom`.
- `DropsReasonable`, under `MapRoom`: `Spec => DropsJustified`, an action property.
  `Reached` keeps for each routed message that its thread had a connection of the node:
  on the list still, or deleted since.

`RtmqServerRecv_proofs` and `RtmqServerRecvBuffs_proofs`, for every number of connections,
threads, workers, queues and blocks and every assignment of streams that
`RecvAssumption` allows (a stream is whole messages, `WellFormed`; no two messages have
one number):

- `Inductive`: `Spec => []IInv`, and `TypesKept`, `TypeOK`, from it.
- `CountsExact`: `BuffersCounted`.  References are counted per place: one for the
  connection, one for a thread that holds the buffer in a local, one for each item in a
  ring or with a worker.  `Counted` says for each address that its count is the number of
  its places (`CountedAt`).  That `Alloc` finds an address is a pigeonhole argument: there
  are at least as many as places (`RecvAssumption`).
- `PushNeverFails`: the refusal of `queue_push`, which `rtmq_rsvr_exp_mesg_proc` does not
  look at, never comes.  Blocks in the pool, with threads, in the ring and with the worker
  add up to `QueueMax` (`BlocksKept`).
- `ItemsIntact`: `Intact`.  What a buffer holds behind `optr` is the end of what was read,
  from the start of a message on (`InStream`); a read only writes behind `iptr`, a switch
  copies the rest, and only a buffer whose count is zero is used again.
- `InOrder`: `HandledInOrder`.  `Line(q)` is all that went through a queue: handled, with
  the worker, in the ring; it only grows at the end, by a message that lies behind all
  that the connection has handed on (`LinesSent`, `LinesInOrder`, `LinesApart`).

`RtmqProxySend_proofs`, for every number of callers, senders, subscriptions, blocks and
entries that `ProxySendAssumption` allows:

- `Invariant`: `Spec => []PInv`: the socket reports at most once in a batch, so no event
  is left for a connection the batch has closed; without a connection the vector is
  empty; a thread takes from the queue only with an empty message list or a full vector.
- `Outstanding`: `KeepaliveOutstanding`.
- `StreamFramed`: `Framed`.  `WireInv`: the part of a message the server has is the part the
  vector counts as sent of its first entry.  A write is any number of units and `Take` a
  recursive function over them, so the lemma `TakeItems` goes unit by unit (`UnitByUnit`).
- `AuthComesFirst` and `CallersOrdered`: `AuthFirst` and `CallerOrder`.  One relation `R` of
  what may come before what holds along all that is on the way: what the server got,
  the write vector, the message list, the queue (`Flow`, `QueueFlow`); `Old` says that a
  message there was made before the one its caller holds.
- `SlotsKept`: `SlotsAccounted`.  A step moves messages from one place to another with or
  without their blocks (`SlotsPass`, `SlotsRelease`); the blocks `wiov_clean` and
  `wiov_item_adjust` give back are as many as the messages they release, because a vector
  has no message twice (`BlocksCount`).  By this count the ring of the queue has room for
  whoever holds a block: the branch of `rtmq_proxy_async_send` for a failed push is never
  taken (`SlotsPush`).
- `TypesKept`: `TypeOK`; that the pool never holds more than `QueueMax` needs the count.

`Services_proofs`, about the specification of `MCServices`, in which each behaviour is
one of a single service (`StepsApart`, `WorkersApart`, `LogApart`), for every value of the
constants of `RtmqSub`, `SdtpSend`, `ShmOpt`, `ThreadPool`, `RtmqProxyWork`, `SdtpWork` and
`Log` that their assumptions allow:

- `SubscriptionsExact`: `SubExact`.  `SubInv` says it of a connection in the middle of a
  handler too (`ListFits`): the list of the connection and the table differ by the one
  type its thread is at.  Only the thread of a connection works on it (`HandlesOwn`), a group is
  there as long as it has a member, and a type without a group only while a request is
  between its insertion and its record (`GroupsFull`).  That the distributor's division
  ends at a member of each group is `CanPick`.  A thread that tries again to add a group
  keeps the slot, so the entry of its type stays (`EntryKept`), whatever the others do.
- `SegmentShared`: `ShmShared`, which speaks of a single creator.  `ShmOptInv` says what
  the creator relies on at each of its steps, a crash in between included: a whole file names the last
  segment made, or one that is gone (`CreatorLooks`), and between the removal of an old
  segment and the write of the new file no file is whole (`CreatorMakes`).
- `PoolKept`: `PoolExact`.  `SdtpBase` is what the steps of the sending thread rely on: it writes from one
  buffer at a time, and looks for a page only with both buffers empty and all pages
  open.  `Places` adds that no message is in two places of the pool and that a unit
  still to be written was not dropped; a write, or a broken connection, takes exactly the
  next units of a page out of what is to be written (`NextUnits`, `LeavesToWrite`).
- `SdtpFramed`: `Framed`.  `StreamFits` speaks of the stream that is there once the buffers are
  written (`Stream`): it carries whole messages behind what the connection began with, or lacks the
  authentication request, which is then the first of the list.  A write, wherever it ends, leaves
  the stream as it is (`Rejoin`) or adds whole messages (`FramedMore`, `FramedOpen`).
- `PoolJobsOnce`: `JobsOnce`.  `JobsInv`: a job's number is at most the number of jobs
  added, so a new one is behind all others.
- `ProxyWorkersExact` and `SdtpWorkersExact`: `WorkExact` and `SdtpWorkExact`.  `WorkInv` and
  `SworkInv` look at the items of a queue wherever they are, with the thread that
  pushes, in the queue or in a batch (`WorkItemsOf`, `SworkItemsOf`), and say one thing of
  them (`Stored`): a block of the queue that is not in its pool is at exactly one place, the
  message in it was received and not handled, and no message is at two places.  A step
  moves items, takes a block for a new message or gives one back, and each of these
  keeps `Stored` whatever the places are called, so both kinds of workers share the lemmas.
- `LogLinesExact`: `LogExact`, of any sizes of the buffer and of the dumps, and with every
  failure of a sync: a line is in the buffer, in one file, or lost with a sync that failed or
  whose write was cut short; and a buffer that is overrun had a dump which, printed, takes more than
  about two fifths of it.  `LogInv` has four parts.  `Lines`: where each line is and
  in which order.  `LogSync`: whoever holds the lock is in a sync, and how much is in the buffer
  when nobody holds it, or the buffer was overrun.  `LogNames`: a file has the name of
  the log, was removed, or has or had the name of a second.  `LogTypes`.

`ShmQueueAccess_proofs` goes on with the queue in shared memory, for every finite number
of processes and every number of blocks, puts the queues together, and ends with the
access layer, for every number of threads and connections:

- `ShmQueueKept`: `ShmQueueExact`.  `ShmInv` has one part for each thing a lock would have
  given.  `RingOrder` is the order of the four indices.  `CallsOk` is what a process may
  count on at each step of a call, above all after its compare-and-set.  `Reserved`: what lies
  between a tail and its head is divided among the calls that reserved it, without gap and
  overlap, which is why moving the tail in order hands over what was copied and nothing
  else.  `Once`: each block is at exactly one of the spots it can be at (`HeldNow`: between
  the heads of a ring, in a reservation that is still to be copied, with a process).  A step
  leaves the spots alone or maps them one to one (`SpotsChange` and the lemmas it is
  used for).  That a push overwrites nothing: two indices less than `Cap` apart have
  different places (`PlacesApart`).  That the pool has room for every block given back: there
  are no more blocks in the pool, and on their way into it, than there are blocks
  (`RoomInPool`, by `NoMoreThan`).  `ShmCount`: the count of a ring and what the calls still
  owe it (`Owed`) make the distance of the tails, modulo 2^16.
- `QueuesKept`: `QueuesExact`, from the above, the failures of the log included.
- `AccessKept`: `AccessExact`.  `AccInv` has five parts.  `Conns`: a connection is with the
  one listener that accepted it, then queued for its thread, then open.  `AccLines`: the
  messages of a connection are numbered without gap through the units written, the
  message begun, its list, and those of the thread's ring that are for it (`MesgsFor`);
  what a write takes and leaves keeps that (`LeftFits`, `WriteFits`), and a closed one is
  as if new.  `Known`: only connections that were opened have messages in a ring, so the
  transfer of a ring into the lists loses none but those of connections that are gone.
  `Fresh`: the events of a batch are of different sources, each open or kicked, and the
  one being treated is open and not in the batch again; so what a handler deletes
  (`DeleteKeeps`) is in no batch unless it was kicked.  That is what would fail if the scan
  for silent connections came before the end of a batch.  `AccTypes`.

`CapAssumption` says what `power2` finds, a least power of two that is large enough, since
the provers know nothing of exponents; TLC evaluates it.  `NoHolder` in `Log` is an
assumption of the same kind, that the mark for "nobody" names no writer.

A step past the end of a write vector (finding 1) is undefined, and the model stops
there, so these theorems speak of what happens up to that point.

Where a proof needs induction it is over numbers and by hand: a set of naturals that is
not empty has a least element (`LeastOf`, `Min`; from `WFMin` of the library), so a
property of concrete definitions that fails has a first failure; over finite sets, a
set of least size that fails (`LeastNatural`, `Smaller`).  The induction rules
of the library themselves take an operator as parameter, which the provers cannot use.

Only model-checked: liveness (`ReservationCompletes`, `QueueDrains`, `Settles`,
`AcceptedHandled`, and those of `services`), which needs fairness and ENABLED; the
refinements of `Dictionary` and `Deque`; all that `containers` checks, because its
definitions are RECURSIVE operators.

## 7. Findings

1. The number of messages the proxy takes from its queue is bounded with a macro
   that reads the shared counter twice; a push in between makes it exceed the
   room of the write vector.  The comments warn of it (`rtmq_proxy_tsvr.c:620`;
   run `proxy_iov`).  The model stops at the overrun, whose effect is undefined.
2. A keepalive request left behind by a full write vector is taken for unanswered,
   and a healthy connection is dropped (`rtmq_proxy_tsvr.c:246`; run
   `proxy_kpalive`).
3. A connection refused because the node map is full takes another connection's
   entry with it (`rtmq_rsvr.c:983`; run `server_map`).
4. A B-tree of order 4 or more has its keys out of order after the removal of the first
   of three keys of a leaf (`btree.c:327`; run `btree_order`; `shm_btree.c` has the same
   code).

Met while modelling, without a run of their own (no document says otherwise, or the
instance would show only the line itself):

- The counter of a ring is updated after the data is visible and can pass below zero
  (`ring.c:178`); `NumAccounting` says exactly by how much it is off.
- `log_svr_init` releases a mutex it does not hold and keeps the one it took
  (`logsvr.c:86`): a second thread that initialises the log at the same time waits for
  ever.  Two rotations in one second leave one file (`logsvr.c:251`).  The dump of a line
  is printed at five times its size, which is not counted in the room left (`log.c:320`): a
  dump that fits the room unprinted may overrun the buffer.  The macro `log_bin` is the only way to
  pass one, and nothing in the repository uses it.  A failed `lstat`, open, `lseek` or write loses the buffer
  (`logsvr.c:198-225`), as the comment at `logsvr.c:174` says of a write.
- `rtmq_sub_add` frees a group that its tree has no memory for and tries again without end and
  with the lock of the slot (`rtmq_comm.c:455-458`).
- `shm_slab_dealloc` unlocks twice (`shm_slab.c:763`, `:803`), and the second time may free the lock
  that another process holds.
- A segment that is counted up from zero, and down again before the thread that first
  counted it down looks at the count, is freed twice (`mem_seg_ref.c:253-268`).
- An XML element that lost its only child and has no value is closed twice
  (`xml_comm.c:1174-1185`), and a tree as deep as the parser accepts is not freed
  (`xml_tree.c:212`: the root takes one of the `XML_MAX_DEPTH` places).
- `mem_pool.c:135` takes the room left as an unsigned number, so that a pool whose size is no multiple of the
  alignment would give out memory behind a block; all pools in the tree are of 1 KB or
  1 MB.
- A kick frees a connection whose event may still be in the batch (`acc_rsvr.c:286`), the
  blocks of the queue of kicks are never given back (`acc_rsvr.c:1024`), and the time of
  the last read is never updated (`acc_rsvr.c:340`).
- Two first creators of a segment at once each make one, and a file torn by a crash
  makes every later `shm_creat` fail (`shm_opt.c`).
- The positions tasks write down go stale, and a stop of a started task may be refused
  (`timer.c:249`).
- `shm_btree.c:1048` does not return from a query that must turn right, and a removal
  goes astray below the root (`shm_btree.c:487`).
- `shm_hash_dealloc` negates the offset (`shm_hash.c:191`).

## 8. What is left out

- Failed allocations, but in the trees and the subscriptions; process shutdown;
  statistics and formatting.
- The local arrays of 1024 pointers: queues in the models are smaller, so their
  bound never applies (the queue a `MIN` reads twice is finding 1 again).
- Ring: see section 3.
- Proxy: `Idle` names the senders that are ever idle long enough for a keepalive
  (real time is abstracted to a choice); the epoll timeout is a choice too.
- Server: the connection queue takes every connection (`connq` holds at least
  `ConnNum`); sockets in the write set are writable; a `writev` sends at least the
  first item (a shorter one changes only an offset, see `Framed` for the proxy);
  a second authentication request, which the proxy never sends.  `Settles` takes pipes
  to hold a command for each connection of a thread, as real pipes do by a wide margin:
  if an accept burst filled the pipe, the command for a message would be dropped and
  the message wait for the next one.  That case is not checked.
- Liveness of the proxy (`QueueDrains`) is checked with one sender: two that share the pipe are
  in `proxy_send`, for safety only.
- Server, receiving: clients write well-formed messages (a wrong checksum stops the
  program at an assertion); subscription and keepalive requests (`RtmqSub` and
  `RtmqServerSend` have them); a node map that is full (finding 3).  The application has
  registered a callback for every type.  The instance has no message longer than a
  buffer and none with a foreign node id, for both of which the module has the code.
- Thread pool: destruction, which frees the pool under its detached threads.  It is called
  where a start fails (`access.c:205`, `rtmq_recv.c:585`, `rtmq_proxy.c:99`,
  `sdsd_send.c:42`, `thread_pool.c:70`) and at the end of the access layer
  (`access.c:291`); neither is modelled.
- SDTP: a restart of the sender, which wipes pages and locks under its clients; a client
  that dies with a lock; commands `SDTP_CMD_PROC_REQ`, which nobody sends, are handled by
  the worker's code but never arrive.
- Access: what an application does in its callbacks; a pipe too full for a command
  (`PipeMax` is larger than the commands there are).
- Shared memory: an attach between the creation of the queue and the end of its set-up
  (`shm_queue.c:145`); a process that dies in a call of the queue; the variants by key
  (`shm_creat_by_key`, `shm_attach_by_key`), which nothing calls; two creators of one
  path (`ShmShared` speaks of one, see section 7).
- Hash table in shared memory: `shm_hash_dealloc`; several processes, since its locks are
  taken by nobody.
- Shared-memory B-tree: removals that go astray, and failed allocations.
- Lists: `list_find_and_del` leaves the tail pointer when the last node goes
  (`list.c:531`), and `shm_list_delete` neither counts nor moves the head
  (`shm_list.c:207`).  Nothing calls them; `Lists` has both, `Uncalled` names them.
- Slab allocators: a chunk freed twice; runs of several pages in `shm_slab.c`, of which
  only the first page is cleared when it is freed (`shm_slab.c:565`); pools of hardly
  more than one page; what two calls that overlap in `shm_slab.c` make of the pool.
- Counted segments: what two threads make of a segment that both free.
- Memory pool: sizes that are no multiple of the alignment (`MemoryExact` does not hold of them).
- XML: `xml_delete_empty`; escapes, which the build switches off; what is left of a tree, or
  of a part, that is too deep for the stack when it is freed.
- Log: a second starter of the log server; a second log with the same path; an outsider
  that creates the file anew; several processes; a write that ends within a line (a line
  is whole or lost); what comes after the buffer was overrun.
- Memory order weaker than sequential consistency.
