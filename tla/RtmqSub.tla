------------------------------ MODULE RtmqSub ------------------------------
(***************************************************************************)
(* The subscriptions of the rtmq server: a hash table of message types     *)
(* (hash_tab.c, one tree and one lock per slot), each with its groups of   *)
(* clients, each with the connections subscribed (rtmq_comm.c).  The       *)
(* receiving threads add the subscriptions of their connections and take   *)
(* them away when a connection is freed (rtmq_rsvr.c); any thread of the   *)
(* application publishes (rtmq_recv.c).  What a thread does while it holds *)
(* the lock of a slot is one step here, and a lock is a variable for the   *)
(* code that returns without releasing it.                                 *)
(***************************************************************************)
EXTENDS Naturals, FiniteSets

CONSTANTS
    Rsvrs,      \* the receiving threads
    Subs,       \* the connections, all authenticated
    Types,      \* the message types
    RsvrOfSub,  \* [Subs -> Rsvrs]: the thread of a connection
    GidOfSub,   \* [Subs -> Gids]: the group its authentication named
    SlotOfType  \* [Types -> Slots]: hash modulo the number of slots

ASSUME SubAssumption ==
    /\ RsvrOfSub \in [Subs -> Rsvrs]
    /\ DOMAIN GidOfSub = Subs
    /\ DOMAIN SlotOfType = Types

VARIABLES
    tab,        \* the types that have an entry in the table
    groups,     \* the groups of each type's entry
    nodes,      \* the connections in the vectors of each type's groups
    stuck,      \* the slots whose lock was not released
    subList,    \* per connection, the types of its own list
    open,       \* the connections not deleted
    at,         \* per thread, the handler it is in
    noMem       \* may an allocation fail in this behaviour?

subVars == <<tab, groups, nodes, stuck, subList, open, at, noMem>>

Gids == {GidOfSub[c] : c \in Subs}
Idle == [do |-> "idle"]
Alloc == {TRUE, ~noMem}

SubInit ==
    /\ tab = {}
    /\ groups = [ty \in Types |-> {}]
    /\ nodes = [ty \in Types |-> {}]
    /\ stuck = {}
    /\ subList = [c \in Subs |-> {}]
    /\ open = Subs
    /\ at = [t \in Rsvrs |-> Idle]
    /\ noMem \in BOOLEAN

\* A thread waits here for the lock of the slot, which one that tries again to add a
\* group keeps meanwhile.
Unlocked(ty) ==
    /\ SlotOfType[ty] \notin stuck
    /\ \A t \in Rsvrs : at[t].do = "group" => SlotOfType[at[t].type] # SlotOfType[ty]

Go(t, do, c, ty) == at' = [at EXCEPT ![t] = [do |-> do, sck |-> c, type |-> ty]]

\* The connection is deleted: its subscriptions are taken away one by one.
Freeing(t, c) ==
    /\ at' = [at EXCEPT ![t] = [do |-> "free", sck |-> c, left |-> subList[c]]]
    /\ open' = open \ {c}

Members(ty, gid) == {c \in nodes[ty] : GidOfSub[c] = gid}

\* Mutant: the group stays when its last member leaves.
LeaveGroup(c, ty) ==
    /\ nodes' = [nodes EXCEPT ![ty] = @ \ {c}]
    /\ UNCHANGED <<tab, groups>>

\* Takes a connection out of its group; the group goes with its last member and
\* the entry of the type with its last group.
Leave(c, ty) ==
    LET gid == GidOfSub[c]
        rest == IF Members(ty, gid) = {c} THEN groups[ty] \ {gid} ELSE groups[ty]
    IN  /\ nodes' = [nodes EXCEPT ![ty] = @ \ {c}]
        /\ groups' = [groups EXCEPT ![ty] = rest]
        /\ tab' = IF rest = {} THEN tab \ {ty} ELSE tab

Entries == <<tab, groups, nodes>>

SubReq(t, c, ty) ==
    /\ at[t] = Idle
    /\ c \in open /\ RsvrOfSub[c] = t
    /\ Go(t, "query", c, ty)
    /\ UNCHANGED <<Entries, stuck, subList, open, noMem>>

\* The entry is found, and stays locked until the connection is in its group, or a
\* group or a member cannot be made.  A group that was made before that stays.
AddToGroup(t, c, ty) ==
    /\ ty \in tab
    /\ UNCHANGED <<tab, stuck, subList, noMem>>
    /\ \/ /\ c \in nodes[ty]
          /\ Go(t, "record", c, ty)
          /\ UNCHANGED <<groups, nodes, open>>
       \/ /\ c \notin nodes[ty]
          /\ \E grp \in Alloc, node \in Alloc :
                /\ groups' = [groups EXCEPT ![ty] = IF grp THEN @ \cup {GidOfSub[c]} ELSE @]
                /\ IF node /\ GidOfSub[c] \in groups'[ty]
                   THEN /\ nodes' = [nodes EXCEPT ![ty] = @ \cup {c}]
                        /\ Go(t, "record", c, ty)
                        /\ UNCHANGED open
                   ELSE UNCHANGED nodes /\ Freeing(t, c)
       \* The group is made and finds no place in the tree: from the query of the
       \* group again, with the lock.
       \/ /\ noMem /\ GidOfSub[c] \notin groups[ty]
          /\ Go(t, "group", c, ty)
          /\ UNCHANGED <<groups, nodes, open>>

SubQuery(t) ==
    /\ at[t].do = "query"
    /\ LET c == at[t].sck
           ty == at[t].type
       IN  /\ Unlocked(ty)
           /\ \/ AddToGroup(t, c, ty)
              \/ /\ ty \notin tab
                 /\ Go(t, "insert", c, ty)
                 /\ UNCHANGED <<Entries, stuck, subList, open, noMem>>

SubGroup(t) == at[t].do = "group" /\ AddToGroup(t, at[t].sck, at[t].type)

\* Mutant: a failed insertion is tried again.
SubInsertRetry(t) ==
    /\ at[t].do = "insert"
    /\ LET ty == at[t].type
       IN  /\ Unlocked(ty)
           /\ \E mem \in Alloc : tab' = IF mem THEN tab \cup {ty} ELSE tab
           /\ Go(t, "query", at[t].sck, ty)
           /\ UNCHANGED <<groups, nodes, stuck, subList, open, noMem>>

\* The lock was released when nothing was found.  The insertion fails when another
\* thread made the entry meanwhile, and the request with it.
SubInsert(t) ==
    /\ at[t].do = "insert"
    /\ LET c == at[t].sck
           ty == at[t].type
       IN  /\ Unlocked(ty)
           /\ \E mem \in Alloc :
                 IF mem /\ ty \notin tab
                 THEN tab' = tab \cup {ty} /\ Go(t, "query", c, ty) /\ UNCHANGED open
                 ELSE UNCHANGED tab /\ Freeing(t, c)
           /\ UNCHANGED <<groups, nodes, stuck, subList, noMem>>

\* The connection's own list, which no other thread reads.
SubRecord(t) ==
    /\ at[t].do = "record"
    /\ \/ /\ subList' = [subList EXCEPT ![at[t].sck] = @ \cup {at[t].type}]
          /\ at' = [at EXCEPT ![t] = Idle]
       \/ /\ noMem
          /\ at[t].type \notin subList[at[t].sck]
          /\ Go(t, "undo", at[t].sck, at[t].type)
          /\ UNCHANGED subList
    /\ UNCHANGED <<Entries, stuck, open, noMem>>

\* rtmq_sub_del returns with the lock held when it does not find the group.
SubUndo(t) ==
    /\ at[t].do = "undo"
    /\ LET c == at[t].sck
           ty == at[t].type
       IN  /\ Unlocked(ty)
           /\ stuck' = IF ty \in tab /\ GidOfSub[c] \notin groups[ty]
                      THEN stuck \cup {SlotOfType[ty]} ELSE stuck
           /\ IF c \in nodes[ty] THEN Leave(c, ty) ELSE UNCHANGED Entries
           /\ Freeing(t, c)
    /\ UNCHANGED <<subList, noMem>>

\* The connection was closed, or stayed silent for too long.
SubClose(t, c) ==
    /\ at[t] = Idle
    /\ c \in open /\ RsvrOfSub[c] = t
    /\ Freeing(t, c)
    /\ UNCHANGED <<Entries, stuck, subList, noMem>>

FreeItem(t, ty) ==
    /\ at[t].do = "free"
    /\ ty \in at[t].left
    /\ Unlocked(ty)
    /\ IF at[t].sck \in nodes[ty] THEN Leave(at[t].sck, ty) ELSE UNCHANGED Entries
    /\ at' = [at EXCEPT ![t].left = @ \ {ty}]
    /\ UNCHANGED <<stuck, subList, open, noMem>>

FreeDone(t) ==
    /\ at[t].do = "free"
    /\ at[t].left = {}
    /\ subList' = [subList EXCEPT ![at[t].sck] = {}]
    /\ at' = [at EXCEPT ![t] = Idle]
    /\ UNCHANGED <<Entries, stuck, open, noMem>>

RsvrSubStep(t) ==
    SubQuery(t) \/ SubInsert(t) \/ SubRecord(t) \/ SubUndo(t) \/ FreeDone(t)
        \/ \E ty \in Types : FreeItem(t, ty)

SubNext ==
    \E t \in Rsvrs :
        \/ RsvrSubStep(t)
        \/ SubGroup(t)
        \/ \E c \in Subs : SubClose(t, c) \/ \E ty \in Types : SubReq(t, c, ty)

\* The receiving threads never stop; clients subscribe and close as they like.  What
\* fails for want of memory may fail for ever.
SubFairness == \A t \in Rsvrs : WF_subVars(RsvrSubStep(t))
-----------------------------------------------------------------------------
\* What rtmq_publish, which holds the slot's lock while it does so, may send the
\* message to: one member of each group, at a random index.  An empty group would
\* be a division by zero, and leaves nothing to choose.
Picks(ty) ==
    {cs \in SUBSET nodes[ty] :
        \A gid \in groups[ty] : Cardinality(cs \cap Members(ty, gid)) = 1}

Busy(c) == \E t \in Rsvrs : at[t] # Idle /\ at[t].sck = c

\* With memory, a publication can choose a member of every group it meets, and an
\* entry without groups is there only while a request is about to fill it.
PublishReaches ==
    ~noMem => \A ty \in Types :
        /\ Picks(ty) # {}
        /\ ty \in tab /\ groups[ty] = {} =>
              \E t \in Rsvrs : at[t] # Idle /\ at[t].do = "query" /\ at[t].type = ty

\* Between handlers the table lists a connection under a type exactly when the
\* connection's own list does, which is empty once it is deleted: no subscription
\* outlives its connection, none is lost, no lock stays behind, the entry stays of a
\* thread that tries again to add a group, and no group is left empty for a publication
\* to divide by, whatever the threads insert and remove at the same time.
SubExact ==
    /\ stuck = {}
    /\ \A c \in Subs : ~Busy(c) =>
          /\ subList[c] = {ty \in Types : c \in nodes[ty]}
          /\ c \notin open => subList[c] = {}
    /\ \A ty \in Types :
          /\ nodes[ty] # {} => ty \in tab
          /\ \A c \in nodes[ty] : GidOfSub[c] \in groups[ty]
    /\ \A t \in Rsvrs : at[t].do = "group" => at[t].type \in tab
    /\ PublishReaches

\* A request and a deletion end: the client is subscribed, or its connection is
\* deleted, although the handler starts over after every insertion.  Only where it
\* tries again to add a group does memory decide: a thread that fails there for ever
\* keeps the lock of the slot, and all who need it wait.
SubEnds ==
    (\A t \in Rsvrs : <>[](at[t].do # "group")) => \A t \in Rsvrs : []<>(at[t] = Idle)
=============================================================================
