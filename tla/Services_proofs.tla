--------------------------- MODULE Services_proofs ---------------------------
(***************************************************************************)
(* The safety of the services that share nothing, for every number of      *)
(* threads, connections, pages and processes.  A step of one of them       *)
(* leaves the variables of the others alone, so each has an invariant of   *)
(* its own, over its own variables, that every step of Spec keeps.         *)
(***************************************************************************)
EXTENDS MCServices, FiniteSetTheorems, TLAPS

-----------------------------------------------------------------------------
(* Steps. *)

\* A step of Spec is a step of a service or leaves its variables alone.
LEMMA StepsApart ==
    ASSUME [Next]_vars
    PROVE  /\ SubNext \/ UNCHANGED subVars
           /\ SdtpSendNext \/ UNCHANGED sdtpVars
           /\ AccessNext \/ UNCHANGED accVars
           /\ ShmQueueNext \/ UNCHANGED shmVars
           /\ ShmOptNext \/ UNCHANGED shmOptVars
           /\ LogNext \/ UNCHANGED logVars
  BY DEF Next, vars, SubStep, SdtpStep, AccessStep, PoolAloneStep, ProxyStep, SdtpWorkStep,
         ShmQueueStep, ShmStep, LogStep

-----------------------------------------------------------------------------
(* Subscriptions. *)

Handling == [do : {"query", "group", "insert", "record", "undo"}, sck : Subs, type : Types]
Deleting == [do : {"free"}, sck : Subs, left : SUBSET Types]

SubTypes ==
    /\ tab \in SUBSET Types
    /\ groups \in [Types -> SUBSET Gids]
    /\ nodes \in [Types -> SUBSET Subs]
    /\ subList \in [Subs -> SUBSET Types]
    /\ open \in SUBSET Subs
    /\ at \in [Rsvrs -> {Idle} \cup Handling \cup Deleting]
    /\ noMem \in BOOLEAN

\* The types under which the table lists a connection.
Listed(c) == {ty \in Types : c \in nodes[ty]}

\* A thread handles its own connections, and the deleted ones only to free them.
HandlesOwn ==
    \A t \in Rsvrs : at[t] # Idle =>
        /\ RsvrOfSub[at[t].sck] = t
        /\ at[t].do = "free" <=> at[t].sck \notin open

\* How the list of a connection and the table agree while its thread is in a handler.
Agrees(c, h) ==
    /\ h.do \in {"query", "group", "insert"} => subList[c] = Listed(c)
    /\ h.do = "record" => subList[c] \cup {h.type} = Listed(c)
    /\ h.do = "undo" => Listed(c) = subList[c] \cup {h.type} /\ h.type \notin subList[c]
    /\ h.do = "free" => Listed(c) = h.left

ListFits(c) ==
    LET h == at[RsvrOfSub[c]]
    IN  IF h # Idle /\ h.sck = c THEN Agrees(c, h)
        ELSE subList[c] = Listed(c) /\ (c \notin open => subList[c] = {})

GroupsKnown ==
    /\ \A ty \in Types : \A c \in nodes[ty] : GidOfSub[c] \in groups[ty]
    /\ \A ty \in Types : groups[ty] # {} => ty \in tab

GroupsFull ==
    ~noMem => \A ty \in Types :
        /\ \A gid \in groups[ty] : Members(ty, gid) # {}
        /\ ty \in tab /\ groups[ty] = {} =>
              \E t \in Rsvrs : at[t] # Idle /\ at[t].do = "query" /\ at[t].type = ty

SubInv ==
    /\ SubTypes
    /\ stuck = {}
    /\ HandlesOwn
    /\ \A c \in Subs : ListFits(c)
    /\ GroupsKnown
    /\ GroupsFull

LEMMA SubInitially == SubInit => SubInv
  <1> SUFFICES ASSUME SubInit PROVE SubInv
    OBVIOUS
  <1>1. SubTypes
    BY DEF SubInit, SubTypes
  <1>2. HandlesOwn /\ stuck = {}
    BY DEF SubInit, HandlesOwn
  <1>3. \A c \in Subs : ListFits(c)
    BY SubAssumption DEF SubInit, ListFits, Listed
  <1>4. GroupsKnown /\ GroupsFull
    BY DEF SubInit, GroupsKnown, GroupsFull
  <1> QED
    BY <1>1, <1>2, <1>3, <1>4 DEF SubInv

\* What a thread has in hand is idle, or a handler, or a deletion.
LEMMA InHand ==
    ASSUME SubTypes, NEW t \in Rsvrs
    PROVE  /\ at[t] = Idle \/ at[t] \in Handling \/ at[t] \in Deleting
           /\ at[t] = Idle <=> at[t].do = "idle"
           /\ at[t] \in Handling <=> at[t].do \in {"query", "group", "insert", "record", "undo"}
           /\ at[t] \in Deleting <=> at[t].do = "free"
           /\ at[t] # Idle => at[t].sck \in Subs
  <1>1. at[t] = Idle \/ at[t] \in Handling \/ at[t] \in Deleting
    BY DEF SubTypes
  <1>2. CASE at[t] = Idle
    BY <1>2 DEF Idle, Handling, Deleting
  <1>3. CASE at[t] \in Handling
    BY <1>3 DEF Idle, Handling, Deleting
  <1>4. CASE at[t] \in Deleting
    BY <1>4 DEF Idle, Handling, Deleting
  <1> QED
    BY <1>1, <1>2, <1>3, <1>4

\* The list of a connection still fits after a step for another one.
LEMMA OthersFit ==
    ASSUME SubInv, SubTypes', NEW t \in Rsvrs, NEW c \in Subs, NEW d \in Subs,
           RsvrOfSub[c] = t, d # c,
           at[t] = Idle \/ at[t].sck = c, at'[t] = Idle \/ at'[t].sck = c,
           \A u \in Rsvrs \ {t} : at'[u] = at[u],
           subList'[d] = subList[d], d \in open' <=> d \in open,
           \A ty \in Types : d \in nodes'[ty] <=> d \in nodes[ty]
    PROVE  ListFits(d)'
  <1>1. Listed(d)' = Listed(d)
    BY DEF Listed
  <1>2. ListFits(d) /\ RsvrOfSub[d] \in Rsvrs
    BY SubAssumption DEF SubInv
  <1>3. CASE RsvrOfSub[d] = t
    BY <1>1, <1>2, <1>3 DEF ListFits
  <1>4. CASE RsvrOfSub[d] # t
    <2>1. at'[RsvrOfSub[d]] = at[RsvrOfSub[d]]
      BY <1>2, <1>4
    <2> QED
      BY <1>1, <1>2, <2>1 DEF ListFits, Agrees
  <1> QED
    BY <1>3, <1>4

\* The groups are as good as before when the table is, and no request gives up filling
\* an entry that has no group.
LEMMA EntriesSame ==
    ASSUME SubInv, NEW t \in Rsvrs, UNCHANGED <<tab, groups, nodes, noMem>>,
           at[t] = Idle \/ at[t].do # "query" \/ at[t].type \notin tab \/ groups[at[t].type] # {},
           \A u \in Rsvrs \ {t} : at'[u] = at[u]
    PROVE  GroupsKnown' /\ GroupsFull'
  <1>1. GroupsKnown'
    BY DEF SubInv, GroupsKnown
  <1>2. ASSUME ~noMem, NEW ty \in Types
        PROVE  /\ \A gid \in groups[ty] : Members(ty, gid)' # {}
               /\ ty \in tab /\ groups[ty] = {} =>
                     \E u \in Rsvrs : at'[u] # Idle /\ at'[u].do = "query" /\ at'[u].type = ty
    <2>1. \A gid \in groups[ty] : Members(ty, gid)' # {}
      BY <1>2 DEF SubInv, GroupsFull, Members
    <2>2. ASSUME ty \in tab, groups[ty] = {}
          PROVE  \E u \in Rsvrs : at'[u] # Idle /\ at'[u].do = "query" /\ at'[u].type = ty
      <3>1. PICK u \in Rsvrs : at[u] # Idle /\ at[u].do = "query" /\ at[u].type = ty
        BY <1>2, <2>2 DEF SubInv, GroupsFull
      <3>2. u # t
        BY <2>2, <3>1
      <3> QED
        BY <3>1, <3>2
    <2> QED
      BY <2>1, <2>2
  <1> QED
    BY <1>1, <1>2 DEF GroupsFull

\* What a connection that leaves a group makes of the table.
LEMMA LeaveKeeps ==
    ASSUME SubInv, NEW t \in Rsvrs, NEW c \in Subs, NEW ty \in Types, c \in nodes[ty],
           Leave(c, ty), UNCHANGED noMem,
           at[t] # Idle, at[t].do # "query", \A u \in Rsvrs \ {t} : at'[u] = at[u]
    PROVE  /\ tab' \in SUBSET Types
           /\ groups' \in [Types -> SUBSET Gids]
           /\ nodes' \in [Types -> SUBSET Subs]
           /\ \A d \in Subs, tz \in Types :
                 d \in nodes'[tz] <=> d \in nodes[tz] /\ ~(d = c /\ tz = ty)
           /\ GroupsKnown' /\ GroupsFull'
  <1> DEFINE gid == GidOfSub[c]
             rest == IF Members(ty, gid) = {c} THEN groups[ty] \ {gid} ELSE groups[ty]
  <1>1. SubTypes
    BY DEF SubInv
  <1>2. /\ nodes' = [nodes EXCEPT ![ty] = @ \ {c}]
        /\ groups' = [groups EXCEPT ![ty] = rest]
        /\ tab' = IF rest = {} THEN tab \ {ty} ELSE tab
    BY DEF Leave
  <1>3. /\ groups[ty] \subseteq Gids /\ nodes[ty] \subseteq Subs /\ rest \subseteq groups[ty]
        /\ groups[ty] \subseteq rest \cup {gid}
    BY <1>1 DEF SubTypes
  <1> HIDE DEF rest
  <1>4. /\ tab' \in SUBSET Types
        /\ groups' \in [Types -> SUBSET Gids]
        /\ nodes' \in [Types -> SUBSET Subs]
    <2>1. groups' \in [Types -> SUBSET Gids]
      BY <1>1, <1>2, <1>3 DEF SubTypes
    <2>2. nodes' \in [Types -> SUBSET Subs]
      BY <1>1, <1>2, <1>3 DEF SubTypes
    <2> QED
      BY <1>1, <1>2, <2>1, <2>2 DEF SubTypes
  <1>5. /\ nodes'[ty] = nodes[ty] \ {c} /\ groups'[ty] = rest
        /\ \A tz \in Types \ {ty} : nodes'[tz] = nodes[tz] /\ groups'[tz] = groups[tz]
    BY <1>1, <1>2 DEF SubTypes
  <1>6. \A d \in Subs, tz \in Types :
           d \in nodes'[tz] <=> d \in nodes[tz] /\ ~(d = c /\ tz = ty)
    BY <1>5
  <1>7. GroupsKnown'
    <2>1. ASSUME NEW tz \in Types, NEW d \in nodes'[tz] PROVE GidOfSub[d] \in groups'[tz]
      <3>1. d \in nodes[tz] /\ GidOfSub[d] \in groups[tz]
        BY <1>5, <2>1 DEF SubInv, GroupsKnown
      <3>2. CASE tz = ty
        <4>1. d # c
          BY <1>5, <2>1, <3>2
        <4>2. CASE GidOfSub[d] = gid
          <5>1. d \in Members(ty, gid)
            BY <3>1, <3>2, <4>2 DEF Members
          <5>2. rest = groups[ty]
            BY <4>1, <5>1 DEF rest
          <5> QED
            BY <1>5, <3>1, <3>2, <5>2
        <4>3. CASE GidOfSub[d] # gid
          BY <1>3, <1>5, <3>1, <3>2, <4>3
        <4> QED
          BY <4>2, <4>3
      <3> QED
        BY <1>5, <3>1, <3>2
    <2>2. ASSUME NEW tz \in Types, groups'[tz] # {} PROVE tz \in tab'
      <3>1. CASE tz = ty
        <4>1. rest # {} /\ groups[ty] # {}
          BY <1>3, <1>5, <2>2, <3>1
        <4> QED
          BY <1>2, <3>1, <4>1 DEF SubInv, GroupsKnown
      <3>2. CASE tz # ty
        BY <1>2, <1>5, <2>2, <3>2 DEF SubInv, GroupsKnown
      <3> QED
        BY <3>1, <3>2
    <2> QED
      BY <2>1, <2>2 DEF GroupsKnown
  <1>8. ASSUME ~noMem, NEW tz \in Types
        PROVE  /\ \A g \in groups'[tz] : Members(tz, g)' # {}
               /\ tz \in tab' /\ groups'[tz] = {} =>
                     \E u \in Rsvrs : at'[u] # Idle /\ at'[u].do = "query" /\ at'[u].type = tz
    <2>1. CASE tz = ty
      <3>1. ASSUME NEW g \in groups'[ty] PROVE Members(ty, g)' # {}
        <4>1. g \in groups[ty] /\ Members(ty, g) # {}
          BY <1>3, <1>5, <1>8, <3>1 DEF SubInv, GroupsFull
        <4>2. CASE g = gid
          <5>1. Members(ty, gid) # {c}
            BY <1>5, <3>1, <4>2 DEF rest
          <5>2. PICK d \in Members(ty, gid) : d # c
            BY <4>1, <4>2, <5>1
          <5> QED
            BY <1>5, <4>2, <5>2 DEF Members
        <4>3. CASE g # gid
          <5>1. PICK d \in Members(ty, g) : TRUE
            BY <4>1
          <5> QED
            BY <1>5, <4>3, <5>1 DEF Members
        <4> QED
          BY <4>2, <4>3
      <3> QED
        BY <1>2, <1>5, <2>1, <3>1
    <2>2. CASE tz # ty
      <3>1. nodes'[tz] = nodes[tz] /\ groups'[tz] = groups[tz] /\ (tz \in tab' <=> tz \in tab)
        BY <1>2, <1>5, <2>2
      <3>2. \A g \in groups'[tz] : Members(tz, g)' # {}
        BY <1>8, <3>1 DEF SubInv, GroupsFull, Members
      <3>3. ASSUME tz \in tab', groups'[tz] = {}
            PROVE  \E u \in Rsvrs : at'[u] # Idle /\ at'[u].do = "query" /\ at'[u].type = tz
        <4>1. PICK u \in Rsvrs : at[u] # Idle /\ at[u].do = "query" /\ at[u].type = tz
          BY <1>8, <3>1, <3>3 DEF SubInv, GroupsFull
        <4> QED
          BY <4>1
      <3> QED
        BY <3>2, <3>3
    <2> QED
      BY <2>1, <2>2
  <1>9. GroupsFull'
    BY <1>8 DEF GroupsFull
  <1> QED
    BY <1>4, <1>6, <1>7, <1>9

\* What a thread that handles a request or a deletion knows.
LEMMA Knows ==
    ASSUME SubInv, NEW t \in Rsvrs, at[t] # Idle
    PROVE  /\ at[t].sck \in Subs /\ RsvrOfSub[at[t].sck] = t
           /\ Agrees(at[t].sck, at[t])
           /\ at[t].do = "free" <=> at[t].sck \notin open
           /\ at[t].do # "free" => at[t] \in Handling /\ at[t].type \in Types
           /\ at[t].do = "free" => at[t] \in Deleting /\ at[t].left \in SUBSET Types
  <1>1. SubTypes /\ HandlesOwn
    BY DEF SubInv
  <1>2. /\ at[t] \in Handling \/ at[t] \in Deleting
        /\ at[t] \in Deleting <=> at[t].do = "free"
        /\ at[t].sck \in Subs
    BY <1>1, InHand
  <1>3. RsvrOfSub[at[t].sck] = t /\ (at[t].do = "free" <=> at[t].sck \notin open)
    BY <1>1 DEF HandlesOwn
  <1>4. Agrees(at[t].sck, at[t])
    BY <1>2, <1>3 DEF SubInv, ListFits
  <1> QED
    BY <1>2, <1>3, <1>4 DEF Handling, Deleting

\* What a step of thread t for connection c has to establish.
LEMMA SubStepKeeps ==
    ASSUME SubInv, NEW t \in Rsvrs, NEW c \in Subs,
           RsvrOfSub[c] = t, at[t] = Idle \/ at[t].sck = c,
           at' \in [Rsvrs -> {Idle} \cup Handling \cup Deleting],
           \A u \in Rsvrs \ {t} : at'[u] = at[u],
           at'[t] # Idle => at'[t].sck = c /\ (at'[t].do = "free" <=> c \notin open'),
           open' = open \/ open' = open \ {c},
           tab' \in SUBSET Types, groups' \in [Types -> SUBSET Gids],
           nodes' \in [Types -> SUBSET Subs], subList' \in [Subs -> SUBSET Types],
           noMem' \in BOOLEAN, stuck' = {},
           \A d \in Subs \ {c} : /\ subList'[d] = subList[d]
                                 /\ \A ty \in Types : d \in nodes'[ty] <=> d \in nodes[ty],
           at'[t] # Idle => Agrees(c, at[t])',
           at'[t] = Idle => subList'[c] = Listed(c)' /\ (c \notin open' => subList'[c] = {}),
           GroupsKnown', GroupsFull'
    PROVE  SubInv'
  <1>1. SubTypes /\ HandlesOwn
    BY DEF SubInv
  <1>2. SubTypes'
    BY <1>1 DEF SubTypes
  <1>3. HandlesOwn'
    <2>1. ASSUME NEW u \in Rsvrs, at'[u] # Idle
          PROVE  RsvrOfSub[at'[u].sck] = u /\ (at'[u].do = "free" <=> at'[u].sck \notin open')
      <3>1. CASE u = t
        BY <2>1, <3>1
      <3>2. CASE u # t
        <4>1. RsvrOfSub[at[u].sck] = u /\ (at[u].do = "free" <=> at[u].sck \notin open)
          BY <1>1, <2>1, <3>2 DEF HandlesOwn
        <4>2. at[u].sck # c
          BY <3>2, <4>1
        <4> QED
          BY <3>2, <4>1, <4>2
      <3> QED
        BY <3>1, <3>2
    <2> QED
      BY <2>1 DEF HandlesOwn
  <1>4. ASSUME NEW d \in Subs PROVE ListFits(d)'
    <2>1. CASE d = c
      BY <2>1 DEF ListFits
    <2>2. CASE d # c
      BY <1>2, <2>2, OthersFit
    <2> QED
      BY <2>1, <2>2
  <1> QED
    BY <1>2, <1>3, <1>4 DEF SubInv

\* What a thread has in hand after it turned to a handler, to a deletion, or to nothing.
LEMMA Turns ==
    ASSUME SubTypes, NEW t \in Rsvrs, NEW c \in Subs, NEW ty \in Types,
           NEW do \in {"query", "group", "insert", "record", "undo"}, Go(t, do, c, ty)
    PROVE  /\ at' \in [Rsvrs -> {Idle} \cup Handling \cup Deleting]
           /\ at'[t] = [do |-> do, sck |-> c, type |-> ty] /\ at'[t] # Idle
           /\ \A u \in Rsvrs \ {t} : at'[u] = at[u]
  <1> DEFINE x == [do |-> do, sck |-> c, type |-> ty]
  <1>1. x \in Handling /\ x # Idle
    BY DEF Handling, Idle
  <1>2. at' = [at EXCEPT ![t] = x]
    BY DEF Go
  <1> HIDE DEF x
  <1>3. /\ at' \in [Rsvrs -> {Idle} \cup Handling \cup Deleting]
        /\ at'[t] = x /\ \A u \in Rsvrs \ {t} : at'[u] = at[u]
    BY <1>1, <1>2 DEF SubTypes
  <1> QED
    BY <1>1, <1>3 DEF x

LEMMA TurnsToFree ==
    ASSUME SubTypes, NEW t \in Rsvrs, NEW c \in Subs, Freeing(t, c)
    PROVE  /\ at' \in [Rsvrs -> {Idle} \cup Handling \cup Deleting]
           /\ at'[t] = [do |-> "free", sck |-> c, left |-> subList[c]] /\ at'[t] # Idle
           /\ \A u \in Rsvrs \ {t} : at'[u] = at[u]
           /\ open' = open \ {c}
  <1> DEFINE x == [do |-> "free", sck |-> c, left |-> subList[c]]
  <1>1. x \in Deleting /\ x # Idle
    BY DEF Deleting, Idle, SubTypes
  <1>2. at' = [at EXCEPT ![t] = x] /\ open' = open \ {c}
    BY DEF Freeing
  <1> HIDE DEF x
  <1>3. /\ at' \in [Rsvrs -> {Idle} \cup Handling \cup Deleting]
        /\ at'[t] = x /\ \A u \in Rsvrs \ {t} : at'[u] = at[u]
    BY <1>1, <1>2 DEF SubTypes
  <1> QED
    BY <1>1, <1>2, <1>3 DEF x

LEMMA TurnsIdle ==
    ASSUME SubTypes, NEW t \in Rsvrs, at' = [at EXCEPT ![t] = Idle]
    PROVE  /\ at' \in [Rsvrs -> {Idle} \cup Handling \cup Deleting]
           /\ at'[t] = Idle
           /\ \A u \in Rsvrs \ {t} : at'[u] = at[u]
  BY DEF SubTypes

LEMMA SubReqKeeps ==
    ASSUME SubInv, NEW t \in Rsvrs, NEW c \in Subs, NEW ty \in Types, SubReq(t, c, ty)
    PROVE  SubInv'
  <1>1. /\ SubTypes /\ stuck = {} /\ ListFits(c) /\ at[t] = Idle /\ c \in open /\ RsvrOfSub[c] = t
        /\ UNCHANGED <<tab, groups, nodes, stuck, subList, open, noMem>>
    BY DEF SubReq, Entries, SubInv
  <1>2. /\ at' \in [Rsvrs -> {Idle} \cup Handling \cup Deleting]
        /\ at'[t] = [do |-> "query", sck |-> c, type |-> ty] /\ at'[t] # Idle
        /\ \A u \in Rsvrs \ {t} : at'[u] = at[u]
    BY <1>1, Turns DEF SubReq
  <1>3. GroupsKnown' /\ GroupsFull'
    BY <1>1, <1>2, EntriesSame
  <1>4. Agrees(c, at[t])'
    BY <1>1, <1>2 DEF ListFits, Agrees, Listed
  <1> QED
    BY <1>1, <1>2, <1>3, <1>4, SubStepKeeps DEF SubTypes

LEMMA SubCloseKeeps ==
    ASSUME SubInv, NEW t \in Rsvrs, NEW c \in Subs, SubClose(t, c)
    PROVE  SubInv'
  <1>1. /\ SubTypes /\ stuck = {} /\ ListFits(c) /\ at[t] = Idle /\ c \in open /\ RsvrOfSub[c] = t
        /\ UNCHANGED <<tab, groups, nodes, stuck, subList, noMem>>
    BY DEF SubClose, Entries, SubInv
  <1>2. /\ at' \in [Rsvrs -> {Idle} \cup Handling \cup Deleting]
        /\ at'[t] = [do |-> "free", sck |-> c, left |-> subList[c]] /\ at'[t] # Idle
        /\ \A u \in Rsvrs \ {t} : at'[u] = at[u]
        /\ open' = open \ {c}
    BY <1>1, TurnsToFree DEF SubClose
  <1>3. GroupsKnown' /\ GroupsFull'
    BY <1>1, <1>2, EntriesSame
  <1>4. Agrees(c, at[t])'
    BY <1>1, <1>2 DEF ListFits, Agrees, Listed
  <1> QED
    BY <1>1, <1>2, <1>3, <1>4, SubStepKeeps DEF SubTypes

LEMMA SubInsertKeeps ==
    ASSUME SubInv, NEW t \in Rsvrs, SubInsert(t)
    PROVE  SubInv'
  <1>1. at[t].do = "insert" /\ at[t] # Idle /\ SubTypes /\ stuck = {}
    BY InHand DEF SubInsert, SubInv
  <1>2. PICK c \in Subs, ty \in Types : c = at[t].sck /\ ty = at[t].type
    BY <1>1, Knows
  <1>3. RsvrOfSub[c] = t /\ subList[c] = Listed(c) /\ c \in open
    BY <1>1, <1>2, Knows DEF Agrees
  <1>4. UNCHANGED <<groups, nodes, stuck, subList, noMem>>
    BY DEF SubInsert
  <1>5. CASE ty \notin tab /\ tab' = tab \cup {ty} /\ Go(t, "query", c, ty) /\ UNCHANGED open
    <2>1. /\ at' \in [Rsvrs -> {Idle} \cup Handling \cup Deleting]
          /\ at'[t] = [do |-> "query", sck |-> c, type |-> ty] /\ at'[t] # Idle
          /\ \A u \in Rsvrs \ {t} : at'[u] = at[u]
      BY <1>1, <1>5, Turns
    <2>2. GroupsKnown'
      BY <1>4, <1>5 DEF SubInv, GroupsKnown
    <2>3. ASSUME ~noMem, NEW tz \in Types
          PROVE  /\ \A gid \in groups[tz] : Members(tz, gid)' # {}
                 /\ tz \in tab' /\ groups[tz] = {} =>
                       \E u \in Rsvrs : at'[u] # Idle /\ at'[u].do = "query" /\ at'[u].type = tz
      <3>1. \A gid \in groups[tz] : Members(tz, gid)' # {}
        BY <1>4, <2>3 DEF SubInv, GroupsFull, Members
      <3>2. CASE tz = ty
        BY <2>1, <3>1, <3>2
      <3>3. ASSUME tz # ty, tz \in tab', groups[tz] = {}
            PROVE  \E u \in Rsvrs : at'[u] # Idle /\ at'[u].do = "query" /\ at'[u].type = tz
        <4>1. PICK u \in Rsvrs : at[u] # Idle /\ at[u].do = "query" /\ at[u].type = tz
          BY <1>5, <2>3, <3>3 DEF SubInv, GroupsFull
        <4>2. u # t
          BY <1>1, <4>1
        <4> QED
          BY <2>1, <4>1, <4>2
      <3> QED
        BY <3>1, <3>2, <3>3
    <2>4. GroupsFull'
      BY <1>4, <2>3 DEF GroupsFull
    <2>5. Agrees(c, at[t])'
      BY <1>3, <1>4, <2>1 DEF Agrees, Listed
    <2> QED
      BY <1>1, <1>2, <1>3, <1>4, <1>5, <2>1, <2>2, <2>4, <2>5, SubStepKeeps DEF SubTypes
  <1>6. CASE UNCHANGED tab /\ Freeing(t, c)
    <2>1. /\ at' \in [Rsvrs -> {Idle} \cup Handling \cup Deleting]
          /\ at'[t] = [do |-> "free", sck |-> c, left |-> subList[c]] /\ at'[t] # Idle
          /\ \A u \in Rsvrs \ {t} : at'[u] = at[u]
          /\ open' = open \ {c}
      BY <1>1, <1>6, TurnsToFree
    <2>2. GroupsKnown' /\ GroupsFull'
      BY <1>1, <1>4, <1>6, <2>1, EntriesSame
    <2>3. Agrees(c, at[t])'
      BY <1>3, <1>4, <2>1 DEF Agrees, Listed
    <2> QED
      BY <1>1, <1>2, <1>3, <1>4, <1>6, <2>1, <2>2, <2>3, SubStepKeeps DEF SubTypes
  <1> QED
    BY <1>2, <1>5, <1>6 DEF SubInsert

LEMMA SubRecordKeeps ==
    ASSUME SubInv, NEW t \in Rsvrs, SubRecord(t)
    PROVE  SubInv'
  <1>1. at[t].do = "record" /\ at[t] # Idle /\ SubTypes /\ stuck = {}
    BY InHand DEF SubRecord, SubInv
  <1>2. PICK c \in Subs, ty \in Types : c = at[t].sck /\ ty = at[t].type
    BY <1>1, Knows
  <1>3. RsvrOfSub[c] = t /\ subList[c] \cup {ty} = Listed(c) /\ c \in open
    BY <1>1, <1>2, Knows DEF Agrees
  <1>4. UNCHANGED <<tab, groups, nodes, stuck, open, noMem>>
    BY DEF SubRecord, Entries
  <1>5. CASE subList' = [subList EXCEPT ![c] = @ \cup {ty}] /\ at' = [at EXCEPT ![t] = Idle]
    <2>1. /\ at' \in [Rsvrs -> {Idle} \cup Handling \cup Deleting]
          /\ at'[t] = Idle
          /\ \A u \in Rsvrs \ {t} : at'[u] = at[u]
      BY <1>1, <1>5, TurnsIdle
    <2>2. GroupsKnown' /\ GroupsFull'
      BY <1>1, <1>4, <2>1, EntriesSame
    <2>3. /\ subList'[c] = Listed(c)' /\ \A d \in Subs \ {c} : subList'[d] = subList[d]
          /\ subList' \in [Subs -> SUBSET Types]
      BY <1>1, <1>3, <1>4, <1>5 DEF Listed, SubTypes
    <2> QED
      BY <1>1, <1>2, <1>3, <1>4, <2>1, <2>2, <2>3, SubStepKeeps DEF SubTypes
  <1>6. CASE ty \notin subList[c] /\ Go(t, "undo", c, ty) /\ UNCHANGED subList
    <2>1. /\ at' \in [Rsvrs -> {Idle} \cup Handling \cup Deleting]
          /\ at'[t] = [do |-> "undo", sck |-> c, type |-> ty] /\ at'[t] # Idle
          /\ \A u \in Rsvrs \ {t} : at'[u] = at[u]
      BY <1>1, <1>6, Turns
    <2>2. GroupsKnown' /\ GroupsFull'
      BY <1>1, <1>4, <2>1, EntriesSame
    <2>3. Agrees(c, at[t])'
      BY <1>3, <1>4, <1>6, <2>1 DEF Agrees, Listed
    <2> QED
      BY <1>1, <1>2, <1>3, <1>4, <1>6, <2>1, <2>2, <2>3, SubStepKeeps DEF SubTypes
  <1> QED
    BY <1>2, <1>5, <1>6 DEF SubRecord

LEMMA SubUndoKeeps ==
    ASSUME SubInv, NEW t \in Rsvrs, SubUndo(t)
    PROVE  SubInv'
  <1>1. at[t].do = "undo" /\ at[t] # Idle /\ SubTypes /\ stuck = {}
    BY InHand DEF SubUndo, SubInv
  <1>2. PICK c \in Subs, ty \in Types : c = at[t].sck /\ ty = at[t].type
    BY <1>1, Knows
  <1>3. /\ RsvrOfSub[c] = t /\ c \in open
        /\ Listed(c) = subList[c] \cup {ty} /\ ty \notin subList[c] /\ c \in nodes[ty]
    BY <1>1, <1>2, Knows DEF Agrees, Listed
  <1>4. GidOfSub[c] \in groups[ty]
    BY <1>3 DEF SubInv, GroupsKnown
  <1>5. stuck' = {} /\ Leave(c, ty) /\ Freeing(t, c) /\ UNCHANGED <<subList, noMem>>
    BY <1>1, <1>2, <1>3, <1>4 DEF SubUndo
  <1>6. /\ at' \in [Rsvrs -> {Idle} \cup Handling \cup Deleting]
        /\ at'[t] = [do |-> "free", sck |-> c, left |-> subList[c]] /\ at'[t] # Idle
        /\ \A u \in Rsvrs \ {t} : at'[u] = at[u]
        /\ open' = open \ {c}
    BY <1>1, <1>5, TurnsToFree
  <1>7. /\ tab' \in SUBSET Types
        /\ groups' \in [Types -> SUBSET Gids]
        /\ nodes' \in [Types -> SUBSET Subs]
        /\ \A d \in Subs, tz \in Types :
              d \in nodes'[tz] <=> d \in nodes[tz] /\ ~(d = c /\ tz = ty)
        /\ GroupsKnown' /\ GroupsFull'
    BY <1>1, <1>3, <1>5, <1>6, LeaveKeeps
  <1>8. Listed(c)' = subList[c]
    BY <1>3, <1>7 DEF Listed
  <1>9. Agrees(c, at[t])'
    BY <1>6, <1>8 DEF Agrees
  <1> QED
    BY <1>1, <1>2, <1>3, <1>5, <1>6, <1>7, <1>9, SubStepKeeps DEF SubTypes

LEMMA FreeItemKeeps ==
    ASSUME SubInv, NEW t \in Rsvrs, NEW ty \in Types, FreeItem(t, ty)
    PROVE  SubInv'
  <1>1. at[t].do = "free" /\ at[t] # Idle /\ at[t] \in Deleting /\ SubTypes /\ stuck = {}
    BY InHand DEF FreeItem, SubInv
  <1>2. PICK c \in Subs : c = at[t].sck
    BY <1>1, Knows
  <1>3. RsvrOfSub[c] = t /\ c \notin open /\ Listed(c) = at[t].left /\ c \in nodes[ty]
    BY <1>1, <1>2, Knows DEF Agrees, Listed, FreeItem
  <1>4. /\ Leave(c, ty) /\ UNCHANGED <<stuck, subList, open, noMem>>
        /\ at' = [at EXCEPT ![t].left = @ \ {ty}]
    BY <1>2, <1>3 DEF FreeItem
  <1>5. /\ at' \in [Rsvrs -> {Idle} \cup Handling \cup Deleting]
        /\ at'[t] = [do |-> "free", sck |-> c, left |-> at[t].left \ {ty}] /\ at'[t] # Idle
        /\ \A u \in Rsvrs \ {t} : at'[u] = at[u]
    <2> DEFINE x == [do |-> "free", sck |-> c, left |-> at[t].left \ {ty}]
    <2>1. x \in Deleting /\ x # Idle /\ x = [at[t] EXCEPT !.left = @ \ {ty}]
      BY <1>1, <1>2 DEF Deleting, Idle
    <2>2. at' = [at EXCEPT ![t] = x]
      BY <1>1, <1>4, <2>1 DEF SubTypes
    <2> HIDE DEF x
    <2>3. /\ at' \in [Rsvrs -> {Idle} \cup Handling \cup Deleting]
          /\ at'[t] = x /\ \A u \in Rsvrs \ {t} : at'[u] = at[u]
      BY <1>1, <2>1, <2>2 DEF SubTypes
    <2> QED
      BY <2>1, <2>3 DEF x
  <1>6. /\ tab' \in SUBSET Types
        /\ groups' \in [Types -> SUBSET Gids]
        /\ nodes' \in [Types -> SUBSET Subs]
        /\ \A d \in Subs, tz \in Types :
              d \in nodes'[tz] <=> d \in nodes[tz] /\ ~(d = c /\ tz = ty)
        /\ GroupsKnown' /\ GroupsFull'
    BY <1>1, <1>3, <1>4, <1>5, LeaveKeeps
  <1>7. Listed(c)' = at'[t].left
    BY <1>3, <1>5, <1>6 DEF Listed
  <1>8. Agrees(c, at[t])'
    BY <1>5, <1>7 DEF Agrees
  <1>9. /\ at'[t] # Idle => at'[t].sck = c /\ (at'[t].do = "free" <=> c \notin open')
        /\ \A d \in Subs \ {c} : /\ subList'[d] = subList[d]
                                 /\ \A tz \in Types : d \in nodes'[tz] <=> d \in nodes[tz]
    BY <1>3, <1>4, <1>5, <1>6
  <1>10. subList' \in [Subs -> SUBSET Types] /\ noMem' \in BOOLEAN /\ stuck' = {}
    BY <1>1, <1>4 DEF SubTypes
  <1> QED
    BY <1>2, <1>3, <1>4, <1>5, <1>6, <1>8, <1>9, <1>10, SubStepKeeps

LEMMA FreeDoneKeeps ==
    ASSUME SubInv, NEW t \in Rsvrs, FreeDone(t)
    PROVE  SubInv'
  <1>1. at[t].do = "free" /\ at[t] # Idle /\ at[t].left = {} /\ SubTypes /\ stuck = {}
    BY InHand DEF FreeDone, SubInv
  <1>2. PICK c \in Subs : c = at[t].sck
    BY <1>1, Knows
  <1>3. RsvrOfSub[c] = t /\ c \notin open /\ Listed(c) = {}
    BY <1>1, <1>2, Knows DEF Agrees
  <1>4. /\ UNCHANGED <<tab, groups, nodes, stuck, open, noMem>>
        /\ subList' = [subList EXCEPT ![c] = {}] /\ at' = [at EXCEPT ![t] = Idle]
    BY <1>2 DEF FreeDone, Entries
  <1>5. /\ at' \in [Rsvrs -> {Idle} \cup Handling \cup Deleting]
        /\ at'[t] = Idle
        /\ \A u \in Rsvrs \ {t} : at'[u] = at[u]
    BY <1>1, <1>4, TurnsIdle
  <1>6. GroupsKnown' /\ GroupsFull'
    BY <1>1, <1>4, <1>5, EntriesSame
  <1>7. /\ subList'[c] = {} /\ \A d \in Subs \ {c} : subList'[d] = subList[d]
        /\ subList' \in [Subs -> SUBSET Types] /\ Listed(c)' = {}
    BY <1>1, <1>3, <1>4 DEF Listed, SubTypes
  <1> QED
    BY <1>1, <1>2, <1>3, <1>4, <1>5, <1>6, <1>7, SubStepKeeps DEF SubTypes

\* A request goes on with its entry, from the table or from the tree of the groups.
LEMMA AddToGroupKeeps ==
    ASSUME SubInv, NEW t \in Rsvrs, at[t].do \in {"query", "group"},
           AddToGroup(t, at[t].sck, at[t].type)
    PROVE  SubInv'
  <1>1. at[t] # Idle /\ SubTypes /\ stuck = {}
    BY InHand DEF SubInv
  <1>2. PICK c \in Subs, ty \in Types : c = at[t].sck /\ ty = at[t].type
    BY <1>1, Knows
  <1>3. RsvrOfSub[c] = t /\ subList[c] = Listed(c) /\ c \in open
    BY <1>1, <1>2, Knows DEF Agrees
  <1> DEFINE gid == GidOfSub[c]
  <1>4. gid \in Gids
    BY DEF Gids
  <1>5. CASE /\ ty \in tab /\ c \in nodes[ty]
             /\ Go(t, "record", c, ty)
             /\ UNCHANGED <<tab, groups, nodes, stuck, subList, open, noMem>>
    <2>1. /\ at' \in [Rsvrs -> {Idle} \cup Handling \cup Deleting]
          /\ at'[t] = [do |-> "record", sck |-> c, type |-> ty] /\ at'[t] # Idle
          /\ \A u \in Rsvrs \ {t} : at'[u] = at[u]
      BY <1>1, <1>5, Turns
    <2>2. groups[ty] # {}
      BY <1>5 DEF SubInv, GroupsKnown
    <2>3. GroupsKnown' /\ GroupsFull'
      BY <1>2, <1>5, <2>1, <2>2, EntriesSame
    <2>4. Agrees(c, at[t])'
      BY <1>3, <1>5, <2>1 DEF Agrees, Listed
    <2> QED
      BY <1>1, <1>2, <1>3, <1>5, <2>1, <2>3, <2>4, SubStepKeeps DEF SubTypes
  <1>6. CASE /\ noMem
             /\ Go(t, "group", c, ty)
             /\ UNCHANGED <<tab, groups, nodes, stuck, subList, open, noMem>>
    <2>1. /\ at' \in [Rsvrs -> {Idle} \cup Handling \cup Deleting]
          /\ at'[t] = [do |-> "group", sck |-> c, type |-> ty] /\ at'[t] # Idle
          /\ \A u \in Rsvrs \ {t} : at'[u] = at[u]
      BY <1>1, <1>6, Turns
    <2>2. GroupsKnown' /\ GroupsFull'
      BY <1>6 DEF SubInv, GroupsKnown, GroupsFull
    <2>3. Agrees(c, at[t])'
      BY <1>3, <1>6, <2>1 DEF Agrees, Listed
    <2> QED
      BY <1>1, <1>2, <1>3, <1>6, <2>1, <2>2, <2>3, SubStepKeeps DEF SubTypes
  <1>7. CASE /\ ty \in tab /\ c \notin nodes[ty]
             /\ UNCHANGED <<tab, stuck, subList, noMem>>
             /\ \E grp \in Alloc, node \in Alloc :
                   /\ groups' = [groups EXCEPT ![ty] = IF grp THEN @ \cup {gid} ELSE @]
                   /\ IF node /\ gid \in groups'[ty]
                      THEN /\ nodes' = [nodes EXCEPT ![ty] = @ \cup {c}]
                           /\ Go(t, "record", c, ty)
                           /\ UNCHANGED open
                      ELSE UNCHANGED nodes /\ Freeing(t, c)
    <2>1. PICK grp \in Alloc, node \in Alloc :
             /\ groups' = [groups EXCEPT ![ty] = IF grp THEN @ \cup {gid} ELSE @]
             /\ IF node /\ gid \in groups'[ty]
                THEN /\ nodes' = [nodes EXCEPT ![ty] = @ \cup {c}]
                     /\ Go(t, "record", c, ty)
                     /\ UNCHANGED open
                ELSE UNCHANGED nodes /\ Freeing(t, c)
      BY <1>7
    <2>2. ~noMem => grp /\ node
      BY DEF Alloc
    <2>3. /\ groups' \in [Types -> SUBSET Gids]
          /\ groups'[ty] = IF grp THEN groups[ty] \cup {gid} ELSE groups[ty]
          /\ \A tz \in Types \ {ty} : groups'[tz] = groups[tz]
      BY <1>1, <1>4, <2>1 DEF SubTypes
    <2>4. CASE node /\ gid \in groups'[ty]
      <3>1. nodes' = [nodes EXCEPT ![ty] = @ \cup {c}] /\ Go(t, "record", c, ty) /\ UNCHANGED open
        BY <2>1, <2>4
      <3>2. /\ nodes' \in [Types -> SUBSET Subs]
            /\ nodes'[ty] = nodes[ty] \cup {c}
            /\ \A tz \in Types \ {ty} : nodes'[tz] = nodes[tz]
        BY <1>1, <3>1 DEF SubTypes
      <3>3. /\ at' \in [Rsvrs -> {Idle} \cup Handling \cup Deleting]
            /\ at'[t] = [do |-> "record", sck |-> c, type |-> ty] /\ at'[t] # Idle
            /\ \A u \in Rsvrs \ {t} : at'[u] = at[u]
        BY <1>1, <3>1, Turns
      <3>4. GroupsKnown'
        <4>1. \A tz \in Types : \A d \in nodes'[tz] : GidOfSub[d] \in groups'[tz]
          BY <2>3, <2>4, <3>2 DEF SubInv, GroupsKnown
        <4>2. \A tz \in Types : groups'[tz] # {} => tz \in tab'
          BY <1>7, <2>3 DEF SubInv, GroupsKnown
        <4> QED
          BY <4>1, <4>2 DEF GroupsKnown
      <3>5. ASSUME ~noMem, NEW tz \in Types
            PROVE  /\ \A g \in groups'[tz] : Members(tz, g)' # {}
                   /\ tz \in tab /\ groups'[tz] = {} =>
                         \E u \in Rsvrs : at'[u] # Idle /\ at'[u].do = "query" /\ at'[u].type = tz
        <4>1. CASE tz = ty
          <5>1. ASSUME NEW g \in groups'[ty] PROVE Members(ty, g)' # {}
            <6>1. CASE g = gid
              BY <3>2, <6>1 DEF Members
            <6>2. CASE g # gid
              <7>1. PICK d \in Members(ty, g) : TRUE
                BY <2>3, <3>5, <5>1, <6>2 DEF SubInv, GroupsFull
              <7> QED
                BY <3>2, <7>1 DEF Members
            <6> QED
              BY <6>1, <6>2
          <5> QED
            BY <2>4, <4>1, <5>1
        <4>2. CASE tz # ty
          <5>1. \A g \in groups'[tz] : Members(tz, g)' # {}
            BY <2>3, <3>2, <3>5, <4>2 DEF SubInv, GroupsFull, Members
          <5>2. ASSUME tz \in tab, groups'[tz] = {}
                PROVE  \E u \in Rsvrs : at'[u] # Idle /\ at'[u].do = "query" /\ at'[u].type = tz
            <6>1. PICK u \in Rsvrs : at[u] # Idle /\ at[u].do = "query" /\ at[u].type = tz
              BY <2>3, <3>5, <4>2, <5>2 DEF SubInv, GroupsFull
            <6>2. u # t
              BY <1>2, <4>2, <6>1
            <6> QED
              BY <3>3, <6>1, <6>2
          <5> QED
            BY <5>1, <5>2
        <4> QED
          BY <4>1, <4>2
      <3>6. GroupsFull'
        BY <1>7, <3>5 DEF GroupsFull
      <3>7. subList'[c] \cup {ty} = Listed(c)'
        BY <1>3, <1>7, <3>2 DEF Listed
      <3>8. Agrees(c, at[t])'
        BY <3>3, <3>7 DEF Agrees
      <3>9. \A d \in Subs \ {c} : \A tz \in Types : d \in nodes'[tz] <=> d \in nodes[tz]
        BY <3>2
      <3> QED
        BY <1>1, <1>2, <1>3, <1>7, <2>3, <3>1, <3>2, <3>3, <3>4, <3>6, <3>8, <3>9, SubStepKeeps
           DEF SubTypes
    <2>5. CASE ~(node /\ gid \in groups'[ty])
      <3>1. UNCHANGED nodes /\ Freeing(t, c)
        BY <2>1, <2>5
      <3>2. /\ at' \in [Rsvrs -> {Idle} \cup Handling \cup Deleting]
            /\ at'[t] = [do |-> "free", sck |-> c, left |-> subList[c]] /\ at'[t] # Idle
            /\ \A u \in Rsvrs \ {t} : at'[u] = at[u]
            /\ open' = open \ {c}
        BY <1>1, <3>1, TurnsToFree
      <3>3. noMem
        BY <2>2, <2>3, <2>5
      <3>4. GroupsFull'
        BY <1>7, <3>3 DEF GroupsFull
      <3>5. GroupsKnown'
        BY <1>7, <2>3, <3>1 DEF SubInv, GroupsKnown
      <3>6. Agrees(c, at[t])'
        BY <1>3, <1>7, <3>1, <3>2 DEF Agrees, Listed
      <3> QED
        BY <1>1, <1>2, <1>3, <1>7, <2>3, <3>1, <3>2, <3>4, <3>5, <3>6, SubStepKeeps DEF SubTypes
    <2> QED
      BY <2>4, <2>5
  <1> QED
    BY <1>2, <1>5, <1>6, <1>7 DEF AddToGroup

LEMMA SubQueryKeeps ==
    ASSUME SubInv, NEW t \in Rsvrs, SubQuery(t)
    PROVE  SubInv'
  <1>1. at[t].do = "query" /\ at[t] # Idle /\ SubTypes /\ stuck = {}
    BY InHand DEF SubQuery, SubInv
  <1>2. PICK c \in Subs, ty \in Types : c = at[t].sck /\ ty = at[t].type
    BY <1>1, Knows
  <1>3. RsvrOfSub[c] = t /\ subList[c] = Listed(c) /\ c \in open
    BY <1>1, <1>2, Knows DEF Agrees
  <1>4. CASE /\ ty \notin tab
             /\ Go(t, "insert", c, ty)
             /\ UNCHANGED <<tab, groups, nodes, stuck, subList, open, noMem>>
    <2>1. /\ at' \in [Rsvrs -> {Idle} \cup Handling \cup Deleting]
          /\ at'[t] = [do |-> "insert", sck |-> c, type |-> ty] /\ at'[t] # Idle
          /\ \A u \in Rsvrs \ {t} : at'[u] = at[u]
      BY <1>1, <1>4, Turns
    <2>2. GroupsKnown' /\ GroupsFull'
      BY <1>2, <1>4, <2>1, EntriesSame
    <2>3. Agrees(c, at[t])'
      BY <1>3, <1>4, <2>1 DEF Agrees, Listed
    <2> QED
      BY <1>1, <1>2, <1>3, <1>4, <2>1, <2>2, <2>3, SubStepKeeps DEF SubTypes
  <1>5. CASE AddToGroup(t, c, ty)
    BY <1>1, <1>2, <1>5, AddToGroupKeeps
  <1> QED
    BY <1>2, <1>4, <1>5 DEF SubQuery, Entries

LEMMA SubGroupKeeps == ASSUME SubInv, NEW t \in Rsvrs, SubGroup(t) PROVE SubInv'
  BY AddToGroupKeeps DEF SubGroup

LEMMA SubKeeps == SubInv /\ (SubNext \/ UNCHANGED subVars) => SubInv'
  <1> SUFFICES ASSUME SubInv, SubNext \/ UNCHANGED subVars PROVE SubInv'
    OBVIOUS
  <1>1. ASSUME SubNext PROVE SubInv'
    BY <1>1, SubReqKeeps, SubQueryKeeps, SubInsertKeeps, SubRecordKeeps, SubUndoKeeps,
       SubCloseKeeps, FreeItemKeeps, FreeDoneKeeps, SubGroupKeeps
       DEF SubNext, RsvrSubStep
  <1>2. ASSUME UNCHANGED subVars PROVE SubInv'
    BY <1>2 DEF SubInv, subVars, SubTypes, HandlesOwn, ListFits, Agrees, Listed, GroupsKnown,
                GroupsFull, Members
  <1> QED
    BY <1>1, <1>2

\* A thread that tries again to add a group has the entry's lock, without which no
\* other thread takes the entry out of the table.
EntryKept == \A t \in Rsvrs : at[t].do = "group" => at[t].type \in tab

LEMMA LeaveKeepsEntry ==
    ASSUME EntryKept, NEW t \in Rsvrs, NEW ty, Unlocked(ty),
           tab' = tab \/ \E c : Leave(c, ty),
           \A u \in Rsvrs \ {t} : at'[u] = at[u], at'[t].do # "group"
    PROVE  EntryKept'
  <1>1. tab \ {ty} \subseteq tab'
    BY DEF Leave
  <1>2. \A u \in Rsvrs : at[u].do = "group" => at[u].type # ty
    BY DEF Unlocked
  <1> QED
    BY <1>1, <1>2 DEF EntryKept

LEMMA EntryStays ==
    ASSUME EntryKept, NEW t \in Rsvrs, tab \subseteq tab',
           \A u \in Rsvrs \ {t} : at'[u] = at[u],
           at'[t].do = "group" => at'[t].type \in tab'
    PROVE  EntryKept'
  BY DEF EntryKept

LEMMA Turned ==
    ASSUME SubTypes, NEW t \in Rsvrs, NEW c, NEW ty, NEW do, Go(t, do, c, ty)
    PROVE  /\ at'[t].do = do /\ at'[t].type = ty
           /\ \A u \in Rsvrs \ {t} : at'[u] = at[u]
  BY DEF SubTypes, Go

LEMMA Freed ==
    ASSUME SubTypes, NEW t \in Rsvrs, NEW c, Freeing(t, c)
    PROVE  at'[t].do = "free" /\ \A u \in Rsvrs \ {t} : at'[u] = at[u]
  BY DEF SubTypes, Freeing

LEMMA EntryKeeps ==
    ASSUME SubInv, EntryKept, SubNext \/ UNCHANGED subVars
    PROVE  EntryKept'
  <1>0. SubTypes
    BY DEF SubInv
  <1>1. CASE UNCHANGED subVars
    BY <1>1 DEF EntryKept, subVars
  <1>2. ASSUME NEW t \in Rsvrs, NEW c \in Subs, NEW ty \in Types, SubReq(t, c, ty) PROVE EntryKept'
    <2>1. at'[t].do = "query" /\ \A u \in Rsvrs \ {t} : at'[u] = at[u]
      BY <1>0, <1>2, Turned DEF SubReq
    <2> QED
      BY <1>2, <2>1, EntryStays DEF SubReq, Entries
  <1>3. ASSUME NEW t \in Rsvrs, NEW c \in Subs, SubClose(t, c) PROVE EntryKept'
    <2>1. at'[t].do = "free" /\ \A u \in Rsvrs \ {t} : at'[u] = at[u]
      BY <1>0, <1>3, Freed DEF SubClose
    <2> QED
      BY <1>3, <2>1, EntryStays DEF SubClose, Entries
  <1>4. ASSUME NEW t \in Rsvrs, at[t].do \in {"query", "group"}, AddToGroup(t, at[t].sck, at[t].type)
        PROVE  EntryKept'
    <2>1. /\ \A u \in Rsvrs \ {t} : at'[u] = at[u]
          /\ at'[t].do = "group" => at'[t].type = at[t].type
      <3>1. CASE Freeing(t, at[t].sck)
        BY <1>0, <3>1, Freed
      <3>2. CASE \E do \in {"record", "group"} : Go(t, do, at[t].sck, at[t].type)
        BY <1>0, <3>2, Turned
      <3> QED
        BY <1>4, <3>1, <3>2 DEF AddToGroup
    <2>2. at[t].type \in tab /\ tab' = tab
      BY <1>4 DEF AddToGroup
    <2> QED
      BY <2>1, <2>2, EntryStays
  <1>5. ASSUME NEW t \in Rsvrs, SubQuery(t) PROVE EntryKept'
    <2>1. CASE AddToGroup(t, at[t].sck, at[t].type)
      BY <1>4, <1>5, <2>1 DEF SubQuery
    <2>2. CASE Go(t, "insert", at[t].sck, at[t].type) /\ tab' = tab
      <3>1. at'[t].do = "insert" /\ \A u \in Rsvrs \ {t} : at'[u] = at[u]
        BY <1>0, <2>2, Turned
      <3> QED
        BY <2>2, <3>1, EntryStays
    <2> QED
      BY <1>5, <2>1, <2>2 DEF SubQuery, Entries
  <1>6. ASSUME NEW t \in Rsvrs, SubInsert(t) PROVE EntryKept'
    <2>1. CASE Freeing(t, at[t].sck) /\ tab' = tab
      <3>1. at'[t].do = "free" /\ \A u \in Rsvrs \ {t} : at'[u] = at[u]
        BY <1>0, <2>1, Freed
      <3> QED
        BY <2>1, <3>1, EntryStays
    <2>2. CASE Go(t, "query", at[t].sck, at[t].type) /\ tab \subseteq tab'
      <3>1. at'[t].do = "query" /\ \A u \in Rsvrs \ {t} : at'[u] = at[u]
        BY <1>0, <2>2, Turned
      <3> QED
        BY <2>2, <3>1, EntryStays
    <2> QED
      BY <1>6, <2>1, <2>2 DEF SubInsert
  <1>7. ASSUME NEW t \in Rsvrs, SubRecord(t) PROVE EntryKept'
    <2>1. at'[t].do # "group" /\ \A u \in Rsvrs \ {t} : at'[u] = at[u]
      <3>1. CASE at' = [at EXCEPT ![t] = Idle]
        BY <1>0, <3>1, TurnsIdle DEF Idle
      <3>2. CASE Go(t, "undo", at[t].sck, at[t].type)
        BY <1>0, <3>2, Turned
      <3> QED
        BY <1>7, <3>1, <3>2 DEF SubRecord
    <2> QED
      BY <1>7, <2>1, EntryStays DEF SubRecord, Entries
  <1>8. ASSUME NEW t \in Rsvrs, SubUndo(t) PROVE EntryKept'
    <2>1. Freeing(t, at[t].sck) /\ Unlocked(at[t].type)
      BY <1>8 DEF SubUndo
    <2>2. at'[t].do = "free" /\ \A u \in Rsvrs \ {t} : at'[u] = at[u]
      BY <1>0, <2>1, Freed
    <2>3. tab' = tab \/ Leave(at[t].sck, at[t].type)
      BY <1>8 DEF SubUndo, Entries
    <2> QED
      BY <2>1, <2>2, <2>3, LeaveKeepsEntry
  <1>9. ASSUME NEW t \in Rsvrs, NEW ty \in Types, FreeItem(t, ty) PROVE EntryKept'
    <2>1. at[t] \in Deleting /\ at' = [at EXCEPT ![t].left = @ \ {ty}]
      BY <1>0, <1>9, InHand DEF FreeItem
    <2>2. at'[t].do # "group" /\ \A u \in Rsvrs \ {t} : at'[u] = at[u]
      BY <1>0, <2>1 DEF SubTypes, Deleting
    <2>3. tab' = tab \/ Leave(at[t].sck, ty)
      BY <1>9 DEF FreeItem, Entries
    <2> QED
      BY <1>9, <2>2, <2>3, LeaveKeepsEntry DEF FreeItem
  <1>10. ASSUME NEW t \in Rsvrs, FreeDone(t) PROVE EntryKept'
    <2>1. at'[t].do # "group" /\ \A u \in Rsvrs \ {t} : at'[u] = at[u]
      BY <1>0, <1>10, TurnsIdle DEF FreeDone, Idle
    <2> QED
      BY <1>10, <2>1, EntryStays DEF FreeDone, Entries
  <1>11. ASSUME NEW t \in Rsvrs, SubGroup(t) PROVE EntryKept'
    BY <1>4, <1>11 DEF SubGroup
  <1> QED
    BY <1>1, <1>2, <1>3, <1>5, <1>6, <1>7, <1>8, <1>9, <1>10, <1>11 DEF SubNext, RsvrSubStep

\* A publication has a member of each group to choose, when no group is empty.
LEMMA CanPick ==
    ASSUME SubInv, ~noMem, NEW ty \in Types
    PROVE  Picks(ty) # {}
  <1> DEFINE one(g) == CHOOSE c : c \in Members(ty, g)
             cs == {one(g) : g \in groups[ty]}
  <1>1. ASSUME NEW g \in groups[ty] PROVE one(g) \in Members(ty, g)
    BY <1>1 DEF SubInv, GroupsFull
  <1>2. \A g \in groups[ty] : one(g) \in nodes[ty] /\ GidOfSub[one(g)] = g
    BY <1>1 DEF Members
  <1>3. ASSUME NEW g \in groups[ty] PROVE Cardinality(cs \cap Members(ty, g)) = 1
    <2>1. cs \cap Members(ty, g) = {one(g)}
      <3>1. one(g) \in cs \cap Members(ty, g)
        BY <1>1, <1>3
      <3>2. ASSUME NEW x \in cs \cap Members(ty, g) PROVE x = one(g)
        <4>1. PICK h \in groups[ty] : x = one(h)
          BY <3>2
        <4>2. GidOfSub[x] = g
          BY <3>2 DEF Members
        <4>3. h = g
          BY <1>2, <4>1, <4>2
        <4> QED
          BY <4>1, <4>3
      <3> QED
        BY <3>1, <3>2
    <2> QED
      BY <2>1, FS_Singleton
  <1>4. cs \in SUBSET nodes[ty]
    BY <1>2
  <1> HIDE DEF cs
  <1> QED
    BY <1>3, <1>4 DEF Picks

LEMMA SubGives == SubInv /\ EntryKept => SubExact
  <1> SUFFICES ASSUME SubInv, EntryKept PROVE SubExact
    OBVIOUS
  <1>1. stuck = {} /\ GroupsKnown
    BY DEF SubInv
  <1>2. ASSUME NEW c \in Subs, ~Busy(c)
        PROVE  subList[c] = {ty \in Types : c \in nodes[ty]} /\ (c \notin open => subList[c] = {})
    BY <1>2, SubAssumption DEF SubInv, ListFits, Listed, Busy
  <1>3. \A ty \in Types : nodes[ty] # {} => ty \in tab
    BY <1>1 DEF GroupsKnown
  <1>4. PublishReaches
    BY CanPick DEF PublishReaches, SubInv, GroupsFull
  <1> QED
    BY <1>1, <1>2, <1>3, <1>4 DEF SubExact, GroupsKnown, EntryKept

\* Whatever the threads insert and remove at the same time, no subscription outlives its
\* connection, none is lost, no lock is forgotten, the entry stays of a thread that tries
\* again to add a group, and with memory every publication has a member of each group to
\* choose (rtmq_sub_query, rtmq_sub_add, rtmq_sub_del).
THEOREM SubscriptionsExact == Spec => []SubExact
  <1>1. Init => SubInv /\ EntryKept
    BY SubInitially DEF Init, SubInit, EntryKept, Idle
  <1>2. SubInv /\ EntryKept /\ [Next]_vars => (SubInv /\ EntryKept)'
    BY SubKeeps, EntryKeeps, StepsApart
  <1> QED
    BY <1>1, <1>2, SubGives, PTL DEF Spec

-----------------------------------------------------------------------------
(* The shared segment. *)

\* Where the only creator is, c: it looks for the segment of an older one, or makes
\* one of its own.
Looking == {"no", "read", "at"}
Writing == {"rmid", "open", "write", "close"}
Making == {"new"} \cup Writing

ShmOptTypes ==
    /\ file \in [st : {"none", "empty", "torn", "ok"}, id : Segs \cup {0}, size : SegSizes \cup {0}]
    /\ seg \in [Segs -> SegSizes \cup {0}]
    /\ marked \in SUBSET Segs
    /\ att \in [Users -> Segs \cup {0}]
    /\ opt \in [Users -> [do : Looking \cup {"get"} \cup Making,
                          id : Segs \cup {0}, size : SegSizes \cup {0}]]

\* The segments that somebody knows of were made, and those that can be asked for will
\* not outlast the processes attached to them.
KnownSegs ==
    /\ \A s \in marked : seg[s] # 0
    /\ \A p \in Users : att[p] # 0 => seg[att[p]] # 0
    /\ file.st = "ok" => file.id \in marked /\ file.size = seg[file.id]
    /\ \A p \in Users : opt[p].do = "at" => opt[p].id \in marked

CreatorLooks(c) ==
    /\ opt[c].do # "no" => opt[c].size \in SegSizes
    /\ opt[c].do \in {"read", "at", "get", "new"} => att[c] = 0
    /\ opt[c].do = "at" => file.st = "ok" /\ file.id = opt[c].id
    /\ opt[c].do \in Looking =>
          \A p \in Users : att[p] # 0 => file.st = "ok" /\ att[p] = file.id

\* Nobody else is attached while the creator makes a segment, and nobody can be.
CreatorMakes(c) ==
    /\ opt[c].do \in {"get"} \cup Making => \A p \in Attachers : att[p] = 0
    /\ opt[c].do \in Making =>
          /\ opt[c].id \in Segs /\ seg[opt[c].id] = opt[c].size
          /\ \A p \in Attachers : opt[p].do = "at" => opt[p].id # opt[c].id
    /\ opt[c].do = "new" => opt[c].id \notin marked
    /\ opt[c].do \in Writing => att[c] = opt[c].id
    /\ opt[c].do \in {"open", "write", "close"} => opt[c].id \in marked
    /\ opt[c].do \in {"new", "rmid", "open"} => (file.st = "ok" => file.id # opt[c].id)
    /\ opt[c].do = "write" => file.st = "empty"
    /\ opt[c].do = "close" => file.st = "torn"

ShmOptFor(c) ==
    /\ ShmOptTypes
    /\ \A p \in Attachers : opt[p].do \in Looking
    /\ KnownSegs
    /\ CreatorLooks(c)
    /\ CreatorMakes(c)

ShmOptInv == \A c \in Creators : Creators = {c} => ShmOptFor(c)

LEMMA ShmOptInitially == ShmOptInit => ShmOptInv
  <1> SUFFICES ASSUME ShmOptInit, NEW c \in Creators, Creators = {c}
               PROVE  ShmOptFor(c)
    BY DEF ShmOptInv
  <1>1. /\ file = [st |-> "none", id |-> 0, size |-> 0]
        /\ seg = [s \in Segs |-> 0] /\ marked = {}
        /\ att = [p \in Users |-> 0]
        /\ opt = [p \in Users |-> [do |-> "no", id |-> 0, size |-> 0]]
        /\ c \in Users /\ Attachers \subseteq Users
    BY DEF ShmOptInit, File, Step, Returned, Users
  <1>2. ShmOptTypes
    BY <1>1 DEF ShmOptTypes, Looking
  <1> QED
    BY <1>1, <1>2 DEF Looking, Making, Writing, ShmOptFor, KnownSegs, CreatorLooks, CreatorMakes

LEMMA ShmUsers ==
    ASSUME NEW c, Creators = {c}
    PROVE  /\ c \in Users /\ Users = {c} \cup Attachers /\ c \notin Attachers
           /\ Segs \subseteq Nat \ {0} /\ 0 \notin SegSizes
  BY ShmOptAssumption DEF Users, Segs

LEMMA ShmCreatKeeps ==
    ASSUME NEW c, Creators = {c}, ShmOptFor(c), NEW p \in Creators, NEW size \in SegSizes, ShmCreat(p, size)
    PROVE  ShmOptFor(c)'
  <1>1. p \in Users /\ c \in Users /\ Users = {c} \cup Attachers /\ c \notin Attachers
    BY ShmUsers
  <1>2. Segs \subseteq Nat \ {0} /\ 0 \notin SegSizes
    BY ShmUsers
  <1>3. /\ ShmOptTypes /\ KnownSegs /\ CreatorLooks(c) /\ CreatorMakes(c)
        /\ \A q \in Attachers : opt[q].do \in Looking
    BY DEF ShmOptFor
  <1> USE DEF Goes, File, Step, Returned, Exists, ShmOptTypes, Looking, Making, Writing, KnownSegs,
              CreatorLooks, CreatorMakes
  <1>4. ShmOptTypes'
    BY <1>1, <1>2, <1>3 DEF ShmCreat
  <1>5. \A q \in Attachers : opt'[q].do \in Looking
    BY <1>1, <1>3, <1>4 DEF ShmCreat
  <1>6. KnownSegs'
    BY <1>1, <1>2, <1>3, <1>4 DEF ShmCreat
  <1>7. CreatorLooks(c)'
    BY <1>1, <1>2, <1>3, <1>4 DEF ShmCreat
  <1>8. CreatorMakes(c)'
    BY <1>1, <1>2, <1>3, <1>4 DEF ShmCreat
  <1> QED
    BY <1>4, <1>5, <1>6, <1>7, <1>8 DEF ShmOptFor

LEMMA ShmAttachKeeps ==
    ASSUME NEW c, Creators = {c}, ShmOptFor(c), NEW p \in Attachers, ShmAttach(p)
    PROVE  ShmOptFor(c)'
  <1>1. p \in Users /\ c \in Users /\ Users = {c} \cup Attachers /\ c \notin Attachers
    BY ShmUsers
  <1>2. Segs \subseteq Nat \ {0} /\ 0 \notin SegSizes
    BY ShmUsers
  <1>3. /\ ShmOptTypes /\ KnownSegs /\ CreatorLooks(c) /\ CreatorMakes(c)
        /\ \A q \in Attachers : opt[q].do \in Looking
    BY DEF ShmOptFor
  <1> USE DEF Goes, File, Step, Returned, Exists, ShmOptTypes, Looking, Making, Writing, KnownSegs,
              CreatorLooks, CreatorMakes
  <1>4. ShmOptTypes'
    BY <1>1, <1>2, <1>3 DEF ShmAttach
  <1>5. \A q \in Attachers : opt'[q].do \in Looking
    BY <1>1, <1>3, <1>4 DEF ShmAttach
  <1>6. KnownSegs'
    BY <1>1, <1>2, <1>3, <1>4 DEF ShmAttach
  <1>7. CreatorLooks(c)'
    BY <1>1, <1>2, <1>3, <1>4 DEF ShmAttach
  <1>8. CreatorMakes(c)'
    BY <1>1, <1>2, <1>3, <1>4 DEF ShmAttach
  <1> QED
    BY <1>4, <1>5, <1>6, <1>7, <1>8 DEF ShmOptFor

LEMMA ShmDataReadKeeps ==
    ASSUME NEW c, Creators = {c}, ShmOptFor(c), NEW p \in Users, ShmDataRead(p)
    PROVE  ShmOptFor(c)'
  <1>1. p \in Users /\ c \in Users /\ Users = {c} \cup Attachers /\ c \notin Attachers
    BY ShmUsers
  <1>2. Segs \subseteq Nat \ {0} /\ 0 \notin SegSizes
    BY ShmUsers
  <1>3. /\ ShmOptTypes /\ KnownSegs /\ CreatorLooks(c) /\ CreatorMakes(c)
        /\ \A q \in Attachers : opt[q].do \in Looking
    BY DEF ShmOptFor
  <1> USE DEF Goes, File, Step, Returned, Exists, ShmOptTypes, Looking, Making, Writing, KnownSegs,
              CreatorLooks, CreatorMakes
  <1>4. ShmOptTypes'
    BY <1>1, <1>2, <1>3 DEF ShmDataRead
  <1>5. \A q \in Attachers : opt'[q].do \in Looking
    BY <1>1, <1>3, <1>4 DEF ShmDataRead
  <1>6. KnownSegs'
    BY <1>1, <1>2, <1>3, <1>4 DEF ShmDataRead
  <1>7. CreatorLooks(c)'
    BY <1>1, <1>2, <1>3, <1>4 DEF ShmDataRead
  <1>8. CreatorMakes(c)'
    BY <1>1, <1>2, <1>3, <1>4 DEF ShmDataRead
  <1> QED
    BY <1>4, <1>5, <1>6, <1>7, <1>8 DEF ShmOptFor

LEMMA ShmAtKeeps ==
    ASSUME NEW c, Creators = {c}, ShmOptFor(c), NEW p \in Users, ShmAt(p)
    PROVE  ShmOptFor(c)'
  <1>1. p \in Users /\ c \in Users /\ Users = {c} \cup Attachers /\ c \notin Attachers
    BY ShmUsers
  <1>2. Segs \subseteq Nat \ {0} /\ 0 \notin SegSizes
    BY ShmUsers
  <1>3. /\ ShmOptTypes /\ KnownSegs /\ CreatorLooks(c) /\ CreatorMakes(c)
        /\ \A q \in Attachers : opt[q].do \in Looking
    BY DEF ShmOptFor
  <1> USE DEF Goes, File, Step, Returned, Exists, ShmOptTypes, Looking, Making, Writing, KnownSegs,
              CreatorLooks, CreatorMakes
  <1>4. ShmOptTypes'
    BY <1>1, <1>2, <1>3 DEF ShmAt
  <1>5. \A q \in Attachers : opt'[q].do \in Looking
    BY <1>1, <1>3, <1>4 DEF ShmAt
  <1>6. KnownSegs'
    BY <1>1, <1>2, <1>3, <1>4 DEF ShmAt
  <1>7. CreatorLooks(c)'
    BY <1>1, <1>2, <1>3, <1>4 DEF ShmAt
  <1>8. CreatorMakes(c)'
    BY <1>1, <1>2, <1>3, <1>4 DEF ShmAt
  <1> QED
    BY <1>4, <1>5, <1>6, <1>7, <1>8 DEF ShmOptFor

LEMMA ShmGetKeeps ==
    ASSUME NEW c, Creators = {c}, ShmOptFor(c), NEW p \in Users, ShmGet(p)
    PROVE  ShmOptFor(c)'
  <1>1. p \in Users /\ c \in Users /\ Users = {c} \cup Attachers /\ c \notin Attachers
    BY ShmUsers
  <1>2. Segs \subseteq Nat \ {0} /\ 0 \notin SegSizes
    BY ShmUsers
  <1>3. /\ ShmOptTypes /\ KnownSegs /\ CreatorLooks(c) /\ CreatorMakes(c)
        /\ \A q \in Attachers : opt[q].do \in Looking
    BY DEF ShmOptFor
  <1> USE DEF Goes, File, Step, Returned, Exists, ShmOptTypes, Looking, Making, Writing, KnownSegs,
              CreatorLooks, CreatorMakes
  <1>4. ShmOptTypes'
    BY <1>1, <1>2, <1>3 DEF ShmGet
  <1>5. \A q \in Attachers : opt'[q].do \in Looking
    BY <1>1, <1>3, <1>4 DEF ShmGet
  <1>6. KnownSegs'
    BY <1>1, <1>2, <1>3, <1>4 DEF ShmGet
  <1>7. CreatorLooks(c)'
    BY <1>1, <1>2, <1>3, <1>4 DEF ShmGet
  <1>8. CreatorMakes(c)'
    BY <1>1, <1>2, <1>3, <1>4 DEF ShmGet
  <1> QED
    BY <1>4, <1>5, <1>6, <1>7, <1>8 DEF ShmOptFor

LEMMA ShmAtNewKeeps ==
    ASSUME NEW c, Creators = {c}, ShmOptFor(c), NEW p \in Users, ShmAtNew(p)
    PROVE  ShmOptFor(c)'
  <1>1. p \in Users /\ c \in Users /\ Users = {c} \cup Attachers /\ c \notin Attachers
    BY ShmUsers
  <1>2. Segs \subseteq Nat \ {0} /\ 0 \notin SegSizes
    BY ShmUsers
  <1>3. /\ ShmOptTypes /\ KnownSegs /\ CreatorLooks(c) /\ CreatorMakes(c)
        /\ \A q \in Attachers : opt[q].do \in Looking
    BY DEF ShmOptFor
  <1> USE DEF Goes, File, Step, Returned, Exists, ShmOptTypes, Looking, Making, Writing, KnownSegs,
              CreatorLooks, CreatorMakes
  <1>4. ShmOptTypes'
    BY <1>1, <1>2, <1>3 DEF ShmAtNew
  <1>5. \A q \in Attachers : opt'[q].do \in Looking
    BY <1>1, <1>3, <1>4 DEF ShmAtNew
  <1>6. KnownSegs'
    BY <1>1, <1>2, <1>3, <1>4 DEF ShmAtNew
  <1>7. CreatorLooks(c)'
    BY <1>1, <1>2, <1>3, <1>4 DEF ShmAtNew
  <1>8. CreatorMakes(c)'
    BY <1>1, <1>2, <1>3, <1>4 DEF ShmAtNew
  <1> QED
    BY <1>4, <1>5, <1>6, <1>7, <1>8 DEF ShmOptFor

LEMMA ShmRmidKeeps ==
    ASSUME NEW c, Creators = {c}, ShmOptFor(c), NEW p \in Users, ShmRmid(p)
    PROVE  ShmOptFor(c)'
  <1>1. p \in Users /\ c \in Users /\ Users = {c} \cup Attachers /\ c \notin Attachers
    BY ShmUsers
  <1>2. Segs \subseteq Nat \ {0} /\ 0 \notin SegSizes
    BY ShmUsers
  <1>3. /\ ShmOptTypes /\ KnownSegs /\ CreatorLooks(c) /\ CreatorMakes(c)
        /\ \A q \in Attachers : opt[q].do \in Looking
    BY DEF ShmOptFor
  <1> USE DEF Goes, File, Step, Returned, Exists, ShmOptTypes, Looking, Making, Writing, KnownSegs,
              CreatorLooks, CreatorMakes
  <1>4. ShmOptTypes'
    BY <1>1, <1>2, <1>3 DEF ShmRmid
  <1>5. \A q \in Attachers : opt'[q].do \in Looking
    BY <1>1, <1>3, <1>4 DEF ShmRmid
  <1>6. KnownSegs'
    BY <1>1, <1>2, <1>3, <1>4 DEF ShmRmid
  <1>7. CreatorLooks(c)'
    BY <1>1, <1>2, <1>3, <1>4 DEF ShmRmid
  <1>8. CreatorMakes(c)'
    BY <1>1, <1>2, <1>3, <1>4 DEF ShmRmid
  <1> QED
    BY <1>4, <1>5, <1>6, <1>7, <1>8 DEF ShmOptFor

LEMMA ShmDataWriteKeeps ==
    ASSUME NEW c, Creators = {c}, ShmOptFor(c), NEW p \in Users, ShmDataWrite(p)
    PROVE  ShmOptFor(c)'
  <1>1. p \in Users /\ c \in Users /\ Users = {c} \cup Attachers /\ c \notin Attachers
    BY ShmUsers
  <1>2. Segs \subseteq Nat \ {0} /\ 0 \notin SegSizes
    BY ShmUsers
  <1>3. /\ ShmOptTypes /\ KnownSegs /\ CreatorLooks(c) /\ CreatorMakes(c)
        /\ \A q \in Attachers : opt[q].do \in Looking
    BY DEF ShmOptFor
  <1> USE DEF Goes, File, Step, Returned, Exists, ShmOptTypes, Looking, Making, Writing, KnownSegs,
              CreatorLooks, CreatorMakes
  <1>4. ShmOptTypes'
    BY <1>1, <1>2, <1>3 DEF ShmDataWrite
  <1>5. \A q \in Attachers : opt'[q].do \in Looking
    BY <1>1, <1>3, <1>4 DEF ShmDataWrite
  <1>6. KnownSegs'
    BY <1>1, <1>2, <1>3, <1>4 DEF ShmDataWrite
  <1>7. CreatorLooks(c)'
    BY <1>1, <1>2, <1>3, <1>4 DEF ShmDataWrite
  <1>8. CreatorMakes(c)'
    BY <1>1, <1>2, <1>3, <1>4 DEF ShmDataWrite
  <1> QED
    BY <1>4, <1>5, <1>6, <1>7, <1>8 DEF ShmOptFor

LEMMA CrashKeeps ==
    ASSUME NEW c, Creators = {c}, ShmOptFor(c), NEW p \in Users, Crash(p)
    PROVE  ShmOptFor(c)'
  <1>1. p \in Users /\ c \in Users /\ Users = {c} \cup Attachers /\ c \notin Attachers
    BY ShmUsers
  <1>2. Segs \subseteq Nat \ {0} /\ 0 \notin SegSizes
    BY ShmUsers
  <1>3. /\ ShmOptTypes /\ KnownSegs /\ CreatorLooks(c) /\ CreatorMakes(c)
        /\ \A q \in Attachers : opt[q].do \in Looking
    BY DEF ShmOptFor
  <1> USE DEF Goes, File, Step, Returned, Exists, ShmOptTypes, Looking, Making, Writing, KnownSegs,
              CreatorLooks, CreatorMakes
  <1>4. ShmOptTypes'
    BY <1>1, <1>2, <1>3 DEF Crash
  <1>5. \A q \in Attachers : opt'[q].do \in Looking
    BY <1>1, <1>3, <1>4 DEF Crash
  <1>6. KnownSegs'
    BY <1>1, <1>2, <1>3, <1>4 DEF Crash
  <1>7. CreatorLooks(c)'
    BY <1>1, <1>2, <1>3, <1>4 DEF Crash
  <1>8. CreatorMakes(c)'
    BY <1>1, <1>2, <1>3, <1>4 DEF Crash
  <1> QED
    BY <1>4, <1>5, <1>6, <1>7, <1>8 DEF ShmOptFor

LEMMA ShmOptKeeps == ShmOptInv /\ (ShmOptNext \/ UNCHANGED shmOptVars) => ShmOptInv'
  <1> SUFFICES ASSUME ShmOptInv, ShmOptNext \/ UNCHANGED shmOptVars,
                      NEW c \in Creators, Creators = {c}
               PROVE  ShmOptFor(c)'
    BY DEF ShmOptInv
  <1>1. ShmOptFor(c)
    BY DEF ShmOptInv
  <1>2. ASSUME ShmOptNext PROVE ShmOptFor(c)'
    BY <1>1, <1>2, ShmCreatKeeps, ShmAttachKeeps, ShmDataReadKeeps, ShmAtKeeps, ShmGetKeeps,
       ShmAtNewKeeps, ShmRmidKeeps, ShmDataWriteKeeps, CrashKeeps
       DEF ShmOptNext
  <1>3. ASSUME UNCHANGED shmOptVars PROVE ShmOptFor(c)'
    BY <1>1, <1>3 DEF shmOptVars, ShmOptFor, ShmOptTypes, KnownSegs, CreatorLooks, CreatorMakes
  <1> QED
    BY <1>2, <1>3

LEMMA ShmOptGives == ShmOptInv => ShmShared
  <1> SUFFICES ASSUME ShmOptInv, Cardinality(Creators) = 1
               PROVE  /\ \A p, q \in Users : att[p] # 0 /\ att[q] # 0 => att[p] = att[q]
                      /\ \A p \in Attachers : att[p] # 0 =>
                            file.st = "ok" /\ file.id = att[p] /\ file.size = seg[att[p]]
    BY DEF ShmShared
  <1>1. PICK c \in Creators : Creators = {c}
    BY ShmOptAssumption, FS_Singleton
  <1>2. ShmOptFor(c) /\ ShmOptTypes /\ opt[c].do \in Looking \cup {"get"} \cup Making
    BY <1>1, ShmUsers DEF ShmOptInv, ShmOptFor, ShmOptTypes
  <1>3. c \in Users /\ Users = {c} \cup Attachers
    BY <1>1, ShmUsers
  <1>4. CASE opt[c].do \in Looking
    BY <1>2, <1>3, <1>4 DEF ShmOptFor, KnownSegs, CreatorLooks
  <1>5. CASE opt[c].do \notin Looking
    BY <1>2, <1>3, <1>5 DEF ShmOptFor, CreatorMakes
  <1> QED
    BY <1>4, <1>5

\* With one creator all that are attached share one segment, of the size its creator
\* asked for, whoever crashes, and wherever, and starts again (shm_creat, shm_attach).
THEOREM SegmentShared == Spec => []ShmShared
  <1>1. Init => ShmOptInv
    BY ShmOptInitially DEF Init
  <1>2. ShmOptInv /\ [Next]_vars => ShmOptInv'
    BY ShmOptKeeps, StepsApart
  <1> QED
    BY <1>1, <1>2, ShmOptGives, PTL DEF Spec

-----------------------------------------------------------------------------
(* Sequences. *)

LEMMA SeqFacts ==
    ASSUME NEW S, NEW s \in Seq(S)
    PROVE  /\ Len(s) \in Nat /\ DOMAIN s = 1..Len(s)
           /\ s = <<>> <=> Len(s) = 0
           /\ \A i \in 1..Len(s) : s[i] \in S
  OBVIOUS

\* The two parts of a sequence that is cut.
LEMMA Cut ==
    ASSUME NEW S, NEW s \in Seq(S), NEW k \in 0..Len(s)
    PROVE  /\ SubSeq(s, 1, k) \in Seq(S) /\ Len(SubSeq(s, 1, k)) = k
           /\ \A i \in 1..k : i \in 1..Len(s) /\ SubSeq(s, 1, k)[i] = s[i]
           /\ SubSeq(s, k + 1, Len(s)) \in Seq(S)
           /\ Len(SubSeq(s, k + 1, Len(s))) = Len(s) - k
           /\ \A i \in 1..(Len(s) - k) : k + i \in 1..Len(s) /\ SubSeq(s, k + 1, Len(s))[i] = s[k + i]
  OBVIOUS

LEMMA Join ==
    ASSUME NEW S, NEW s \in Seq(S), NEW t \in Seq(S)
    PROVE  /\ s \o t \in Seq(S) /\ Len(s \o t) = Len(s) + Len(t)
           /\ \A i \in 1..Len(s) : (s \o t)[i] = s[i]
           /\ \A i \in 1..Len(t) : (s \o t)[Len(s) + i] = t[i]
           /\ \A i \in 1..Len(s \o t) :
                 i \in 1..Len(s) \/ \E j \in 1..Len(t) : i = Len(s) + j /\ (s \o t)[i] = t[j]
  OBVIOUS

LEMMA Longer ==
    ASSUME NEW S, NEW s \in Seq(S), NEW x \in S
    PROVE  /\ Append(s, x) \in Seq(S) /\ Len(Append(s, x)) = Len(s) + 1
           /\ \A i \in 1..Len(s) : Append(s, x)[i] = s[i]
           /\ Append(s, x)[Len(s) + 1] = x
  OBVIOUS

LEMMA Shorter ==
    ASSUME NEW S, NEW s \in Seq(S), s # <<>>
    PROVE  /\ Head(s) \in S /\ Head(s) = s[1] /\ Tail(s) \in Seq(S) /\ Len(Tail(s)) = Len(s) - 1
           /\ 1 \in 1..Len(s)
           /\ \A i \in 1..Len(Tail(s)) : i + 1 \in 1..Len(s) /\ Tail(s)[i] = s[i + 1]
  OBVIOUS

-----------------------------------------------------------------------------
(* The sending side of sdtp: what its variables hold. *)

Reqs == {AuthReq, KpaliveReq}
UnitsOf(S) == S \X {1, 2}

\* A message is a head and a body, one after the other.
LEMMA Halves ==
    ASSUME NEW k \in Nat \ {0}
    PROVE  LET j == (k + 1) \div 2
               h == IF k % 2 = 1 THEN 1 ELSE 2
           IN  j \in Nat \ {0} /\ h \in {1, 2} /\ k = 2 * (j - 1) + h
  OBVIOUS

LEMMA HalfOf ==
    ASSUME NEW j \in Nat \ {0}, NEW h \in {1, 2}
    PROVE  LET k == 2 * (j - 1) + h
           IN  k \in Nat \ {0} /\ (k + 1) \div 2 = j /\ h = IF k % 2 = 1 THEN 1 ELSE 2
  OBVIOUS

LEMMA UnitsAre ==
    ASSUME NEW S, NEW ms \in Seq(S)
    PROVE  /\ Units(ms) \in Seq(UnitsOf(S)) /\ Len(Units(ms)) = 2 * Len(ms)
           /\ \A k \in 1..2 * Len(ms) :
                 /\ (k + 1) \div 2 \in 1..Len(ms)
                 /\ Units(ms)[k] = <<ms[(k + 1) \div 2], IF k % 2 = 1 THEN 1 ELSE 2>>
  <1> DEFINE U(k) == <<ms[(k + 1) \div 2], IF k % 2 = 1 THEN 1 ELSE 2>>
             n == 2 * Len(ms)
  <1>1. n \in Nat
    BY SeqFacts
  <1>2. ASSUME NEW k \in 1..n PROVE (k + 1) \div 2 \in 1..Len(ms)
    BY SeqFacts
  <1>3. ASSUME NEW k \in 1..n PROVE U(k) \in UnitsOf(S)
    <2>1. ms[(k + 1) \div 2] \in S
      BY <1>2, SeqFacts
    <2> QED
      BY <2>1 DEF UnitsOf
  <1>4. Units(ms) = [k \in 1..n |-> U(k)]
    BY DEF Units
  <1> HIDE DEF U, n
  <1>5. [k \in 1..n |-> U(k)] \in Seq(UnitsOf(S)) /\ Len([k \in 1..n |-> U(k)]) = n
    BY <1>1, <1>3
  <1> QED
    BY <1>2, <1>4, <1>5 DEF U, n

SenderTypes ==
    /\ page \in [Pages -> [mode : {"WR", "RD"}, data : Seq(Mesgs)]]
    /\ cli \in [Clients -> [next : Nat \ {0},
                            at : {Away, Unattached} \cup [idx : Pages, left : Nat \ {0}]]]
    /\ cur \in Pages \cup {0}
    /\ fd \in Nat /\ conns \in Nat
    /\ sendType \in {"SYS", "EXP"}
    /\ mesgList \in Seq(Reqs) /\ sys \in Seq(UnitsOf(Reqs))
    /\ exp \in [page : Pages \cup {0}, o : Nat, n : Nat]
    /\ wire \in Seq(UnitsOf(Mesgs \cup Reqs)) /\ begun \in Seq(UnitsOf(Mesgs \cup Reqs))
    /\ sent \in [UnitsOf(Mesgs) -> Nat]
    /\ accepted \in SUBSET Mesgs /\ lost \in SUBSET UnitsOf(Mesgs)

\* The thread writes from one buffer at a time, and looks for a page only when both are
\* empty and every page takes messages.
SdtpControl ==
    /\ pc \in {"wait", "send", "push", "scan", "take"} => fd # 0
    /\ pc \in {"scan", "take"} =>
          /\ mesgList = <<>> /\ sys = <<>> /\ exp.page = 0 /\ cur \in Pages
          /\ \A p \in Pages : page[p].mode = "WR"
    /\ pc = "take" => page[cur].data # <<>>
    /\ sys # <<>> => sendType = "SYS"
    /\ exp.page # 0 => sendType = "EXP"
    /\ exp.page = 0 => exp.o = 0 /\ exp.n = 0
    /\ exp.page # 0 =>
          /\ exp.o < exp.n /\ exp.n = 2 * Len(page[exp.page].data)
          /\ page[exp.page].mode = "RD"

SdtpBase == SenderTypes /\ SdtpControl

LEMMA SdtpBounds ==
    /\ Pages \subseteq Nat \ {0} /\ 0 \notin Pages
    /\ SysBuff \in Nat \ {0} /\ PageSize \in Nat \ {0}
    /\ \A p \in Pages : (p % NumPages) + 1 \in Pages
  BY SdtpSendAssumption DEF Pages

LEMMA SdtpInitially == SdtpInit => SdtpBase
  <1> SUFFICES ASSUME SdtpInit PROVE SdtpBase
    OBVIOUS
  <1>1. /\ page = [p \in Pages |-> [mode |-> "WR", data |-> <<>>]]
        /\ cli = [c \in Clients |-> [next |-> 1, at |-> Unattached]]
        /\ pc = "none" /\ cur = 0 /\ fd = 0 /\ sendType = "SYS"
        /\ mesgList = <<>> /\ sys = <<>> /\ exp = [page |-> 0, o |-> 0, n |-> 0] /\ conns = 0
        /\ wire = <<>> /\ begun = <<>> /\ lost = {} /\ accepted = {}
        /\ sent = [u \in UnitsOf(Mesgs) |-> 0]
    BY DEF SdtpInit, UnitsOf
  <1>2. \A S : <<>> \in Seq(S)
    OBVIOUS
  <1>3. SenderTypes
    BY <1>1, <1>2 DEF SenderTypes
  <1> QED
    BY <1>1, <1>3 DEF SdtpBase, SdtpControl

LEMMA PagesHold ==
    ASSUME SenderTypes, NEW p \in Pages
    PROVE  /\ page[p].data \in Seq(Mesgs) /\ page[p].mode \in {"WR", "RD"}
           /\ page[p] = [mode |-> page[p].mode, data |-> page[p].data]
  BY DEF SenderTypes

\* What is left to write of the page being sent.
LEMMA UnsentAre ==
    ASSUME SdtpBase, exp.page # 0
    PROVE  LET us == Units(page[exp.page].data)
           IN  /\ exp.page \in Pages /\ exp.o \in Nat /\ exp.n \in Nat /\ exp.o < exp.n
               /\ us \in Seq(UnitsOf(Mesgs)) /\ Len(us) = exp.n
               /\ Unsent \in Seq(UnitsOf(Mesgs)) /\ Len(Unsent) = exp.n - exp.o
               /\ Unsent = SubSeq(us, exp.o + 1, exp.n)
               /\ \A i \in 1..(exp.n - exp.o) : exp.o + i \in 1..exp.n /\ Unsent[i] = us[exp.o + i]
  <1> DEFINE us == Units(page[exp.page].data)
  <1>1. /\ exp.page \in Pages /\ exp.o \in Nat /\ exp.n \in Nat /\ exp.o < exp.n
        /\ exp.n = 2 * Len(page[exp.page].data)
    BY DEF SdtpBase, SenderTypes, SdtpControl
  <1>2. page[exp.page].data \in Seq(Mesgs)
    BY <1>1, PagesHold DEF SdtpBase
  <1>3. us \in Seq(UnitsOf(Mesgs)) /\ Len(us) = exp.n
    BY <1>1, <1>2, UnitsAre
  <1>4. Unsent = SubSeq(us, exp.o + 1, exp.n)
    BY DEF Unsent
  <1> HIDE DEF us
  <1>5. /\ SubSeq(us, exp.o + 1, exp.n) \in Seq(UnitsOf(Mesgs))
        /\ Len(SubSeq(us, exp.o + 1, exp.n)) = exp.n - exp.o
        /\ \A i \in 1..(exp.n - exp.o) :
              exp.o + i \in 1..exp.n /\ SubSeq(us, exp.o + 1, exp.n)[i] = us[exp.o + i]
    <2>1. exp.o \in 0..Len(us)
      BY <1>1, <1>3
    <2>2. /\ SubSeq(us, exp.o + 1, Len(us)) \in Seq(UnitsOf(Mesgs))
          /\ Len(SubSeq(us, exp.o + 1, Len(us))) = Len(us) - exp.o
          /\ \A i \in 1..(Len(us) - exp.o) :
                exp.o + i \in 1..Len(us) /\ SubSeq(us, exp.o + 1, Len(us))[i] = us[exp.o + i]
      BY <1>3, <2>1, Cut
    <2> QED
      BY <1>3, <2>2
  <1> QED
    BY <1>1, <1>3, <1>4, <1>5 DEF us

LEMMA SdsdCliInitBase ==
    ASSUME SdtpBase, NEW c \in Clients, SdsdCliInit(c)
    PROVE  SdtpBase'
  <1>1. /\ cli' = [cli EXCEPT ![c] = [next |-> cli[c].next, at |-> Away]]
        /\ UNCHANGED <<page, accepted, pc, cur, linkVars>>
    <2>1. [cli[c] EXCEPT !.at = Away] = [next |-> cli[c].next, at |-> Away]
      BY DEF SdtpBase, SenderTypes
    <2> QED
      BY <2>1 DEF SdsdCliInit
  <1>2. [next |-> cli[c].next, at |-> Away] \in
           [next : Nat \ {0}, at : {Away, Unattached} \cup [idx : Pages, left : Nat \ {0}]]
    BY DEF SdtpBase, SenderTypes
  <1> QED
    BY <1>1, <1>2 DEF SdtpBase, SenderTypes, SdtpControl, linkVars, histVars

LEMMA PageAgesBase ==
    ASSUME SdtpBase, NEW p \in Pages, PageAges(p)
    PROVE  SdtpBase'
  BY DEF SdtpBase, SenderTypes, SdtpControl, PageAges, linkVars, histVars, poolVars

LEMMA StartBase ==
    ASSUME SdtpBase, SsvrInit \/ Launch \/ SelectWrite
    PROVE  SdtpBase'
  BY DEF SdtpBase, SenderTypes, SdtpControl, SsvrInit, Launch, SelectWrite, linkVars, histVars, poolVars

LEMMA RecvCmdBase ==
    ASSUME SdtpBase, RecvCmd
    PROVE  SdtpBase'
  BY DEF SdtpBase, SenderTypes, SdtpControl, RecvCmd, ProcCmd, linkVars, histVars, poolVars

LEMMA RecvProcBase ==
    ASSUME SdtpBase, RecvProc
    PROVE  SdtpBase'
  BY DEF SdtpBase, SenderTypes, SdtpControl, RecvProc, DataProc, histVars, poolVars

LEMMA TimeoutHdlBase ==
    ASSUME SdtpBase, TimeoutHdl
    PROVE  SdtpBase'
  <1>1. SenderTypes /\ SdtpControl
    BY DEF SdtpBase
  <1>2. /\ pc' = "top" /\ UNCHANGED <<poolVars, cur, conns, sendType, exp, histVars>>
        /\ fd' \in Nat
        /\ mesgList' \in {mesgList, Append(mesgList, KpaliveReq)} /\ sys' \in {sys, <<>>}
    BY <1>1 DEF TimeoutHdl, SenderTypes
  <1>3. mesgList' \in Seq(Reqs) /\ sys' \in Seq(UnitsOf(Reqs))
    <2>1. KpaliveReq \in Reqs /\ mesgList \in Seq(Reqs) /\ sys \in Seq(UnitsOf(Reqs))
      BY <1>1 DEF Reqs, SenderTypes
    <2>2. Append(mesgList, KpaliveReq) \in Seq(Reqs)
      BY <2>1, Longer
    <2>3. <<>> \in Seq(UnitsOf(Reqs))
      OBVIOUS
    <2> QED
      BY <1>2, <2>1, <2>2, <2>3
  <1> QED
    BY <1>1, <1>2, <1>3 DEF SdtpBase, SenderTypes, SdtpControl, poolVars, histVars

LEMMA PoolScanBase ==
    ASSUME SdtpBase, PoolScan
    PROVE  SdtpBase'
  <1>1. SenderTypes /\ SdtpControl /\ pc = "scan"
    BY DEF SdtpBase, PoolScan
  <1>2. cur \in Pages /\ page[cur].data \in Seq(Mesgs)
    BY <1>1, PagesHold DEF SdtpControl
  <1>3. Ready(cur) => page[cur].data # <<>>
    BY <1>2, SdtpBounds DEF Ready
  <1>4. cur < NumPages => cur + 1 \in Pages
    BY <1>2, SdtpSendAssumption DEF Pages
  <1>5. UNCHANGED <<poolVars, linkVars>>
    BY DEF PoolScan
  <1>6. /\ pc' \in {"take", "scan", "wait"} /\ cur' \in Pages \cup {0}
        /\ pc' = "take" => cur' = cur /\ Ready(cur)
        /\ pc' = "scan" => cur' \in Pages
    BY <1>1, <1>2, <1>4 DEF PoolScan
  <1> QED
    BY <1>1, <1>2, <1>3, <1>5, <1>6 DEF SdtpBase, SenderTypes, SdtpControl, poolVars, linkVars, histVars

LEMMA PoolTakeBase ==
    ASSUME SdtpBase, PoolTake
    PROVE  SdtpBase'
  <1>1. SenderTypes /\ SdtpControl /\ pc = "take" /\ cur \in Pages
    BY DEF SdtpBase, SdtpControl, PoolTake
  <1>2. page[cur].data \in Seq(Mesgs) /\ page[cur].data # <<>> /\ sys = <<>>
    BY <1>1, PagesHold DEF SdtpControl
  <1>3. Len(page[cur].data) \in Nat /\ Len(page[cur].data) > 0
    BY <1>2, SeqFacts
  <1>4. /\ page' = [page EXCEPT ![cur].mode = "RD"]
        /\ sendType' = "EXP" /\ pc' = "wait" /\ cur' = 0
        /\ exp' = [page |-> cur, o |-> 0, n |-> 2 * Len(page[cur].data)]
        /\ UNCHANGED <<cli, accepted, fd, conns, mesgList, sys, histVars>>
    BY DEF PoolTake
  <1>5. page'[cur].data = page[cur].data /\ page'[cur].mode = "RD"
    BY <1>1, <1>4 DEF SenderTypes
  <1>6. SenderTypes'
    <2>1. exp' \in [page : Pages \cup {0}, o : Nat, n : Nat]
      BY <1>1, <1>3, <1>4
    <2>2. page' \in [Pages -> [mode : {"WR", "RD"}, data : Seq(Mesgs)]]
      BY <1>1, <1>4 DEF SenderTypes
    <2> QED
      BY <1>1, <1>4, <2>1, <2>2 DEF SenderTypes, histVars
  <1>7. SdtpControl'
    BY <1>1, <1>2, <1>3, <1>4, <1>5, SdtpBounds DEF SdtpControl
  <1> QED
    BY <1>6, <1>7 DEF SdtpBase

LEMMA ConnectBase ==
    ASSUME SdtpBase, Connect
    PROVE  SdtpBase'
  <1>1. SenderTypes /\ SdtpControl
    BY DEF SdtpBase
  <1>2. /\ pc = "top" /\ fd' = conns + 1 /\ conns' = conns + 1 /\ wire' = <<>>
        /\ mesgList' \in {Append(<<>>, AuthReq), <<>>}
        /\ begun' = sys \o (IF exp.page = 0 THEN <<>> ELSE Unsent) \o Units(mesgList')
        /\ UNCHANGED <<poolVars, pc, cur, sendType, sys, exp, sent, lost>>
    BY DEF Connect, ClearMesg
  <1>3. mesgList' \in Seq(Reqs)
    <2>1. AuthReq \in Reqs /\ <<>> \in Seq(Reqs)
      BY DEF Reqs
    <2>2. Append(<<>>, AuthReq) \in Seq(Reqs)
      BY <2>1, Longer
    <2> QED
      BY <1>2, <2>1, <2>2
  <1>4. begun' \in Seq(UnitsOf(Mesgs \cup Reqs))
    <2> DEFINE left == IF exp.page = 0 THEN <<>> ELSE Unsent
    <2>1. sys \in Seq(UnitsOf(Mesgs \cup Reqs))
      BY <1>1 DEF SenderTypes, UnitsOf
    <2>2. Units(mesgList') \in Seq(UnitsOf(Mesgs \cup Reqs))
      <3>1. mesgList' \in Seq(Mesgs \cup Reqs)
        BY <1>3
      <3> QED
        BY <3>1, UnitsAre
    <2>3. left \in Seq(UnitsOf(Mesgs \cup Reqs))
      <3>1. exp.page # 0 => Unsent \in Seq(UnitsOf(Mesgs \cup Reqs))
        BY UnsentAre DEF UnitsOf
      <3> QED
        BY <3>1
    <2>4. begun' = sys \o left \o Units(mesgList')
      BY <1>2
    <2> HIDE DEF left
    <2> QED
      BY <2>1, <2>2, <2>3, <2>4
  <1> QED
    BY <1>1, <1>2, <1>3, <1>4 DEF SdtpBase, SenderTypes, SdtpControl, poolVars

LEMMA SwitchSendBuffBase ==
    ASSUME SdtpBase, SwitchSendBuff
    PROVE  SdtpBase'
  <1>1. SenderTypes /\ SdtpControl /\ pc = "top" /\ fd # 0
    BY DEF SdtpBase, SwitchSendBuff
  <1>2. UNCHANGED <<cli, accepted, fd, conns, mesgList, sys, exp, histVars>>
    BY DEF SwitchSendBuff
  <1>3. exp.o = exp.n <=> exp.page = 0
    BY <1>1 DEF SenderTypes, SdtpControl
  <1>4. CASE /\ StaysWithSys \/ StaysWithExp \/ TurnsToSys
             /\ sendType' = IF TurnsToSys THEN "SYS" ELSE sendType
             /\ pc' = "wait"
             /\ UNCHANGED <<page, old, cur>>
    <2>1. TurnsToSys => exp.page = 0
      BY <1>3 DEF TurnsToSys
    <2> QED
      BY <1>1, <1>2, <1>4, <2>1 DEF SdtpBase, SenderTypes, SdtpControl, histVars
  <1>5. CASE /\ ~(StaysWithSys \/ StaysWithExp \/ TurnsToSys)
             /\ page' = [p \in Pages |-> IF page[p].mode = "RD"
                                         THEN [mode |-> "WR", data |-> <<>>] ELSE page[p]]
             /\ cur' = 1 /\ pc' = "scan" /\ UNCHANGED sendType
    <2>1. mesgList = <<>> /\ sys = <<>> /\ exp.page = 0
      BY <1>1, <1>3, <1>5 DEF StaysWithSys, StaysWithExp, TurnsToSys, SdtpControl, SenderTypes
    <2>2. \A p \in Pages : page'[p] \in [mode : {"WR", "RD"}, data : Seq(Mesgs)] /\ page'[p].mode = "WR"
      <3> SUFFICES ASSUME NEW p \in Pages
                   PROVE  page'[p] \in [mode : {"WR", "RD"}, data : Seq(Mesgs)] /\ page'[p].mode = "WR"
        OBVIOUS
      <3>1. <<>> \in Seq(Mesgs)
        OBVIOUS
      <3>2. [mode |-> "WR", data |-> <<>>] \in [mode : {"WR", "RD"}, data : Seq(Mesgs)]
        BY <3>1
      <3>3. page[p] \in [mode : {"WR", "RD"}, data : Seq(Mesgs)]
        BY <1>1 DEF SenderTypes
      <3> QED
        BY <1>5, <3>2, <3>3
    <2>3. page' \in [Pages -> [mode : {"WR", "RD"}, data : Seq(Mesgs)]]
      BY <1>5, <2>2
    <2>4. 1 \in Pages
      BY SdtpSendAssumption DEF Pages
    <2> QED
      BY <1>1, <1>2, <1>5, <2>1, <2>2, <2>3, <2>4 DEF SdtpBase, SenderTypes, SdtpControl, histVars
  <1> QED
    BY <1>4, <1>5 DEF SwitchSendBuff

\* A client puts its next message into a page that takes it, or looks at the next page.
LEMMA PushesOrMoves ==
    ASSUME SenderTypes, NEW c \in Clients, PoolPush(c)
    PROVE  /\ UNCHANGED <<pc, cur, linkVars>>
           /\ cli[c].next <= NumMesgs /\ <<c, cli[c].next>> \in Mesgs
           /\ \/ \E p \in Pages :
                    /\ HasRoom(p)
                    /\ page' = [page EXCEPT ![p].data = Append(@, <<c, cli[c].next>>)]
                    /\ accepted' = accepted \cup {<<c, cli[c].next>>}
                    /\ cli' = [cli EXCEPT ![c] = [next |-> cli[c].next + 1, at |-> Away]]
              \/ /\ UNCHANGED <<page, accepted>>
                 /\ \E spot \in {Away, Unattached} \cup [idx : Pages, left : Nat \ {0}] :
                       cli' = [cli EXCEPT ![c] = [next |-> cli[c].next, at |-> spot]]
  <1>1. /\ cli[c].next \in Nat \ {0}
        /\ cli[c].at \in {Away, Unattached} \cup [idx : Pages, left : Nat \ {0}]
        /\ cli[c].next <= NumMesgs /\ cli[c].at # Unattached
    BY DEF SenderTypes, PoolPush
  <1>2. <<c, cli[c].next>> \in Mesgs
    BY <1>1, SdtpSendAssumption DEF Mesgs
  <1>3. PICK spot \in IF cli[c].at # Away THEN {cli[c].at}
                    ELSE {[idx |-> p, left |-> NumPages] : p \in Pages} :
          \/ /\ HasRoom(spot.idx)
             /\ page' = [page EXCEPT ![spot.idx].data = Append(@, <<c, cli[c].next>>)]
             /\ accepted' = accepted \cup {<<c, cli[c].next>>}
             /\ cli' = [cli EXCEPT ![c] = [next |-> @.next + 1, at |-> Away]]
          \/ /\ ~HasRoom(spot.idx)
             /\ cli' = [cli EXCEPT ![c].at =
                          IF spot.left = 1 THEN Away
                          ELSE [idx |-> (spot.idx % NumPages) + 1, left |-> spot.left - 1]]
             /\ UNCHANGED <<page, accepted>>
    BY DEF PoolPush
  <1>4. spot.idx \in Pages /\ spot.left \in Nat \ {0}
    BY <1>1, SdtpSendAssumption
  <1>5. CASE /\ HasRoom(spot.idx)
             /\ page' = [page EXCEPT ![spot.idx].data = Append(@, <<c, cli[c].next>>)]
             /\ accepted' = accepted \cup {<<c, cli[c].next>>}
             /\ cli' = [cli EXCEPT ![c] = [next |-> @.next + 1, at |-> Away]]
    <2>1. cli' = [cli EXCEPT ![c] = [next |-> cli[c].next + 1, at |-> Away]]
      BY <1>5 DEF SenderTypes
    <2> QED
      BY <1>1, <1>2, <1>4, <1>5, <2>1 DEF PoolPush
  <1>6. CASE /\ cli' = [cli EXCEPT ![c].at =
                          IF spot.left = 1 THEN Away
                          ELSE [idx |-> (spot.idx % NumPages) + 1, left |-> spot.left - 1]]
             /\ UNCHANGED <<page, accepted>>
    <2> DEFINE next == IF spot.left = 1 THEN Away
                       ELSE [idx |-> (spot.idx % NumPages) + 1, left |-> spot.left - 1]
    <2>1. next \in {Away, Unattached} \cup [idx : Pages, left : Nat \ {0}]
      <3>1. (spot.idx % NumPages) + 1 \in Pages
        BY <1>4, SdtpBounds
      <3>2. spot.left # 1 => spot.left - 1 \in Nat \ {0}
        BY <1>4
      <3> QED
        BY <3>1, <3>2
    <2> HIDE DEF next
    <2>2. [cli[c] EXCEPT !.at = next] = [next |-> cli[c].next, at |-> next]
      BY DEF SenderTypes
    <2>3. cli' = [cli EXCEPT ![c] = [next |-> cli[c].next, at |-> next]]
      BY <1>6, <2>2 DEF next
    <2> QED
      BY <1>1, <1>2, <1>6, <2>1, <2>3 DEF PoolPush
  <1> QED
    BY <1>3, <1>5, <1>6

LEMMA PoolPushBase ==
    ASSUME SdtpBase, NEW c \in Clients, PoolPush(c)
    PROVE  SdtpBase'
  <1>1. SenderTypes /\ SdtpControl
    BY DEF SdtpBase
  <1>2. UNCHANGED <<pc, cur, linkVars>> /\ <<c, cli[c].next>> \in Mesgs
    BY <1>1, PushesOrMoves
  <1>3. ASSUME NEW p \in Pages, HasRoom(p),
               page' = [page EXCEPT ![p].data = Append(@, <<c, cli[c].next>>)],
               accepted' = accepted \cup {<<c, cli[c].next>>},
               cli' = [cli EXCEPT ![c] = [next |-> cli[c].next + 1, at |-> Away]]
        PROVE  SdtpBase'
    <2>1. page[p].data \in Seq(Mesgs) /\ page[p].mode = "WR"
      BY <1>1, <1>3, PagesHold DEF HasRoom
    <2>2. Append(page[p].data, <<c, cli[c].next>>) \in Seq(Mesgs)
      BY <1>2, <2>1, Longer
    <2>3. page' = [page EXCEPT ![p] = [mode |-> "WR", data |-> Append(page[p].data, <<c, cli[c].next>>)]]
      <3>1. [page[p] EXCEPT !.data = Append(page[p].data, <<c, cli[c].next>>)]
                = [mode |-> "WR", data |-> Append(page[p].data, <<c, cli[c].next>>)]
        <4> DEFINE d == Append(page[p].data, <<c, cli[c].next>>)
        <4>1. page[p] = [mode |-> "WR", data |-> page[p].data]
          BY <1>1, <2>1, PagesHold
        <4> HIDE DEF d
        <4>2. [page[p] EXCEPT !.data = d] = [mode |-> "WR", data |-> d]
          BY <4>1
        <4> QED
          BY <4>2 DEF d
      <3> QED
        BY <1>3, <3>1
    <2>4. /\ page' \in [Pages -> [mode : {"WR", "RD"}, data : Seq(Mesgs)]]
          /\ \A q \in Pages \ {p} : page'[q] = page[q]
          /\ page'[p].mode = "WR" /\ page'[p].data # <<>>
      <3>1. Append(page[p].data, <<c, cli[c].next>>) # <<>>
        <4>1. Len(Append(page[p].data, <<c, cli[c].next>>)) = Len(page[p].data) + 1
          BY <1>2, <2>1, Longer
        <4>2. Len(page[p].data) \in Nat
          BY <2>1
        <4> QED
          BY <2>2, <4>1, <4>2
      <3> HIDE DEF HasRoom
      <3> QED
        BY <1>1, <2>2, <2>3, <3>1 DEF SenderTypes
    <2>5. cli' \in [Clients -> [next : Nat \ {0},
                                at : {Away, Unattached} \cup [idx : Pages, left : Nat \ {0}]]]
      BY SMTT(40), <1>1, <1>3 DEF SenderTypes
    <2>6. SenderTypes'
      BY <1>1, <1>2, <1>3, <2>4, <2>5 DEF SenderTypes, linkVars, histVars
    <2>7. exp.page # p
      BY <1>1, <2>1, SdtpBounds DEF SdtpControl
    <2>8. SdtpControl'
      BY <1>1, <1>2, <2>1, <2>4, <2>7 DEF SenderTypes, SdtpControl, linkVars
    <2> QED
      BY <2>6, <2>8 DEF SdtpBase
  <1>4. ASSUME UNCHANGED <<page, accepted>>,
               NEW spot \in {Away, Unattached} \cup [idx : Pages, left : Nat \ {0}],
               cli' = [cli EXCEPT ![c] = [next |-> cli[c].next, at |-> spot]]
        PROVE  SdtpBase'
    <2>1. cli' \in [Clients -> [next : Nat \ {0},
                                at : {Away, Unattached} \cup [idx : Pages, left : Nat \ {0}]]]
      BY <1>1, <1>4 DEF SenderTypes
    <2> QED
      BY <1>1, <1>2, <1>4, <2>1 DEF SdtpBase, SenderTypes, SdtpControl, linkVars, histVars
  <1> QED
    BY <1>1, <1>3, <1>4, PushesOrMoves

-----------------------------------------------------------------------------
(* The sending side of sdtp: what a write does. *)

\* The buffer the thread writes its requests from: what was left in it, or the
\* requests it takes out of the list.
LEMMA FilledBuffer ==
    ASSUME SdtpBase
    PROVE  LET f == FillSendBuff
               take == IF Len(mesgList) < SysBuff THEN Len(mesgList) ELSE SysBuff
           IN  /\ f.buff \in Seq(UnitsOf(Reqs)) /\ f.list \in Seq(Reqs)
               /\ sys # <<>> => f.buff = sys /\ f.list = mesgList
               /\ sys = <<>> =>
                     /\ take \in 0..Len(mesgList) /\ (mesgList # <<>> => take > 0)
                     /\ f.buff = Units(SubSeq(mesgList, 1, take))
                     /\ f.list = SubSeq(mesgList, take + 1, Len(mesgList))
  <1> DEFINE take == IF Len(mesgList) < SysBuff THEN Len(mesgList) ELSE SysBuff
  <1>1. sys \in Seq(UnitsOf(Reqs)) /\ mesgList \in Seq(Reqs)
    BY DEF SdtpBase, SenderTypes
  <1>2. take \in 0..Len(mesgList) /\ (mesgList # <<>> => take > 0)
    BY <1>1, SeqFacts, SdtpBounds
  <1> HIDE DEF take
  <1>3. SubSeq(mesgList, 1, take) \in Seq(Reqs) /\ SubSeq(mesgList, take + 1, Len(mesgList)) \in Seq(Reqs)
    BY <1>1, <1>2, Cut
  <1>4. Units(SubSeq(mesgList, 1, take)) \in Seq(UnitsOf(Reqs))
    BY <1>3, UnitsAre
  <1>5. CASE sys # <<>>
    <2>1. FillSendBuff = [buff |-> sys, list |-> mesgList]
      BY <1>5 DEF FillSendBuff
    <2> QED
      BY <1>1, <1>5, <2>1
  <1>6. CASE sys = <<>>
    <2>1. FillSendBuff = [buff |-> Units(SubSeq(mesgList, 1, take)),
                          list |-> SubSeq(mesgList, take + 1, Len(mesgList))]
      BY <1>6 DEF FillSendBuff, take
    <2> QED
      BY <1>2, <1>3, <1>4, <1>6, <2>1 DEF take
  <1> QED
    BY <1>5, <1>6

\* The four things a call of the write handler may do.
NothingToSend(next) ==
    /\ pc' = next
    /\ UNCHANGED <<fd, mesgList, sys, exp, wire, sent, lost>>

ReqsSent(n) ==
    LET f == FillSendBuff
    IN  /\ n \in 1..Len(f.buff)
        /\ Written(SubSeq(f.buff, 1, n))
        /\ sys' = SubSeq(f.buff, n + 1, Len(f.buff)) /\ mesgList' = f.list
        /\ UNCHANGED <<fd, exp, lost>>

PageSent(n) ==
    /\ exp.page # 0 /\ n \in 1..exp.n - exp.o
    /\ Written(SubSeq(Unsent, 1, n))
    /\ exp' = IF exp.o + n = exp.n THEN Reset ELSE [exp EXCEPT !.o = @ + n]
    /\ UNCHANGED <<fd, mesgList, sys, lost>>

SendBreaks ==
    /\ fd' = 0 /\ UNCHANGED <<wire, sent>>
    /\ \/ /\ sendType = "SYS" /\ FillSendBuff.buff # <<>>
          /\ mesgList' = FillSendBuff.list /\ sys' = <<>> /\ UNCHANGED <<exp, lost>>
       \/ /\ exp.page # 0
          /\ exp' = Reset /\ lost' = lost \cup {Unsent[k] : k \in DOMAIN Unsent}
          /\ UNCHANGED <<mesgList, sys>>

LEMMA SendDataIs ==
    ASSUME SdtpBase, SendData
    PROVE  /\ fd # 0 /\ pc \in {"send", "push"}
           /\ UNCHANGED <<poolVars, cur, conns, sendType, kpalive, begun>>
           /\ \/ \E next \in {"cmd", "read"} : NothingToSend(next)
              \/ sendType = "SYS" /\ pc' \in {pc, "cmd", "read"} /\ \E n \in Nat : ReqsSent(n)
              \/ sendType = "EXP" /\ pc' \in {"cmd", "read"} /\ \E n \in Nat : PageSent(n)
              \/ SendBreaks /\ pc' \in {"cmd", "read"}
  <1>1. SenderTypes /\ SdtpControl
    BY DEF SdtpBase
  <1>2. PICK next \in {"cmd", "read"} :
           /\ pc \in {"send", "push"}
           /\ IF sendType = "SYS" THEN SendSysData(next) ELSE SendExpData(next)
           /\ UNCHANGED <<poolVars, old, cur, cmds>>
    BY DEF SendData
  <1>3. fd # 0
    BY <1>1, <1>2 DEF SdtpControl
  <1>4. CASE sendType = "SYS"
    <2>1. SendSysData(next) /\ UNCHANGED <<conns, sendType, exp, kpalive, begun, lost>>
      BY <1>2, <1>4 DEF SendSysData
    <2>2. CASE FillSendBuff.buff = <<>>
      BY <1>2, <1>3, <2>1, <2>2 DEF SendSysData, NothingToSend
    <2>3. CASE FillSendBuff.buff # <<>>
      <3>1. mesgList' = FillSendBuff.list
        BY <2>1, <2>3 DEF SendSysData
      <3>2. CASE Breaks /\ fd' = 0 /\ sys' = <<>> /\ pc' = next /\ UNCHANGED <<wire, sent>>
        BY <1>2, <1>3, <1>4, <2>1, <2>3, <3>1, <3>2 DEF SendBreaks
      <3>3. ASSUME NEW n \in 1..Len(FillSendBuff.buff),
                   Written(SubSeq(FillSendBuff.buff, 1, n)),
                   sys' = SubSeq(FillSendBuff.buff, n + 1, Len(FillSendBuff.buff)),
                   pc' = IF n = Len(FillSendBuff.buff) THEN pc ELSE next,
                   UNCHANGED fd
            PROVE  pc' \in {pc, "cmd", "read"} /\ \E k \in Nat : ReqsSent(k)
        <4>1. n \in Nat
          OBVIOUS
        <4>2. ReqsSent(n)
          BY <2>1, <3>1, <3>3 DEF ReqsSent
        <4> QED
          BY <3>3, <4>1, <4>2
      <3>4. \/ Breaks /\ fd' = 0 /\ sys' = <<>> /\ pc' = next /\ UNCHANGED <<wire, sent>>
            \/ \E n \in 1..Len(FillSendBuff.buff) :
                  /\ Written(SubSeq(FillSendBuff.buff, 1, n))
                  /\ sys' = SubSeq(FillSendBuff.buff, n + 1, Len(FillSendBuff.buff))
                  /\ pc' = IF n = Len(FillSendBuff.buff) THEN pc ELSE next
                  /\ UNCHANGED fd
        BY <2>1, <2>3 DEF SendSysData
      <3> QED
        BY <1>2, <1>3, <1>4, <2>1, <3>2, <3>3, <3>4
    <2> QED
      BY <2>2, <2>3
  <1>5. CASE sendType # "SYS"
    <2>1. /\ SendExpData(next) /\ pc' = next /\ sendType = "EXP"
          /\ UNCHANGED <<conns, sendType, mesgList, sys, kpalive, begun>>
      BY <1>1, <1>2, <1>5 DEF SendExpData, SenderTypes
    <2>2. exp.o = exp.n <=> exp.page = 0
      BY <1>1 DEF SenderTypes, SdtpControl
    <2>3. CASE exp.o = exp.n
      <3>1. exp' = Reset /\ UNCHANGED <<fd, wire, sent, lost>>
        BY <2>1, <2>3 DEF SendExpData
      <3>2. exp = Reset
        BY <1>1, <2>2, <2>3 DEF SenderTypes, SdtpControl, Reset
      <3> QED
        BY <1>2, <1>3, <2>1, <3>1, <3>2 DEF NothingToSend
    <2>4. CASE exp.o # exp.n
      <3>1. \/ /\ fd' = 0 /\ exp' = Reset
               /\ lost' = lost \cup {Unsent[k] : k \in DOMAIN Unsent}
               /\ UNCHANGED <<wire, sent>>
            \/ \E n \in 1 .. exp.n - exp.o :
                  /\ Written(SubSeq(Unsent, 1, n))
                  /\ exp' = IF exp.o + n = exp.n THEN Reset ELSE [exp EXCEPT !.o = @ + n]
                  /\ UNCHANGED <<fd, lost>>
        BY <2>1, <2>4 DEF SendExpData
      <3>2. ASSUME NEW n \in 1 .. exp.n - exp.o,
                   Written(SubSeq(Unsent, 1, n)),
                   exp' = IF exp.o + n = exp.n THEN Reset ELSE [exp EXCEPT !.o = @ + n],
                   UNCHANGED <<fd, lost>>
            PROVE  \E k \in Nat : PageSent(k)
        <4>1. n \in Nat
          BY <1>1 DEF SenderTypes
        <4>2. PageSent(n)
          BY <2>1, <2>2, <2>4, <3>2 DEF PageSent
        <4> QED
          BY <4>1, <4>2
      <3>3. CASE /\ fd' = 0 /\ exp' = Reset
                 /\ lost' = lost \cup {Unsent[k] : k \in DOMAIN Unsent}
                 /\ UNCHANGED <<wire, sent>>
        BY <1>2, <1>3, <2>1, <2>2, <2>4, <3>3 DEF SendBreaks
      <3> QED
        BY <1>2, <1>3, <2>1, <3>1, <3>2, <3>3
    <2> QED
      BY <2>3, <2>4
  <1> QED
    BY <1>4, <1>5

\* How often each unit was written once some more are.
LEMMA WrittenTyped ==
    ASSUME SenderTypes, NEW us \in Seq(UnitsOf(Mesgs \cup Reqs)), Written(us)
    PROVE  /\ wire' = wire \o us /\ wire' \in Seq(UnitsOf(Mesgs \cup Reqs))
           /\ sent' \in [UnitsOf(Mesgs) -> Nat]
           /\ \A u \in UnitsOf(Mesgs) :
                 sent'[u] = sent[u] + Cardinality({k \in 1..Len(us) : us[k] = u})
  <1>1. wire' = wire \o us /\ wire' \in Seq(UnitsOf(Mesgs \cup Reqs))
    BY Join DEF Written, SenderTypes
  <1>2. DOMAIN sent = UnitsOf(Mesgs) /\ DOMAIN us = 1..Len(us)
    BY DEF SenderTypes
  <1>3. sent' = [u \in UnitsOf(Mesgs) |-> sent[u] + Cardinality({k \in 1..Len(us) : us[k] = u})]
    BY <1>2 DEF Written
  <1>4. ASSUME NEW u PROVE Cardinality({k \in 1..Len(us) : us[k] = u}) \in Nat
    <2>1. IsFiniteSet(1..Len(us))
      BY FS_Interval, SeqFacts
    <2>2. IsFiniteSet({k \in 1..Len(us) : us[k] = u})
      BY <2>1, FS_Subset
    <2> QED
      BY <2>2, FS_CardinalityType
  <1>5. ASSUME NEW u \in UnitsOf(Mesgs)
        PROVE  sent[u] + Cardinality({k \in 1..Len(us) : us[k] = u}) \in Nat
    <2> DEFINE times == Cardinality({k \in 1..Len(us) : us[k] = u})
    <2>1. sent[u] \in Nat
      BY DEF SenderTypes
    <2>2. times \in Nat
      BY <1>4
    <2> HIDE DEF times
    <2>3. sent[u] + times \in Nat
      BY <2>1, <2>2
    <2> QED
      BY <2>3 DEF times
  <1> QED
    BY <1>1, <1>3, <1>5

LEMMA ReqsSentParts ==
    ASSUME SdtpBase, NEW n \in Nat, ReqsSent(n)
    PROVE  LET f == FillSendBuff
               us == SubSeq(f.buff, 1, n)
           IN  /\ n \in 0..Len(f.buff)
               /\ us \in Seq(UnitsOf(Reqs)) /\ us \in Seq(UnitsOf(Mesgs \cup Reqs))
               /\ Written(us)
               /\ sys' = SubSeq(f.buff, n + 1, Len(f.buff)) /\ sys' \in Seq(UnitsOf(Reqs))
               /\ mesgList' = f.list /\ mesgList' \in Seq(Reqs)
  <1> DEFINE b == FillSendBuff.buff
             us == SubSeq(b, 1, n)
  <1>1. b \in Seq(UnitsOf(Reqs)) /\ FillSendBuff.list \in Seq(Reqs)
    BY FilledBuffer
  <1>2. /\ n \in 0..Len(b) /\ Written(us) /\ sys' = SubSeq(b, n + 1, Len(b))
        /\ mesgList' = FillSendBuff.list
    BY <1>1, SeqFacts DEF ReqsSent
  <1> HIDE DEF b
  <1>3. us \in Seq(UnitsOf(Reqs)) /\ SubSeq(b, n + 1, Len(b)) \in Seq(UnitsOf(Reqs))
    BY <1>1, <1>2, Cut
  <1>4. us \in Seq(UnitsOf(Mesgs \cup Reqs))
    BY <1>3 DEF UnitsOf
  <1> QED
    BY <1>1, <1>2, <1>3, <1>4 DEF b

LEMMA PageSentParts ==
    ASSUME SdtpBase, NEW n \in Nat, PageSent(n)
    PROVE  LET us == SubSeq(Unsent, 1, n)
           IN  /\ n \in 1..exp.n - exp.o /\ exp.page # 0
               /\ us \in Seq(UnitsOf(Mesgs)) /\ us \in Seq(UnitsOf(Mesgs \cup Reqs))
               /\ Len(us) = n /\ \A k \in 1..n : us[k] = Units(page[exp.page].data)[exp.o + k]
               /\ Written(us)
               /\ exp' \in [page : Pages \cup {0}, o : Nat, n : Nat]
               /\ exp.o + n = exp.n =>
                     exp'.page = 0 /\ exp'.o = 0 /\ exp'.n = 0
               /\ exp.o + n # exp.n =>
                     exp'.page = exp.page /\ exp'.o = exp.o + n /\ exp'.n = exp.n
                     /\ exp.o + n < exp.n
  <1> DEFINE us == SubSeq(Unsent, 1, n)
  <1>1. n \in 1..exp.n - exp.o /\ exp.page # 0 /\ Written(us)
        /\ exp' = IF exp.o + n = exp.n THEN Reset ELSE [exp EXCEPT !.o = @ + n]
    BY DEF PageSent
  <1>2. /\ exp.o \in Nat /\ exp.n \in Nat /\ exp.o < exp.n
        /\ Unsent \in Seq(UnitsOf(Mesgs)) /\ Len(Unsent) = exp.n - exp.o
        /\ \A i \in 1..(exp.n - exp.o) :
              exp.o + i \in 1..exp.n /\ Unsent[i] = Units(page[exp.page].data)[exp.o + i]
    BY <1>1, UnsentAre
  <1>3. n \in 0..Len(Unsent)
    BY <1>1, <1>2
  <1>4. us \in Seq(UnitsOf(Mesgs)) /\ Len(us) = n /\ \A k \in 1..n : us[k] = Unsent[k]
    BY <1>2, <1>3, Cut
  <1>5. us \in Seq(UnitsOf(Mesgs \cup Reqs))
    BY <1>4 DEF UnitsOf
  <1>6. \A k \in 1..n : us[k] = Units(page[exp.page].data)[exp.o + k]
    <2> SUFFICES ASSUME NEW k \in 1..n PROVE us[k] = Units(page[exp.page].data)[exp.o + k]
      OBVIOUS
    <2>1. k \in 1..(exp.n - exp.o)
      BY <1>1, <1>2
    <2> HIDE DEF us
    <2> QED
      BY <1>2, <1>4, <2>1
  <1>7. /\ exp' \in [page : Pages \cup {0}, o : Nat, n : Nat]
        /\ exp.o + n = exp.n => exp'.page = 0 /\ exp'.o = 0 /\ exp'.n = 0
        /\ exp.o + n # exp.n =>
              exp'.page = exp.page /\ exp'.o = exp.o + n /\ exp'.n = exp.n /\ exp.o + n < exp.n
    <2>1. exp \in [page : Pages \cup {0}, o : Nat, n : Nat]
      BY DEF SdtpBase, SenderTypes
    <2>2. CASE exp.o + n = exp.n
      BY <1>1, <2>2 DEF Reset
    <2>3. CASE exp.o + n # exp.n
      <3>1. exp' = [exp EXCEPT !.o = exp.o + n]
        BY <1>1, <2>3
      <3> QED
        BY <1>1, <1>2, <2>1, <2>3, <3>1
    <2> QED
      BY <2>2, <2>3
  <1> HIDE DEF us
  <1> QED
    BY <1>1, <1>4, <1>5, <1>6, <1>7 DEF us

LEMMA SendBreaksTyped ==
    ASSUME SdtpBase, SendBreaks
    PROVE  /\ fd' = 0 /\ UNCHANGED <<wire, sent>>
           /\ mesgList' \in Seq(Reqs) /\ sys' \in Seq(UnitsOf(Reqs))
           /\ lost' \in SUBSET UnitsOf(Mesgs)
           /\ \/ /\ sys' = <<>> /\ UNCHANGED <<exp, lost>>
              \/ /\ exp.page # 0 /\ sys' = sys
                 /\ exp' = Reset /\ lost' = lost \cup {Unsent[k] : k \in 1..(exp.n - exp.o)}
  <1>1. SenderTypes
    BY DEF SdtpBase
  <1>2. CASE FillSendBuff.buff # <<>> /\ mesgList' = FillSendBuff.list /\ sys' = <<>>
             /\ UNCHANGED <<exp, lost>>
    <2>1. <<>> \in Seq(UnitsOf(Reqs))
      OBVIOUS
    <2>2. FillSendBuff.list \in Seq(Reqs)
      BY FilledBuffer
    <2> QED
      BY <1>1, <1>2, <2>1, <2>2 DEF SendBreaks, SenderTypes
  <1>3. CASE /\ exp.page # 0
             /\ exp' = Reset /\ lost' = lost \cup {Unsent[k] : k \in DOMAIN Unsent}
             /\ UNCHANGED <<mesgList, sys>>
    <2>1. Unsent \in Seq(UnitsOf(Mesgs)) /\ Len(Unsent) = exp.n - exp.o
      BY <1>3, UnsentAre
    <2>2. DOMAIN Unsent = 1..(exp.n - exp.o) /\ \A k \in 1..(exp.n - exp.o) : Unsent[k] \in UnitsOf(Mesgs)
      BY <2>1, SeqFacts
    <2> QED
      BY <1>1, <1>3, <2>2 DEF SendBreaks, SenderTypes
  <1> QED
    BY <1>2, <1>3 DEF SendBreaks

LEMMA SendDataBase ==
    ASSUME SdtpBase, SendData
    PROVE  SdtpBase'
  <1>1. SenderTypes /\ SdtpControl
    BY DEF SdtpBase
  <1>2. /\ fd # 0 /\ pc \in {"send", "push"}
        /\ UNCHANGED <<poolVars, cur, conns, sendType, kpalive, begun>>
    BY SendDataIs
  <1>3. ASSUME NEW next \in {"cmd", "read"}, NothingToSend(next) PROVE SdtpBase'
    BY <1>1, <1>2, <1>3 DEF NothingToSend, SdtpBase, SenderTypes, SdtpControl, poolVars
  <1>4. ASSUME sendType = "SYS", pc' \in {pc, "cmd", "read"}, NEW n \in Nat, ReqsSent(n)
        PROVE  SdtpBase'
    <2>1. /\ Written(SubSeq(FillSendBuff.buff, 1, n))
          /\ SubSeq(FillSendBuff.buff, 1, n) \in Seq(UnitsOf(Mesgs \cup Reqs))
          /\ sys' \in Seq(UnitsOf(Reqs)) /\ mesgList' \in Seq(Reqs)
      BY <1>4, ReqsSentParts
    <2>2. wire' \in Seq(UnitsOf(Mesgs \cup Reqs)) /\ sent' \in [UnitsOf(Mesgs) -> Nat]
      BY <1>1, <2>1, WrittenTyped
    <2>3. UNCHANGED <<fd, exp, lost>>
      BY <1>4 DEF ReqsSent
    <2> QED
      BY <1>1, <1>2, <1>4, <2>1, <2>2, <2>3 DEF SdtpBase, SenderTypes, SdtpControl, poolVars
  <1>5. ASSUME sendType = "EXP", pc' \in {"cmd", "read"}, NEW n \in Nat, PageSent(n)
        PROVE  SdtpBase'
    <2>1. /\ Written(SubSeq(Unsent, 1, n)) /\ exp.page # 0
          /\ SubSeq(Unsent, 1, n) \in Seq(UnitsOf(Mesgs \cup Reqs))
          /\ exp' \in [page : Pages \cup {0}, o : Nat, n : Nat]
          /\ exp.o + n = exp.n => exp'.page = 0 /\ exp'.o = 0 /\ exp'.n = 0
          /\ exp.o + n # exp.n =>
                exp'.page = exp.page /\ exp'.o = exp.o + n /\ exp'.n = exp.n /\ exp.o + n < exp.n
      BY <1>5, PageSentParts
    <2>2. wire' \in Seq(UnitsOf(Mesgs \cup Reqs)) /\ sent' \in [UnitsOf(Mesgs) -> Nat]
      BY <1>1, <2>1, WrittenTyped
    <2>3. UNCHANGED <<fd, mesgList, sys, lost>>
      BY <1>5 DEF PageSent
    <2>4. SenderTypes'
      BY <1>1, <1>2, <2>1, <2>2, <2>3 DEF SenderTypes, poolVars
    <2>5. SdtpControl'
      BY <1>1, <1>2, <1>5, <2>1, <2>3 DEF SdtpControl, poolVars
    <2> QED
      BY <2>4, <2>5 DEF SdtpBase
  <1>6. ASSUME SendBreaks, pc' \in {"cmd", "read"} PROVE SdtpBase'
    <2>1. /\ fd' = 0 /\ UNCHANGED <<wire, sent>>
          /\ mesgList' \in Seq(Reqs) /\ sys' \in Seq(UnitsOf(Reqs))
          /\ lost' \in SUBSET UnitsOf(Mesgs)
          /\ \/ sys' = <<>> /\ UNCHANGED <<exp, lost>>
             \/ exp.page # 0 /\ sys' = sys /\ exp' = Reset
      BY <1>6, SendBreaksTyped
    <2>2. Reset \in [page : Pages \cup {0}, o : Nat, n : Nat]
      BY DEF Reset
    <2>3. SenderTypes'
      BY <1>1, <1>2, <2>1, <2>2 DEF SenderTypes, poolVars
    <2>4. SdtpControl'
      BY <1>1, <1>2, <1>6, <2>1 DEF SdtpControl, poolVars, Reset
    <2> QED
      BY <2>3, <2>4 DEF SdtpBase
  <1> QED
    BY <1>3, <1>4, <1>5, <1>6, SendDataIs

LEMMA SdtpBaseKeeps ==
    ASSUME SdtpBase, SdtpSendNext \/ UNCHANGED sdtpVars
    PROVE  SdtpBase'
  <1>1. CASE UNCHANGED sdtpVars
    BY <1>1 DEF sdtpVars, poolVars, linkVars, histVars, SdtpBase, SenderTypes, SdtpControl
  <1> QED
    BY <1>1, SdsdCliInitBase, PoolPushBase, PageAgesBase, StartBase, ConnectBase, SwitchSendBuffBase,
       PoolScanBase, PoolTakeBase, SendDataBase, RecvCmdBase, RecvProcBase, TimeoutHdlBase
       DEF SdtpSendNext, SenderStep

-----------------------------------------------------------------------------
(* The sending side of sdtp: every unit of an accepted message is in one place. *)

\* No message is in two places of the pool, what is there was accepted, a client has
\* not made the number of an accepted message again, and a unit that is still to be
\* written was not dropped.
PagesOnce ==
    \A p, q \in Pages : \A i \in 1..Len(page[p].data), j \in 1..Len(page[q].data) :
        page[p].data[i] = page[q].data[j] => p = q /\ i = j

PagesTaken == \A p \in Pages : \A i \in 1..Len(page[p].data) : page[p].data[i] \in accepted

TakenBefore == \A m \in accepted : m[2] < cli[m[1]].next

LostTaken == \A u \in lost : u[1] \in accepted

KeptFromLoss == \A m \in Mesgs : \A h \in {1, 2} : ToWrite(m, h) => <<m, h>> \notin lost

Places == PagesOnce /\ PagesTaken /\ TakenBefore /\ LostTaken /\ KeptFromLoss /\ PoolExact

\* A unit to be written is in a page that takes messages, or among what is left of the
\* page being sent.
InPage(m) ==
    \E p \in Pages : page[p].mode = "WR" /\ \E j \in 1..Len(page[p].data) : page[p].data[j] = m

Sending(m, h) ==
    /\ exp.page # 0
    /\ \E j \in 1..Len(page[exp.page].data) :
          /\ page[exp.page].data[j] = m
          /\ exp.o < 2 * (j - 1) + h /\ 2 * (j - 1) + h <= exp.n

LEMMA ToWriteIs ==
    ASSUME SenderTypes, NEW m, NEW h \in {1, 2}
    PROVE  ToWrite(m, h) <=> InPage(m) \/ Sending(m, h)
  <1>1. \A p \in Pages : /\ DOMAIN page[p].data = 1..Len(page[p].data)
                         /\ \A j \in 1..Len(page[p].data) : 2 * (j - 1) + h \in Nat
    BY PagesHold, SeqFacts
  <1>2. exp.o \in Nat /\ exp.n \in Nat /\ exp.page \in Pages \cup {0} /\ 0 \notin Pages
    BY SdtpBounds DEF SenderTypes
  <1>3. \A p \in Pages : \A j \in 1..Len(page[p].data) :
           2 * (j - 1) + h \in exp.o + 1 .. exp.n
               <=> exp.o < 2 * (j - 1) + h /\ 2 * (j - 1) + h <= exp.n
    BY <1>1, <1>2
  <1>4. ToWrite(m, h) <=>
          \E p \in Pages : \E j \in 1..Len(page[p].data) :
              /\ page[p].data[j] = m
              /\ \/ page[p].mode = "WR"
                 \/ exp.page = p /\ exp.o < 2 * (j - 1) + h /\ 2 * (j - 1) + h <= exp.n
    BY <1>1, <1>3 DEF ToWrite
  <1> QED
    BY <1>2, <1>4 DEF InPage, Sending

LEMMA ToWriteThen ==
    ASSUME SenderTypes', NEW m, NEW h \in {1, 2}
    PROVE  ToWrite(m, h)' <=> InPage(m)' \/ Sending(m, h)'
  <1>0. ASSUME NEW p \in Pages PROVE page'[p].data \in Seq(Mesgs)
    BY DEF SenderTypes
  <1>1. \A p \in Pages : /\ DOMAIN page'[p].data = 1..Len(page'[p].data)
                         /\ \A j \in 1..Len(page'[p].data) : 2 * (j - 1) + h \in Nat
    BY <1>0, SeqFacts
  <1>2. exp'.o \in Nat /\ exp'.n \in Nat /\ exp'.page \in Pages \cup {0} /\ 0 \notin Pages
    BY SdtpBounds DEF SenderTypes
  <1>3. \A p \in Pages : \A j \in 1..Len(page'[p].data) :
           2 * (j - 1) + h \in exp'.o + 1 .. exp'.n
               <=> exp'.o < 2 * (j - 1) + h /\ 2 * (j - 1) + h <= exp'.n
    BY <1>1, <1>2
  <1>4. ToWrite(m, h)' <=>
          \E p \in Pages : \E j \in 1..Len(page'[p].data) :
              /\ page'[p].data[j] = m
              /\ \/ page'[p].mode = "WR"
                 \/ exp'.page = p /\ exp'.o < 2 * (j - 1) + h /\ 2 * (j - 1) + h <= exp'.n
    BY <1>1, <1>3 DEF ToWrite
  <1> QED
    BY <1>2, <1>4 DEF InPage, Sending

\* A step after which the same units are to be written keeps the places.
LEMMA PlacesSame ==
    ASSUME SenderTypes, Places, UNCHANGED <<page, exp, accepted, sent, lost>>,
           \A c \in Clients : cli'[c].next = cli[c].next
    PROVE  Places'
  <1>1. PagesOnce' /\ PagesTaken' /\ LostTaken'
    BY DEF Places, PagesOnce, PagesTaken, LostTaken
  <1>2. TakenBefore'
    BY DEF Places, TakenBefore, SenderTypes, Mesgs
  <1>3. ASSUME NEW m, NEW h PROVE ToWrite(m, h)' <=> ToWrite(m, h)
    BY DEF ToWrite
  <1>4. KeptFromLoss'
    BY <1>3 DEF Places, KeptFromLoss
  <1>5. PoolExact'
    BY <1>3 DEF Places, PoolExact
  <1> QED
    BY <1>1, <1>2, <1>4, <1>5 DEF Places

LEMMA PlacesInitially == SdtpInit => Places
  <1> SUFFICES ASSUME SdtpInit PROVE Places
    OBVIOUS
  <1>1. /\ \A p \in Pages : page[p].data = <<>>
        /\ lost = {} /\ accepted = {} /\ sent = [u \in UnitsOf(Mesgs) |-> 0]
    BY DEF SdtpInit, UnitsOf
  <1>2. PagesOnce /\ PagesTaken /\ TakenBefore /\ LostTaken /\ KeptFromLoss
    BY <1>1 DEF PagesOnce, PagesTaken, TakenBefore, LostTaken, KeptFromLoss
  <1>3. \A m \in Mesgs : \A h \in 1..2 : <<m, h>> \in UnitsOf(Mesgs)
    BY DEF UnitsOf
  <1>4. PoolExact
    BY <1>1, <1>3 DEF PoolExact
  <1> QED
    BY <1>2, <1>4 DEF Places

\* A client accepts no message twice, and its message waits in the page it put it into.
LEMMA PoolPushPlaces ==
    ASSUME SdtpBase, Places, NEW c \in Clients, PoolPush(c)
    PROVE  Places'
  <1>1. SenderTypes /\ SenderTypes'
    BY PoolPushBase DEF SdtpBase
  <1>2. UNCHANGED <<exp, sent, lost>>
    BY <1>1, PushesOrMoves DEF linkVars, histVars
  <1>3. <<c, cli[c].next>> \in Mesgs
    BY <1>1, PushesOrMoves
  <1>4. ASSUME NEW q \in Pages, HasRoom(q),
               page' = [page EXCEPT ![q].data = Append(@, <<c, cli[c].next>>)],
               accepted' = accepted \cup {<<c, cli[c].next>>},
               cli' = [cli EXCEPT ![c] = [next |-> cli[c].next + 1, at |-> Away]]
        PROVE  Places'
    <2> DEFINE new == <<c, cli[c].next>>
               last == Len(page[q].data) + 1
    <2>1. page[q].data \in Seq(Mesgs) /\ page[q].mode = "WR"
      BY <1>1, <1>4, PagesHold DEF HasRoom
    <2>2. new \notin accepted
      <3>1. cli[c].next \in Nat
        BY <1>1 DEF SenderTypes
      <3> QED
        BY <3>1 DEF Places, TakenBefore
    <2>3. /\ \A p \in Pages \ {q} : page'[p] = page[p]
          /\ page'[q].mode = "WR" /\ page'[q].data = Append(page[q].data, new)
      <3>1. page[q] = [mode |-> "WR", data |-> page[q].data]
        BY <1>1, <2>1, PagesHold
      <3>2. [page[q] EXCEPT !.data = Append(page[q].data, new)]
                = [mode |-> "WR", data |-> Append(page[q].data, new)]
        <4> DEFINE d == Append(page[q].data, new)
        <4> HIDE DEF d
        <4>1. [page[q] EXCEPT !.data = d] = [mode |-> "WR", data |-> d]
          BY <3>1
        <4> QED
          BY <4>1 DEF d
      <3>3. page' = [page EXCEPT ![q] = [mode |-> "WR", data |-> Append(page[q].data, new)]]
        BY <1>4, <3>2
      <3> HIDE DEF HasRoom, new
      <3> QED
        BY <1>1, <3>3 DEF SenderTypes
    <2> HIDE DEF new
    <2>4. /\ last \in Nat \ {0} /\ Len(page'[q].data) = last /\ page'[q].data[last] = new
          /\ 1..Len(page'[q].data) = 1..Len(page[q].data) \cup {last}
          /\ last \notin 1..Len(page[q].data)
          /\ \A i \in 1..Len(page[q].data) : page'[q].data[i] = page[q].data[i]
      <3>1. new \in Mesgs
        BY <1>3 DEF new
      <3>2. Len(Append(page[q].data, new)) = last /\ Append(page[q].data, new)[last] = new
            /\ \A i \in 1..Len(page[q].data) : Append(page[q].data, new)[i] = page[q].data[i]
        BY <2>1, <3>1, Longer
      <3>3. Len(page[q].data) \in Nat
        BY <2>1
      <3> HIDE DEF HasRoom
      <3> QED
        BY <2>3, <3>2, <3>3
    <2> HIDE DEF last, HasRoom
    <2>5. \A p \in Pages : \A i \in 1..Len(page[p].data) :
             page[p].data[i] \in accepted /\ page[p].data[i] # new
      BY <2>2 DEF Places, PagesTaken
    <2>6. \A p \in Pages : \A i \in 1..Len(page'[p].data) :
             \/ i \in 1..Len(page[p].data) /\ page'[p].data[i] = page[p].data[i]
             \/ p = q /\ i = last /\ page'[p].data[i] = new
      BY <2>3, <2>4
    <2>7. PagesOnce'
      <3> SUFFICES ASSUME NEW p1 \in Pages, NEW p2 \in Pages,
                          NEW i \in 1..Len(page'[p1].data), NEW j \in 1..Len(page'[p2].data),
                          page'[p1].data[i] = page'[p2].data[j]
                   PROVE  p1 = p2 /\ i = j
        BY DEF PagesOnce
      <3> QED
        BY SMTT(40), <2>5, <2>6 DEF Places, PagesOnce
    <2>8. accepted' = accepted \cup {new}
      BY <1>4 DEF new
    <2>9. PagesTaken'
      BY <2>5, <2>6, <2>8 DEF PagesTaken
    <2>10. TakenBefore'
      <3> SUFFICES ASSUME NEW m \in accepted' PROVE m[2] < cli'[m[1]].next
        BY DEF TakenBefore
      <3>1. cli \in [Clients -> [next : Nat \ {0},
                            at : {Away, Unattached} \cup [idx : Pages, left : Nat \ {0}]]]
            /\ accepted \in SUBSET Mesgs
        BY <1>1 DEF SenderTypes
      <3>2. cli'[c].next = cli[c].next + 1 /\ \A d \in Clients \ {c} : cli'[d] = cli[d]
        BY <1>4, <3>1
      <3>3. cli[c].next \in Nat
        BY <3>1
      <3>4. CASE m = new
        BY <3>2, <3>3, <3>4 DEF new
      <3>5. CASE m \in accepted
        <4>1. m[2] < cli[m[1]].next /\ m[1] \in Clients /\ m[2] \in Nat
          BY <3>1, <3>5 DEF Places, TakenBefore, Mesgs
        <4>2. cli[m[1]].next \in Nat
          BY <3>1, <4>1
        <4> QED
          BY <3>2, <3>3, <4>1, <4>2
      <3> QED
        BY <2>8, <3>4, <3>5
    <2>11. LostTaken'
      BY <1>2, <2>8 DEF Places, LostTaken
    <2>13. exp.page # 0 => exp.page # q /\ exp.page \in Pages
      BY <1>1, <2>1, SdtpBounds DEF SdtpBase, SdtpControl, SenderTypes
    <2>14. ASSUME NEW m, NEW h \in {1, 2}
           PROVE  ToWrite(m, h)' <=> ToWrite(m, h) \/ m = new
      <3>1. InPage(m)' <=> InPage(m) \/ m = new
        <4>1. InPage(m)' => InPage(m) \/ m = new
          BY SMTT(40), <2>1, <2>3, <2>6 DEF InPage
        <4>2. InPage(m) => InPage(m)'
          BY <2>3, <2>4 DEF InPage
        <4>3. m = new => InPage(m)'
          BY <2>3, <2>4 DEF InPage
        <4> QED
          BY <4>1, <4>2, <4>3
      <3>2. Sending(m, h)' <=> Sending(m, h)
        BY <1>2, <2>3, <2>13 DEF Sending
      <3> QED
        BY <1>1, <3>1, <3>2, ToWriteIs, ToWriteThen
    <2>15. KeptFromLoss'
      <3>1. \A h \in {1, 2} : <<new, h>> \notin lost
        BY <2>2 DEF Places, LostTaken
      <3> QED
        BY <1>2, <2>14, <3>1 DEF Places, KeptFromLoss
    <2>16. PoolExact'
      <3> SUFFICES ASSUME NEW m \in Mesgs, NEW h \in 1..2
                   PROVE  sent'[<<m, h>>] = IF m \notin accepted' \/ ToWrite(m, h)' \/ <<m, h>> \in lost'
                                            THEN 0 ELSE 1
        BY DEF PoolExact
      <3>1. h \in {1, 2}
        OBVIOUS
      <3>2. sent[<<m, h>>] = IF m \notin accepted \/ ToWrite(m, h) \/ <<m, h>> \in lost THEN 0 ELSE 1
        BY DEF Places, PoolExact
      <3> QED
        BY <1>2, <2>2, <2>8, <2>14, <3>1, <3>2
    <2> QED
      BY <2>7, <2>9, <2>10, <2>11, <2>15, <2>16 DEF Places
  <1>5. ASSUME UNCHANGED <<page, accepted>>,
               NEW spot \in {Away, Unattached} \cup [idx : Pages, left : Nat \ {0}],
               cli' = [cli EXCEPT ![c] = [next |-> cli[c].next, at |-> spot]]
        PROVE  Places'
    <2>1. \A d \in Clients : cli'[d].next = cli[d].next
      BY <1>1, <1>5 DEF SenderTypes
    <2> QED
      BY <1>1, <1>2, <1>5, <2>1, PlacesSame
  <1> QED
    BY <1>1, <1>4, <1>5, PushesOrMoves

\* The page taken keeps its messages, none of them written yet.
LEMMA PoolTakePlaces ==
    ASSUME SdtpBase, Places, PoolTake
    PROVE  Places'
  <1>1. SenderTypes /\ SenderTypes' /\ cur \in Pages /\ exp.page = 0
        /\ \A p \in Pages : page[p].mode = "WR"
    BY PoolTakeBase DEF SdtpBase, SdtpControl, PoolTake
  <1>2. /\ page' = [page EXCEPT ![cur].mode = "RD"]
        /\ exp' = [page |-> cur, o |-> 0, n |-> 2 * Len(page[cur].data)]
        /\ UNCHANGED <<cli, accepted, sent, lost>>
    BY DEF PoolTake, histVars
  <1>3. /\ \A p \in Pages : page'[p].data = page[p].data
        /\ \A p \in Pages \ {cur} : page'[p].mode = "WR"
        /\ page'[cur].mode = "RD"
    BY <1>1, <1>2 DEF SenderTypes
  <1>4. PagesOnce' /\ PagesTaken' /\ TakenBefore' /\ LostTaken'
    <2>1. PagesOnce'
      BY SMTT(40), <1>3 DEF Places, PagesOnce
    <2>2. PagesTaken'
      BY <1>2, <1>3 DEF Places, PagesTaken
    <2> QED
      BY <1>2, <2>1, <2>2 DEF Places, TakenBefore, LostTaken
  <1>5. ASSUME NEW m, NEW h \in {1, 2} PROVE ToWrite(m, h)' <=> ToWrite(m, h)
    <2>1. Sending(m, h)' <=> \E j \in 1..Len(page[cur].data) : page[cur].data[j] = m
      <3>1. cur # 0 /\ Len(page[cur].data) \in Nat
        BY <1>1, PagesHold, SdtpBounds
      <3>2. exp'.page = cur /\ exp'.o = 0 /\ exp'.n = 2 * Len(page[cur].data)
        BY <1>2
      <3>3. \A j \in 1..Len(page[cur].data) :
               0 < 2 * (j - 1) + h /\ 2 * (j - 1) + h <= 2 * Len(page[cur].data)
        BY <3>1
      <3> QED
        BY <1>1, <1>3, <3>1, <3>2, <3>3 DEF Sending
    <2>2. InPage(m)' <=> \E p \in Pages \ {cur} :
                               \E j \in 1..Len(page[p].data) : page[p].data[j] = m
      BY <1>1, <1>3 DEF InPage
    <2>3. ToWrite(m, h) <=> \E p \in Pages : \E j \in 1..Len(page[p].data) : page[p].data[j] = m
      BY <1>1, ToWriteIs DEF InPage, Sending
    <2> QED
      BY <1>1, <2>1, <2>2, <2>3, ToWriteThen
  <1>6. KeptFromLoss'
    BY <1>2, <1>5 DEF Places, KeptFromLoss
  <1>7. PoolExact'
    <2> SUFFICES ASSUME NEW m \in Mesgs, NEW h \in 1..2
                 PROVE  sent'[<<m, h>>] = IF m \notin accepted' \/ ToWrite(m, h)' \/ <<m, h>> \in lost'
                                          THEN 0 ELSE 1
      BY DEF PoolExact
    <2>1. ToWrite(m, h)' <=> ToWrite(m, h)
      BY <1>5
    <2>2. sent[<<m, h>>] = IF m \notin accepted \/ ToWrite(m, h) \/ <<m, h>> \in lost THEN 0 ELSE 1
      BY DEF Places, PoolExact
    <2> QED
      BY <1>2, <2>1, <2>2
  <1> QED
    BY <1>4, <1>6, <1>7 DEF Places

\* The pages given back hold nothing that is still to be written.
LEMMA SwitchSendBuffPlaces ==
    ASSUME SdtpBase, Places, SwitchSendBuff
    PROVE  Places'
  <1>1. SenderTypes /\ SdtpControl /\ SenderTypes'
    BY SwitchSendBuffBase DEF SdtpBase
  <1>2. UNCHANGED <<cli, accepted, exp, sent, lost>>
    BY DEF SwitchSendBuff, histVars
  <1>3. CASE page' = page
    BY <1>1, <1>2, <1>3, PlacesSame
  <1>4. CASE /\ ~StaysWithExp
             /\ page' = [p \in Pages |-> IF page[p].mode = "RD"
                                         THEN [mode |-> "WR", data |-> <<>>] ELSE page[p]]
    <2>1. exp.page = 0
      BY <1>1, <1>4 DEF StaysWithExp, SdtpControl, SenderTypes
    <2>2. /\ \A p \in Pages : page[p].mode = "WR" => page'[p] = page[p]
          /\ \A p \in Pages : page[p].mode # "WR" => page'[p].data = <<>>
      BY <1>1, <1>4, PagesHold
    <2>3. \A p \in Pages : \A i \in 1..Len(page'[p].data) :
             page[p].mode = "WR" /\ page'[p] = page[p]
      BY <2>2
    <2>4. PagesOnce' /\ PagesTaken'
      <3>1. \A p, q \in Pages : \A i \in 1..Len(page'[p].data), j \in 1..Len(page'[q].data) :
               page'[p].data[i] = page'[q].data[j] => p = q /\ i = j
        BY SMTT(40), <2>3 DEF Places, PagesOnce
      <3>2. \A p \in Pages : \A i \in 1..Len(page'[p].data) : page'[p].data[i] \in accepted
        BY <2>3 DEF Places, PagesTaken
      <3> QED
        BY <1>2, <3>1, <3>2 DEF PagesOnce, PagesTaken
    <2>5. TakenBefore' /\ LostTaken'
      BY <1>2 DEF Places, TakenBefore, LostTaken
    <2>6. ASSUME NEW m, NEW h \in {1, 2} PROVE ToWrite(m, h)' <=> ToWrite(m, h)
      <3>1. ~Sending(m, h) /\ ~Sending(m, h)'
        BY <1>2, <2>1 DEF Sending
      <3>2. InPage(m)' <=> InPage(m)
        BY <2>2, <2>3 DEF InPage
      <3> QED
        BY <1>1, <3>1, <3>2, ToWriteIs, ToWriteThen
    <2>7. KeptFromLoss'
      BY <1>2, <2>6 DEF Places, KeptFromLoss
    <2>8. PoolExact'
      <3> SUFFICES ASSUME NEW m \in Mesgs, NEW h \in 1..2
                   PROVE  sent'[<<m, h>>] = IF m \notin accepted' \/ ToWrite(m, h)' \/ <<m, h>> \in lost'
                                            THEN 0 ELSE 1
        BY DEF PoolExact
      <3>1. ToWrite(m, h)' <=> ToWrite(m, h)
        BY <2>6
      <3>2. sent[<<m, h>>] = IF m \notin accepted \/ ToWrite(m, h) \/ <<m, h>> \in lost THEN 0 ELSE 1
        BY DEF Places, PoolExact
      <3> QED
        BY <1>2, <3>1, <3>2
    <2> QED
      BY <2>4, <2>5, <2>7, <2>8 DEF Places
  <1> QED
    BY <1>3, <1>4 DEF SwitchSendBuff

\* A unit of the page being sent is one of the two of the message at its place.
LEMMA UnitAt ==
    ASSUME SdtpBase, exp.page # 0, NEW k \in 1..exp.n
    PROVE  \E j \in 1..Len(page[exp.page].data) : \E h \in {1, 2} :
               /\ k = 2 * (j - 1) + h
               /\ Units(page[exp.page].data)[k] = <<page[exp.page].data[j], h>>
  <1> DEFINE d == page[exp.page].data
  <1>1. exp.page \in Pages /\ exp.n = 2 * Len(d)
    BY DEF SdtpBase, SdtpControl, SenderTypes
  <1>2. d \in Seq(Mesgs)
    BY <1>1, PagesHold DEF SdtpBase
  <1> HIDE DEF d
  <1>3. /\ (k + 1) \div 2 \in 1..Len(d)
        /\ Units(d)[k] = <<d[(k + 1) \div 2], IF k % 2 = 1 THEN 1 ELSE 2>>
    BY <1>1, <1>2, UnitsAre
  <1>4. k = 2 * (((k + 1) \div 2) - 1) + (IF k % 2 = 1 THEN 1 ELSE 2)
    BY Halves
  <1> QED
    BY <1>3, <1>4 DEF d

\* Unit <<m, h>> is among the next n of the page being sent.
AmongNext(m, h, n) ==
    \E j \in 1..Len(page[exp.page].data) :
        /\ page[exp.page].data[j] = m
        /\ exp.o < 2 * (j - 1) + h /\ 2 * (j - 1) + h <= exp.o + n

LEMMA NextUnits ==
    ASSUME SdtpBase, PagesOnce, exp.page # 0, NEW n \in 0..exp.n - exp.o, NEW m, NEW h \in {1, 2}
    PROVE  /\ AmongNext(m, h, n) => \E k \in 1..n :
                 \A i \in 1..n : Units(page[exp.page].data)[exp.o + i] = <<m, h>> <=> i = k
           /\ ~AmongNext(m, h, n) => \A k \in 1..n : Units(page[exp.page].data)[exp.o + k] # <<m, h>>
  <1> DEFINE d == page[exp.page].data
             us == Units(d)
  <1>1. /\ exp.page \in Pages /\ exp.o \in Nat /\ exp.n \in Nat /\ exp.o < exp.n
        /\ \A i \in 1..(exp.n - exp.o) : exp.o + i \in 1..exp.n
    BY UnsentAre
  <1>2. n \in Nat /\ n <= exp.n - exp.o
    BY <1>1
  <1>3. \A i \in 1..n : exp.o + i \in 1..exp.n
    BY <1>1, <1>2
  <1>4. \A i \in 1..n : us[exp.o + i] = <<m, h>>
                           <=> \E j \in 1..Len(d) : d[j] = m /\ exp.o + i = 2 * (j - 1) + h
    <2> SUFFICES ASSUME NEW i \in 1..n
                 PROVE  us[exp.o + i] = <<m, h>>
                           <=> \E j \in 1..Len(d) : d[j] = m /\ exp.o + i = 2 * (j - 1) + h
      OBVIOUS
    <2>1. PICK k \in 1..exp.n : k = exp.o + i
      BY <1>3
    <2>2. PICK l \in 1..Len(d) : \E g \in {1, 2} : k = 2 * (l - 1) + g /\ us[k] = <<d[l], g>>
      BY UnitAt
    <2>3. PICK g \in {1, 2} : k = 2 * (l - 1) + g /\ us[k] = <<d[l], g>>
      BY <2>2
    <2> HIDE DEF d, us
    <2>4. ASSUME NEW j \in 1..Len(d), k = 2 * (j - 1) + h PROVE l = j /\ g = h
      <3>1. j \in Int /\ l \in Int
        OBVIOUS
      <3>2. (j - 1) \in Int /\ (l - 1) \in Int /\ 2 * (j - 1) + h = 2 * (l - 1) + g
        BY <2>3, <2>4, <3>1
      <3> QED
        BY <3>1, <3>2
    <2>5. us[k] = <<m, h>> => d[l] = m /\ k = 2 * (l - 1) + h
      BY <2>3
    <2>6. ASSUME NEW j \in 1..Len(d), d[j] = m, k = 2 * (j - 1) + h PROVE us[k] = <<m, h>>
      BY <2>3, <2>4, <2>6
    <2> QED
      BY <2>1, <2>5, <2>6
  <1>5. \A i, j \in 1..Len(d) : d[i] = d[j] => i = j
    BY <1>1 DEF PagesOnce
  <1>6. Len(d) \in Nat
    BY <1>1, PagesHold, SeqFacts DEF SdtpBase
  <1>7. AmongNext(m, h, n) <=> \E j \in 1..Len(d) : /\ d[j] = m
                                               /\ exp.o < 2 * (j - 1) + h
                                               /\ 2 * (j - 1) + h <= exp.o + n
    BY DEF AmongNext
  <1> HIDE DEF d, us
  <1>8. ASSUME AmongNext(m, h, n)
        PROVE  \E k \in 1..n : \A i \in 1..n : us[exp.o + i] = <<m, h>> <=> i = k
    <2>1. PICK j \in 1..Len(d) : /\ d[j] = m
                                 /\ exp.o < 2 * (j - 1) + h /\ 2 * (j - 1) + h <= exp.o + n
      BY <1>7, <1>8
    <2> DEFINE k == (2 * (j - 1) + h) - exp.o
    <2>2. k \in 1..n /\ exp.o + k = 2 * (j - 1) + h
      <3> DEFINE x == 2 * (j - 1) + h
      <3>1. x \in Nat
        BY <1>6
      <3>2. exp.o < x /\ x <= exp.o + n
        BY <2>1
      <3>0. k = x - exp.o
        OBVIOUS
      <3> HIDE DEF x, k
      <3>3. k \in 1..n /\ exp.o + k = x
        BY <1>1, <1>2, <3>1, <3>2, <3>0
      <3> QED
        BY <3>3 DEF x
    <2> HIDE DEF k
    <2>3. us[exp.o + k] = <<m, h>>
      BY <1>4, <2>1, <2>2
    <2>4. ASSUME NEW i \in 1..n, us[exp.o + i] = <<m, h>> PROVE i = k
      <3>1. PICK l \in 1..Len(d) : d[l] = m /\ exp.o + i = 2 * (l - 1) + h
        BY <1>4, <2>4
      <3>2. l = j
        BY <1>5, <2>1, <3>1
      <3> QED
        BY <1>1, <1>2, <2>2, <3>1, <3>2
    <2> QED
      BY <2>2, <2>3, <2>4
  <1>9. ASSUME NEW k \in 1..n, us[exp.o + k] = <<m, h>> PROVE AmongNext(m, h, n)
    <2>1. PICK j \in 1..Len(d) : d[j] = m /\ exp.o + k = 2 * (j - 1) + h
      BY <1>4, <1>9
    <2>2. exp.o < 2 * (j - 1) + h /\ 2 * (j - 1) + h <= exp.o + n
      BY <1>1, <1>2, <2>1
    <2> QED
      BY <1>7, <2>1, <2>2
  <1> QED
    BY <1>8, <1>9 DEF d, us

\* Writing or dropping the first n of what is left, and going on after them, takes them
\* out of what is to be written.
LEMMA LeavesToWrite ==
    ASSUME SdtpBase, SenderTypes', PagesOnce, exp.page # 0, NEW n \in 1..exp.n - exp.o,
           page' = page,
           \/ exp.o + n = exp.n /\ exp'.page = 0
           \/ exp'.page = exp.page /\ exp'.o = exp.o + n /\ exp'.n = exp.n,
           NEW m, NEW h \in {1, 2}
    PROVE  /\ ToWrite(m, h) <=> ToWrite(m, h)' \/ AmongNext(m, h, n)
           /\ AmongNext(m, h, n) => ~ToWrite(m, h)'
  <1> DEFINE d == page[exp.page].data
  <1>1. /\ exp.page \in Pages /\ exp.o \in Nat /\ exp.n \in Nat /\ exp.o < exp.n
        /\ n \in Nat /\ n <= exp.n - exp.o
    BY UnsentAre
  <1>2. page[exp.page].mode = "RD" /\ SenderTypes
    BY DEF SdtpBase, SdtpControl
  <1>3. Len(d) \in Nat
    BY <1>1, <1>2, PagesHold, SeqFacts
  <1>4. /\ Sending(m, h) <=> \E j \in 1..Len(d) : /\ d[j] = m
                                                  /\ exp.o < 2 * (j - 1) + h
                                                  /\ 2 * (j - 1) + h <= exp.n
        /\ AmongNext(m, h, n) <=> \E j \in 1..Len(d) : /\ d[j] = m
                                                  /\ exp.o < 2 * (j - 1) + h
                                                  /\ 2 * (j - 1) + h <= exp.o + n
    BY DEF Sending, AmongNext
  <1>5. Sending(m, h)' <=> \E j \in 1..Len(d) : /\ d[j] = m
                                                /\ exp.o + n < 2 * (j - 1) + h
                                                /\ 2 * (j - 1) + h <= exp.n
    <2>1. CASE exp.o + n = exp.n /\ exp'.page = 0
      <3>1. \A j \in 1..Len(d) : ~(exp.o + n < 2 * (j - 1) + h /\ 2 * (j - 1) + h <= exp.n)
        BY <1>1, <1>3, <2>1
      <3> QED
        BY <2>1, <3>1 DEF Sending
    <2>2. CASE exp'.page = exp.page /\ exp'.o = exp.o + n /\ exp'.n = exp.n
      BY <2>2 DEF Sending
    <2> QED
      BY <2>1, <2>2
  <1>6. \A i, j \in 1..Len(d) : d[i] = d[j] => i = j
    BY <1>1 DEF PagesOnce
  <1>7. InPage(m)' <=> InPage(m)
    BY DEF InPage
  <1>8. AmongNext(m, h, n) => ~InPage(m)
    <2>1. ASSUME NEW j \in 1..Len(d), d[j] = m,
                 NEW p \in Pages, page[p].mode = "WR", NEW i \in 1..Len(page[p].data),
                 page[p].data[i] = m
          PROVE  FALSE
      <3>1. p = exp.page
        BY <1>1, <2>1 DEF PagesOnce
      <3> QED
        BY <1>2, <2>1, <3>1
    <2> QED
      BY <1>4, <2>1 DEF InPage
  <1> HIDE DEF d
  <1>9. Sending(m, h) <=> Sending(m, h)' \/ AmongNext(m, h, n)
    <2>1. \A j \in 1..Len(d) :
             (exp.o < 2 * (j - 1) + h /\ 2 * (j - 1) + h <= exp.n)
                <=> \/ exp.o + n < 2 * (j - 1) + h /\ 2 * (j - 1) + h <= exp.n
                    \/ exp.o < 2 * (j - 1) + h /\ 2 * (j - 1) + h <= exp.o + n
      BY <1>1, <1>3
    <2> QED
      BY <1>4, <1>5, <2>1
  <1>10. AmongNext(m, h, n) => ~Sending(m, h)'
    <2>1. ASSUME NEW i \in 1..Len(d), NEW j \in 1..Len(d), d[i] = m, d[j] = m,
                 2 * (i - 1) + h <= exp.o + n, exp.o + n < 2 * (j - 1) + h
          PROVE  FALSE
      <3>1. i = j
        BY <1>6, <2>1
      <3> QED
        BY <1>1, <1>3, <2>1, <3>1
    <2> QED
      BY <1>4, <1>5, <2>1
  <1> QED
    BY <1>2, <1>7, <1>8, <1>9, <1>10, ToWriteIs, ToWriteThen

\* The requests of the thread are no messages.
LEMMA ReqsApart == \A m \in Mesgs : m \notin Reqs
  BY DEF Mesgs, Reqs, AuthReq, KpaliveReq

LEMMA ReqsSentPlaces ==
    ASSUME SdtpBase, Places, UNCHANGED poolVars, NEW n \in Nat, ReqsSent(n)
    PROVE  Places'
  <1> DEFINE us == SubSeq(FillSendBuff.buff, 1, n)
  <1>1. Written(us) /\ us \in Seq(UnitsOf(Reqs)) /\ us \in Seq(UnitsOf(Mesgs \cup Reqs)) /\ SenderTypes
    BY ReqsSentParts DEF SdtpBase
  <1> HIDE DEF us
  <1>2. /\ sent' \in [UnitsOf(Mesgs) -> Nat] /\ sent \in [UnitsOf(Mesgs) -> Nat]
        /\ \A u \in UnitsOf(Mesgs) :
              sent'[u] = sent[u] + Cardinality({k \in 1..Len(us) : us[k] = u})
    BY <1>1, WrittenTyped DEF SenderTypes
  <1>3. ASSUME NEW u \in UnitsOf(Mesgs) PROVE sent'[u] = sent[u]
    <2>1. \A k \in 1..Len(us) : us[k] \in UnitsOf(Reqs)
      BY <1>1, SeqFacts
    <2>2. \A k \in 1..Len(us) : us[k] # u
      BY <2>1, ReqsApart DEF UnitsOf
    <2>3. {k \in 1..Len(us) : us[k] = u} = {}
      BY <2>2
    <2>4. Cardinality({k \in 1..Len(us) : us[k] = u}) = 0
      BY <2>3, FS_EmptySet
    <2>5. sent[u] \in Nat
      BY <1>2
    <2> QED
      BY <1>2, <2>4, <2>5
  <1>4. sent' = sent
    BY <1>2, <1>3
  <1>5. UNCHANGED <<page, exp, accepted, lost, cli>>
    BY DEF ReqsSent, poolVars
  <1> QED
    BY <1>1, <1>4, <1>5, PlacesSame

\* What is written of a page is no longer to be written, and was not written before.
LEMMA PageSentPlaces ==
    ASSUME SdtpBase, SdtpBase', Places, UNCHANGED poolVars, NEW n \in Nat, PageSent(n)
    PROVE  Places'
  <1> DEFINE us == SubSeq(Unsent, 1, n)
             parts == Units(page[exp.page].data)
             times(u) == Cardinality({k \in 1..Len(us) : us[k] = u})
  <1>1. /\ Written(us) /\ us \in Seq(UnitsOf(Mesgs \cup Reqs)) /\ SenderTypes /\ SenderTypes'
        /\ n \in 1..exp.n - exp.o /\ exp.page # 0
        /\ Len(us) = n /\ \A k \in 1..n : us[k] = parts[exp.o + k]
        /\ exp.o + n = exp.n => exp'.page = 0
        /\ exp.o + n # exp.n => exp'.page = exp.page /\ exp'.o = exp.o + n /\ exp'.n = exp.n
    BY PageSentParts DEF SdtpBase
  <1>2. UNCHANGED <<page, accepted, lost, cli>>
    BY DEF PageSent, poolVars
  <1>3. n \in 0..exp.n - exp.o
    BY <1>1
  <1> HIDE DEF us, parts
  <1>4. /\ sent \in [UnitsOf(Mesgs) -> Nat]
        /\ \A u \in UnitsOf(Mesgs) : sent'[u] = sent[u] + times(u)
    BY <1>1, WrittenTyped DEF SenderTypes
  <1>5. ASSUME NEW m \in Mesgs, NEW h \in {1, 2}
        PROVE  times(<<m, h>>) = IF AmongNext(m, h, n) THEN 1 ELSE 0
    <2>1. CASE AmongNext(m, h, n)
      <3>1. PICK k \in 1..n : \A i \in 1..n : parts[exp.o + i] = <<m, h>> <=> i = k
        BY <1>1, <1>3, <2>1, NextUnits DEF Places, parts
      <3>2. {i \in 1..Len(us) : us[i] = <<m, h>>} = {k}
        BY <1>1, <3>1
      <3>3. Cardinality({k}) = 1
        BY FS_Singleton
      <3> QED
        BY <2>1, <3>2, <3>3
    <2>2. CASE ~AmongNext(m, h, n)
      <3>1. \A k \in 1..n : parts[exp.o + k] # <<m, h>>
        BY <1>1, <1>3, <2>2, NextUnits DEF Places, parts
      <3>2. {i \in 1..Len(us) : us[i] = <<m, h>>} = {}
        BY <1>1, <3>1
      <3> QED
        BY <2>2, <3>2, FS_EmptySet
    <2> QED
      BY <2>1, <2>2
  <1> HIDE DEF times
  <1>6. ASSUME NEW m, NEW h \in {1, 2}
        PROVE  /\ ToWrite(m, h) <=> ToWrite(m, h)' \/ AmongNext(m, h, n)
               /\ AmongNext(m, h, n) => ~ToWrite(m, h)'
    <2>1. \/ exp.o + n = exp.n /\ exp'.page = 0
          \/ exp'.page = exp.page /\ exp'.o = exp.o + n /\ exp'.n = exp.n
      BY <1>1
    <2>2. PagesOnce /\ page' = page
      BY <1>2 DEF Places
    <2> QED
      BY <1>1, <2>1, <2>2, LeavesToWrite
  <1>7. PagesOnce' /\ PagesTaken' /\ TakenBefore' /\ LostTaken'
    BY <1>2 DEF Places, PagesOnce, PagesTaken, TakenBefore, LostTaken
  <1>8. KeptFromLoss'
    BY <1>2, <1>6 DEF Places, KeptFromLoss
  <1>9. PoolExact'
    <2> SUFFICES ASSUME NEW m \in Mesgs, NEW h \in 1..2
                 PROVE  sent'[<<m, h>>] = IF m \notin accepted' \/ ToWrite(m, h)' \/ <<m, h>> \in lost'
                                          THEN 0 ELSE 1
      BY DEF PoolExact
    <2>1. h \in {1, 2} /\ <<m, h>> \in UnitsOf(Mesgs)
      BY DEF UnitsOf
    <2>2. sent[<<m, h>>] = IF m \notin accepted \/ ToWrite(m, h) \/ <<m, h>> \in lost THEN 0 ELSE 1
      BY DEF Places, PoolExact
    <2>3. sent'[<<m, h>>] = sent[<<m, h>>] + IF AmongNext(m, h, n) THEN 1 ELSE 0
      BY <1>4, <1>5, <2>1
    <2>4. AmongNext(m, h, n) => m \in accepted
      <3>1. exp.page \in Pages
        BY <1>1 DEF SenderTypes
      <3> QED
        BY <3>1 DEF Places, PagesTaken, AmongNext
    <2>5. ToWrite(m, h) => <<m, h>> \notin lost
      BY <2>1 DEF Places, KeptFromLoss
    <2> QED
      BY <1>2, <1>6, <2>1, <2>2, <2>3, <2>4, <2>5
  <1> QED
    BY <1>7, <1>8, <1>9 DEF Places

\* What is dropped with a connection is what was left to write of the page.
LEMMA SendBreaksPlaces ==
    ASSUME SdtpBase, SdtpBase', Places, UNCHANGED poolVars, SendBreaks
    PROVE  Places'
  <1>1. SenderTypes /\ SenderTypes' /\ UNCHANGED <<page, accepted, cli, sent>>
    BY DEF SdtpBase, poolVars, SendBreaks
  <1>2. CASE UNCHANGED <<exp, lost>>
    BY <1>1, <1>2, PlacesSame
  <1>3. CASE /\ exp.page # 0 /\ exp' = Reset
             /\ lost' = lost \cup {Unsent[k] : k \in 1..(exp.n - exp.o)}
    <2> DEFINE n == exp.n - exp.o
               parts == Units(page[exp.page].data)
    <2>1. /\ exp.o \in Nat /\ exp.n \in Nat /\ exp.o < exp.n /\ exp.page \in Pages
          /\ \A i \in 1..n : Unsent[i] = parts[exp.o + i]
          /\ \A i \in 1..n : exp.o + i \in 1..exp.n
      BY <1>3, UnsentAre
    <2>2. n \in 1..exp.n - exp.o /\ n \in 0..exp.n - exp.o /\ exp.o + n = exp.n
      BY <2>1
    <2>3. exp'.page = 0
      BY <1>3 DEF Reset
    <2>4. lost' = lost \cup {parts[exp.o + k] : k \in 1..n}
      BY <1>3, <2>1
    <2> HIDE DEF n, parts
    <2>5. ASSUME NEW m, NEW h \in {1, 2}
          PROVE  <<m, h>> \in lost' <=> <<m, h>> \in lost \/ AmongNext(m, h, n)
      <3>1. AmongNext(m, h, n) <=> \E k \in 1..n : parts[exp.o + k] = <<m, h>>
        BY SMTT(40), <1>3, <2>2, NextUnits DEF Places, parts
      <3> QED
        BY <2>4, <3>1
    <2>6. ASSUME NEW m, NEW h \in {1, 2}
          PROVE  /\ ToWrite(m, h) <=> ToWrite(m, h)' \/ AmongNext(m, h, n)
                 /\ AmongNext(m, h, n) => ~ToWrite(m, h)'
      BY <1>1, <1>3, <2>2, <2>3, LeavesToWrite DEF Places
    <2>7. PagesOnce' /\ PagesTaken' /\ TakenBefore'
      BY <1>1 DEF Places, PagesOnce, PagesTaken, TakenBefore
    <2>8. LostTaken'
      <3>1. \A k \in 1..n : parts[exp.o + k][1] \in accepted
        <4> SUFFICES ASSUME NEW k \in 1..n PROVE parts[exp.o + k][1] \in accepted
          OBVIOUS
        <4>1. PICK i \in 1..exp.n : i = exp.o + k
          BY <2>1
        <4>2. \E j \in 1..Len(page[exp.page].data) : parts[i][1] = page[exp.page].data[j]
          BY <1>3, UnitAt DEF parts
        <4> QED
          BY <2>1, <4>1, <4>2 DEF Places, PagesTaken
      <3> QED
        BY <1>1, <2>4, <3>1 DEF Places, LostTaken
    <2>9. KeptFromLoss'
      BY <2>5, <2>6 DEF Places, KeptFromLoss
    <2>10. PoolExact'
      <3> SUFFICES ASSUME NEW m \in Mesgs, NEW h \in 1..2
                   PROVE  sent'[<<m, h>>] = IF m \notin accepted' \/ ToWrite(m, h)' \/ <<m, h>> \in lost'
                                            THEN 0 ELSE 1
        BY DEF PoolExact
      <3>1. h \in {1, 2}
        OBVIOUS
      <3>2. sent[<<m, h>>] = IF m \notin accepted \/ ToWrite(m, h) \/ <<m, h>> \in lost THEN 0 ELSE 1
        BY DEF Places, PoolExact
      <3> QED
        BY <1>1, <2>5, <2>6, <3>1, <3>2
    <2> QED
      BY <2>7, <2>8, <2>9, <2>10 DEF Places
  <1> QED
    BY <1>2, <1>3, SendBreaksTyped

LEMMA SendDataPlaces ==
    ASSUME SdtpBase, Places, SendData
    PROVE  Places'
  <1>1. SdtpBase' /\ SenderTypes /\ UNCHANGED poolVars
    BY SendDataBase, SendDataIs DEF SdtpBase
  <1>2. ASSUME NEW next, NothingToSend(next) PROVE Places'
    BY <1>1, <1>2, PlacesSame DEF NothingToSend, poolVars
  <1> QED
    BY <1>1, <1>2, ReqsSentPlaces, PageSentPlaces, SendBreaksPlaces, SendDataIs

LEMMA PlacesKeep ==
    ASSUME SdtpBase, Places, SdtpSendNext \/ UNCHANGED sdtpVars
    PROVE  Places'
  <1>1. SenderTypes
    BY DEF SdtpBase
  <1>2. ASSUME NEW c \in Clients, SdsdCliInit(c) PROVE Places'
    <2>1. \A d \in Clients : cli'[d].next = cli[d].next
      BY <1>1, <1>2 DEF SdsdCliInit, SenderTypes
    <2> QED
      BY <1>1, <1>2, <2>1, PlacesSame DEF SdsdCliInit, linkVars, histVars
  <1>3. ASSUME UNCHANGED <<poolVars, exp, sent, lost>> PROVE Places'
    BY <1>1, <1>3, PlacesSame DEF poolVars
  <1>4. CASE \/ \E p \in Pages : PageAges(p)
             \/ SsvrInit \/ Launch \/ Connect \/ PoolScan \/ RecvCmd \/ RecvProc \/ SelectWrite
             \/ TimeoutHdl \/ UNCHANGED sdtpVars
    <2>1. UNCHANGED <<poolVars, exp, sent, lost>>
      <3>1. CASE \/ \E p \in Pages : PageAges(p)
                 \/ SsvrInit \/ Launch \/ PoolScan \/ RecvCmd \/ SelectWrite
        BY <3>1 DEF PageAges, SsvrInit, Launch, PoolScan, RecvCmd, SelectWrite, linkVars, histVars
      <3>2. CASE Connect \/ RecvProc \/ TimeoutHdl
        BY <3>2 DEF Connect, RecvProc, TimeoutHdl, histVars
      <3>3. CASE UNCHANGED sdtpVars
        BY <3>3 DEF sdtpVars, linkVars, histVars
      <3> QED
        BY <1>4, <3>1, <3>2, <3>3
    <2> QED
      BY <1>3, <2>1
  <1> QED
    BY <1>2, <1>4, PoolPushPlaces, SwitchSendBuffPlaces, PoolTakePlaces, SendDataPlaces
       DEF SdtpSendNext, SenderStep

\* Every unit of a message the pool took is in one place: waiting in a page, written
\* once, or dropped with a connection that broke while its page was sent: no client
\* writes into the page being sent, and no page is given back before its last unit is
\* written.  PoolExact, for any number of clients, messages and pages.
THEOREM PoolKept == Spec => []PoolExact
  <1>1. Init => SdtpBase /\ Places
    BY SdtpInitially, PlacesInitially DEF Init
  <1>2. SdtpBase /\ Places /\ [Next]_vars => (SdtpBase /\ Places)'
    <2> SUFFICES ASSUME SdtpBase, Places, SdtpSendNext \/ UNCHANGED sdtpVars
                 PROVE  (SdtpBase /\ Places)'
      BY StepsApart
    <2> QED
      BY SdtpBaseKeeps, PlacesKeep
  <1>3. Places => PoolExact
    BY DEF Places
  <1> QED
    BY <1>1, <1>2, <1>3, PTL DEF Spec

-----------------------------------------------------------------------------
(* The sending side of sdtp: a connection carries whole messages. *)

LEMMA SameSeq ==
    ASSUME NEW S, NEW s \in Seq(S), NEW t \in Seq(S), Len(s) = Len(t),
           \A i \in 1..Len(s) : s[i] = t[i]
    PROVE  s = t
  OBVIOUS

\* Cutting off the front of what follows and putting it behind what came before.
LEMMA Rejoin ==
    ASSUME NEW S, NEW w \in Seq(S), NEW t \in Seq(S), NEW n \in 0..Len(t)
    PROVE  (w \o SubSeq(t, 1, n)) \o SubSeq(t, n + 1, Len(t)) = w \o t
  <1> DEFINE a == SubSeq(t, 1, n)
             b == SubSeq(t, n + 1, Len(t))
  <1>1. /\ a \in Seq(S) /\ Len(a) = n /\ \A i \in 1..n : i \in 1..Len(t) /\ a[i] = t[i]
        /\ b \in Seq(S) /\ Len(b) = Len(t) - n
        /\ \A i \in 1..(Len(t) - n) : n + i \in 1..Len(t) /\ b[i] = t[n + i]
    BY Cut
  <1> HIDE DEF a, b
  <1>2. /\ (w \o a) \in Seq(S) /\ ((w \o a) \o b) \in Seq(S) /\ (w \o t) \in Seq(S)
        /\ Len((w \o a) \o b) = Len(w) + n + (Len(t) - n)
        /\ Len(w \o t) = Len(w) + Len(t)
    <2>1. (w \o a) \in Seq(S) /\ Len(w \o a) = Len(w) + n
      BY <1>1, Join
    <2> DEFINE wa == w \o a
    <2>0. wa \in Seq(S)
      BY <2>1
    <2> HIDE DEF wa
    <2>3. (wa \o b) \in Seq(S) /\ Len(wa \o b) = Len(wa) + Len(b)
      BY <1>1, <2>0, Join
    <2>2. ((w \o a) \o b) \in Seq(S) /\ Len((w \o a) \o b) = Len(w \o a) + (Len(t) - n)
      BY <1>1, <2>3 DEF wa
    <2> QED
      BY <2>1, <2>2, Join
  <1>3. Len(w) \in Nat /\ Len(t) \in Nat /\ n \in Nat
    BY SeqFacts
  <1>4. Len((w \o a) \o b) = Len(w \o t)
    BY <1>2, <1>3
  <1>5. ASSUME NEW i \in 1..Len(w \o t) PROVE ((w \o a) \o b)[i] = (w \o t)[i]
    <2>1. CASE i \in 1..Len(w)
      BY <1>1, <2>1
    <2>2. CASE \E j \in 1..n : i = Len(w) + j
      BY <1>1, <2>2
    <2>3. CASE \E j \in 1..(Len(t) - n) : i = Len(w) + n + j
      BY SMTT(40), <1>1, <1>3, <2>3
    <2>4. \/ i \in 1..Len(w)
          \/ i - Len(w) \in 1..n /\ i = Len(w) + (i - Len(w))
          \/ i - (Len(w) + n) \in 1..(Len(t) - n) /\ i = Len(w) + n + (i - (Len(w) + n))
      BY <1>2, <1>3
    <2> QED
      BY <2>1, <2>2, <2>3, <2>4
  <1> QED
    BY <1>2, <1>4, <1>5, SameSeq DEF a, b

\* A stream that begins with the units of b, as far as it goes, and has messages after.
FramedBy(s, b) ==
    \A k \in 1..Len(s) :
        IF k <= Len(b) THEN s[k] = b[k]
        ELSE IF (k - Len(b)) % 2 = 1 THEN s[k][2] = 1
        ELSE s[k] = <<s[k - 1][1], 2>>

LEMMA FramedFront ==
    ASSUME NEW S, NEW s \in Seq(S), NEW t \in Seq(S), NEW b \in Seq(S), FramedBy(s \o t, b)
    PROVE  FramedBy(s, b)
  <1> SUFFICES ASSUME NEW k \in 1..Len(s)
               PROVE  IF k <= Len(b) THEN s[k] = b[k]
                      ELSE IF (k - Len(b)) % 2 = 1 THEN s[k][2] = 1
                      ELSE s[k] = <<s[k - 1][1], 2>>
    BY DEF FramedBy
  <1>1. /\ Len(s) \in Nat /\ Len(b) \in Nat
        /\ k \in 1..Len(s \o t) /\ (s \o t)[k] = s[k]
    BY Join, SeqFacts
  <1>2. CASE k <= Len(b) \/ (k - Len(b)) % 2 = 1
    BY <1>1, <1>2 DEF FramedBy
  <1>3. CASE k > Len(b) /\ (k - Len(b)) % 2 # 1
    <2>1. k - 1 \in 1..Len(s)
      BY <1>1, <1>3
    <2>2. (s \o t)[k - 1] = s[k - 1]
      BY <2>1, Join
    <2> QED
      BY <1>1, <1>3, <2>2 DEF FramedBy
  <1> QED
    BY <1>1, <1>2, <1>3

\* The two units of a message follow each other.
LEMMA UnitPairs ==
    ASSUME NEW S, NEW ms \in Seq(S), NEW k \in 1..2 * Len(ms)
    PROVE  /\ k % 2 = 1 => Units(ms)[k][2] = 1
           /\ k % 2 # 1 => k - 1 \in 1..2 * Len(ms) /\ Units(ms)[k] = <<Units(ms)[k - 1][1], 2>>
  <1>1. Len(ms) \in Nat
    BY SeqFacts
  <1>2. Units(ms)[k] = <<ms[(k + 1) \div 2], IF k % 2 = 1 THEN 1 ELSE 2>>
    BY UnitsAre
  <1>3. CASE k % 2 = 1
    BY <1>2, <1>3
  <1>4. CASE k % 2 # 1
    <2>1. PICK j \in 1..2 * Len(ms) : j = k - 1
      BY <1>1, <1>4
    <2>2. Units(ms)[j] = <<ms[(j + 1) \div 2], IF j % 2 = 1 THEN 1 ELSE 2>>
      BY UnitsAre
    <2>3. (j + 1) \div 2 = (k + 1) \div 2
      BY <1>1, <1>4, <2>1
    <2> QED
      BY <1>2, <1>4, <2>1, <2>2, <2>3
  <1> QED
    BY <1>3, <1>4

\* More messages after whole ones.
LEMMA FramedMore ==
    ASSUME NEW S, NEW ms \in Seq(S), NEW s \in Seq(UnitsOf(S)), NEW b \in Seq(UnitsOf(S)),
           FramedBy(s, b), Len(b) <= Len(s), (Len(s) - Len(b)) % 2 = 0
    PROVE  LET t == s \o Units(ms)
           IN  FramedBy(t, b) /\ Len(b) <= Len(t) /\ (Len(t) - Len(b)) % 2 = 0
  <1> DEFINE u == Units(ms)
             t == s \o u
  <1>1. u \in Seq(UnitsOf(S)) /\ Len(u) = 2 * Len(ms)
    BY UnitsAre
  <1>2. Len(s) \in Nat /\ Len(b) \in Nat /\ Len(ms) \in Nat
    BY SeqFacts
  <1>3. ASSUME NEW k \in 1..2 * Len(ms)
        PROVE  /\ k % 2 = 1 => u[k][2] = 1
               /\ k % 2 # 1 => k - 1 \in 1..2 * Len(ms) /\ u[k] = <<u[k - 1][1], 2>>
    BY UnitPairs
  <1> HIDE DEF u
  <1>4. /\ Len(t) = Len(s) + 2 * Len(ms)
        /\ \A i \in 1..Len(s) : t[i] = s[i]
        /\ \A i \in 1..2 * Len(ms) : t[Len(s) + i] = u[i]
    <2>1. /\ Len(s \o u) = Len(s) + Len(u)
          /\ \A i \in 1..Len(s) : (s \o u)[i] = s[i]
          /\ \A i \in 1..Len(u) : (s \o u)[Len(s) + i] = u[i]
      <3>1. u \in Seq(UnitsOf(S)) /\ s \in Seq(UnitsOf(S))
        BY <1>1
      <3> HIDE DEF t
      <3>2. Len(s \o u) = Len(s) + Len(u)
        BY <3>1, Join
      <3>3. \A i \in 1..Len(s) : (s \o u)[i] = s[i]
        BY <3>1, Join
      <3>4. \A i \in 1..Len(u) : (s \o u)[Len(s) + i] = u[i]
        BY <3>1, Join
      <3> QED
        BY <3>2, <3>3, <3>4
    <2> QED
      BY <1>1, <2>1
  <1> HIDE DEF t
  <1>5. Len(b) <= Len(t) /\ (Len(t) - Len(b)) % 2 = 0
    BY <1>2, <1>4
  <1>6. FramedBy(t, b)
    <2> SUFFICES ASSUME NEW k \in 1..Len(t)
                 PROVE  IF k <= Len(b) THEN t[k] = b[k]
                        ELSE IF (k - Len(b)) % 2 = 1 THEN t[k][2] = 1
                        ELSE t[k] = <<t[k - 1][1], 2>>
      BY DEF FramedBy
    <2>1. CASE k \in 1..Len(s)
      <3>1. t[k] = s[k]
        BY <1>4, <2>1
      <3>2. k > Len(b) /\ (k - Len(b)) % 2 # 1 => k - 1 \in 1..Len(s) /\ t[k - 1] = s[k - 1]
        <4> SUFFICES ASSUME k > Len(b), (k - Len(b)) % 2 # 1
                     PROVE  k - 1 \in 1..Len(s) /\ t[k - 1] = s[k - 1]
          OBVIOUS
        <4>1. k \in Nat /\ k <= Len(s)
          BY <1>2, <2>1
        <4>2. k - 1 \in 1..Len(s)
          BY <1>2, <4>1
        <4> QED
          BY <1>4, <4>2
      <3> QED
        BY <1>2, <2>1, <3>1, <3>2 DEF FramedBy
    <2>2. CASE k > Len(s)
      <3>1. PICK i \in 1..2 * Len(ms) : k = Len(s) + i
        <4>1. k - Len(s) \in 1..2 * Len(ms) /\ k = Len(s) + (k - Len(s))
          BY <1>2, <1>4, <2>2
        <4> QED
          BY <4>1
      <3>2. k > Len(b) /\ (k - Len(b)) % 2 = i % 2
        BY SMTT(40), <1>2, <3>1
      <3>3. t[k] = u[i]
        BY <1>4, <3>1
      <3>4. CASE i % 2 = 1
        BY <1>2, <1>3, <3>2, <3>3, <3>4
      <3>5. CASE i % 2 # 1
        <4>1. PICK j \in 1..2 * Len(ms) : j = i - 1
          BY <1>3, <3>5
        <4>2. t[k - 1] = u[j] /\ u[i] = <<u[j][1], 2>>
          <5>1. k - 1 = Len(s) + j
            BY <1>2, <3>1, <4>1
          <5> QED
            BY <1>3, <1>4, <3>5, <4>1, <5>1
        <4> QED
          BY <1>2, <3>2, <3>3, <3>5, <4>2
      <3> QED
        BY <3>4, <3>5
    <2> QED
      BY <1>2, <2>1, <2>2
  <1> QED
    BY <1>5, <1>6 DEF t, u

\* A stream frames itself.
LEMMA FramedItself == ASSUME NEW S, NEW s \in Seq(S) PROVE FramedBy(s, s)
  BY DEF FramedBy

LEMMA UnitsOfOne ==
    ASSUME NEW S, NEW m \in S
    PROVE  LET v == Units(<<m>>)
           IN  v \in Seq(UnitsOf(S)) /\ Len(v) = 2 /\ v[1] = <<m, 1>> /\ v[2] = <<m, 2>>
  <1>1. PICK one \in Seq(S) : one = <<m>> /\ Len(one) = 1 /\ one[1] = m
    <2>1. <<m>> \in Seq(S) /\ Len(<<m>>) = 1 /\ <<m>>[1] = m
      OBVIOUS
    <2> QED
      BY <2>1
  <1> DEFINE U(ns, k) == <<ns[(k + 1) \div 2], IF k % 2 = 1 THEN 1 ELSE 2>>
  <1>2. /\ Units(one) \in Seq(UnitsOf(S)) /\ Len(Units(one)) = 2 * Len(one)
        /\ \A k \in 1..2 * Len(one) : Units(one)[k] = U(one, k)
    BY UnitsAre
  <1>3. U(one, 1) = <<m, 1>> /\ U(one, 2) = <<m, 2>>
    BY <1>1
  <1> HIDE DEF U
  <1>4. 2 * Len(one) = 2 /\ 1 \in 1..2 /\ 2 \in 1..2
    BY <1>1
  <1>5. Units(one)[1] = <<m, 1>> /\ Units(one)[2] = <<m, 2>>
    BY <1>2, <1>3, <1>4
  <1> QED
    BY <1>1, <1>2, <1>4, <1>5

\* A stream that lacks the message its beginning ends with, and gets it with others.
LEMMA FramedOpen ==
    ASSUME NEW S, NEW ms \in Seq(S), ms # <<>>, NEW s \in Seq(UnitsOf(S)),
           NEW v \in Seq(UnitsOf(S)), v = Units(<<ms[1]>>)
    PROVE  LET t == s \o Units(ms)
               b == s \o v
           IN  FramedBy(t, b) /\ Len(b) <= Len(t) /\ (Len(t) - Len(b)) % 2 = 0
  <1> DEFINE u == Units(ms)
             t == s \o u
             b == s \o v
  <1>1. Len(s) \in Nat /\ Len(ms) \in Nat \ {0} /\ ms[1] \in S
    BY SeqFacts
  <1>2. u \in Seq(UnitsOf(S)) /\ Len(u) = 2 * Len(ms)
    BY UnitsAre
  <1>4. Len(v) = 2 /\ v[1] = <<ms[1], 1>> /\ v[2] = <<ms[1], 2>>
    BY <1>1, UnitsOfOne
  <1>5. v[1] = u[1] /\ v[2] = u[2]
    <2> DEFINE U(ns, k) == <<ns[(k + 1) \div 2], IF k % 2 = 1 THEN 1 ELSE 2>>
    <2>1. \A k \in 1..2 * Len(ms) : u[k] = U(ms, k)
      BY UnitsAre
    <2>2. U(ms, 1) = <<ms[1], 1>> /\ U(ms, 2) = <<ms[1], 2>>
      OBVIOUS
    <2> HIDE DEF u, U
    <2>3. 1 \in 1..2 * Len(ms) /\ 2 \in 1..2 * Len(ms)
      BY <1>1
    <2> QED
      BY <1>4, <2>1, <2>2, <2>3
  <1>6. ASSUME NEW k \in 1..2 * Len(ms)
        PROVE  /\ k % 2 = 1 => u[k][2] = 1
               /\ k % 2 # 1 => k - 1 \in 1..2 * Len(ms) /\ u[k] = <<u[k - 1][1], 2>>
    BY UnitPairs
  <1> HIDE DEF u
  <1>7. /\ Len(t) = Len(s) + 2 * Len(ms)
        /\ \A i \in 1..Len(s) : t[i] = s[i]
        /\ \A i \in 1..2 * Len(ms) : t[Len(s) + i] = u[i]
    <2> HIDE DEF t, b
    <2>1. Len(s \o u) = Len(s) + Len(u)
      BY <1>2, Join
    <2>2. \A i \in 1..Len(s) : (s \o u)[i] = s[i]
      BY <1>2, Join
    <2>3. \A i \in 1..Len(u) : (s \o u)[Len(s) + i] = u[i]
      BY <1>2, Join
    <2> QED
      BY <1>2, <2>1, <2>2, <2>3 DEF t
  <1> HIDE DEF t
  <1>8. /\ Len(b) = Len(s) + 2
        /\ \A i \in 1..Len(s) : b[i] = s[i]
        /\ b[Len(s) + 1] = v[1] /\ b[Len(s) + 2] = v[2]
    <2> HIDE DEF b
    <2>1. Len(s \o v) = Len(s) + Len(v)
      BY Join
    <2>2. \A i \in 1..Len(s) : (s \o v)[i] = s[i]
      BY Join
    <2>3. \A i \in 1..Len(v) : (s \o v)[Len(s) + i] = v[i]
      BY Join
    <2> QED
      BY SMTT(40), <1>4, <2>1, <2>2, <2>3 DEF b
  <1> HIDE DEF b
  <1>9. Len(b) <= Len(t) /\ (Len(t) - Len(b)) % 2 = 0
    <2>1. Len(t) - Len(b) = 2 * (Len(ms) - 1) /\ Len(ms) - 1 \in Nat
      BY <1>1, <1>7, <1>8
    <2> QED
      BY <1>1, <1>7, <1>8, <2>1
  <1>10. FramedBy(t, b)
    <2> SUFFICES ASSUME NEW k \in 1..Len(t)
                 PROVE  IF k <= Len(b) THEN t[k] = b[k]
                        ELSE IF (k - Len(b)) % 2 = 1 THEN t[k][2] = 1
                        ELSE t[k] = <<t[k - 1][1], 2>>
      BY DEF FramedBy
    <2>1. CASE k \in 1..Len(s)
      BY <1>1, <1>7, <1>8, <2>1
    <2>2. CASE k > Len(s)
      <3>1. PICK i \in 1..2 * Len(ms) : k = Len(s) + i
        <4>1. k - Len(s) \in 1..2 * Len(ms) /\ k = Len(s) + (k - Len(s))
          BY <1>1, <1>7, <2>2
        <4> QED
          BY <4>1
      <3>2. t[k] = u[i]
        BY <1>7, <3>1
      <3>3. CASE i \in {1, 2}
        BY <1>1, <1>5, <1>8, <3>1, <3>2, <3>3
      <3>4. CASE i > 2
        <4>1. k > Len(b) /\ (k - Len(b)) % 2 = i % 2
          <5>1. k - Len(b) = i - 2 /\ i \in Nat
            BY <1>1, <1>8, <3>1, <3>4
          <5>2. (i - 2) % 2 = i % 2
            BY <3>4, <5>1
          <5> QED
            BY <1>1, <1>8, <3>1, <3>4, <5>1, <5>2
        <4>2. CASE i % 2 = 1
          BY <1>1, <1>6, <1>8, <3>2, <4>1, <4>2
        <4>3. CASE i % 2 # 1
          <5>1. PICK j \in 1..2 * Len(ms) : j = i - 1
            BY <1>6, <4>3
          <5>2. t[k - 1] = u[j] /\ u[i] = <<u[j][1], 2>>
            <6>1. k - 1 = Len(s) + j
              BY <1>1, <3>1, <5>1
            <6> QED
              BY <1>6, <1>7, <4>3, <5>1, <6>1
          <5>3. t[k] = <<t[k - 1][1], 2>>
            BY <3>2, <5>2
          <5>4. ~(k <= Len(b)) /\ (k - Len(b)) % 2 # 1
            BY <1>1, <1>8, <4>1, <4>3
          <5> QED
            BY <5>3, <5>4
        <4> QED
          BY <4>2, <4>3
      <3> QED
        BY <1>1, <3>3, <3>4
    <2> QED
      BY <1>1, <1>7, <2>1, <2>2
  <1> QED
    BY <1>9, <1>10 DEF t, u, b

\* What the buffers hold, and what the connection will have carried when they are
\* empty: whole messages after what it had to begin with, or all of that but the first
\* request of the list.
AllUnits == UnitsOf(Mesgs \cup Reqs)
InFlight == IF exp.page # 0 THEN Unsent ELSE sys
Stream == wire \o InFlight
WholeAfter == Len(begun) <= Len(Stream) /\ (Len(Stream) - Len(begun)) % 2 = 0
Opens == mesgList # <<>> /\ begun = Stream \o Units(<<mesgList[1]>>)

StreamFits ==
    /\ FramedBy(wire, begun)
    /\ fd # 0 => FramedBy(Stream, begun) /\ (WholeAfter \/ Opens)

LEMMA StreamTyped ==
    ASSUME SdtpBase
    PROVE  /\ wire \in Seq(AllUnits) /\ begun \in Seq(AllUnits) /\ InFlight \in Seq(AllUnits)
           /\ Stream \in Seq(AllUnits)
           /\ exp.page # 0 => InFlight = Unsent
           /\ exp.page = 0 => InFlight = sys
  <1>1. wire \in Seq(AllUnits) /\ begun \in Seq(AllUnits)
    BY DEF SdtpBase, SenderTypes, AllUnits
  <1>2. InFlight \in Seq(AllUnits)
    <2>1. sys \in Seq(AllUnits)
      BY DEF SdtpBase, SenderTypes, AllUnits, UnitsOf
    <2>2. exp.page # 0 => Unsent \in Seq(AllUnits)
      BY UnsentAre DEF AllUnits, UnitsOf
    <2> QED
      BY <2>1, <2>2 DEF InFlight
  <1>3. Stream \in Seq(AllUnits)
    BY <1>1, <1>2, Join DEF Stream
  <1> QED
    BY <1>1, <1>2, <1>3 DEF InFlight

LEMMA FitsInitially == SdtpInit => StreamFits
  <1> SUFFICES ASSUME SdtpInit PROVE StreamFits
    OBVIOUS
  <1>1. fd = 0 /\ wire = <<>>
    BY DEF SdtpInit
  <1>2. 1..Len(wire) = {}
    BY <1>1
  <1> QED
    BY <1>1, <1>2 DEF StreamFits, FramedBy

\* A step that leaves the stream alone, or has lost the connection.
LEMMA FitsCut ==
    ASSUME StreamFits, fd' = 0, UNCHANGED <<wire, begun>>
    PROVE  StreamFits'
  BY DEF StreamFits, FramedBy

LEMMA FitsSame ==
    ASSUME SdtpBase, StreamFits, fd # 0, UNCHANGED <<wire, begun>>, InFlight' = InFlight,
           mesgList' = mesgList \/ mesgList' = Append(mesgList, KpaliveReq)
    PROVE  StreamFits'
  <1>1. Stream' = Stream
    BY DEF Stream
  <1>2. FramedBy(wire, begun)' /\ FramedBy(Stream, begun)'
    BY <1>1 DEF StreamFits, FramedBy
  <1>3. WholeAfter => WholeAfter'
    BY <1>1 DEF WholeAfter
  <1>4. Opens => Opens'
    <2> SUFFICES ASSUME Opens PROVE mesgList' # <<>> /\ mesgList'[1] = mesgList[1]
      BY <1>1 DEF Opens
    <2>1. mesgList \in Seq(Reqs) /\ mesgList # <<>> /\ KpaliveReq \in Reqs
      BY DEF SdtpBase, SenderTypes, Opens, Reqs
    <2>2. CASE mesgList' = Append(mesgList, KpaliveReq)
      BY <2>1, <2>2, Longer
    <2> QED
      BY <2>1, <2>2
  <1> QED
    BY <1>2, <1>3, <1>4 DEF StreamFits

LEMMA InFlightSame ==
    ASSUME UNCHANGED <<sys, exp>>, exp.page # 0 => page'[exp.page].data = page[exp.page].data
    PROVE  InFlight' = InFlight
  BY DEF InFlight, Unsent

\* What the buffers hold when the connection is made is what it has to begin with.
LEMMA ConnectFits ==
    ASSUME SdtpBase, StreamFits, Connect
    PROVE  StreamFits'
  <1>1. /\ wire' = <<>> /\ UNCHANGED <<page, sys, exp>>
        /\ mesgList' \in {Append(<<>>, AuthReq), <<>>}
        /\ begun' = sys \o (IF exp.page = 0 THEN <<>> ELSE Unsent) \o Units(mesgList')
    BY DEF Connect, ClearMesg, poolVars
  <1>2. InFlight' = InFlight /\ InFlight \in Seq(AllUnits)
    BY <1>1, InFlightSame, StreamTyped
  <1>3. Stream' = InFlight
    <2>1. Stream' = <<>> \o InFlight
      BY <1>1, <1>2 DEF Stream
    <2> QED
      BY <1>2, <2>1
  <1>4. sys \o (IF exp.page = 0 THEN <<>> ELSE Unsent) = InFlight
    <2>1. CASE exp.page = 0
      <3>1. sys \in Seq(UnitsOf(Reqs)) /\ InFlight = sys
        BY <2>1 DEF SdtpBase, SenderTypes, InFlight
      <3> QED
        BY <2>1, <3>1
    <2>2. CASE exp.page # 0
      <3>1. sys = <<>> /\ InFlight = Unsent /\ Unsent \in Seq(UnitsOf(Mesgs))
        BY <2>2, UnsentAre DEF SdtpBase, SdtpControl, InFlight
      <3> QED
        BY <2>2, <3>1
    <2> QED
      BY <2>1, <2>2
  <1>5. begun' = InFlight \o Units(mesgList')
    BY <1>1, <1>4
  <1>6. mesgList' \in Seq(Reqs)
    <2>1. AuthReq \in Reqs /\ <<>> \in Seq(Reqs)
      BY DEF Reqs
    <2> QED
      <3>1. Append(<<>>, AuthReq) \in Seq(Reqs)
        BY <2>1, Longer
      <3> QED
        BY <1>1, <2>1, <3>1
  <1>7. Units(mesgList') \in Seq(AllUnits)
    <2>1. mesgList' \in Seq(Mesgs \cup Reqs)
      BY <1>6
    <2> QED
      BY <2>1, UnitsAre DEF AllUnits
  <1>8. FramedBy(InFlight, begun')
    <2>1. begun' \in Seq(AllUnits)
      BY <1>2, <1>5, <1>7, Join
    <2>2. FramedBy(begun', begun')
      BY <2>1, FramedItself
    <2>3. FramedBy(InFlight \o Units(mesgList'), begun')
      BY <1>5, <2>2
    <2> QED
      BY <1>2, <1>7, <2>1, <2>3, FramedFront
  <1>9. WholeAfter' \/ Opens'
    <2>1. CASE mesgList' = <<>>
      <3>1. Units(mesgList') = <<>>
        <4>1. Len(mesgList') = 0
          BY <2>1
        <4>2. Len(Units(mesgList')) = 0
          <5>1. Len(Units(mesgList')) = 2 * Len(mesgList')
            BY <1>6, UnitsAre
          <5> QED
            BY <4>1, <5>1
        <4> QED
          BY <1>7, <4>2, SeqFacts
      <3>2. begun' = Stream'
        BY <1>2, <1>3, <1>5, <3>1
      <3>3. Len(Stream') \in Nat
        BY <1>2, <1>3, SeqFacts
      <3>4. WholeAfter'
        BY <3>2, <3>3 DEF WholeAfter
      <3> QED
        BY <3>4
    <2>2. CASE mesgList' = Append(<<>>, AuthReq)
      <3>1. mesgList' = <<AuthReq>>
        BY <2>2
      <3>2. mesgList' # <<>> /\ <<mesgList'[1]>> = mesgList'
        BY <3>1
      <3>3. begun' = Stream' \o Units(<<mesgList'[1]>>)
        BY <1>3, <1>5, <3>2
      <3> QED
        BY <3>2, <3>3 DEF Opens
    <2> QED
      BY <1>1, <2>1, <2>2
  <1>10. FramedBy(wire', begun') /\ FramedBy(Stream', begun')
    <2>1. 1..Len(wire') = {}
      BY <1>1
    <2> QED
      BY <1>3, <1>8, <2>1 DEF FramedBy
  <1>11. FramedBy(wire, begun)' /\ FramedBy(Stream, begun)'
    BY <1>10 DEF FramedBy
  <1> QED
    BY <1>9, <1>11 DEF StreamFits

\* A page is taken when nothing else is left to be written.
LEMMA PoolTakeFits ==
    ASSUME SdtpBase, StreamFits, PoolTake
    PROVE  StreamFits'
  <1>1. /\ SdtpBase' /\ SdtpBase /\ fd # 0 /\ cur \in Pages /\ exp.page = 0
        /\ mesgList = <<>> /\ sys = <<>>
    BY PoolTakeBase DEF SdtpBase, SdtpControl, PoolTake
  <1>2. /\ page' = [page EXCEPT ![cur].mode = "RD"]
        /\ exp' = [page |-> cur, o |-> 0, n |-> 2 * Len(page[cur].data)]
        /\ UNCHANGED <<fd, mesgList, wire, begun>>
    BY DEF PoolTake, histVars
  <1>3. page'[cur].data = page[cur].data /\ page[cur].data \in Seq(Mesgs)
    BY <1>1, <1>2, PagesHold DEF SdtpBase, SenderTypes
  <1> DEFINE ms == page[cur].data
             us == Units(ms)
  <1>4. us \in Seq(UnitsOf(Mesgs)) /\ Len(us) = 2 * Len(ms) /\ us \in Seq(AllUnits)
    <2>1. us \in Seq(UnitsOf(Mesgs)) /\ Len(us) = 2 * Len(ms)
      BY <1>3, UnitsAre
    <2> QED
      BY <2>1 DEF AllUnits, UnitsOf
  <1>5. InFlight' = us
    <2>1. cur # 0 /\ exp'.page = cur /\ exp'.o = 0 /\ exp'.n = 2 * Len(ms)
      BY <1>1, <1>2, SdtpBounds
    <2>2. InFlight' = SubSeq(us, 1, Len(us))
      BY <1>3, <1>4, <2>1 DEF InFlight, Unsent
    <2> HIDE DEF us
    <2>3. SubSeq(us, 1, Len(us)) = us
      BY <1>4
    <2> QED
      BY <2>2, <2>3
  <1> HIDE DEF us
  <1>6. wire \in Seq(AllUnits) /\ begun \in Seq(AllUnits) /\ Stream = wire
    <2>1. wire \in Seq(AllUnits) /\ begun \in Seq(AllUnits) /\ InFlight = <<>>
      BY <1>1, StreamTyped
    <2> QED
      BY <2>1 DEF Stream
  <1>7. FramedBy(wire, begun) /\ Len(begun) <= Len(wire) /\ (Len(wire) - Len(begun)) % 2 = 0
    BY <1>1, <1>6 DEF StreamFits, WholeAfter, Opens
  <1>8. ms \in Seq(Mesgs \cup Reqs)
    BY <1>3
  <1> HIDE DEF ms
  <1>9. /\ FramedBy(wire \o us, begun) /\ Len(begun) <= Len(wire \o us)
        /\ (Len(wire \o us) - Len(begun)) % 2 = 0
    BY <1>6, <1>7, <1>8, FramedMore DEF us, AllUnits
  <1>10. Stream' = wire \o us
    BY <1>2, <1>5 DEF Stream
  <1>11. FramedBy(wire, begun)' /\ FramedBy(Stream, begun)'
    BY <1>2, <1>7, <1>9, <1>10 DEF FramedBy
  <1>12. WholeAfter'
    BY <1>2, <1>9, <1>10 DEF WholeAfter
  <1> QED
    BY <1>11, <1>12 DEF StreamFits

\* Writing the page goes on in the stream.
LEMMA PageSentFits ==
    ASSUME SdtpBase, SdtpBase', StreamFits, fd # 0, UNCHANGED <<poolVars, begun>>,
           sendType = "EXP", NEW n \in Nat, PageSent(n)
    PROVE  StreamFits'
  <1>1. /\ n \in 1..exp.n - exp.o /\ exp.page # 0 /\ wire' = wire \o SubSeq(Unsent, 1, n)
        /\ exp.o + n = exp.n => exp'.page = 0 /\ exp'.o = 0 /\ exp'.n = 0
        /\ exp.o + n # exp.n =>
              exp'.page = exp.page /\ exp'.o = exp.o + n /\ exp'.n = exp.n /\ exp.o + n < exp.n
    BY PageSentParts DEF Written
  <1>2. UNCHANGED <<fd, mesgList, sys, page>>
    BY DEF PageSent, poolVars
  <1>3. sys = <<>>
    BY <1>1 DEF SdtpBase, SdtpControl
  <1> DEFINE us == Units(page[exp.page].data)
  <1>4. /\ exp.o \in Nat /\ exp.n \in Nat /\ exp.o < exp.n
        /\ us \in Seq(UnitsOf(Mesgs)) /\ Len(us) = exp.n
        /\ Unsent \in Seq(UnitsOf(Mesgs)) /\ Len(Unsent) = exp.n - exp.o
        /\ Unsent = SubSeq(us, exp.o + 1, exp.n)
        /\ \A i \in 1..(exp.n - exp.o) : exp.o + i \in 1..exp.n /\ Unsent[i] = us[exp.o + i]
    BY <1>1, UnsentAre
  <1>5. n \in 0..Len(Unsent)
    BY <1>1, <1>4
  <1> DEFINE rest == SubSeq(Unsent, n + 1, Len(Unsent))
  <1>6. /\ rest \in Seq(UnitsOf(Mesgs)) /\ Len(rest) = (exp.n - exp.o) - n
        /\ \A i \in 1..(exp.n - exp.o) - n : n + i \in 1..Len(Unsent) /\ rest[i] = Unsent[n + i]
    <2> HIDE DEF us
    <2>1. /\ rest \in Seq(UnitsOf(Mesgs)) /\ Len(rest) = Len(Unsent) - n
          /\ \A i \in 1..(Len(Unsent) - n) : n + i \in 1..Len(Unsent) /\ rest[i] = Unsent[n + i]
      <3>1. Unsent \in Seq(UnitsOf(Mesgs))
        BY <1>4
      <3> QED
        BY <1>5, <3>1, Cut
    <2> HIDE DEF rest
    <2> QED
      BY <1>4, <2>1
  <1> HIDE DEF us, rest
  <1>7. InFlight' = rest
    <2>1. CASE exp.o + n = exp.n
      <3>1. InFlight' = <<>>
        BY <1>1, <1>2, <1>3, <2>1 DEF InFlight
      <3>2. Len(rest) = 0
        BY <1>4, <1>6, <2>1
      <3> QED
        BY <1>6, <3>1, <3>2, SeqFacts
    <2>2. CASE exp.o + n # exp.n
      <3>1. InFlight' = SubSeq(us, (exp.o + n) + 1, exp.n)
        BY <1>1, <1>2, <2>2 DEF InFlight, Unsent, us
      <3>2. exp.o + n \in 0..Len(us)
        BY <1>1, <1>4
      <3> DEFINE tail == SubSeq(us, (exp.o + n) + 1, Len(us))
                 p == exp.o + n
      <3>3. /\ tail \in Seq(UnitsOf(Mesgs)) /\ Len(tail) = Len(us) - (exp.o + n)
            /\ \A i \in 1..(Len(us) - (exp.o + n)) : tail[i] = us[(exp.o + n) + i]
        <4>1. PICK k \in 0..Len(us) : k = exp.o + n
          BY <3>2
        <4>2. us \in Seq(UnitsOf(Mesgs))
          BY <1>4
        <4>3. /\ SubSeq(us, k + 1, Len(us)) \in Seq(UnitsOf(Mesgs))
              /\ Len(SubSeq(us, k + 1, Len(us))) = Len(us) - k
              /\ \A i \in 1..(Len(us) - k) : SubSeq(us, k + 1, Len(us))[i] = us[k + i]
          BY <4>2, Cut
        <4> QED
          BY <4>1, <4>3
      <3> HIDE DEF tail
      <3>4. Len(tail) = Len(rest)
        BY SMTT(40), <1>1, <1>4, <1>6, <3>3
      <3>5. ASSUME NEW i \in 1..Len(rest) PROVE tail[i] = rest[i]
        <4>1. i \in 1..(Len(us) - (exp.o + n)) /\ i \in 1..(exp.n - exp.o) - n
              /\ n + i \in 1..(exp.n - exp.o) /\ exp.o + (n + i) = (exp.o + n) + i
          BY SMTT(40), <1>1, <1>4, <1>6, <3>3, <3>4
        <4> QED
          BY <1>4, <1>6, <3>3, <4>1
      <3>6. tail = rest
        BY <1>6, <3>3, <3>4, <3>5, SameSeq
      <3> QED
        BY <1>4, <3>1, <3>6 DEF tail
    <2> QED
      BY <2>1, <2>2
  <1>8. wire \in Seq(AllUnits) /\ begun \in Seq(AllUnits) /\ Unsent \in Seq(AllUnits)
        /\ InFlight = Unsent
    BY <1>1, StreamTyped
  <1>9. Stream' = Stream
    <2>1. (wire \o SubSeq(Unsent, 1, n)) \o rest = wire \o Unsent
      BY <1>5, <1>8, Rejoin DEF rest
    <2> QED
      BY <1>1, <1>7, <1>8, <2>1 DEF Stream
  <1>10. FramedBy(Stream, begun)'
    BY <1>9 DEF StreamFits, FramedBy
  <1>11. FramedBy(wire, begun)'
    <2>1. wire' \in Seq(AllUnits) /\ InFlight' \in Seq(AllUnits) /\ begun' \in Seq(AllUnits)
      <3>1. rest \in Seq(AllUnits)
        BY <1>6 DEF AllUnits, UnitsOf
      <3>2. wire' \in Seq(AllUnits)
        BY DEF SdtpBase, SenderTypes, AllUnits
      <3> QED
        BY <1>7, <1>8, <3>1, <3>2
    <2>2. FramedBy(wire' \o InFlight', begun')
      BY <1>10 DEF Stream, FramedBy
    <2>3. FramedBy(wire', begun')
      BY <2>1, <2>2, FramedFront
    <2> QED
      BY <2>3 DEF FramedBy
  <1>12. WholeAfter => WholeAfter'
    BY <1>9 DEF WholeAfter
  <1>13. Opens => Opens'
    BY <1>2, <1>9 DEF Opens
  <1> QED
    BY <1>10, <1>11, <1>12, <1>13 DEF StreamFits

\* Writing requests goes on in the stream, or adds the requests just put into the buffer.
LEMMA ReqsSentFits ==
    ASSUME SdtpBase, SdtpBase', StreamFits, fd # 0, UNCHANGED <<poolVars, begun>>,
           sendType = "SYS", NEW n \in Nat, ReqsSent(n)
    PROVE  StreamFits'
  <1> DEFINE buff == FillSendBuff.buff
  <1>1. exp.page = 0 /\ UNCHANGED <<fd, exp>>
    BY DEF SdtpBase, SdtpControl, ReqsSent
  <1>2. /\ n \in 0..Len(buff) /\ wire' = wire \o SubSeq(buff, 1, n)
        /\ sys' = SubSeq(buff, n + 1, Len(buff)) /\ mesgList' = FillSendBuff.list
    BY ReqsSentParts DEF Written
  <1>3. buff \in Seq(UnitsOf(Reqs))
    BY FilledBuffer
  <1>4. wire \in Seq(AllUnits) /\ begun \in Seq(AllUnits) /\ InFlight = sys
    BY <1>1, StreamTyped
  <1> HIDE DEF buff
  <1>5. buff \in Seq(AllUnits)
    BY <1>3 DEF AllUnits, UnitsOf
  <1>6. InFlight' = sys'
    BY <1>1 DEF InFlight
  <1>7. Stream' = wire \o buff
    <2>1. Stream' = (wire \o SubSeq(buff, 1, n)) \o SubSeq(buff, n + 1, Len(buff))
      BY <1>2, <1>6 DEF Stream
    <2> QED
      BY <1>2, <1>4, <1>5, <2>1, Rejoin
  <1>8. FramedBy(Stream', begun') /\ (WholeAfter' \/ Opens')
    <2>1. CASE sys # <<>>
      <3>1. buff = sys /\ mesgList' = mesgList
        BY <1>2, <2>1, FilledBuffer DEF buff
      <3>2. Stream' = Stream
        BY <1>4, <1>7, <3>1 DEF Stream
      <3>3. FramedBy(Stream, begun) /\ (WholeAfter \/ Opens)
        BY DEF StreamFits
      <3>4. WholeAfter => WholeAfter'
        BY <3>2 DEF WholeAfter
      <3>5. Opens => Opens'
        BY <3>1, <3>2 DEF Opens
      <3> QED
        BY <3>2, <3>3, <3>4, <3>5
    <2>2. CASE sys = <<>>
      <3> DEFINE take == IF Len(mesgList) < SysBuff THEN Len(mesgList) ELSE SysBuff
                 ms == SubSeq(mesgList, 1, take)
      <3>1. /\ take \in 0..Len(mesgList) /\ (mesgList # <<>> => take > 0)
            /\ buff = Units(ms)
        BY <2>2, FilledBuffer DEF buff
      <3>2. mesgList \in Seq(Reqs)
        BY DEF SdtpBase, SenderTypes
      <3> HIDE DEF take
      <3>3. ms \in Seq(Reqs) /\ Len(ms) = take /\ \A i \in 1..take : ms[i] = mesgList[i]
        BY <3>1, <3>2, Cut
      <3> HIDE DEF ms
      <3>4. ms \in Seq(Mesgs \cup Reqs)
        BY <3>3
      <3>5. Stream = wire
        BY <1>4, <2>2 DEF Stream
      <3>6. FramedBy(wire, begun)
        BY DEF StreamFits
      <3>7. CASE WholeAfter
        <4>1. Len(begun) <= Len(wire) /\ (Len(wire) - Len(begun)) % 2 = 0
          BY <3>5, <3>7 DEF WholeAfter
        <4>2. /\ FramedBy(wire \o buff, begun) /\ Len(begun) <= Len(wire \o buff)
              /\ (Len(wire \o buff) - Len(begun)) % 2 = 0
          BY <1>4, <3>1, <3>4, <3>6, <4>1, FramedMore DEF AllUnits
        <4>3. WholeAfter'
          BY <1>7, <4>2 DEF WholeAfter
        <4> QED
          BY <1>7, <4>2, <4>3
      <3>8. CASE Opens
        <4>1. mesgList # <<>> /\ begun = wire \o Units(<<mesgList[1]>>)
          BY <3>5, <3>8 DEF Opens
        <4>2. take \in Nat /\ take > 0
          BY <3>1, <3>2, <4>1, SeqFacts
        <4>3. ms # <<>> /\ ms[1] = mesgList[1]
          BY <3>3, <4>2
        <4> DEFINE v == Units(<<ms[1]>>)
        <4>4. v \in Seq(AllUnits)
          <5>1. ms[1] \in Mesgs \cup Reqs
            BY <3>4, <4>3, SeqFacts
          <5> QED
            BY <5>1, UnitsOfOne DEF AllUnits
        <4>5. begun = wire \o v
          BY <4>1, <4>3
        <4>6. /\ FramedBy(wire \o Units(ms), wire \o v)
              /\ Len(wire \o v) <= Len(wire \o Units(ms))
              /\ (Len(wire \o Units(ms)) - Len(wire \o v)) % 2 = 0
          BY <1>4, <3>4, <4>3, <4>4, FramedOpen DEF AllUnits
        <4> HIDE DEF v
        <4>7. WholeAfter'
          BY <1>7, <3>1, <4>5, <4>6 DEF WholeAfter
        <4> QED
          BY <1>7, <3>1, <4>5, <4>6, <4>7
      <3> QED
        BY <3>7, <3>8 DEF StreamFits
    <2> QED
      BY <2>1, <2>2
  <1>9. FramedBy(wire', begun')
    <2>1. wire' \in Seq(AllUnits) /\ sys' \in Seq(AllUnits) /\ begun' \in Seq(AllUnits)
      BY <1>4 DEF SdtpBase, SenderTypes, AllUnits, UnitsOf
    <2>2. FramedBy(wire' \o sys', begun')
      BY <1>6, <1>8 DEF Stream
    <2> QED
      BY <2>1, <2>2, FramedFront
  <1>10. FramedBy(wire, begun)' /\ FramedBy(Stream, begun)'
    BY <1>8, <1>9 DEF FramedBy
  <1> QED
    BY <1>8, <1>10 DEF StreamFits

LEMMA SendDataFits ==
    ASSUME SdtpBase, StreamFits, SendData
    PROVE  StreamFits'
  <1>1. SdtpBase' /\ fd # 0 /\ UNCHANGED <<poolVars, begun>>
    BY SendDataBase, SendDataIs
  <1>2. ASSUME NEW next, NothingToSend(next) PROVE StreamFits'
    <2>1. UNCHANGED <<sys, exp, page, wire, mesgList>>
      BY <1>1, <1>2 DEF NothingToSend, poolVars
    <2>2. InFlight' = InFlight
      BY <2>1, InFlightSame
    <2> QED
      BY <1>1, <2>1, <2>2, FitsSame
  <1>3. ASSUME SendBreaks PROVE StreamFits'
    BY <1>1, <1>3, FitsCut DEF SendBreaks
  <1> QED
    BY <1>1, <1>2, <1>3, ReqsSentFits, PageSentFits, SendDataIs

\* The other steps leave the stream alone.
LEMMA PoolPushFits ==
    ASSUME SdtpBase, StreamFits, NEW c \in Clients, PoolPush(c)
    PROVE  StreamFits'
  <1>1. SenderTypes /\ UNCHANGED <<fd, sys, exp, wire, begun, mesgList>>
    BY PushesOrMoves DEF SdtpBase, linkVars, histVars
  <1>2. exp.page # 0 => page'[exp.page].data = page[exp.page].data
    <2> SUFFICES ASSUME exp.page # 0 PROVE page'[exp.page].data = page[exp.page].data
      OBVIOUS
    <2>1. exp.page \in Pages /\ page[exp.page].mode = "RD"
      BY DEF SdtpBase, SdtpControl, SenderTypes
    <2>2. ASSUME NEW p \in Pages, HasRoom(p),
                 page' = [page EXCEPT ![p].data = Append(@, <<c, cli[c].next>>)]
          PROVE  page'[exp.page] = page[exp.page]
      <3>1. p # exp.page
        BY <2>1, <2>2 DEF HasRoom
      <3> HIDE DEF HasRoom
      <3> QED
        BY <1>1, <2>1, <2>2, <3>1 DEF SenderTypes
    <2> QED
      BY <1>1, <2>2, PushesOrMoves
  <1>3. InFlight' = InFlight
    BY <1>1, <1>2, InFlightSame
  <1>4. CASE fd = 0
    BY <1>1, <1>4, FitsCut
  <1>5. CASE fd # 0
    BY <1>1, <1>3, <1>5, FitsSame
  <1> QED
    BY <1>4, <1>5

LEMMA SwitchSendBuffFits ==
    ASSUME SdtpBase, StreamFits, SwitchSendBuff
    PROVE  StreamFits'
  <1>1. /\ SenderTypes /\ SdtpControl /\ fd # 0
        /\ UNCHANGED <<fd, sys, exp, wire, begun, mesgList>>
    BY DEF SdtpBase, SwitchSendBuff, histVars
  <1>2. exp.page # 0 => page' = page
    <2>1. CASE page' = page
      BY <2>1
    <2>2. CASE ~StaysWithExp
      BY <1>1, <2>2 DEF StaysWithExp, SdtpControl, SenderTypes
    <2> QED
      BY <2>1, <2>2 DEF SwitchSendBuff
  <1>3. InFlight' = InFlight
    BY <1>1, <1>2, InFlightSame
  <1> QED
    BY <1>1, <1>3, FitsSame

LEMMA FitsKept ==
    ASSUME SdtpBase, StreamFits, SdtpSendNext \/ UNCHANGED sdtpVars
    PROVE  StreamFits'
  <1>1. ASSUME UNCHANGED <<page, sys, exp, wire, begun>>, fd' \in {fd, 0},
               mesgList' \in {mesgList, Append(mesgList, KpaliveReq)}
        PROVE  StreamFits'
    <2>1. InFlight' = InFlight
      BY <1>1, InFlightSame
    <2>2. CASE fd' = 0
      BY <1>1, <2>2, FitsCut
    <2>3. CASE fd' # 0
      BY <1>1, <2>1, <2>3, FitsSame
    <2> QED
      BY <2>2, <2>3
  <1>2. CASE \/ \E c \in Clients : SdsdCliInit(c)
             \/ \E p \in Pages : PageAges(p)
             \/ SsvrInit \/ Launch \/ PoolScan \/ RecvCmd \/ SelectWrite \/ UNCHANGED sdtpVars
    <2>1. UNCHANGED <<page, linkVars>>
      BY <1>2 DEF SdsdCliInit, PageAges, SsvrInit, Launch, PoolScan, RecvCmd, SelectWrite,
                  sdtpVars, poolVars
    <2> QED
      BY <1>1, <2>1 DEF linkVars, histVars
  <1>3. CASE RecvProc
    <2>1. UNCHANGED <<page, sys, exp, wire, begun, mesgList>> /\ fd' \in {fd, 0}
      BY <1>3 DEF RecvProc, poolVars, histVars
    <2> QED
      BY <1>1, <2>1
  <1>4. CASE TimeoutHdl
    <2>1. UNCHANGED <<page, exp, wire, begun>>
      BY <1>4 DEF TimeoutHdl, poolVars, histVars
    <2>2. \/ fd' = 0
          \/ UNCHANGED <<fd, sys>> /\ mesgList' = Append(mesgList, KpaliveReq)
      BY <1>4 DEF TimeoutHdl
    <2>3. CASE fd' = 0
      BY <2>1, <2>3, FitsCut
    <2> QED
      BY <1>1, <2>1, <2>2, <2>3
  <1> QED
    BY <1>2, <1>3, <1>4, PoolPushFits, SwitchSendBuffFits, PoolTakeFits, SendDataFits, ConnectFits
       DEF SdtpSendNext, SenderStep

LEMMA FitsGives == SdtpBase /\ StreamFits => Framed
  <1> SUFFICES ASSUME SdtpBase, StreamFits PROVE Framed
    OBVIOUS
  <1>1. DOMAIN wire = 1..Len(wire)
    BY SeqFacts DEF SdtpBase, SenderTypes
  <1> QED
    BY <1>1 DEF StreamFits, FramedBy, Framed

\* A connection begins with the units the buffers held when it was made and the
\* authentication request, and from there on carries whole messages, wherever the writes
\* before it ended and however they divide what they send.  Framed, for any number of
\* clients, messages, pages and requests a buffer holds.
THEOREM SdtpFramed == Spec => []Framed
  <1>1. Init => SdtpBase /\ StreamFits
    BY SdtpInitially, FitsInitially DEF Init
  <1>2. SdtpBase /\ StreamFits /\ [Next]_vars => (SdtpBase /\ StreamFits)'
    <2> SUFFICES ASSUME SdtpBase, StreamFits, SdtpSendNext \/ UNCHANGED sdtpVars
                 PROVE  (SdtpBase /\ StreamFits)'
      BY StepsApart
    <2> QED
      BY SdtpBaseKeeps, FitsKept
  <1> QED
    BY <1>1, <1>2, FitsGives, PTL DEF Spec

-----------------------------------------------------------------------------
(* The thread pool and the queues of the workers. *)

Job == [no : Nat, proc : {"none", "rtmq_worker_routine", "sdsd_worker_routine", "job"}]

JobTypes ==
    /\ jobs \in Seq(Job)
    /\ added \in Nat
    /\ thr \in [Threads -> [at : {"look", "wait", "run"}, job : Job]]

\* Jobs are numbered as they are added.
JobsInv ==
    /\ JobTypes
    /\ \A i \in DOMAIN jobs : jobs[i].no <= added
    /\ \A t \in Running : thr[t].job.no <= added
    /\ JobsOnce

LEMMA JobsInitially == PoolInit => JobsInv
  <1> SUFFICES ASSUME PoolInit PROVE JobsInv
    OBVIOUS
  <1>1. JobTypes
    BY DEF PoolInit, JobTypes, NoJob, Job
  <1>2. Running = {} /\ DOMAIN jobs = {}
    BY DEF PoolInit, Running
  <1> QED
    BY <1>1, <1>2 DEF JobsInv, JobsOnce

\* The threads that run a job, and the jobs they run, are the same.
LEMMA JobsSame ==
    ASSUME JobsInv, JobTypes', UNCHANGED <<jobs, added>>,
           \A t \in Threads : thr'[t].at = "run" => thr'[t] = thr[t]
    PROVE  JobsInv'
  <1>1. \A t \in Running' : t \in Running /\ thr'[t] = thr[t]
    BY DEF Running
  <1> QED
    BY <1>1 DEF JobsInv, JobsOnce

LEMMA AddWorkerKeeps ==
    ASSUME JobsInv, NEW a, NEW proc \in {"rtmq_worker_routine", "sdsd_worker_routine", "job"},
           AddWorker(a, proc)
    PROVE  JobsInv'
  <1> DEFINE new == [no |-> added + 1, proc |-> proc]
  <1>1. /\ jobs' = Append(jobs, new) /\ added' = added + 1 /\ thr' = thr
        /\ jobs \in Seq(Job) /\ added \in Nat /\ new \in Job /\ new.no = added + 1
    BY DEF AddWorker, JobsInv, JobTypes, Job
  <1> HIDE DEF new
  <1>2. /\ jobs' \in Seq(Job) /\ DOMAIN jobs = 1..Len(jobs) /\ DOMAIN jobs' = 1..Len(jobs) + 1
        /\ \A i \in 1..Len(jobs) : jobs'[i] = jobs[i]
        /\ jobs'[Len(jobs) + 1] = new /\ Len(jobs) \in Nat
    BY <1>1
  <1>3. JobTypes'
    BY <1>1, <1>2 DEF JobsInv, JobTypes
  <1>4. Running' = Running
    BY <1>1 DEF Running
  <1>5. \A t \in Running : thr[t].job.no \in Nat
    BY DEF JobsInv, JobTypes, Running, Job
  <1>6. \A i \in 1..Len(jobs) : jobs[i].no \in Nat
    <2>1. \A i \in 1..Len(jobs) : jobs[i] \in Job
      BY <1>1, SeqFacts
    <2> QED
      BY <2>1 DEF Job
  <1>7. /\ \A i \in DOMAIN jobs' : jobs'[i].no <= added'
        /\ \A t \in Running' : thr'[t].job.no <= added'
    BY <1>1, <1>2, <1>4, <1>5, <1>6 DEF JobsInv
  <1>8. JobsOnce'
    <2>1. \A t \in Running', i \in DOMAIN jobs' : thr'[t].job.no < jobs'[i].no
      BY <1>1, <1>2, <1>4, <1>5, <1>6 DEF JobsInv, JobsOnce
    <2>2. \A i, j \in DOMAIN jobs' : i < j => jobs'[i].no < jobs'[j].no
      BY <1>1, <1>2, <1>6 DEF JobsInv, JobsOnce
    <2> QED
      BY <1>1, <1>4, <2>1, <2>2 DEF JobsInv, JobsOnce
  <1> QED
    BY <1>3, <1>7, <1>8 DEF JobsInv

LEMMA SignalKeeps == ASSUME JobsInv, NEW a, Signal(a) PROVE JobsInv'
  <1>1. JobTypes'
    BY DEF JobsInv, JobTypes, Signal
  <1>2. \A t \in Threads : thr'[t].at = "run" => thr'[t] = thr[t]
    BY DEF JobsInv, JobTypes, Signal
  <1> QED
    BY <1>1, <1>2, JobsSame DEF Signal

LEMMA PoolStepKeeps == ASSUME JobsInv, PoolStep PROVE JobsInv'
  <1>1. PICK t \in Threads : Look(t) \/ SpuriousWakeup(t)
    BY DEF PoolStep
  <1>2. CASE SpuriousWakeup(t)
    <2>1. JobTypes'
      BY <1>2 DEF JobsInv, JobTypes, SpuriousWakeup
    <2>2. \A u \in Threads : thr'[u].at = "run" => thr'[u] = thr[u]
      BY <1>2 DEF JobsInv, JobTypes, SpuriousWakeup
    <2> QED
      BY <1>2, <2>1, <2>2, JobsSame DEF SpuriousWakeup
  <1>3. CASE Look(t) /\ jobs = <<>>
    <2>1. JobTypes'
      BY <1>3 DEF JobsInv, JobTypes, Look
    <2>2. \A u \in Threads : thr'[u].at = "run" => thr'[u] = thr[u]
      BY <1>3 DEF JobsInv, JobTypes, Look
    <2> QED
      BY <1>3, <2>1, <2>2, JobsSame DEF Look
  <1>4. CASE Look(t) /\ jobs # <<>>
    <2>1. /\ jobs \in Seq(Job) /\ added \in Nat
          /\ thr \in [Threads -> [at : {"look", "wait", "run"}, job : Job]]
          /\ thr' = [thr EXCEPT ![t] = [at |-> "run", job |-> Head(jobs)]]
          /\ jobs' = Tail(jobs) /\ added' = added /\ thr[t].at = "look"
      BY <1>4 DEF JobsInv, JobTypes, Look
    <2>2. /\ Len(jobs) \in Nat \ {0} /\ DOMAIN jobs = 1..Len(jobs) /\ Head(jobs) = jobs[1]
          /\ 1 \in DOMAIN jobs /\ \A i \in DOMAIN jobs : jobs[i] \in Job /\ jobs[i].no \in Nat
      <3>1. \A i \in DOMAIN jobs : jobs[i] \in Job
        BY <2>1, SeqFacts
      <3>2. \A j \in Job : j.no \in Nat
        BY DEF Job
      <3> QED
        BY <1>4, <2>1, <3>1, <3>2, SeqFacts, Shorter
    <2>a. /\ jobs' \in Seq(Job) /\ DOMAIN jobs' = 1..Len(jobs) - 1
          /\ \A i \in DOMAIN jobs' : i + 1 \in DOMAIN jobs /\ 1 < i + 1 /\ jobs'[i] = jobs[i + 1]
      BY <1>4, <2>1, <2>2, Shorter
    <2>3. JobTypes'
      BY <2>1, <2>2, <2>a DEF JobTypes
    <2>4. \A u \in Running' : \/ u = t /\ thr'[u].job = jobs[1]
                              \/ u \in Running \ {t} /\ thr'[u] = thr[u]
      BY <2>1, <2>2 DEF Running
    <2>5. \A u \in Running : thr[u].job.no \in Nat
      BY <2>1 DEF Running, Job
    <2>6. /\ \A i \in DOMAIN jobs' : jobs'[i].no <= added'
          /\ \A u \in Running' : thr'[u].job.no <= added'
      BY <2>1, <2>2, <2>a, <2>4 DEF JobsInv
    <2>7. \A u, v \in Running' : thr'[u].job.no = thr'[v].job.no => u = v
      BY <2>2, <2>4, <2>5 DEF JobsInv, JobsOnce, Running
    <2>8. \A u \in Running', i \in DOMAIN jobs' : thr'[u].job.no < jobs'[i].no
      BY <2>2, <2>a, <2>4, <2>5 DEF JobsInv, JobsOnce
    <2>9. \A i, j \in DOMAIN jobs' : i < j => jobs'[i].no < jobs'[j].no
      BY SMTT(40), <2>2, <2>a DEF JobsInv, JobsOnce
    <2> QED
      BY <2>3, <2>6, <2>7, <2>8, <2>9 DEF JobsInv, JobsOnce
  <1> QED
    BY <1>1, <1>2, <1>3, <1>4

-----------------------------------------------------------------------------
(* Blocks that hold a message, each at a place: item[l] is what is at place l, its *)
(* queue, its block and its message.                                               *)

\* A block is in its pool or at one place, and a message at one place or handled.
Stored(item, pool, came_, gone, Q, B) ==
    /\ \A l \in DOMAIN item :
          /\ item[l].q \in Q /\ item[l].b \in B \ pool[item[l].q]
          /\ item[l].no \in (1..came_) \ gone
    /\ \A k, l \in DOMAIN item :
          item[k].no = item[l].no \/ (item[k].q = item[l].q /\ item[k].b = item[l].b) => k = l
    /\ \A q \in Q : \A b \in B : b \in pool[q] \/ \E l \in DOMAIN item : item[l].q = q /\ item[l].b = b

Alike(x, y) == x.q = y.q /\ x.b = y.b /\ x.no = y.no

\* The items have other places, by the bijection f from the new ones to the old ones.
Renames(f, item, new, left) ==
    /\ f \in [DOMAIN new -> left]
    /\ \A k, l \in DOMAIN new : f[k] = f[l] => k = l
    /\ \A l \in left : \E k \in DOMAIN new : f[k] = l
    /\ \A l \in DOMAIN new : Alike(new[l], item[f[l]])

LEMMA Moved ==
    ASSUME NEW item, NEW new, NEW pool, NEW m, NEW gone, NEW Q, NEW B, NEW f,
           Stored(item, pool, m, gone, Q, B), Renames(f, item, new, DOMAIN item)
    PROVE  Stored(new, pool, m, gone, Q, B)
  <1>1. \A l \in DOMAIN new : /\ new[l].q \in Q /\ new[l].b \in B \ pool[new[l].q]
                              /\ new[l].no \in (1..m) \ gone
    BY DEF Stored, Renames, Alike
  <1>2. \A k, l \in DOMAIN new :
          new[k].no = new[l].no \/ (new[k].q = new[l].q /\ new[k].b = new[l].b) => k = l
    BY DEF Stored, Renames, Alike
  <1>3. \A q \in Q : \A b \in B : b \in pool[q] \/ \E l \in DOMAIN new : new[l].q = q /\ new[l].b = b
    BY DEF Stored, Renames, Alike
  <1> QED
    BY <1>1, <1>2, <1>3 DEF Stored

\* A message comes to place n and gets a block.
Arrives(n, q, b, item, new, pool, pool2, no) ==
    /\ n \notin DOMAIN item /\ DOMAIN new = DOMAIN item \cup {n}
    /\ \A l \in DOMAIN item : Alike(new[l], item[l])
    /\ b \in pool[q]
    /\ new[n].q = q /\ new[n].b = b /\ new[n].no = no
    /\ pool2 = [pool EXCEPT ![q] = @ \ {b}]

LEMMA Came ==
    ASSUME NEW item, NEW new, NEW pool, NEW pool2, NEW m \in Nat, NEW gone, NEW Q, NEW B,
           NEW n, NEW q \in Q, NEW b,
           Stored(item, pool, m, gone, Q, B), pool \in [Q -> SUBSET B], gone \subseteq 1..m,
           Arrives(n, q, b, item, new, pool, pool2, m + 1)
    PROVE  Stored(new, pool2, m + 1, gone, Q, B)
  <1>1. \A l \in DOMAIN new : /\ new[l].q \in Q /\ new[l].b \in B \ pool2[new[l].q]
                              /\ new[l].no \in (1..m + 1) \ gone
    BY DEF Stored, Arrives, Alike
  <1>2. \A k, l \in DOMAIN new :
          new[k].no = new[l].no \/ (new[k].q = new[l].q /\ new[k].b = new[l].b) => k = l
    <2>1. \A l \in DOMAIN item : /\ new[l].no # new[n].no
                                 /\ new[l].q = new[n].q => new[l].b # new[n].b
      BY DEF Stored, Arrives, Alike
    <2> QED
      BY <2>1 DEF Stored, Arrives, Alike
  <1>3. \A p \in Q : \A a \in B : a \in pool2[p] \/ \E l \in DOMAIN new : new[l].q = p /\ new[l].b = a
    <2> SUFFICES ASSUME NEW p \in Q, NEW a \in B, a \notin pool2[p]
                 PROVE  \E l \in DOMAIN new : new[l].q = p /\ new[l].b = a
      OBVIOUS
    <2>1. CASE p = q /\ a = b
      BY <2>1 DEF Arrives
    <2>2. CASE ~(p = q /\ a = b)
      <3>1. a \notin pool[p]
        BY <2>2 DEF Arrives
      <3> QED
        BY <3>1 DEF Stored, Arrives, Alike
    <2> QED
      BY <2>1, <2>2
  <1> QED
    BY <1>1, <1>2, <1>3 DEF Stored

\* A message is handled and its block given back.
LEMMA Handled ==
    ASSUME NEW item, NEW new, NEW pool, NEW pool2, NEW m, NEW gone, NEW Q, NEW B, NEW f,
           Stored(item, pool, m, gone, Q, B), pool \in [Q -> SUBSET B],
           NEW n \in DOMAIN item, Renames(f, item, new, DOMAIN item \ {n}),
           pool2 = [pool EXCEPT ![item[n].q] = @ \cup {item[n].b}]
    PROVE  Stored(new, pool2, m, gone \cup {item[n].no}, Q, B)
  <1>1. \A l \in DOMAIN new : /\ new[l].q \in Q /\ new[l].b \in B \ pool2[new[l].q]
                              /\ new[l].no \in (1..m) \ (gone \cup {item[n].no})
    BY DEF Stored, Renames, Alike
  <1>2. \A k, l \in DOMAIN new :
          new[k].no = new[l].no \/ (new[k].q = new[l].q /\ new[k].b = new[l].b) => k = l
    BY DEF Stored, Renames, Alike
  <1>3. \A p \in Q : \A a \in B : a \in pool2[p] \/ \E l \in DOMAIN new : new[l].q = p /\ new[l].b = a
    <2> SUFFICES ASSUME NEW p \in Q, NEW a \in B, a \notin pool2[p]
                 PROVE  \E l \in DOMAIN new : new[l].q = p /\ new[l].b = a
      OBVIOUS
    <2>1. a \notin pool[p] /\ ~(p = item[n].q /\ a = item[n].b)
      BY DEF Stored
    <2>2. PICK l \in DOMAIN item : item[l].q = p /\ item[l].b = a
      BY <2>1 DEF Stored
    <2> QED
      BY <2>1, <2>2 DEF Renames, Alike
  <1> QED
    BY <1>1, <1>2, <1>3 DEF Stored

\* A message is dropped.
LEMMA CameNot ==
    ASSUME NEW item, NEW pool, NEW m \in Nat, NEW gone, NEW Q, NEW B,
           Stored(item, pool, m, gone, Q, B)
    PROVE  Stored(item, pool, m + 1, gone, Q, B)
  BY DEF Stored

\* Where a message can be: with the thread that received it, in a queue, or with a worker.
PushAt(s) == <<"push", s, 0>>
QueueAt(q, i) == <<"queue", q, i>>
BatchAt(w, i) == <<"batch", w, i>>

LEMMA PlaceFacts ==
    /\ \A s : PushAt(s)[1] = "push" /\ PushAt(s)[2] = s
    /\ \A q, i : QueueAt(q, i)[1] = "queue" /\ QueueAt(q, i)[2] = q /\ QueueAt(q, i)[3] = i
    /\ \A w, i : BatchAt(w, i)[1] = "batch" /\ BatchAt(w, i)[2] = w /\ BatchAt(w, i)[3] = i
  BY DEF PushAt, QueueAt, BatchAt

LEMMA PlacesDiffer ==
    /\ \A q : \A i, j \in Nat : QueueAt(q, i) = QueueAt(q, j) => i = j
    /\ \A w : \A i, j \in Nat : BatchAt(w, i) = BatchAt(w, j) => i = j
  BY DEF QueueAt, BatchAt

\* The places of what threads are about to push, of queues, and of what workers have.
PushPlaces(ts) == {PushAt(s) : s \in {u \in DOMAIN ts : ts[u].do = "push"}}
QueuePlaces(qs) == UNION {{QueueAt(q, i) : i \in DOMAIN qs[q]} : q \in DOMAIN qs}
BatchPlaces(hs) == UNION {{BatchAt(w, i) : i \in DOMAIN hs[w].batch} : w \in DOMAIN hs}
PlacesIn(ts, qs, hs) == PushPlaces(ts) \cup QueuePlaces(qs) \cup BatchPlaces(hs)

ItemIn(p, ts, qs, hs) ==
    IF p[1] = "push" THEN [q |-> ts[p[2]].q, b |-> ts[p[2]].b, no |-> ts[p[2]].no]
    ELSE IF p[1] = "queue" THEN [q |-> p[2], b |-> qs[p[2]][p[3]].b, no |-> qs[p[2]][p[3]].no]
    ELSE [q |-> hs[p[2]].q, b |-> hs[p[2]].batch[p[3]].b, no |-> hs[p[2]].batch[p[3]].no]

ItemsIn(ts, qs, hs) == [p \in PlacesIn(ts, qs, hs) |-> ItemIn(p, ts, qs, hs)]

\* What the items are, place by place.
AtPush(I, ts) ==
    \A s \in DOMAIN ts :
        /\ PushAt(s) \in DOMAIN I <=> ts[s].do = "push"
        /\ PushAt(s) \in DOMAIN I =>
              /\ I[PushAt(s)].q = ts[s].q
              /\ I[PushAt(s)].b = ts[s].b /\ I[PushAt(s)].no = ts[s].no

AtQueue(I, qs) ==
    \A q \in DOMAIN qs : \A i \in Nat :
        /\ QueueAt(q, i) \in DOMAIN I <=> i \in DOMAIN qs[q]
        /\ QueueAt(q, i) \in DOMAIN I =>
              /\ I[QueueAt(q, i)].q = q
              /\ I[QueueAt(q, i)].b = qs[q][i].b /\ I[QueueAt(q, i)].no = qs[q][i].no

AtBatch(I, hs) ==
    \A w \in DOMAIN hs : \A i \in Nat :
        /\ BatchAt(w, i) \in DOMAIN I <=> i \in DOMAIN hs[w].batch
        /\ BatchAt(w, i) \in DOMAIN I =>
              /\ I[BatchAt(w, i)].q = hs[w].q
              /\ I[BatchAt(w, i)].b = hs[w].batch[i].b /\ I[BatchAt(w, i)].no = hs[w].batch[i].no

OnlyThere(I, ts, qs, hs) ==
    \A p \in DOMAIN I :
        \/ \E s \in DOMAIN ts : p = PushAt(s)
        \/ \E q \in DOMAIN qs : \E i \in Nat : p = QueueAt(q, i)
        \/ \E w \in DOMAIN hs : \E i \in Nat : p = BatchAt(w, i)

AreItems(I, ts, qs, hs) == AtPush(I, ts) /\ AtQueue(I, qs) /\ AtBatch(I, hs) /\ OnlyThere(I, ts, qs, hs)

LEMMA ItemsInAre ==
    ASSUME NEW ts, NEW qs, NEW hs,
           \A q \in DOMAIN qs : DOMAIN qs[q] \subseteq Nat,
           \A w \in DOMAIN hs : DOMAIN hs[w].batch \subseteq Nat
    PROVE  AreItems(ItemsIn(ts, qs, hs), ts, qs, hs)
  <1> DEFINE A == PushPlaces(ts)
             B == QueuePlaces(qs)
             C == BatchPlaces(hs)
             P == PlacesIn(ts, qs, hs)
             I == ItemsIn(ts, qs, hs)
  <1>1. \A p : p \in A <=> \E s \in DOMAIN ts : p = PushAt(s) /\ ts[s].do = "push"
    BY DEF PushPlaces
  <1>2. \A p : p \in B <=> \E q \in DOMAIN qs : \E i \in DOMAIN qs[q] : p = QueueAt(q, i)
    BY DEF QueuePlaces
  <1>3. \A p : p \in C <=> \E w \in DOMAIN hs : \E i \in DOMAIN hs[w].batch : p = BatchAt(w, i)
    BY DEF BatchPlaces
  <1>4. DOMAIN I = P /\ P = A \cup B \cup C
    BY DEF PlacesIn, ItemsIn
  <1>5. /\ \A s : ItemIn(PushAt(s), ts, qs, hs) = [q |-> ts[s].q, b |-> ts[s].b, no |-> ts[s].no]
        /\ \A q, i : ItemIn(QueueAt(q, i), ts, qs, hs) = [q |-> q, b |-> qs[q][i].b, no |-> qs[q][i].no]
        /\ \A w, i : ItemIn(BatchAt(w, i), ts, qs, hs)
                        = [q |-> hs[w].q, b |-> hs[w].batch[i].b, no |-> hs[w].batch[i].no]
    BY PlaceFacts DEF ItemIn
  <1>6. \A p \in P : I[p] = ItemIn(p, ts, qs, hs)
    BY DEF ItemsIn
  <1> HIDE DEF A, B, C, P, I
  <1>7. AtPush(I, ts)
    BY <1>1, <1>2, <1>3, <1>4, <1>5, <1>6, PlaceFacts DEF AtPush
  <1>8. AtQueue(I, qs)
    BY <1>1, <1>2, <1>3, <1>4, <1>5, <1>6, PlaceFacts DEF AtQueue
  <1>9. AtBatch(I, hs)
    BY <1>1, <1>2, <1>3, <1>4, <1>5, <1>6, PlaceFacts DEF AtBatch
  <1>10. OnlyThere(I, ts, qs, hs)
    BY <1>1, <1>2, <1>3, <1>4 DEF OnlyThere
  <1>11. AreItems(I, ts, qs, hs)
    BY <1>7, <1>8, <1>9, <1>10 DEF AreItems
  <1> QED
    BY <1>11 DEF I

\* A thread gets block b of queue q for message no.
LEMMA ItemArrives ==
    ASSUME NEW ts, NEW qs, NEW hs, NEW pool, NEW ts2, NEW pool2, NEW q, NEW b, NEW no, NEW I, NEW I2,
           AreItems(I, ts, qs, hs), AreItems(I2, ts2, qs, hs),
           NEW s \in DOMAIN ts, ts[s].do # "push", b \in pool[q],
           pool2 = [pool EXCEPT ![q] = @ \ {b}],
           ts2 = [ts EXCEPT ![s] = [do |-> "push", q |-> q, b |-> b, no |-> no]]
    PROVE  Arrives(PushAt(s), q, b, I, I2, pool, pool2, no)
  <1>1. /\ DOMAIN ts2 = DOMAIN ts /\ \A t \in DOMAIN ts \ {s} : ts2[t] = ts[t]
        /\ ts2[s] = [do |-> "push", q |-> q, b |-> b, no |-> no]
    OBVIOUS
  <1>2. PushAt(s) \notin DOMAIN I /\ PushAt(s) \in DOMAIN I2
    BY <1>1 DEF AreItems, AtPush, Alike
  <1>3. ASSUME NEW t \in DOMAIN ts \ {s}
        PROVE  /\ PushAt(t) \in DOMAIN I <=> PushAt(t) \in DOMAIN I2
               /\ PushAt(t) \in DOMAIN I => Alike(I[PushAt(t)], I2[PushAt(t)])
    BY <1>1 DEF AreItems, AtPush, Alike
  <1>4. ASSUME NEW r \in DOMAIN qs, NEW i \in Nat
        PROVE  /\ QueueAt(r, i) \in DOMAIN I <=> QueueAt(r, i) \in DOMAIN I2
               /\ QueueAt(r, i) \in DOMAIN I => Alike(I[QueueAt(r, i)], I2[QueueAt(r, i)])
    BY DEF AreItems, AtQueue, Alike
  <1>5. ASSUME NEW w \in DOMAIN hs, NEW i \in Nat
        PROVE  /\ BatchAt(w, i) \in DOMAIN I <=> BatchAt(w, i) \in DOMAIN I2
               /\ BatchAt(w, i) \in DOMAIN I => Alike(I[BatchAt(w, i)], I2[BatchAt(w, i)])
    BY DEF AreItems, AtBatch, Alike
  <1>6. \A p \in DOMAIN I : p \in DOMAIN I2 /\ Alike(I2[p], I[p])
    BY <1>2, <1>3, <1>4, <1>5 DEF AreItems, OnlyThere, Alike
  <1>7. \A p \in DOMAIN I2 : p \in DOMAIN I \/ p = PushAt(s)
    BY <1>1, <1>3, <1>4, <1>5 DEF AreItems, OnlyThere, Alike
  <1>8. I2[PushAt(s)].q = q /\ I2[PushAt(s)].b = b /\ I2[PushAt(s)].no = no
    BY <1>1, <1>2 DEF AreItems, AtPush, Alike
  <1> QED
    BY <1>2, <1>6, <1>7, <1>8 DEF Arrives

\* A thread pushes its block.
PushedTo(s, q, st, ts, qs, ts2, qs2, S) ==
    /\ s \in DOMAIN ts /\ q \in DOMAIN qs
    /\ ts[s].do = "push" /\ q = ts[s].q /\ qs[q] \in Seq(S)
    /\ [b |-> ts[s].b, no |-> ts[s].no] \in S
    /\ qs2 = [qs EXCEPT ![q] = Append(@, [b |-> ts[s].b, no |-> ts[s].no])]
    /\ st.do # "push" /\ ts2 = [ts EXCEPT ![s] = st]

LEMMA ItemPushed ==
    ASSUME NEW ts, NEW qs, NEW hs, NEW ts2, NEW qs2, NEW S, NEW s, NEW q, NEW st, NEW I, NEW I2,
           PushedTo(s, q, st, ts, qs, ts2, qs2, S),
           AreItems(I, ts, qs, hs), AreItems(I2, ts2, qs2, hs)
    PROVE  \E f : Renames(f, I, I2, DOMAIN I)
  <1> USE DEF PushedTo
  <1> DEFINE n == Len(qs[q]) + 1
             f == [p \in DOMAIN I2 |-> IF p = QueueAt(q, n) THEN PushAt(s) ELSE p]
  <1>1. /\ DOMAIN ts2 = DOMAIN ts /\ \A t \in DOMAIN ts \ {s} : ts2[t] = ts[t]
        /\ ts2[s] = st
    OBVIOUS
  <1>2. /\ DOMAIN qs2 = DOMAIN qs /\ \A r \in DOMAIN qs \ {q} : qs2[r] = qs[r]
        /\ qs2[q] = Append(qs[q], [b |-> ts[s].b, no |-> ts[s].no])
    OBVIOUS
  <1>3. /\ DOMAIN qs[q] = 1..n - 1 /\ DOMAIN qs2[q] = 1..n /\ n \in Nat \ {0}
        /\ \A i \in 1..n - 1 : qs2[q][i] = qs[q][i]
        /\ qs2[q][n] = [b |-> ts[s].b, no |-> ts[s].no]
    BY <1>2, Longer, SeqFacts
  <1> HIDE DEF n
  <1>4. /\ \A r \in DOMAIN qs : \A i : i \in DOMAIN qs2[r] <=> i \in DOMAIN qs[r] \/ (r = q /\ i = n)
        /\ \A r \in DOMAIN qs : \A i \in DOMAIN qs[r] : qs2[r][i] = qs[r][i]
        /\ n \notin DOMAIN qs[q]
    BY <1>2, <1>3
  <1>5. /\ QueueAt(q, n) \notin DOMAIN I /\ QueueAt(q, n) \in DOMAIN I2
        /\ PushAt(s) \in DOMAIN I /\ PushAt(s) \notin DOMAIN I2
        /\ Alike(I2[QueueAt(q, n)], I[PushAt(s)])
    <2>1. /\ PushAt(s) \in DOMAIN I /\ PushAt(s) \notin DOMAIN I2
          /\ I[PushAt(s)].q = q /\ I[PushAt(s)].b = ts[s].b /\ I[PushAt(s)].no = ts[s].no
      BY <1>1 DEF AreItems, AtPush, Alike
    <2>2. /\ QueueAt(q, n) \notin DOMAIN I /\ QueueAt(q, n) \in DOMAIN I2
          /\ I2[QueueAt(q, n)].q = q
          /\ I2[QueueAt(q, n)].b = ts[s].b /\ I2[QueueAt(q, n)].no = ts[s].no
      BY <1>2, <1>3, <1>4 DEF AreItems, AtQueue, Alike
    <2> QED
      BY <2>1, <2>2 DEF Alike
  <1>6a. ASSUME NEW t \in DOMAIN ts \ {s}
        PROVE  /\ PushAt(t) \in DOMAIN I <=> PushAt(t) \in DOMAIN I2
               /\ PushAt(t) \in DOMAIN I => Alike(I[PushAt(t)], I2[PushAt(t)])
    BY <1>1 DEF AreItems, AtPush, Alike
  <1>6b. ASSUME NEW r \in DOMAIN qs, NEW i \in Nat, QueueAt(r, i) # QueueAt(q, n)
        PROVE  /\ QueueAt(r, i) \in DOMAIN I <=> QueueAt(r, i) \in DOMAIN I2
               /\ QueueAt(r, i) \in DOMAIN I => Alike(I[QueueAt(r, i)], I2[QueueAt(r, i)])
    BY <1>2, <1>4, <1>6b DEF AreItems, AtQueue, Alike
  <1>6c. ASSUME NEW w \in DOMAIN hs, NEW i \in Nat
        PROVE  /\ BatchAt(w, i) \in DOMAIN I <=> BatchAt(w, i) \in DOMAIN I2
               /\ BatchAt(w, i) \in DOMAIN I => Alike(I[BatchAt(w, i)], I2[BatchAt(w, i)])
    BY DEF AreItems, AtBatch, Alike
  <1>6. ASSUME NEW p \in DOMAIN I2, p # QueueAt(q, n) PROVE p \in DOMAIN I /\ Alike(I2[p], I[p])
    BY SMTT(40), <1>1, <1>2, <1>5, <1>6, <1>6a, <1>6b, <1>6c DEF AreItems, OnlyThere, Alike
  <1>7. ASSUME NEW p \in DOMAIN I, p # PushAt(s) PROVE p \in DOMAIN I2
    BY <1>5, <1>7, <1>6a, <1>6b, <1>6c DEF AreItems, OnlyThere, Alike
  <1>8. f \in [DOMAIN I2 -> DOMAIN I]
    BY <1>5, <1>6
  <1>9. \A k, l \in DOMAIN I2 : f[k] = f[l] => k = l
    BY <1>5
  <1>10. \A l \in DOMAIN I : \E k \in DOMAIN I2 : f[k] = l
    BY <1>5, <1>7
  <1>11. \A l \in DOMAIN I2 : Alike(I2[l], I[f[l]])
    BY <1>5, <1>6
  <1> HIDE DEF f
  <1>12. Renames(f, I, I2, DOMAIN I)
    BY <1>8, <1>9, <1>10, <1>11 DEF Renames
  <1> QED
    BY <1>12

\* A worker takes the first n of a queue.
TakenBy(w, n, q, st, qs, hs, qs2, hs2, S) ==
    /\ w \in DOMAIN hs /\ q \in DOMAIN qs /\ qs[q] \in Seq(S) /\ n \in 0..Len(qs[q])
    /\ hs[w].batch = <<>>
    /\ qs2 = [qs EXCEPT ![q] = SubSeq(@, n + 1, Len(@))]
    /\ st.q = q /\ st.batch = SubSeq(qs[q], 1, n) /\ hs2 = [hs EXCEPT ![w] = st]

LEMMA ItemsTaken ==
    ASSUME NEW ts, NEW qs, NEW hs, NEW qs2, NEW hs2, NEW S, NEW w, NEW n, NEW q, NEW st, NEW I, NEW I2,
           TakenBy(w, n, q, st, qs, hs, qs2, hs2, S),
           AreItems(I, ts, qs, hs), AreItems(I2, ts, qs2, hs2)
    PROVE  \E f : Renames(f, I, I2, DOMAIN I)
  <1> USE DEF TakenBy
  <1> DEFINE L == Len(qs[q])
             Old(p) == IF p[1] = "queue" /\ p[2] = q THEN QueueAt(q, n + p[3])
                       ELSE IF p[1] = "batch" /\ p[2] = w THEN QueueAt(q, p[3]) ELSE p
             f == [p \in DOMAIN I2 |-> Old(p)]
  <1>1. /\ DOMAIN hs2 = DOMAIN hs /\ \A v \in DOMAIN hs \ {w} : hs2[v] = hs[v]
        /\ hs2[w] = st
    OBVIOUS
  <1>2. /\ DOMAIN qs2 = DOMAIN qs /\ \A r \in DOMAIN qs \ {q} : qs2[r] = qs[r]
        /\ qs2[q] = SubSeq(qs[q], n + 1, Len(qs[q]))
    OBVIOUS
  <1>3. /\ L \in Nat /\ n \in Nat /\ n <= L /\ DOMAIN qs[q] = 1..L
        /\ DOMAIN qs2[q] = 1..(L - n) /\ DOMAIN st.batch = 1..n
        /\ \A i \in 1..(L - n) : qs2[q][i] = qs[q][n + i]
        /\ \A i \in 1..n : st.batch[i] = qs[q][i]
    BY <1>2, Cut, SeqFacts
  <1> HIDE DEF L
  <1>4. ASSUME NEW t \in DOMAIN ts
        PROVE  /\ PushAt(t) \in DOMAIN I <=> PushAt(t) \in DOMAIN I2
               /\ PushAt(t) \in DOMAIN I => Alike(I2[PushAt(t)], I[PushAt(t)])
               /\ Old(PushAt(t)) = PushAt(t)
    BY PlaceFacts DEF AreItems, AtPush, Alike
  <1>5. ASSUME NEW r \in DOMAIN qs, r # q, NEW i \in Nat
        PROVE  /\ QueueAt(r, i) \in DOMAIN I <=> QueueAt(r, i) \in DOMAIN I2
               /\ QueueAt(r, i) \in DOMAIN I => Alike(I2[QueueAt(r, i)], I[QueueAt(r, i)])
               /\ Old(QueueAt(r, i)) = QueueAt(r, i)
    BY <1>2, <1>5, PlaceFacts DEF AreItems, AtQueue, Alike
  <1>6. ASSUME NEW v \in DOMAIN hs, v # w, NEW i \in Nat
        PROVE  /\ BatchAt(v, i) \in DOMAIN I <=> BatchAt(v, i) \in DOMAIN I2
               /\ BatchAt(v, i) \in DOMAIN I => Alike(I2[BatchAt(v, i)], I[BatchAt(v, i)])
               /\ Old(BatchAt(v, i)) = BatchAt(v, i)
    BY <1>1, <1>6, PlaceFacts DEF AreItems, AtBatch, Alike
  <1>7. ASSUME NEW i \in Nat
        PROVE  /\ QueueAt(q, i) \in DOMAIN I <=> i \in 1..L
               /\ QueueAt(q, i) \in DOMAIN I2 <=> i \in 1..(L - n)
               /\ BatchAt(w, i) \notin DOMAIN I
               /\ BatchAt(w, i) \in DOMAIN I2 <=> i \in 1..n
               /\ Old(QueueAt(q, i)) = QueueAt(q, n + i)
               /\ Old(BatchAt(w, i)) = QueueAt(q, i)
    <2>1. Old(QueueAt(q, i)) = QueueAt(q, n + i) /\ Old(BatchAt(w, i)) = QueueAt(q, i)
      BY PlaceFacts
    <2>2. QueueAt(q, i) \in DOMAIN I <=> i \in 1..L
      BY <1>3 DEF AreItems, AtQueue
    <2>3. QueueAt(q, i) \in DOMAIN I2 <=> i \in 1..(L - n)
      BY <1>2, <1>3 DEF AreItems, AtQueue
    <2>4. BatchAt(w, i) \notin DOMAIN I
      BY DEF AreItems, AtBatch
    <2>5. BatchAt(w, i) \in DOMAIN I2 <=> i \in 1..n
      BY <1>1, <1>3 DEF AreItems, AtBatch
    <2> QED
      BY <2>1, <2>2, <2>3, <2>4, <2>5
  <1>8. ASSUME NEW i \in 1..(L - n)
        PROVE  /\ n + i \in 1..L /\ n + i \in Nat /\ i \in Nat
               /\ Alike(I2[QueueAt(q, i)], I[QueueAt(q, n + i)])
    <2>1. n + i \in 1..L /\ i \in Nat /\ n + i \in Nat
      BY <1>3
    <2>2. /\ I2[QueueAt(q, i)].q = q
          /\ I2[QueueAt(q, i)].b = qs2[q][i].b /\ I2[QueueAt(q, i)].no = qs2[q][i].no
      BY <1>2, <1>7, <2>1 DEF AreItems, AtQueue
    <2>3. /\ I[QueueAt(q, n + i)].q = q
          /\ I[QueueAt(q, n + i)].b = qs[q][n + i].b /\ I[QueueAt(q, n + i)].no = qs[q][n + i].no
      BY <1>7, <2>1 DEF AreItems, AtQueue
    <2> QED
      BY <1>3, <2>1, <2>2, <2>3 DEF Alike
  <1>9. ASSUME NEW i \in 1..n
        PROVE  i \in 1..L /\ i \in Nat /\ Alike(I2[BatchAt(w, i)], I[QueueAt(q, i)])
    <2>1. i \in 1..L /\ i \in Nat
      BY <1>3
    <2>2. /\ I2[BatchAt(w, i)].q = q
          /\ I2[BatchAt(w, i)].b = st.batch[i].b /\ I2[BatchAt(w, i)].no = st.batch[i].no
      BY <1>1, <1>7, <2>1 DEF AreItems, AtBatch
    <2>3. /\ I[QueueAt(q, i)].q = q
          /\ I[QueueAt(q, i)].b = qs[q][i].b /\ I[QueueAt(q, i)].no = qs[q][i].no
      BY <1>7, <2>1 DEF AreItems, AtQueue
    <2> QED
      BY <1>3, <2>1, <2>2, <2>3 DEF Alike
  \* What an item of the new state is, and what it was.
  <1>10. ASSUME NEW p \in DOMAIN I2
         PROVE  \/ p \in DOMAIN I /\ Old(p) = p /\ Alike(I2[p], I[p]) /\ ~(p[1] = "queue" /\ p[2] = q)
                \/ \E i \in 1..(L - n) : p = QueueAt(q, i) /\ Old(p) = QueueAt(q, n + i)
                \/ \E i \in 1..n : p = BatchAt(w, i) /\ Old(p) = QueueAt(q, i)
    <2>1. CASE \E t \in DOMAIN ts : p = PushAt(t)
      BY <1>4, <2>1, PlaceFacts
    <2>2. CASE \E r \in DOMAIN qs : \E i \in Nat : p = QueueAt(r, i)
      <3>1. PICK r \in DOMAIN qs : \E i \in Nat : p = QueueAt(r, i)
        BY <2>2
      <3>2. PICK i \in Nat : p = QueueAt(r, i)
        BY <3>1
      <3>3. CASE r = q
        BY <1>7, <3>2, <3>3
      <3>4. CASE r # q
        BY <1>5, <3>2, <3>4, PlaceFacts
      <3> QED
        BY <3>3, <3>4
    <2>3. CASE \E v \in DOMAIN hs : \E i \in Nat : p = BatchAt(v, i)
      <3>1. PICK v \in DOMAIN hs : \E i \in Nat : p = BatchAt(v, i)
        BY <2>3
      <3>2. PICK i \in Nat : p = BatchAt(v, i)
        BY <3>1
      <3>3. CASE v = w
        BY <1>7, <3>2, <3>3
      <3>4. CASE v # w
        BY <1>6, <3>2, <3>4, PlaceFacts
      <3> QED
        BY <3>3, <3>4
    <2> QED
      BY <1>1, <1>2, <2>1, <2>2, <2>3 DEF AreItems, OnlyThere
  <1>11. ASSUME NEW p \in DOMAIN I
         PROVE  \/ p \in DOMAIN I2 /\ Old(p) = p
                \/ \E i \in 1..L : p = QueueAt(q, i)
    <2>1. CASE \E t \in DOMAIN ts : p = PushAt(t)
      BY <1>4, <2>1
    <2>2. CASE \E r \in DOMAIN qs : \E i \in Nat : p = QueueAt(r, i)
      BY ZenonT(60), <1>5, <1>7, <2>2
    <2>3. CASE \E v \in DOMAIN hs : \E i \in Nat : p = BatchAt(v, i)
      BY ZenonT(60), <1>6, <1>7, <2>3
    <2> QED
      BY <2>1, <2>2, <2>3 DEF AreItems, OnlyThere
  <1> HIDE DEF Old
  <1>12. \A p \in DOMAIN I2 : f[p] = Old(p)
    OBVIOUS
  <1>13. f \in [DOMAIN I2 -> DOMAIN I]
    <2> SUFFICES ASSUME NEW p \in DOMAIN I2 PROVE Old(p) \in DOMAIN I
      OBVIOUS
    <2> QED
      BY <1>7, <1>8, <1>9, <1>10
  <1>14. \A k, l \in DOMAIN I2 : f[k] = f[l] => k = l
    <2> SUFFICES ASSUME NEW k \in DOMAIN I2, NEW l \in DOMAIN I2, Old(k) = Old(l) PROVE k = l
      BY <1>12
    <2>1. CASE k \in DOMAIN I /\ Old(k) = k /\ ~(k[1] = "queue" /\ k[2] = q)
      <3>1. Old(l) = l \/ (Old(l)[1] = "queue" /\ Old(l)[2] = q)
        <4>1. CASE \E i \in 1..(L - n) : l = QueueAt(q, i) /\ Old(l) = QueueAt(q, n + i)
          BY <4>1, PlaceFacts
        <4>2. CASE \E i \in 1..n : l = BatchAt(w, i) /\ Old(l) = QueueAt(q, i)
          BY <4>2, PlaceFacts
        <4> QED
          BY <1>10, <4>1, <4>2
      <3> QED
        BY <2>1, <3>1
    <2>2. CASE \E i \in 1..(L - n) : k = QueueAt(q, i) /\ Old(k) = QueueAt(q, n + i)
      <3>1. PICK i \in 1..(L - n) : k = QueueAt(q, i) /\ Old(k) = QueueAt(q, n + i)
        BY <2>2
      <3>2. CASE l \in DOMAIN I /\ Old(l) = l /\ ~(l[1] = "queue" /\ l[2] = q)
        BY <3>1, <3>2, PlaceFacts
      <3>3. CASE \E j \in 1..(L - n) : l = QueueAt(q, j) /\ Old(l) = QueueAt(q, n + j)
        <4>1. PICK j \in 1..(L - n) : l = QueueAt(q, j) /\ Old(l) = QueueAt(q, n + j)
          BY <3>3
        <4>2. n + i = n + j
          <5>1. n + i \in Nat /\ n + j \in Nat /\ QueueAt(q, n + i) = QueueAt(q, n + j)
            BY <1>8, <3>1, <4>1
          <5> QED
            BY <5>1, PlacesDiffer
        <4> QED
          BY <1>3, <3>1, <4>1, <4>2
      <3>4. CASE \E j \in 1..n : l = BatchAt(w, j) /\ Old(l) = QueueAt(q, j)
        <4>1. PICK j \in 1..n : l = BatchAt(w, j) /\ Old(l) = QueueAt(q, j)
          BY <3>4
        <4>2. n + i = j
          <5>1. n + i \in Nat /\ j \in Nat /\ QueueAt(q, n + i) = QueueAt(q, j)
            BY <1>8, <1>9, <3>1, <4>1
          <5> QED
            BY <5>1, PlacesDiffer
        <4> QED
          BY <1>3, <4>2
      <3> QED
        BY <1>10, <3>2, <3>3, <3>4
    <2>3. CASE \E i \in 1..n : k = BatchAt(w, i) /\ Old(k) = QueueAt(q, i)
      <3>1. PICK i \in 1..n : k = BatchAt(w, i) /\ Old(k) = QueueAt(q, i)
        BY <2>3
      <3>2. CASE l \in DOMAIN I /\ Old(l) = l /\ ~(l[1] = "queue" /\ l[2] = q)
        BY <3>1, <3>2, PlaceFacts
      <3>3. CASE \E j \in 1..(L - n) : l = QueueAt(q, j) /\ Old(l) = QueueAt(q, n + j)
        <4>1. PICK j \in 1..(L - n) : l = QueueAt(q, j) /\ Old(l) = QueueAt(q, n + j)
          BY <3>3
        <4>2. i = n + j
          <5>1. i \in Nat /\ n + j \in Nat /\ QueueAt(q, i) = QueueAt(q, n + j)
            BY <1>8, <1>9, <3>1, <4>1
          <5> QED
            BY <5>1, PlacesDiffer
        <4> QED
          BY <1>3, <4>2
      <3>4. CASE \E j \in 1..n : l = BatchAt(w, j) /\ Old(l) = QueueAt(q, j)
        <4>1. PICK j \in 1..n : l = BatchAt(w, j) /\ Old(l) = QueueAt(q, j)
          BY <3>4
        <4>2. i = j
          <5>1. i \in Nat /\ j \in Nat /\ QueueAt(q, i) = QueueAt(q, j)
            BY <1>9, <3>1, <4>1
          <5> QED
            BY <5>1, PlacesDiffer
        <4> QED
          BY <3>1, <4>1, <4>2
      <3> QED
        BY <1>10, <3>2, <3>3, <3>4
    <2> QED
      BY <1>10, <2>1, <2>2, <2>3
  <1>15. \A p \in DOMAIN I : \E k \in DOMAIN I2 : f[k] = p
    <2> SUFFICES ASSUME NEW p \in DOMAIN I PROVE \E k \in DOMAIN I2 : Old(k) = p
      BY <1>12
    <2>1. CASE \E i \in 1..L : p = QueueAt(q, i)
      <3>1. PICK i \in 1..L : p = QueueAt(q, i)
        BY <2>1
      <3>2. i \in Nat /\ (i \in 1..n \/ (i - n \in 1..(L - n) /\ i - n \in Nat /\ n + (i - n) = i))
        BY <1>3
      <3>3. CASE i \in 1..n
        BY <1>7, <3>1, <3>2, <3>3
      <3>4. CASE i - n \in 1..(L - n) /\ i - n \in Nat /\ n + (i - n) = i
        BY <1>7, <3>1, <3>4
      <3> QED
        BY <3>2, <3>3, <3>4
    <2> QED
      BY <1>11, <2>1
  <1>16. \A p \in DOMAIN I2 : Alike(I2[p], I[f[p]])
    BY <1>8, <1>9, <1>10, <1>12
  <1> HIDE DEF f
  <1>17. Renames(f, I, I2, DOMAIN I)
    BY <1>13, <1>14, <1>15, <1>16 DEF Renames
  <1> QED
    BY <1>17

\* A worker gives back the first block it has.
GivenBack(w, st, hs, hs2, S) ==
    /\ w \in DOMAIN hs /\ hs[w].batch \in Seq(S) /\ hs[w].batch # <<>>
    /\ st.batch = Tail(hs[w].batch) /\ (st.batch # <<>> => st.q = hs[w].q)
    /\ hs2 = [hs EXCEPT ![w] = st]

\* The items without the one at p, which was the first a worker had.
GaveBack(p, hand, I, I2) ==
    /\ p \in DOMAIN I
    /\ I[p].q = hand.q /\ I[p].b = hand.batch[1].b /\ I[p].no = hand.batch[1].no
    /\ \E f : Renames(f, I, I2, DOMAIN I \ {p})

LEMMA ItemGiven ==
    ASSUME NEW ts, NEW qs, NEW hs, NEW hs2, NEW S, NEW w, NEW st, NEW I, NEW I2,
           GivenBack(w, st, hs, hs2, S),
           AreItems(I, ts, qs, hs), AreItems(I2, ts, qs, hs2)
    PROVE  GaveBack(BatchAt(w, 1), hs[w], I, I2)
  <1> USE DEF GivenBack
  <1> DEFINE L == Len(hs[w].batch)
             first == BatchAt(w, 1)
             Old(p) == IF p[1] = "batch" /\ p[2] = w THEN BatchAt(w, 1 + p[3]) ELSE p
             f == [p \in DOMAIN I2 |-> Old(p)]
  <1>1. /\ DOMAIN hs2 = DOMAIN hs /\ \A v \in DOMAIN hs \ {w} : hs2[v] = hs[v]
        /\ hs2[w] = st
    OBVIOUS
  <1>2. /\ L \in Nat \ {0} /\ DOMAIN hs[w].batch = 1..L /\ DOMAIN st.batch = 1..(L - 1)
        /\ \A i \in 1..(L - 1) : st.batch[i] = hs[w].batch[i + 1]
        /\ st.batch = <<>> <=> L = 1
    <2> DEFINE s == hs[w].batch
    <2>1. s \in Seq(S) /\ s # <<>>
      OBVIOUS
    <2> HIDE DEF s
    <2>2. /\ Len(s) \in Nat \ {0} /\ DOMAIN s = 1..Len(s)
          /\ Tail(s) \in Seq(S) /\ Len(Tail(s)) = Len(s) - 1
          /\ \A i \in 1..Len(Tail(s)) : Tail(s)[i] = s[i + 1]
      BY <2>1, SeqFacts, Shorter
    <2>3. DOMAIN Tail(s) = 1..(Len(s) - 1) /\ (Tail(s) = <<>> <=> Len(s) = 1)
      <3>1. DOMAIN Tail(s) = 1..Len(Tail(s)) /\ (Tail(s) = <<>> <=> Len(Tail(s)) = 0)
        BY <2>2, SeqFacts
      <3> QED
        BY <2>2, <3>1
    <2>4. L = Len(s) /\ st.batch = Tail(s) /\ hs[w].batch = s
      BY DEF s
    <2> QED
      BY <2>2, <2>3, <2>4
  <1> HIDE DEF L
  <1>3. ASSUME NEW i \in Nat
        PROVE  /\ BatchAt(w, i) \in DOMAIN I <=> i \in 1..L
               /\ BatchAt(w, i) \in DOMAIN I2 <=> i \in 1..(L - 1)
               /\ Old(BatchAt(w, i)) = BatchAt(w, 1 + i)
    <2>1. Old(BatchAt(w, i)) = BatchAt(w, 1 + i)
      BY PlaceFacts
    <2>2. BatchAt(w, i) \in DOMAIN I <=> i \in 1..L
      BY <1>2 DEF AreItems, AtBatch
    <2>3. BatchAt(w, i) \in DOMAIN I2 <=> i \in 1..(L - 1)
      BY <1>1, <1>2 DEF AreItems, AtBatch
    <2> QED
      BY <2>1, <2>2, <2>3
  <1>4. /\ first \in DOMAIN I /\ I[first].q = hs[w].q
        /\ I[first].b = hs[w].batch[1].b /\ I[first].no = hs[w].batch[1].no
    <2>1. 1 \in Nat /\ 1 \in 1..L
      BY <1>2
    <2>2. BatchAt(w, 1) \in DOMAIN I
      BY <1>3, <2>1
    <2> QED
      BY <2>1, <2>2 DEF AreItems, AtBatch
  <1>5. ASSUME NEW t \in DOMAIN ts
        PROVE  /\ PushAt(t) \in DOMAIN I <=> PushAt(t) \in DOMAIN I2
               /\ PushAt(t) \in DOMAIN I => Alike(I2[PushAt(t)], I[PushAt(t)])
               /\ Old(PushAt(t)) = PushAt(t)
    BY PlaceFacts DEF AreItems, AtPush, Alike
  <1>6. ASSUME NEW r \in DOMAIN qs, NEW i \in Nat
        PROVE  /\ QueueAt(r, i) \in DOMAIN I <=> QueueAt(r, i) \in DOMAIN I2
               /\ QueueAt(r, i) \in DOMAIN I => Alike(I2[QueueAt(r, i)], I[QueueAt(r, i)])
               /\ Old(QueueAt(r, i)) = QueueAt(r, i)
    BY PlaceFacts DEF AreItems, AtQueue, Alike
  <1>7. ASSUME NEW v \in DOMAIN hs, v # w, NEW i \in Nat
        PROVE  /\ BatchAt(v, i) \in DOMAIN I <=> BatchAt(v, i) \in DOMAIN I2
               /\ BatchAt(v, i) \in DOMAIN I => Alike(I2[BatchAt(v, i)], I[BatchAt(v, i)])
               /\ Old(BatchAt(v, i)) = BatchAt(v, i)
    BY <1>1, <1>7, PlaceFacts DEF AreItems, AtBatch, Alike
  <1>8. ASSUME NEW i \in 1..(L - 1)
        PROVE  /\ 1 + i \in 1..L /\ 1 + i \in Nat /\ i \in Nat /\ 1 + i # 1
               /\ Alike(I2[BatchAt(w, i)], I[BatchAt(w, 1 + i)])
    <2>1. 1 + i \in 1..L /\ i \in Nat /\ 1 + i \in Nat /\ 1 + i # 1 /\ 1 + i = i + 1
      BY <1>2
    <2>2. st.q = hs[w].q
      BY <1>2
    <2>3. /\ I2[BatchAt(w, i)].q = st.q
          /\ I2[BatchAt(w, i)].b = st.batch[i].b /\ I2[BatchAt(w, i)].no = st.batch[i].no
      BY ZenonT(60), <1>1, <1>3, <2>1 DEF AreItems, AtBatch
    <2>4. /\ I[BatchAt(w, 1 + i)].q = hs[w].q
          /\ I[BatchAt(w, 1 + i)].b = hs[w].batch[1 + i].b /\ I[BatchAt(w, 1 + i)].no = hs[w].batch[1 + i].no
      BY <1>3, <2>1 DEF AreItems, AtBatch
    <2> QED
      BY <1>2, <2>1, <2>2, <2>3, <2>4 DEF Alike
  <1>9. ASSUME NEW p \in DOMAIN I2
        PROVE  \/ p \in DOMAIN I /\ Old(p) = p /\ Alike(I2[p], I[p]) /\ ~(p[1] = "batch" /\ p[2] = w)
               \/ \E i \in 1..(L - 1) : p = BatchAt(w, i) /\ Old(p) = BatchAt(w, 1 + i)
    <2>1. CASE \E t \in DOMAIN ts : p = PushAt(t)
      BY <1>5, <2>1, PlaceFacts
    <2>2. CASE \E r \in DOMAIN qs : \E i \in Nat : p = QueueAt(r, i)
      BY <1>6, <2>2, PlaceFacts
    <2>3. CASE \E v \in DOMAIN hs : \E i \in Nat : p = BatchAt(v, i)
      <3>1. PICK v \in DOMAIN hs : \E i \in Nat : p = BatchAt(v, i)
        BY <2>3
      <3>2. PICK i \in Nat : p = BatchAt(v, i)
        BY <3>1
      <3>3. CASE v = w
        BY <1>3, <3>2, <3>3
      <3>4. CASE v # w
        BY <1>7, <3>2, <3>4, PlaceFacts
      <3> QED
        BY <3>3, <3>4
    <2> QED
      BY <1>1, <2>1, <2>2, <2>3 DEF AreItems, OnlyThere
  <1>10. ASSUME NEW p \in DOMAIN I
         PROVE  \/ p \in DOMAIN I2 /\ Old(p) = p
                \/ \E i \in 1..L : p = BatchAt(w, i)
    <2>1. CASE \E t \in DOMAIN ts : p = PushAt(t)
      BY <1>5, <2>1
    <2>2. CASE \E r \in DOMAIN qs : \E i \in Nat : p = QueueAt(r, i)
      BY <1>6, <2>2
    <2>3. CASE \E v \in DOMAIN hs : \E i \in Nat : p = BatchAt(v, i)
      BY <1>3, <1>7, <2>3
    <2> QED
      BY <2>1, <2>2, <2>3 DEF AreItems, OnlyThere
  <1>11. first[1] = "batch" /\ first[2] = w /\ \A i \in Nat : BatchAt(w, i) = first <=> i = 1
    BY PlaceFacts, PlacesDiffer
  <1> HIDE DEF Old, first
  <1>12. \A p \in DOMAIN I2 : f[p] = Old(p)
    OBVIOUS
  <1>13. f \in [DOMAIN I2 -> DOMAIN I \ {first}]
    <2> SUFFICES ASSUME NEW p \in DOMAIN I2 PROVE Old(p) \in DOMAIN I \ {first}
      OBVIOUS
    <2>1. CASE p \in DOMAIN I /\ Old(p) = p /\ ~(p[1] = "batch" /\ p[2] = w)
      BY <1>11, <2>1
    <2>2. CASE \E i \in 1..(L - 1) : p = BatchAt(w, i) /\ Old(p) = BatchAt(w, 1 + i)
      BY <1>3, <1>8, <1>11, <2>2
    <2> QED
      BY <1>9, <2>1, <2>2
  <1>14. \A k, l \in DOMAIN I2 : f[k] = f[l] => k = l
    <2> SUFFICES ASSUME NEW k \in DOMAIN I2, NEW l \in DOMAIN I2, Old(k) = Old(l) PROVE k = l
      BY <1>12
    <2>1. \A p \in DOMAIN I2 : Old(p) = p \/ (Old(p)[1] = "batch" /\ Old(p)[2] = w)
      BY <1>9, PlaceFacts
    <2>2. CASE Old(k) = k /\ ~(k[1] = "batch" /\ k[2] = w)
      BY <2>1, <2>2
    <2>3. CASE Old(l) = l /\ ~(l[1] = "batch" /\ l[2] = w)
      BY <2>1, <2>3
    <2>4. CASE /\ \E i \in 1..(L - 1) : k = BatchAt(w, i) /\ Old(k) = BatchAt(w, 1 + i)
               /\ \E i \in 1..(L - 1) : l = BatchAt(w, i) /\ Old(l) = BatchAt(w, 1 + i)
      <3>1. PICK i \in 1..(L - 1) : k = BatchAt(w, i) /\ Old(k) = BatchAt(w, 1 + i)
        BY <2>4
      <3>2. PICK j \in 1..(L - 1) : l = BatchAt(w, j) /\ Old(l) = BatchAt(w, 1 + j)
        BY <2>4
      <3>3. 1 + i \in Nat /\ 1 + j \in Nat /\ BatchAt(w, 1 + i) = BatchAt(w, 1 + j)
        BY <1>8, <3>1, <3>2
      <3>4. 1 + i = 1 + j
        BY <3>3, PlacesDiffer
      <3>5. i = j
        BY <1>2, <3>4
      <3> QED
        BY <3>1, <3>2, <3>5
    <2> QED
      BY <1>9, <2>2, <2>3, <2>4
  <1>15. \A p \in DOMAIN I \ {first} : \E k \in DOMAIN I2 : f[k] = p
    <2> SUFFICES ASSUME NEW p \in DOMAIN I, p # first PROVE \E k \in DOMAIN I2 : Old(k) = p
      BY <1>12
    <2>1. CASE \E i \in 1..L : p = BatchAt(w, i)
      <3>1. PICK i \in 1..L : p = BatchAt(w, i)
        BY <2>1
      <3>2. i # 1 /\ i \in Nat
        BY <1>2, <1>11, <3>1
      <3>3. i - 1 \in 1..(L - 1) /\ i - 1 \in Nat /\ 1 + (i - 1) = i
        BY <1>2, <3>2
      <3> QED
        BY <1>3, <3>1, <3>3
    <2> QED
      BY <1>10, <2>1
  <1>16. \A p \in DOMAIN I2 : Alike(I2[p], I[f[p]])
    BY <1>8, <1>9, <1>12
  <1> HIDE DEF f
  <1>17. Renames(f, I, I2, DOMAIN I \ {first})
    BY <1>13, <1>14, <1>15, <1>16 DEF Renames
  <1> QED
    BY <1>4, <1>17 DEF first, GaveBack

\* A block of the pool is nowhere else, and any other block is at one place.
LEMMA UsedOnce ==
    ASSUME NEW ts, NEW qs, NEW hs, NEW I, AreItems(I, ts, qs, hs),
           \A p \in DOMAIN qs : DOMAIN qs[p] \subseteq Nat,
           \A w \in DOMAIN hs : DOMAIN hs[w].batch \subseteq Nat,
           NEW pool, NEW m, NEW gone, NEW B, Stored(I, pool, m, gone, DOMAIN qs, B),
           NEW q \in DOMAIN qs, NEW b \in B
    PROVE  LET Pushes(s) == ts[s].do = "push" /\ ts[s].q = q /\ ts[s].b = b
               Queued(i) == qs[q][i].b = b
               Has(w, i) == hs[w].q = q /\ hs[w].batch[i].b = b
               NonePushes == \A s \in DOMAIN ts : ~Pushes(s)
               NoneQueued == \A i \in DOMAIN qs[q] : ~Queued(i)
               NoneHas == \A w \in DOMAIN hs : \A i \in DOMAIN hs[w].batch : ~Has(w, i)
           IN  IF b \in pool[q] THEN NonePushes /\ NoneQueued /\ NoneHas
               ELSE \/ /\ \E s \in DOMAIN ts : \A t \in DOMAIN ts : Pushes(t) <=> t = s
                       /\ NoneQueued /\ NoneHas
                    \/ /\ \E i \in DOMAIN qs[q] : \A j \in DOMAIN qs[q] : Queued(j) <=> j = i
                       /\ NonePushes /\ NoneHas
                    \/ /\ \E w \in DOMAIN hs : \E i \in DOMAIN hs[w].batch :
                             \A v \in DOMAIN hs : \A j \in DOMAIN hs[v].batch :
                                 Has(v, j) <=> v = w /\ j = i
                       /\ NonePushes /\ NoneQueued
  <1> DEFINE Pushes(s) == ts[s].do = "push" /\ ts[s].q = q /\ ts[s].b = b
             Queued(i) == qs[q][i].b = b
             Has(w, i) == hs[w].q = q /\ hs[w].batch[i].b = b
             Here(p) == p \in DOMAIN I /\ I[p].q = q /\ I[p].b = b
  <1>1. \A s \in DOMAIN ts : Pushes(s) <=> Here(PushAt(s))
    BY DEF AreItems, AtPush
  <1>2. \A i \in DOMAIN qs[q] : Queued(i) <=> Here(QueueAt(q, i))
    BY DEF AreItems, AtQueue
  <1>3. \A w \in DOMAIN hs : \A i \in DOMAIN hs[w].batch : Has(w, i) <=> Here(BatchAt(w, i))
    BY DEF AreItems, AtBatch
  <1>4. b \in pool[q] => \A p : ~Here(p)
    BY DEF Stored
  <1>5. b \notin pool[q] => \E p : Here(p)
    BY DEF Stored
  <1>6. \A p : \A r : Here(p) /\ Here(r) => p = r
    BY DEF Stored
  <1>7. \A p : Here(p) => \/ \E s \in DOMAIN ts : p = PushAt(s)
                          \/ \E i \in DOMAIN qs[q] : p = QueueAt(q, i)
                          \/ \E w \in DOMAIN hs : \E i \in DOMAIN hs[w].batch : p = BatchAt(w, i)
    <2> SUFFICES ASSUME NEW p, Here(p)
                 PROVE  \/ \E s \in DOMAIN ts : p = PushAt(s)
                        \/ \E i \in DOMAIN qs[q] : p = QueueAt(q, i)
                        \/ \E w \in DOMAIN hs : \E i \in DOMAIN hs[w].batch : p = BatchAt(w, i)
      OBVIOUS
    <2>1. CASE \E s \in DOMAIN ts : p = PushAt(s)
      BY <2>1
    <2>2. CASE \E r \in DOMAIN qs : \E i \in Nat : p = QueueAt(r, i)
      <3>1. PICK r \in DOMAIN qs : \E i \in Nat : p = QueueAt(r, i)
        BY <2>2
      <3>2. PICK i \in Nat : p = QueueAt(r, i)
        BY <3>1
      <3>3. i \in DOMAIN qs[r] /\ r = q
        BY <3>2 DEF AreItems, AtQueue
      <3> QED
        BY <3>2, <3>3
    <2>3. CASE \E w \in DOMAIN hs : \E i \in Nat : p = BatchAt(w, i)
      BY <2>3 DEF AreItems, AtBatch
    <2> QED
      BY <2>1, <2>2, <2>3 DEF AreItems, OnlyThere
  <1> HIDE DEF Pushes, Queued, Has, Here
  <1>8. CASE b \in pool[q]
    BY <1>1, <1>2, <1>3, <1>4, <1>8 DEF Pushes, Queued, Has
  <1>9. CASE b \notin pool[q]
    <2>1. PICK p : Here(p)
      BY <1>5, <1>9
    <2>2. CASE \E s \in DOMAIN ts : p = PushAt(s)
      <3>1. PICK s \in DOMAIN ts : p = PushAt(s)
        BY <2>2
      <3>2. \A t \in DOMAIN ts : Pushes(t) <=> t = s
        BY <1>1, <1>6, <2>1, <3>1, PlaceFacts
      <3>3. \A i \in DOMAIN qs[q] : ~Queued(i)
        BY <1>2, <1>6, <2>1, <3>1, PlaceFacts
      <3>4. \A w \in DOMAIN hs : \A i \in DOMAIN hs[w].batch : ~Has(w, i)
        BY <1>3, <1>6, <2>1, <3>1, PlaceFacts
      <3> QED
        BY <1>9, <3>2, <3>3, <3>4 DEF Pushes, Queued, Has
    <2>3. CASE \E i \in DOMAIN qs[q] : p = QueueAt(q, i)
      <3>1. PICK i \in DOMAIN qs[q] : p = QueueAt(q, i)
        BY <2>3
      <3>2. \A j \in DOMAIN qs[q] : Queued(j) <=> j = i
        BY <1>2, <1>6, <2>1, <3>1, PlacesDiffer
      <3>3. \A s \in DOMAIN ts : ~Pushes(s)
        BY <1>1, <1>6, <2>1, <3>1, PlaceFacts
      <3>4. \A w \in DOMAIN hs : \A j \in DOMAIN hs[w].batch : ~Has(w, j)
        BY <1>3, <1>6, <2>1, <3>1, PlaceFacts
      <3> QED
        BY <1>9, <3>2, <3>3, <3>4 DEF Pushes, Queued, Has
    <2>4. CASE \E w \in DOMAIN hs : \E i \in DOMAIN hs[w].batch : p = BatchAt(w, i)
      <3>0. PICK w \in DOMAIN hs : \E i \in DOMAIN hs[w].batch : p = BatchAt(w, i)
        BY <2>4
      <3>1. PICK i \in DOMAIN hs[w].batch : p = BatchAt(w, i)
        BY <3>0
      <3>2. \A v \in DOMAIN hs : \A j \in DOMAIN hs[v].batch : Has(v, j) <=> v = w /\ j = i
        <4> SUFFICES ASSUME NEW v \in DOMAIN hs, NEW j \in DOMAIN hs[v].batch
                     PROVE  Has(v, j) <=> v = w /\ j = i
          OBVIOUS
        <4>1. Has(v, j) <=> BatchAt(v, j) = p
          BY <1>3, <1>6, <2>1
        <4>2. BatchAt(v, j) = BatchAt(w, i) <=> v = w /\ j = i
          BY PlaceFacts, PlacesDiffer
        <4> QED
          BY <3>1, <4>1, <4>2
      <3>3. \A s \in DOMAIN ts : ~Pushes(s)
        BY <1>1, <1>6, <2>1, <3>1, PlaceFacts
      <3>4. \A j \in DOMAIN qs[q] : ~Queued(j)
        BY <1>2, <1>6, <2>1, <3>1, PlaceFacts
      <3>5. \E w_1 \in DOMAIN hs : \E i_1 \in DOMAIN hs[w_1].batch :
               \A v \in DOMAIN hs : \A j \in DOMAIN hs[v].batch : Has(v, j) <=> v = w_1 /\ j = i_1
        BY <3>2
      <3> QED
        BY <1>9, <3>3, <3>4, <3>5 DEF Pushes, Queued, Has
    <2> QED
      BY <1>7, <2>1, <2>2, <2>3, <2>4
  <1> QED
    BY <1>8, <1>9

\* Nothing is moved.
LEMMA ItemsStay ==
    ASSUME NEW ts, NEW qs, NEW hs, NEW ts2, NEW hs2, NEW I, NEW I2,
           AreItems(I, ts, qs, hs), AreItems(I2, ts2, qs, hs2),
           DOMAIN ts2 = DOMAIN ts, DOMAIN hs2 = DOMAIN hs,
           \A s \in DOMAIN ts : ts2[s] = ts[s] \/ (ts[s].do # "push" /\ ts2[s].do # "push"),
           \A w \in DOMAIN hs : hs2[w] = hs[w] \/ (hs[w].batch = <<>> /\ hs2[w].batch = <<>>)
    PROVE  \E f : Renames(f, I, I2, DOMAIN I)
  <1> DEFINE f == [p \in DOMAIN I2 |-> p]
  <1>1. ASSUME NEW s \in DOMAIN ts
        PROVE  /\ PushAt(s) \in DOMAIN I <=> PushAt(s) \in DOMAIN I2
               /\ PushAt(s) \in DOMAIN I => Alike(I2[PushAt(s)], I[PushAt(s)])
    <2>1. CASE ts2[s] = ts[s]
      BY <2>1 DEF AreItems, AtPush, Alike
    <2>2. CASE ts[s].do # "push" /\ ts2[s].do # "push"
      BY <2>2 DEF AreItems, AtPush, Alike
    <2> QED
      BY <2>1, <2>2
  <1>2. ASSUME NEW q \in DOMAIN qs, NEW i \in Nat
        PROVE  /\ QueueAt(q, i) \in DOMAIN I <=> QueueAt(q, i) \in DOMAIN I2
               /\ QueueAt(q, i) \in DOMAIN I => Alike(I2[QueueAt(q, i)], I[QueueAt(q, i)])
    BY DEF AreItems, AtQueue, Alike
  <1>3. ASSUME NEW w \in DOMAIN hs, NEW i \in Nat
        PROVE  /\ BatchAt(w, i) \in DOMAIN I <=> BatchAt(w, i) \in DOMAIN I2
               /\ BatchAt(w, i) \in DOMAIN I => Alike(I2[BatchAt(w, i)], I[BatchAt(w, i)])
    <2>1. CASE hs2[w] = hs[w]
      BY <2>1 DEF AreItems, AtBatch, Alike
    <2>2. CASE hs[w].batch = <<>> /\ hs2[w].batch = <<>>
      BY <2>2 DEF AreItems, AtBatch, Alike
    <2> QED
      BY <2>1, <2>2
  <1>4. ASSUME NEW p \in DOMAIN I2 PROVE p \in DOMAIN I /\ Alike(I2[p], I[p])
    <2>1. CASE \E t \in DOMAIN ts : p = PushAt(t)
      BY <1>1, <2>1
    <2>2. CASE \E r \in DOMAIN qs : \E i \in Nat : p = QueueAt(r, i)
      BY <1>2, <2>2
    <2>3. CASE \E v \in DOMAIN hs : \E i \in Nat : p = BatchAt(v, i)
      BY <1>3, <2>3
    <2> QED
      BY <2>1, <2>2, <2>3 DEF AreItems, OnlyThere
  <1>5. ASSUME NEW p \in DOMAIN I PROVE p \in DOMAIN I2
    <2>1. CASE \E t \in DOMAIN ts : p = PushAt(t)
      BY <1>1, <2>1
    <2>2. CASE \E r \in DOMAIN qs : \E i \in Nat : p = QueueAt(r, i)
      BY <1>2, <2>2
    <2>3. CASE \E v \in DOMAIN hs : \E i \in Nat : p = BatchAt(v, i)
      BY <1>3, <2>3
    <2> QED
      BY <2>1, <2>2, <2>3 DEF AreItems, OnlyThere
  <1>6. Renames(f, I, I2, DOMAIN I)
    BY <1>4, <1>5 DEF Renames
  <1> QED
    BY <1>6

-----------------------------------------------------------------------------
(* The workers of the rtmq proxy. *)

Stock == [b : RecvBlocks, no : Nat]

TsvrStates ==
    [do : {"recv"}] \cup [do : {"push"}, q : Queues, b : RecvBlocks, no : Nat]
        \cup [do : {"cmd"}, q : Queues]

WorkStates ==
    [do : {"off", "select"}] \cup [do : {"used"}, q : Queues, last : Queues]
        \cup [do : {"mpop"}, q : Queues, last : Queues, num : Nat]
        \cup [do : {"proc"}, q : Queues, last : Queues, batch : Seq(Stock)]

WorkTypes ==
    /\ recvq \in [Queues -> Seq(Stock)]
    /\ free \in [Queues -> SUBSET RecvBlocks]
    /\ tsvr \in [Tsvrs -> TsvrStates]
    /\ work \in [Threads -> WorkStates]
    /\ mesgs \in Nat

\* What a worker has, which is nothing when it is not handling a batch.
HandOf(st) == IF st.do = "proc" THEN [q |-> st.q, batch |-> st.batch] ELSE [q |-> 0, batch |-> <<>>]
HandsOf(ws) == [w \in Threads |-> HandOf(ws[w])]

WorkItemsOf(ts, qs, ws) == ItemsIn(ts, qs, HandsOf(ws))
Gone(hd) == {h[1] : h \in hd}

LEMMA GoneGrows == ASSUME NEW hd, NEW n, NEW c PROVE Gone(hd \cup {<<n, c>>}) = Gone(hd) \cup {n}
  <1>1. \A x : x \in Gone(hd \cup {<<n, c>>}) <=> \E h \in hd \cup {<<n, c>>} : x = h[1]
    BY DEF Gone
  <1>2. \A x : x \in Gone(hd) <=> \E h \in hd : x = h[1]
    BY DEF Gone
  <1>3. <<n, c>>[1] = n
    OBVIOUS
  <1> QED
    BY <1>1, <1>2, <1>3

\* Every block of the queues is in its pool or at one place, with a message that was
\* not handled; the same message is nowhere else.
WorkInv ==
    /\ WorkTypes
    /\ JobsInv
    /\ Gone(handled) \subseteq 1..mesgs
    /\ Stored(WorkItemsOf(tsvr, recvq, work), free, mesgs, Gone(handled), Queues, RecvBlocks)

\* Which fields a state has, and what they hold.
LEMMA WorkKnows ==
    ASSUME WorkTypes
    PROVE  /\ \A s \in Tsvrs :
                 /\ tsvr[s].do \in {"recv", "push", "cmd"}
                 /\ tsvr[s].do # "recv" => tsvr[s].q \in Queues
                 /\ tsvr[s].do = "push" => tsvr[s].b \in RecvBlocks /\ tsvr[s].no \in Nat
           /\ \A w \in Threads :
                 /\ work[w].do \in {"used", "mpop", "proc"} => work[w].q \in Queues /\ work[w].last \in Queues
                 /\ work[w].do = "mpop" => work[w].num \in Nat
                 /\ work[w].do = "proc" => work[w].batch \in Seq(Stock)
  <1>1. ASSUME NEW t \in TsvrStates
        PROVE  /\ t.do \in {"recv", "push", "cmd"}
               /\ t.do # "recv" => t.q \in Queues
               /\ t.do = "push" => t.b \in RecvBlocks /\ t.no \in Nat
    BY DEF TsvrStates
  <1>2. ASSUME NEW t \in WorkStates
        PROVE  /\ t.do \in {"used", "mpop", "proc"} => t.q \in Queues /\ t.last \in Queues
               /\ t.do = "mpop" => t.num \in Nat
               /\ t.do = "proc" => t.batch \in Seq(Stock)
    BY DEF WorkStates
  <1> QED
    BY <1>1, <1>2 DEF WorkTypes

LEMMA HandFacts ==
    /\ \A st : st.do = "proc" => HandOf(st).q = st.q /\ HandOf(st).batch = st.batch
    /\ \A st : st.do # "proc" => HandOf(st).batch = <<>>
    /\ \A ws : DOMAIN HandsOf(ws) = Threads /\ \A w \in Threads : HandsOf(ws)[w] = HandOf(ws[w])
  BY DEF HandOf, HandsOf

\* The items are at the places of the queues and the workers, before a step and after.
WorkPlaced(ts, qs, ws) == AreItems(WorkItemsOf(ts, qs, ws), ts, qs, HandsOf(ws))

LEMMA WorkItemsAre ==
    ASSUME NEW ts, NEW qs \in [Queues -> Seq(Stock)], NEW ws \in [Threads -> WorkStates]
    PROVE  /\ WorkPlaced(ts, qs, ws)
           /\ \A q \in DOMAIN qs : DOMAIN qs[q] \subseteq Nat
           /\ \A w \in DOMAIN HandsOf(ws) : DOMAIN HandsOf(ws)[w].batch \subseteq Nat
  <1>1. \A q \in DOMAIN qs : DOMAIN qs[q] \subseteq Nat
    OBVIOUS
  <1>2. \A w \in DOMAIN HandsOf(ws) : DOMAIN HandsOf(ws)[w].batch \subseteq Nat
    <2> SUFFICES ASSUME NEW w \in Threads PROVE DOMAIN HandOf(ws[w]).batch \subseteq Nat
      BY HandFacts
    <2>1. CASE ws[w].do = "proc"
      <3>1. ws[w] \in WorkStates
        OBVIOUS
      <3>2. ws[w].batch \in Seq(Stock)
        BY <2>1, <3>1 DEF WorkStates
      <3> QED
        BY <2>1, <3>2, HandFacts
    <2>2. CASE ws[w].do # "proc"
      BY <2>2, HandFacts
    <2> QED
      BY <2>1, <2>2
  <1> QED
    BY <1>1, <1>2, ItemsInAre DEF WorkPlaced, WorkItemsOf

LEMMA WorkInitially == WorkInit /\ PoolInit => WorkInv
  <1> SUFFICES ASSUME WorkInit, PoolInit PROVE WorkInv
    OBVIOUS
  <1>1. WorkTypes
    BY DEF WorkInit, WorkTypes, TsvrStates, WorkStates
  <1>2. Gone(handled) = {}
    BY DEF WorkInit, Gone
  <1>3. WorkPlaced(tsvr, recvq, work)
    BY <1>1, WorkItemsAre DEF WorkTypes
  <1>4. DOMAIN WorkItemsOf(tsvr, recvq, work) = {}
    <2> SUFFICES ASSUME NEW p \in DOMAIN WorkItemsOf(tsvr, recvq, work) PROVE FALSE
      OBVIOUS
    <2>1. CASE \E s \in DOMAIN tsvr : p = PushAt(s)
      BY <1>3, <2>1 DEF WorkPlaced, AreItems, AtPush, WorkInit
    <2>2. CASE \E q \in DOMAIN recvq : \E i \in Nat : p = QueueAt(q, i)
      BY <1>3, <2>2 DEF WorkPlaced, AreItems, AtQueue, WorkInit
    <2>3. CASE \E w \in DOMAIN HandsOf(work) : \E i \in Nat : p = BatchAt(w, i)
      <3>1. \A w \in DOMAIN HandsOf(work) : HandsOf(work)[w].batch = <<>>
        BY HandFacts DEF WorkInit
      <3> QED
        BY <1>3, <2>3, <3>1 DEF WorkPlaced, AreItems, AtBatch
    <2> QED
      BY <1>3, <2>1, <2>2, <2>3 DEF WorkPlaced, AreItems, OnlyThere
  <1>5. Stored(WorkItemsOf(tsvr, recvq, work), free, mesgs, Gone(handled), Queues, RecvBlocks)
    <2> HIDE DEF WorkItemsOf
    <2> QED
      BY <1>4 DEF Stored, WorkInit
  <1> QED
    BY <1>1, <1>2, <1>5, JobsInitially DEF WorkInv

\* What a step leaves that moves no message.
LEMMA WorkSame ==
    ASSUME WorkInv, WorkTypes', UNCHANGED <<recvq, free, mesgs, handled, jobVars>>,
           \A s \in Tsvrs : tsvr'[s] = tsvr[s] \/ (tsvr[s].do # "push" /\ tsvr'[s].do # "push"),
           \A w \in Threads : \/ work'[w] = work[w]
                              \/ /\ work[w].do # "proc" \/ work[w].batch = <<>>
                                 /\ work'[w].do # "proc"
    PROVE  WorkInv'
  <1> DEFINE I == WorkItemsOf(tsvr, recvq, work)
             I2 == WorkItemsOf(tsvr', recvq, work')
  <1>1. WorkPlaced(tsvr, recvq, work) /\ WorkPlaced(tsvr', recvq, work')
    BY WorkItemsAre DEF WorkInv, WorkTypes
  <1>2. \A w \in Threads : \/ HandsOf(work')[w] = HandsOf(work)[w]
                           \/ HandsOf(work)[w].batch = <<>> /\ HandsOf(work')[w].batch = <<>>
    BY HandFacts
  <1>3. DOMAIN tsvr = Tsvrs /\ DOMAIN tsvr' = Tsvrs
    BY DEF WorkInv, WorkTypes
  <1> HIDE DEF I, I2
  <1>4. AreItems(I, tsvr, recvq, HandsOf(work)) /\ AreItems(I2, tsvr', recvq, HandsOf(work'))
    BY <1>1 DEF WorkPlaced, I, I2
  <1>5. \E f : Renames(f, I, I2, DOMAIN I)
    BY <1>2, <1>3, <1>4, HandFacts, ItemsStay
  <1>6. Stored(I, free, mesgs, Gone(handled), Queues, RecvBlocks)
    BY DEF WorkInv, I
  <1>7. Stored(I2, free, mesgs, Gone(handled), Queues, RecvBlocks)
    BY <1>5, <1>6, Moved
  <1>8. JobsInv'
    BY DEF WorkInv, JobsInv, JobTypes, JobsOnce, Running, jobVars
  <1> QED
    BY <1>7, <1>8 DEF WorkInv, I2

LEMMA WorkMovesNone ==
    ASSUME WorkInv,
           \/ \E s \in Tsvrs : CmdProcReq(s)
           \/ \E w \in Threads : GetCurr(w) \/ WorkerCmd(w) \/ WorkerSweep(w) \/ QueueUsed(w),
           UNCHANGED jobVars
    PROVE  WorkInv'
  <1>1. WorkTypes
    BY DEF WorkInv
  <1>2. CASE \E s \in Tsvrs : CmdProcReq(s)
    <2>1. PICK s \in Tsvrs : CmdProcReq(s)
      BY <1>2
    <2>2. WorkTypes'
      BY <1>1, <2>1 DEF WorkTypes, CmdProcReq, TsvrStates
    <2>3. \A t \in Tsvrs : tsvr'[t] = tsvr[t] \/ (tsvr[t].do # "push" /\ tsvr'[t].do # "push")
      BY <1>1, <2>1 DEF WorkTypes, CmdProcReq
    <2> QED
      BY <2>1, <2>2, <2>3, WorkSame DEF CmdProcReq
  <1>3. CASE \E w \in Threads : GetCurr(w) \/ WorkerCmd(w) \/ WorkerSweep(w) \/ QueueUsed(w)
    <2>1. PICK w \in Threads : GetCurr(w) \/ WorkerCmd(w) \/ WorkerSweep(w) \/ QueueUsed(w)
      BY <1>3
    <2>2. /\ UNCHANGED <<recvq, free, tsvr, mesgs, handled>>
          /\ work[w].do \in {"off", "select", "used"}
          /\ \E st \in WorkStates : st.do # "proc" /\ work' = [work EXCEPT ![w] = st]
      <3> DEFINE Goal == \E st \in WorkStates : st.do # "proc" /\ work' = [work EXCEPT ![w] = st]
      <3>1. Selecting \in WorkStates /\ Selecting.do = "select"
        BY DEF Selecting, WorkStates
      <3>2. ASSUME NEW from \in Nat, NEW to \in Queues, Visit(w, from, to) PROVE Goal
        <4>1. from <= to => from \in Queues
          BY <3>2, PoolAssumption DEF Queues, Threads
        <4>2. from <= to => [do |-> "used", q |-> from, last |-> to] \in WorkStates
          BY <3>2, <4>1 DEF WorkStates
        <4> DEFINE st == [do |-> "used", q |-> from, last |-> to]
        <4>3. from > to \/ from <= to
          BY PoolAssumption DEF Queues, Threads
        <4>4. work' = [work EXCEPT ![w] = IF from > to THEN Selecting ELSE st]
          BY <3>2 DEF Visit
        <4>5. CASE from > to
          BY <3>1, <4>4, <4>5
        <4>6. CASE ~(from > to)
          <5>1. st \in WorkStates /\ st.do = "used"
            BY <4>2, <4>3, <4>6
          <5>2. work' = [work EXCEPT ![w] = st]
            BY <4>4, <4>6
          <5> HIDE DEF st
          <5> QED
            BY <5>1, <5>2
        <4> QED
          BY <4>5, <4>6
      <3>3. CASE GetCurr(w)
        BY <3>1, <3>3 DEF GetCurr
      <3>4. CASE WorkerCmd(w)
        BY <3>2, <3>4, PoolAssumption DEF WorkerCmd, Queues, Threads
      <3>5. CASE WorkerSweep(w)
        <4>1. SendNum - 1 \in Queues
          BY <3>5, WorkAssumption, PoolAssumption DEF WorkerSweep, Queues, Threads
        <4> QED
          BY <3>2, <3>5, <4>1 DEF WorkerSweep
      <3>6. CASE QueueUsed(w)
        <4>1. work[w].do = "used" /\ work[w].q \in Queues /\ work[w].last \in Queues
              /\ recvq[work[w].q] \in Seq(Stock)
          BY <1>1, <3>6, WorkKnows DEF QueueUsed, WorkTypes
        <4>2. CASE recvq[work[w].q] = <<>>
          <5>1. work[w].q + 1 \in Nat
            BY <4>1, PoolAssumption DEF Queues, Threads
          <5> QED
            BY <3>2, <3>6, <4>1, <4>2, <5>1 DEF QueueUsed
        <4>3. CASE recvq[work[w].q] # <<>>
          <5> DEFINE st == [do |-> "mpop", q |-> work[w].q, last |-> work[w].last,
                            num |-> Len(recvq[work[w].q])]
          <5>1. st \in WorkStates /\ st.do = "mpop"
            BY <4>1 DEF WorkStates
          <5>2. work' = [work EXCEPT ![w] = st]
            BY <3>6, <4>3 DEF QueueUsed
          <5> QED
            BY <3>6, <4>1, <5>1, <5>2 DEF QueueUsed
        <4> QED
          BY <4>2, <4>3
      <3> QED
        BY <2>1, <3>3, <3>4, <3>5, <3>6 DEF GetCurr, WorkerCmd, WorkerSweep, QueueUsed
    <2>3. WorkTypes'
      BY <1>1, <2>2 DEF WorkTypes
    <2>4. \A v \in Threads : work'[v] = work[v] \/ (work[v].do # "proc" /\ work'[v].do # "proc")
      BY <1>1, <2>2 DEF WorkTypes
    <2> QED
      BY <2>2, <2>3, <2>4, WorkSame
  <1> QED
    BY <1>2, <1>3

LEMMA DropMesgKeeps ==
    ASSUME WorkInv, NEW s \in Tsvrs, DropMesg(s), UNCHANGED jobVars
    PROVE  WorkInv'
  <1>1. WorkTypes' /\ mesgs' = mesgs + 1 /\ mesgs \in Nat
    BY DEF WorkInv, WorkTypes, DropMesg
  <1>2. UNCHANGED <<tsvr, recvq, work, handled, free>>
    BY DEF DropMesg
  <1>3. JobsInv'
    BY DEF WorkInv, JobsInv, JobTypes, JobsOnce, Running, jobVars
  <1>4. Stored(WorkItemsOf(tsvr, recvq, work), free, mesgs + 1, Gone(handled), Queues, RecvBlocks)
    BY <1>1, CameNot DEF WorkInv
  <1>5. Gone(handled) \subseteq 1..mesgs + 1
    BY <1>1 DEF WorkInv
  <1> QED
    BY <1>1, <1>2, <1>3, <1>4, <1>5 DEF WorkInv

LEMMA AllocRecvKeeps ==
    ASSUME WorkInv, NEW s \in Tsvrs, NEW q \in Queues, AllocRecv(s, q), UNCHANGED jobVars
    PROVE  WorkInv'
  <1>1. PICK b \in free[q] :
          /\ free' = [free EXCEPT ![q] = @ \ {b}]
          /\ tsvr' = [tsvr EXCEPT ![s] = [do |-> "push", q |-> q, b |-> b, no |-> mesgs + 1]]
    BY DEF AllocRecv
  <1> DEFINE st == [do |-> "push", q |-> q, b |-> b, no |-> mesgs + 1]
             I == WorkItemsOf(tsvr, recvq, work)
             I2 == WorkItemsOf(tsvr', recvq, work)
             H == HandsOf(work)
  <1>2. WorkTypes /\ mesgs' = mesgs + 1 /\ mesgs \in Nat /\ b \in RecvBlocks /\ tsvr[s].do = "recv"
        /\ UNCHANGED <<recvq, work, handled>>
    BY DEF WorkInv, WorkTypes, AllocRecv
  <1>3. st \in TsvrStates
    BY <1>2 DEF TsvrStates
  <1>4. WorkTypes'
    <2>1. tsvr' \in [Tsvrs -> TsvrStates]
      BY <1>1, <1>2, <1>3 DEF WorkTypes
    <2>2. free' \in [Queues -> SUBSET RecvBlocks]
      BY <1>1, <1>2 DEF WorkTypes
    <2> QED
      BY <1>2, <2>1, <2>2 DEF WorkTypes
  <1> HIDE DEF I, I2, H, st
  <1>5. AreItems(I, tsvr, recvq, H) /\ AreItems(I2, tsvr', recvq, H)
    BY <1>2, <1>4, WorkItemsAre DEF WorkTypes, WorkPlaced, I, I2, H
  <1>6. Arrives(PushAt(s), q, b, I, I2, free, free', mesgs + 1)
    <2>1. s \in DOMAIN tsvr /\ tsvr[s].do # "push"
      BY <1>2 DEF WorkTypes
    <2> QED
      BY <1>1, <1>5, <2>1, ItemArrives
  <1>7. Stored(I2, free', mesgs + 1, Gone(handled), Queues, RecvBlocks)
    <2>1. /\ Stored(I, free, mesgs, Gone(handled), Queues, RecvBlocks)
          /\ free \in [Queues -> SUBSET RecvBlocks] /\ Gone(handled) \subseteq 1..mesgs
      BY <1>2 DEF WorkInv, WorkTypes, I
    <2> QED
      BY <1>2, <1>6, <2>1, Came
  <1>8. JobsInv' /\ Gone(handled) \subseteq 1..mesgs + 1
    BY <1>2 DEF WorkInv, JobsInv, JobTypes, JobsOnce, Running, jobVars
  <1> QED
    BY <1>2, <1>4, <1>7, <1>8 DEF WorkInv, I2

LEMMA PushRecvKeeps ==
    ASSUME WorkInv, NEW s \in Tsvrs, PushRecv(s), UNCHANGED jobVars
    PROVE  WorkInv'
  <1> DEFINE q == tsvr[s].q
             it == [b |-> tsvr[s].b, no |-> tsvr[s].no]
             st == [do |-> "cmd", q |-> q]
             I == WorkItemsOf(tsvr, recvq, work)
             I2 == WorkItemsOf(tsvr', recvq', work)
             H == HandsOf(work)
  <1>1. /\ WorkTypes /\ tsvr[s].do = "push" /\ UNCHANGED <<free, work, mesgs, handled>>
        /\ recvq' = [recvq EXCEPT ![q] = Append(@, it)] /\ tsvr' = [tsvr EXCEPT ![s] = st]
    BY DEF WorkInv, PushRecv
  <1>2. q \in Queues /\ it \in Stock /\ st \in TsvrStates /\ st.do = "cmd" /\ recvq[q] \in Seq(Stock)
    BY <1>1, WorkKnows DEF Stock, TsvrStates, WorkTypes
  <1> HIDE DEF I, I2, H
  <1>3. WorkTypes'
    <2> HIDE DEF it, st, q
    <2>1. Append(recvq[q], it) \in Seq(Stock)
      BY <1>2, Longer
    <2>2. recvq' \in [Queues -> Seq(Stock)]
      BY <1>1, <1>2, <2>1 DEF WorkTypes
    <2>3. tsvr' \in [Tsvrs -> TsvrStates]
      BY <1>1, <1>2 DEF WorkTypes
    <2> QED
      BY <1>1, <2>2, <2>3 DEF WorkTypes
  <1>4. AreItems(I, tsvr, recvq, H) /\ AreItems(I2, tsvr', recvq', H)
    BY <1>1, <1>3, WorkItemsAre DEF WorkTypes, WorkPlaced, I, I2, H
  <1>5. \E f : Renames(f, I, I2, DOMAIN I)
    <2>1. s \in DOMAIN tsvr /\ q \in DOMAIN recvq
      BY <1>1, <1>2 DEF WorkTypes
    <2>2. PushedTo(s, q, st, tsvr, recvq, tsvr', recvq', Stock)
      BY <1>1, <1>2, <2>1 DEF PushedTo
    <2> HIDE DEF st, q
    <2> QED
      BY <1>4, <2>2, ItemPushed
  <1>6. Stored(I2, free, mesgs, Gone(handled), Queues, RecvBlocks)
    <2>1. Stored(I, free, mesgs, Gone(handled), Queues, RecvBlocks)
      BY DEF WorkInv, I
    <2> QED
      BY <1>5, <2>1, Moved
  <1>7. JobsInv'
    BY DEF WorkInv, JobsInv, JobTypes, JobsOnce, Running, jobVars
  <1> QED
    BY <1>1, <1>3, <1>6, <1>7 DEF WorkInv, I2

LEMMA QueueMpopKeeps ==
    ASSUME WorkInv, NEW w \in Threads, QueueMpop(w), UNCHANGED jobVars
    PROVE  WorkInv'
  <1> DEFINE q == work[w].q
             n == work[w].num
             last == work[w].last
  <1>1. /\ WorkTypes /\ work[w].do = "mpop" /\ UNCHANGED <<free, chan, tsvr, mesgs, handled>>
    BY DEF WorkInv, QueueMpop
  <1>2. q \in Queues /\ last \in Queues /\ n \in Nat /\ recvq[q] \in Seq(Stock)
    BY <1>1, WorkKnows DEF WorkTypes
  <1>3. CASE n > Len(recvq[q])
    <2> DEFINE st == [do |-> "used", q |-> q, last |-> last]
    <2>1. st \in WorkStates /\ st.do = "used"
      BY <1>2 DEF WorkStates
    <2>2. work' = [work EXCEPT ![w] = st] /\ recvq' = recvq
      BY <1>3 DEF QueueMpop
    <2> HIDE DEF st
    <2>3. WorkTypes'
      BY <1>1, <2>1, <2>2 DEF WorkTypes
    <2>4. \A v \in Threads : work'[v] = work[v] \/ (work[v].do # "proc" /\ work'[v].do # "proc")
      BY <1>1, <2>1, <2>2 DEF WorkTypes
    <2> QED
      BY <1>1, <2>2, <2>3, <2>4, WorkSame
  <1>4. CASE n <= Len(recvq[q])
    <2> DEFINE took == SubSeq(recvq[q], 1, n)
               st == [do |-> "proc", q |-> q, last |-> last, batch |-> took]
               I == WorkItemsOf(tsvr, recvq, work)
               I2 == WorkItemsOf(tsvr, recvq', work')
    <2>1. ~(n > Len(recvq[q]))
      BY <1>2, <1>4
    <2>2. /\ work' = [work EXCEPT ![w] = st]
          /\ recvq' = [recvq EXCEPT ![q] = SubSeq(@, n + 1, Len(@))]
      BY <2>1 DEF QueueMpop
    <2>3. /\ n \in 0..Len(recvq[q]) /\ took \in Seq(Stock)
          /\ SubSeq(recvq[q], n + 1, Len(recvq[q])) \in Seq(Stock)
      <3>1. n \in 0..Len(recvq[q])
        BY <1>2, <1>4
      <3> QED
        BY <1>2, <3>1, Cut
    <2> HIDE DEF took
    <2>4. st \in WorkStates /\ st.do = "proc" /\ st.q = q /\ st.batch = took
      BY <1>2, <2>3 DEF WorkStates
    <2> HIDE DEF st
    <2>5. WorkTypes'
      <3>1. work' \in [Threads -> WorkStates]
        BY <1>1, <2>2, <2>4 DEF WorkTypes
      <3>2. recvq' \in [Queues -> Seq(Stock)]
        BY <1>1, <1>2, <2>2, <2>3 DEF WorkTypes
      <3> QED
        BY <1>1, <3>1, <3>2 DEF WorkTypes
    <2> HIDE DEF I, I2
    <2>6. AreItems(I, tsvr, recvq, HandsOf(work)) /\ AreItems(I2, tsvr, recvq', HandsOf(work'))
      BY <1>1, <2>5, WorkItemsAre DEF WorkTypes, WorkPlaced, I, I2
    <2>7. /\ w \in DOMAIN HandsOf(work) /\ HandsOf(work)[w].batch = <<>>
          /\ HandsOf(work') = [HandsOf(work) EXCEPT ![w] = HandOf(st)]
          /\ HandOf(st).q = q /\ HandOf(st).batch = took
      <3>1. work'[w] = st /\ \A v \in Threads \ {w} : work'[v] = work[v]
        BY <1>1, <2>2 DEF WorkTypes
      <3> QED
        BY <1>1, <2>4, <3>1, HandFacts DEF HandsOf
    <2>8. \E f : Renames(f, I, I2, DOMAIN I)
      <3>1. q \in DOMAIN recvq
        BY <1>1, <1>2 DEF WorkTypes
      <3>2. TakenBy(w, n, q, HandOf(st), recvq, HandsOf(work), recvq', HandsOf(work'), Stock)
        BY <1>2, <2>2, <2>3, <2>7, <3>1 DEF TakenBy, took
      <3> HIDE DEF q, n
      <3> QED
        BY <2>6, <3>2, ItemsTaken
    <2>9. Stored(I2, free, mesgs, Gone(handled), Queues, RecvBlocks)
      <3>1. Stored(I, free, mesgs, Gone(handled), Queues, RecvBlocks)
        BY DEF WorkInv, I
      <3> QED
        BY <2>8, <3>1, Moved
    <2>10. JobsInv'
      BY DEF WorkInv, JobsInv, JobTypes, JobsOnce, Running, jobVars
    <2> QED
      BY <1>1, <2>5, <2>9, <2>10 DEF WorkInv, I2
  <1> QED
    BY <1>2, <1>3, <1>4

LEMMA WorkerProcKeeps ==
    ASSUME WorkInv, NEW w \in Threads, WorkerProc(w), UNCHANGED jobVars
    PROVE  WorkInv'
  <1> DEFINE q == work[w].q
             mine == work[w].batch
             last == work[w].last
  <1>1. /\ WorkTypes /\ work[w].do = "proc" /\ UNCHANGED <<recvq, chan, tsvr, mesgs>>
    BY DEF WorkInv, WorkerProc
  <1>2. q \in Queues /\ last \in Queues /\ mine \in Seq(Stock)
    BY <1>1, WorkKnows
  <1>3. CASE mine = <<>>
    <2> DEFINE st == [do |-> "used", q |-> q, last |-> last]
    <2>1. st \in WorkStates /\ st.do = "used"
      BY <1>2 DEF WorkStates
    <2>2. work' = [work EXCEPT ![w] = st] /\ UNCHANGED <<free, handled>>
      BY <1>3 DEF WorkerProc
    <2> HIDE DEF st
    <2>3. WorkTypes'
      BY <1>1, <2>1, <2>2 DEF WorkTypes
    <2>4. \A v \in Threads : \/ work'[v] = work[v]
                             \/ (work[v].do # "proc" \/ work[v].batch = <<>>) /\ work'[v].do # "proc"
      BY <1>1, <1>3, <2>1, <2>2 DEF WorkTypes
    <2> QED
      BY <1>1, <2>2, <2>3, <2>4, WorkSame
  <1>4. CASE mine # <<>>
    <2> DEFINE st == [work[w] EXCEPT !.batch = Tail(mine)]
               I == WorkItemsOf(tsvr, recvq, work)
               I2 == WorkItemsOf(tsvr, recvq, work')
               H == HandsOf(work)
               first == BatchAt(w, 1)
    <2>1. /\ handled' = handled \cup {<<mine[1].no, Callback(mine[1].no)>>}
          /\ free' = [free EXCEPT ![q] = @ \cup {mine[1].b}]
          /\ work' = [work EXCEPT ![w].batch = Tail(@)]
      BY <1>4 DEF WorkerProc
    <2>2. Tail(mine) \in Seq(Stock) /\ mine[1] \in Stock
      BY <1>2, <1>4, Shorter
    <2>3. st \in WorkStates /\ st.do = "proc" /\ st.q = q /\ st.batch = Tail(mine)
      <3>1. \A t \in WorkStates, s \in Seq(Stock) :
               t.do = "proc" => LET u == [t EXCEPT !.batch = s]
                                IN  u \in WorkStates /\ u.do = "proc" /\ u.q = t.q /\ u.batch = s
        BY DEF WorkStates
      <3> QED
        BY <1>1, <2>2, <3>1 DEF WorkTypes
    <2>4. work' = [work EXCEPT ![w] = st]
      BY <1>1, <2>1 DEF WorkTypes
    <2> HIDE DEF st
    <2>5. WorkTypes'
      <3>1. work' \in [Threads -> WorkStates]
        BY <1>1, <2>3, <2>4 DEF WorkTypes
      <3>2. free' \in [Queues -> SUBSET RecvBlocks]
        <4>1. mine[1].b \in RecvBlocks
          BY <2>2 DEF Stock
        <4> QED
          BY <1>1, <1>2, <2>1, <4>1 DEF WorkTypes
      <3> QED
        BY <1>1, <3>1, <3>2 DEF WorkTypes
    <2> HIDE DEF I, I2, H
    <2>6. AreItems(I, tsvr, recvq, H) /\ AreItems(I2, tsvr, recvq, HandsOf(work'))
      BY <1>1, <2>5, WorkItemsAre DEF WorkTypes, WorkPlaced, I, I2, H
    <2>7. /\ w \in DOMAIN H /\ H[w].batch = mine /\ H[w].q = q
          /\ HandsOf(work') = [H EXCEPT ![w] = HandOf(st)]
          /\ HandOf(st).q = q /\ HandOf(st).batch = Tail(mine)
      <3>1. work'[w] = st /\ \A v \in Threads \ {w} : work'[v] = work[v]
        BY <1>1, <2>4 DEF WorkTypes
      <3> QED
        BY <1>1, <2>3, <3>1, HandFacts DEF HandsOf, H
    <2> HIDE DEF q, mine, first
    <2>8. /\ first \in DOMAIN I /\ I[first].q = q
          /\ I[first].b = mine[1].b /\ I[first].no = mine[1].no
          /\ \E f : Renames(f, I, I2, DOMAIN I \ {first})
      <3>1. HandOf(st).batch = Tail(H[w].batch) /\ HandOf(st).q = H[w].q
            /\ H[w].batch \in Seq(Stock) /\ H[w].batch # <<>>
        BY <1>2, <1>4, <2>7
      <3>2. /\ first \in DOMAIN I /\ I[first].q = H[w].q
            /\ I[first].b = H[w].batch[1].b /\ I[first].no = H[w].batch[1].no
            /\ \E f : Renames(f, I, I2, DOMAIN I \ {first})
        <4>1. GivenBack(w, HandOf(st), H, HandsOf(work'), Stock)
          BY <2>7, <3>1 DEF GivenBack
        <4>2. GaveBack(first, H[w], I, I2)
          BY <2>6, <4>1, ItemGiven DEF first
        <4> QED
          BY <4>2 DEF GaveBack
      <3> QED
        BY <2>7, <3>2
    <2>9. Stored(I2, free', mesgs, Gone(handled) \cup {mine[1].no}, Queues, RecvBlocks)
      <3>1. Stored(I, free, mesgs, Gone(handled), Queues, RecvBlocks)
        BY DEF WorkInv, I
      <3>2. free \in [Queues -> SUBSET RecvBlocks]
            /\ free' = [free EXCEPT ![I[first].q] = @ \cup {I[first].b}]
        BY <1>1, <2>1, <2>8 DEF WorkTypes
      <3>3. Stored(I2, free', mesgs, Gone(handled) \cup {I[first].no}, Queues, RecvBlocks)
        BY <2>8, <3>1, <3>2, Handled
      <3> QED
        BY <2>8, <3>3
    <2>10. Gone(handled') = Gone(handled) \cup {mine[1].no}
      BY <2>1, GoneGrows
    <2>11. mine[1].no \in 1..mesgs
      BY <2>8 DEF WorkInv, Stored, I
    <2>12. JobsInv'
      BY DEF WorkInv, JobsInv, JobTypes, JobsOnce, Running, jobVars
    <2> QED
      BY <1>1, <2>5, <2>9, <2>10, <2>11, <2>12 DEF WorkInv, I2
  <1> QED
    BY <1>3, <1>4

\* A step of the pool, or one of the workers and the sending threads.
LEMMA ProxyWorkStepKeeps ==
    ASSUME WorkInv, ProxyWorkNext \/ UNCHANGED <<jobVars, workVars>>
    PROVE  WorkInv'
  <1>1. CASE (PoolStep \/ LaunchWorkers \/ Signal(Launcher)) /\ UNCHANGED workVars
    <2>1. JobsInv'
      <3>1. CASE PoolStep
        BY <3>1, PoolStepKeeps DEF WorkInv
      <3>2. CASE LaunchWorkers
        BY <3>2, AddWorkerKeeps DEF WorkInv, LaunchWorkers
      <3>3. CASE Signal(Launcher)
        BY <3>3, SignalKeeps DEF WorkInv
      <3> QED
        BY <1>1, <3>1, <3>2, <3>3
    <2> QED
      BY <1>1, <2>1 DEF WorkInv, WorkTypes, workVars
  <1>2. CASE (\E w \in Threads : WorkerStep(w)) /\ UNCHANGED jobVars
    BY <1>2, WorkMovesNone, QueueMpopKeeps, WorkerProcKeeps DEF WorkerStep
  <1>3. CASE (\E s \in Tsvrs : TsvrRecvStep(s)) /\ UNCHANGED jobVars
    BY <1>3, WorkMovesNone, DropMesgKeeps, AllocRecvKeeps, PushRecvKeeps DEF TsvrRecvStep
  <1>4. CASE UNCHANGED <<jobVars, workVars>>
    BY <1>4 DEF WorkInv, WorkTypes, JobsInv, JobTypes, JobsOnce, Running, jobVars, workVars
  <1> QED
    BY <1>1, <1>2, <1>3, <1>4 DEF ProxyWorkNext

\* A batch is no longer than the queue, for its blocks differ.
LEMMA BatchFits ==
    ASSUME WorkInv, NEW w \in Threads, work[w].do = "proc"
    PROVE  DOMAIN work[w].batch \subseteq RecvBlocks
  <1> DEFINE s == work[w].batch
             I == WorkItemsOf(tsvr, recvq, work)
             f == [i \in 1..Len(s) |-> s[i].b]
  <1>1. s \in Seq(Stock) /\ work[w].q \in Queues
    BY WorkKnows DEF WorkInv
  <1>2. AreItems(I, tsvr, recvq, HandsOf(work)) /\ HandsOf(work)[w].batch = s
        /\ HandsOf(work)[w].q = work[w].q /\ w \in DOMAIN HandsOf(work)
    BY WorkItemsAre, HandFacts DEF WorkInv, WorkTypes, WorkPlaced
  <1>3. Stored(I, free, mesgs, Gone(handled), Queues, RecvBlocks)
    BY DEF WorkInv
  <1> HIDE DEF I, s
  <1>4. ASSUME NEW i \in 1..Len(s)
        PROVE  /\ BatchAt(w, i) \in DOMAIN I /\ i \in Nat
               /\ I[BatchAt(w, i)].b = s[i].b /\ I[BatchAt(w, i)].q = work[w].q
    <2>1. i \in Nat /\ i \in DOMAIN s
      BY <1>1
    <2> QED
      BY <1>2, <2>1 DEF AreItems, AtBatch
  <1>5. ASSUME NEW i \in 1..Len(s), NEW j \in 1..Len(s), s[i].b = s[j].b
        PROVE  i = j
    <2>1. BatchAt(w, i) = BatchAt(w, j)
      BY <1>3, <1>4, <1>5 DEF Stored
    <2> QED
      BY <1>4, <2>1, PlacesDiffer
  <1>6. f \in [1..Len(s) -> 1..RecvMax]
    <2>1. \A i \in 1..Len(s) : s[i] \in Stock
      BY <1>1, SeqFacts
    <2>2. \A x \in Stock : x.b \in 1..RecvMax
      BY DEF Stock, RecvBlocks
    <2> QED
      BY <2>1, <2>2
  <1>7. Len(s) \in Nat /\ RecvMax \in Nat /\ DOMAIN s = 1..Len(s)
    BY <1>1, WorkAssumption
  <1>8. /\ IsFiniteSet(1..Len(s)) /\ Cardinality(1..Len(s)) = Len(s)
        /\ IsFiniteSet(1..RecvMax) /\ Cardinality(1..RecvMax) = RecvMax
    <2>1. ASSUME NEW n \in Nat PROVE IsFiniteSet(1..n) /\ Cardinality(1..n) = n
      <3>1. /\ IsFiniteSet(1..n)
            /\ Cardinality(1..n) = IF 1 > n THEN 0 ELSE n - 1 + 1
        BY FS_Interval
      <3> QED
        BY <3>1
    <2> QED
      BY <1>7, <2>1
  <1>9. Len(s) <= RecvMax
    <2> SUFFICES ASSUME RecvMax < Len(s) PROVE FALSE
      BY <1>7
    <2>1. \E x, y \in 1..Len(s) : x # y /\ f[x] = f[y]
      <3> DEFINE A == 1..Len(s)
                 B == 1..RecvMax
      <3>1. /\ IsFiniteSet(A) /\ IsFiniteSet(B) /\ Cardinality(B) < Cardinality(A) /\ f \in [A -> B]
        BY <1>6, <1>8
      <3> HIDE DEF f, A, B
      <3>2. \E x, y \in A : x # y /\ f[x] = f[y]
        BY <3>1, FS_PigeonHole
      <3> QED
        BY <3>2 DEF A
    <2> QED
      BY <1>5, <2>1
  <1> QED
    BY <1>7, <1>9 DEF RecvBlocks, s

LEMMA WorkGives == ASSUME WorkInv PROVE WorkExact
  <1> DEFINE I == WorkItemsOf(tsvr, recvq, work)
             H == HandsOf(work)
  <1>1. /\ AreItems(I, tsvr, recvq, H)
        /\ \A p \in DOMAIN recvq : DOMAIN recvq[p] \subseteq Nat
        /\ \A w \in DOMAIN H : DOMAIN H[w].batch \subseteq Nat
        /\ DOMAIN tsvr = Tsvrs /\ DOMAIN recvq = Queues /\ DOMAIN H = Threads
        /\ Stored(I, free, mesgs, Gone(handled), DOMAIN recvq, RecvBlocks)
    BY WorkItemsAre, HandFacts DEF WorkInv, WorkTypes, WorkPlaced
  <1>2. \A w \in Threads : /\ work[w].do = "proc" => H[w].q = work[w].q /\ H[w].batch = work[w].batch
                           /\ work[w].do # "proc" => H[w].batch = <<>>
    BY HandFacts
  <1> HIDE DEF I, H
  <1>3. ASSUME NEW w \in Threads, NEW q \in Queues, NEW i
        PROVE  /\ i \in DOMAIN Batch(w, q) <=> i \in DOMAIN H[w].batch /\ H[w].q = q
               /\ i \in DOMAIN Batch(w, q) => Batch(w, q)[i] = H[w].batch[i] /\ i \in RecvBlocks /\ i \in Nat
    <2>1. CASE work[w].do = "proc"
      <3>1. i \in DOMAIN work[w].batch => i \in RecvBlocks /\ i \in Nat
        BY <2>1, BatchFits DEF RecvBlocks
      <3>2. CASE work[w].q = q
        BY <1>2, <2>1, <3>1, <3>2 DEF Batch
      <3>3. CASE work[w].q # q
        BY <1>2, <2>1, <3>3 DEF Batch
      <3> QED
        BY <3>2, <3>3
    <2>2. CASE work[w].do # "proc"
      BY <1>2, <2>2 DEF Batch
    <2> QED
      BY <2>1, <2>2
  <1>4. ASSUME NEW q \in Queues, NEW b \in RecvBlocks
        PROVE  Uses(q, b) = IF b \in free[q] THEN 0 ELSE 1
    <2> DEFINE Pushes(s) == tsvr[s].do = "push" /\ tsvr[s].q = q /\ tsvr[s].b = b
               Queued(i) == recvq[q][i].b = b
               Has(w, i) == H[w].q = q /\ H[w].batch[i].b = b
               A == {s \in Tsvrs : Pushes(s)}
               B == {i \in DOMAIN recvq[q] : Queued(i)}
               C == {p \in Threads \X RecvBlocks :
                        p[2] \in DOMAIN Batch(p[1], q) /\ Batch(p[1], q)[p[2]].b = b}
               NonePushes == \A s \in Tsvrs : ~Pushes(s)
               NoneQueued == \A i \in DOMAIN recvq[q] : ~Queued(i)
               NoneHas == \A w \in Threads : \A i \in DOMAIN H[w].batch : ~Has(w, i)
    <2>1. Uses(q, b) = Cardinality(A) + Cardinality(B) + Cardinality(C)
      BY DEF Uses
    <2>2. IF b \in free[q] THEN NonePushes /\ NoneQueued /\ NoneHas
          ELSE \/ /\ \E s \in Tsvrs : \A t \in Tsvrs : Pushes(t) <=> t = s
                  /\ NoneQueued /\ NoneHas
               \/ /\ \E i \in DOMAIN recvq[q] : \A j \in DOMAIN recvq[q] : Queued(j) <=> j = i
                  /\ NonePushes /\ NoneHas
               \/ /\ \E w \in Threads : \E i \in DOMAIN H[w].batch :
                        \A v \in Threads : \A j \in DOMAIN H[v].batch : Has(v, j) <=> v = w /\ j = i
                  /\ NonePushes /\ NoneQueued
      BY <1>1, UsedOnce
    <2>3. \A w \in Threads : \A i : <<w, i>> \in C <=> i \in DOMAIN H[w].batch /\ Has(w, i)
      BY <1>3
    <2>4. \A p \in C : p = <<p[1], p[2]>> /\ p[1] \in Threads
      OBVIOUS
    <2>5. /\ NonePushes => A = {}
          /\ NoneQueued => B = {}
      OBVIOUS
    <2> HIDE DEF C, Has
    <2>6. NoneHas => C = {}
      BY <2>3, <2>4
    <2>7. (\E s \in Tsvrs : \A t \in Tsvrs : Pushes(t) <=> t = s) => \E x : A = {x}
      <3> SUFFICES ASSUME NEW s \in Tsvrs, \A t \in Tsvrs : Pushes(t) <=> t = s PROVE \E x : A = {x}
        OBVIOUS
      <3>1. A = {s}
        OBVIOUS
      <3> QED
        BY <3>1
    <2>8. (\E i \in DOMAIN recvq[q] : \A j \in DOMAIN recvq[q] : Queued(j) <=> j = i) => \E x : B = {x}
      <3> SUFFICES ASSUME NEW i \in DOMAIN recvq[q], \A j \in DOMAIN recvq[q] : Queued(j) <=> j = i
                   PROVE  \E x : B = {x}
        OBVIOUS
      <3>1. B = {i}
        OBVIOUS
      <3> QED
        BY <3>1
    <2>9. (\E w \in Threads : \E i \in DOMAIN H[w].batch :
              \A v \in Threads : \A j \in DOMAIN H[v].batch : Has(v, j) <=> v = w /\ j = i)
          => \E x : C = {x}
      <3> SUFFICES ASSUME NEW w \in Threads, NEW i \in DOMAIN H[w].batch,
                          \A v \in Threads : \A j \in DOMAIN H[v].batch : Has(v, j) <=> v = w /\ j = i
                   PROVE  \E x : C = {x}
        OBVIOUS
      <3>1. C = {<<w, i>>}
        BY <2>3, <2>4
      <3> QED
        BY <3>1
    <2> HIDE DEF A, B, NonePushes, NoneQueued, NoneHas, Pushes, Queued
    <2>10. Cardinality({}) = 0 /\ \A x : Cardinality({x}) = 1
      BY FS_EmptySet, FS_Singleton
    <2>11. CASE b \in free[q]
      BY <2>1, <2>2, <2>5, <2>6, <2>10, <2>11
    <2>12. CASE b \notin free[q]
      <3>1. \/ A = {} /\ B = {} /\ \E x : C = {x}
            \/ A = {} /\ C = {} /\ \E x : B = {x}
            \/ B = {} /\ C = {} /\ \E x : A = {x}
        <4>1. CASE NonePushes /\ NoneQueued
          BY <2>2, <2>5, <2>7, <2>8, <2>9, <2>12, <4>1 DEF NonePushes, NoneQueued
        <4>2. CASE NonePushes /\ NoneHas
          BY <2>2, <2>5, <2>6, <2>8, <2>12, <4>2 DEF NonePushes, NoneHas
        <4>3. CASE NoneQueued /\ NoneHas
          BY <2>2, <2>5, <2>6, <2>7, <2>12, <4>3 DEF NoneQueued, NoneHas
        <4> QED
          BY <2>2, <2>12, <4>1, <4>2, <4>3
      <3>2. \/ Cardinality(A) = 0 /\ Cardinality(B) = 0 /\ Cardinality(C) = 1
            \/ Cardinality(A) = 0 /\ Cardinality(B) = 1 /\ Cardinality(C) = 0
            \/ Cardinality(A) = 1 /\ Cardinality(B) = 0 /\ Cardinality(C) = 0
        BY <2>10, <3>1, Zenon
      <3>3. Cardinality(A) + Cardinality(B) + Cardinality(C) = 1
        BY <3>2
      <3> QED
        BY <2>1, <2>12, <3>3
    <2> QED
      BY <2>11, <2>12
  <1>5. ASSUME NEW q \in Queues, NEW h \in handled, NEW i \in DOMAIN recvq[q]
        PROVE  recvq[q][i].no # h[1]
    <2>1. i \in Nat /\ q \in DOMAIN recvq
      BY <1>1
    <2>2. QueueAt(q, i) \in DOMAIN I /\ I[QueueAt(q, i)].no = recvq[q][i].no
      BY <1>1, <2>1 DEF AreItems, AtQueue
    <2> QED
      BY <1>1, <2>2 DEF Stored, Gone
  <1>6. ASSUME NEW q \in Queues, NEW h \in handled, NEW w \in Threads, NEW i \in DOMAIN Batch(w, q)
        PROVE  Batch(w, q)[i].no # h[1]
    <2>1. i \in Nat /\ w \in DOMAIN H /\ i \in DOMAIN H[w].batch /\ Batch(w, q)[i] = H[w].batch[i]
      BY <1>1, <1>3
    <2>2. BatchAt(w, i) \in DOMAIN I /\ I[BatchAt(w, i)].no = H[w].batch[i].no
      BY <1>1, <2>1 DEF AreItems, AtBatch
    <2> QED
      BY <1>1, <2>1, <2>2 DEF Stored, Gone
  <1>7. JobsOnce
    BY DEF WorkInv, JobsInv
  <1> QED
    BY <1>4, <1>5, <1>6, <1>7 DEF WorkExact

\* What unit a behaviour is of never changes, and only its pool and workers move.
LEMMA WorkersApart ==
    ASSUME [Next]_vars
    PROVE  /\ unit' = unit
           /\ unit = "proxy" => ProxyWorkNext \/ UNCHANGED <<jobVars, workVars>>
           /\ unit = "sdtp_work" => SdtpWorkNext \/ UNCHANGED <<jobVars, sworkVars>>
  BY DEF Next, vars, SubStep, SdtpStep, AccessStep, PoolAloneStep, ProxyStep, SdtpWorkStep,
         ShmQueueStep, ShmStep, LogStep

\* However the workers of the rtmq proxy sweep each other's queues, and whatever commands
\* are lost, no job is with two threads, every block of a queue is in its pool or used in
\* one place, and no message that was handled is anywhere still (rtmq_proxy_tsvr.c,
\* rtmq_proxy_worker.c).  The part of QueuesExact about the proxy.
THEOREM ProxyWorkersExact == Spec => [](unit = "proxy" => WorkExact)
  <1>1. Init => (unit = "proxy" => WorkInv)
    BY WorkInitially DEF Init
  <1>2. (unit = "proxy" => WorkInv) /\ [Next]_vars => (unit = "proxy" => WorkInv)'
    BY WorkersApart, ProxyWorkStepKeeps
  <1>3. (unit = "proxy" => WorkInv) => (unit = "proxy" => WorkExact)
    BY WorkGives
  <1> QED
    BY <1>1, <1>2, <1>3, PTL DEF Spec

-----------------------------------------------------------------------------
(* The workers of the sdtp sender. *)

SdtpBlocks == 1..QueueMax
SdtpStock == [b : SdtpBlocks, no : Nat]

SsvrStates == [do : {"recv"}] \cup [do : {"push"}, q : Recvqs, b : SdtpBlocks, no : Nat]

SworkStates ==
    [do : {"off", "wait"}] \cup [do : {"pop"}, q : Recvqs]
        \cup [do : {"proc"}, q : Recvqs, mesg : SdtpStock]

SworkTypes ==
    /\ reg \in [SdtpTypes -> Callbacks \cup {Nobody}]
    /\ came \in Seq(SdtpTypes)
    /\ rq \in [Recvqs -> Seq(SdtpStock)]
    /\ spare \in [Recvqs -> SUBSET SdtpBlocks]
    /\ ssvr \in [Ssvrs -> SsvrStates]
    /\ swork \in [Threads -> SworkStates]

MesgOf(st) == IF st.do = "proc" THEN [q |-> st.q, batch |-> <<st.mesg>>] ELSE [q |-> 0, batch |-> <<>>]
MesgsOf(ws) == [w \in Threads |-> MesgOf(ws[w])]

SworkItemsOf(ts, qs, ws) == ItemsIn(ts, qs, MesgsOf(ws))
SworkPlaced(ts, qs, ws) == AreItems(SworkItemsOf(ts, qs, ws), ts, qs, MesgsOf(ws))

\* Callbacks are registered before anything is received.
SworkInv ==
    /\ SworkTypes
    /\ JobsInv
    /\ added = 0 => came = <<>>
    /\ Gone(done) \subseteq 1..Len(came)
    /\ \A h \in done : h[2] = reg[came[h[1]]]
    /\ Stored(SworkItemsOf(ssvr, rq, swork), spare, Len(came), Gone(done), Recvqs, SdtpBlocks)

LEMMA SworkKnows ==
    ASSUME SworkTypes
    PROVE  /\ \A s \in Ssvrs :
                 ssvr[s].do = "push" => ssvr[s].q \in Recvqs /\ ssvr[s].b \in SdtpBlocks /\ ssvr[s].no \in Nat
           /\ \A w \in Threads :
                 /\ swork[w].do \in {"pop", "proc"} => swork[w].q \in Recvqs
                 /\ swork[w].do = "proc" => swork[w].mesg \in SdtpStock
  <1>1. ASSUME NEW t \in SsvrStates
        PROVE  t.do = "push" => t.q \in Recvqs /\ t.b \in SdtpBlocks /\ t.no \in Nat
    BY DEF SsvrStates
  <1>2. ASSUME NEW t \in SworkStates
        PROVE  /\ t.do \in {"pop", "proc"} => t.q \in Recvqs
               /\ t.do = "proc" => t.mesg \in SdtpStock
    BY DEF SworkStates
  <1> QED
    BY <1>1, <1>2 DEF SworkTypes

LEMMA MesgFacts ==
    /\ \A st : st.do = "proc" => MesgOf(st).q = st.q /\ MesgOf(st).batch = <<st.mesg>>
    /\ \A st : st.do # "proc" => MesgOf(st).batch = <<>>
    /\ \A ws : DOMAIN MesgsOf(ws) = Threads /\ \A w \in Threads : MesgsOf(ws)[w] = MesgOf(ws[w])
  BY DEF MesgOf, MesgsOf

LEMMA SworkItemsAre ==
    ASSUME NEW ts, NEW qs \in [Recvqs -> Seq(SdtpStock)], NEW ws \in [Threads -> SworkStates]
    PROVE  /\ SworkPlaced(ts, qs, ws)
           /\ \A q \in DOMAIN qs : DOMAIN qs[q] \subseteq Nat
           /\ \A w \in DOMAIN MesgsOf(ws) : DOMAIN MesgsOf(ws)[w].batch \subseteq Nat
  <1>1. \A q \in DOMAIN qs : DOMAIN qs[q] \subseteq Nat
    OBVIOUS
  <1>2. \A w \in DOMAIN MesgsOf(ws) : DOMAIN MesgsOf(ws)[w].batch \subseteq Nat
    <2> SUFFICES ASSUME NEW w \in Threads PROVE DOMAIN MesgOf(ws[w]).batch \subseteq Nat
      BY MesgFacts
    <2>1. CASE ws[w].do = "proc"
      BY <2>1, MesgFacts
    <2>2. CASE ws[w].do # "proc"
      BY <2>2, MesgFacts
    <2> QED
      BY <2>1, <2>2
  <1> QED
    BY <1>1, <1>2, ItemsInAre DEF SworkPlaced, SworkItemsOf

LEMMA SworkInitially == SdtpWorkInit /\ PoolInit => SworkInv
  <1> SUFFICES ASSUME SdtpWorkInit, PoolInit PROVE SworkInv
    OBVIOUS
  <1>1. SworkTypes
    BY DEF SdtpWorkInit, SworkTypes, SsvrStates, SworkStates, SdtpBlocks
  <1>2. Gone(done) = {} /\ done = {} /\ came = <<>>
    BY DEF SdtpWorkInit, Gone
  <1>3. SworkPlaced(ssvr, rq, swork)
    BY <1>1, SworkItemsAre DEF SworkTypes
  <1>4. DOMAIN SworkItemsOf(ssvr, rq, swork) = {}
    <2> SUFFICES ASSUME NEW p \in DOMAIN SworkItemsOf(ssvr, rq, swork) PROVE FALSE
      OBVIOUS
    <2>1. CASE \E s \in DOMAIN ssvr : p = PushAt(s)
      BY <1>3, <2>1 DEF SworkPlaced, AreItems, AtPush, SdtpWorkInit
    <2>2. CASE \E q \in DOMAIN rq : \E i \in Nat : p = QueueAt(q, i)
      BY <1>3, <2>2 DEF SworkPlaced, AreItems, AtQueue, SdtpWorkInit
    <2>3. CASE \E w \in DOMAIN MesgsOf(swork) : \E i \in Nat : p = BatchAt(w, i)
      <3>1. \A w \in DOMAIN MesgsOf(swork) : MesgsOf(swork)[w].batch = <<>>
        BY MesgFacts DEF SdtpWorkInit
      <3> QED
        BY <1>3, <2>3, <3>1 DEF SworkPlaced, AreItems, AtBatch
    <2> QED
      BY <1>3, <2>1, <2>2, <2>3 DEF SworkPlaced, AreItems, OnlyThere
  <1>5. Stored(SworkItemsOf(ssvr, rq, swork), spare, Len(came), Gone(done), Recvqs, SdtpBlocks)
    <2> HIDE DEF SworkItemsOf
    <2> QED
      BY <1>4 DEF Stored, SdtpWorkInit, SdtpBlocks
  <1> QED
    BY <1>1, <1>2, <1>5, JobsInitially DEF SworkInv

\* What a step leaves that moves no message.
LEMMA SworkSame ==
    ASSUME SworkInv, SworkTypes', UNCHANGED <<reg, came, rq, spare, ssvr, done, jobVars>>,
           \A w \in Threads : \/ swork'[w] = swork[w]
                              \/ swork[w].do # "proc" /\ swork'[w].do # "proc"
    PROVE  SworkInv'
  <1> DEFINE I == SworkItemsOf(ssvr, rq, swork)
             I2 == SworkItemsOf(ssvr, rq, swork')
  <1>1. SworkPlaced(ssvr, rq, swork) /\ SworkPlaced(ssvr, rq, swork')
    BY SworkItemsAre DEF SworkInv, SworkTypes
  <1>2. \A w \in Threads : \/ MesgsOf(swork')[w] = MesgsOf(swork)[w]
                           \/ MesgsOf(swork)[w].batch = <<>> /\ MesgsOf(swork')[w].batch = <<>>
    BY MesgFacts
  <1> HIDE DEF I, I2
  <1>3. AreItems(I, ssvr, rq, MesgsOf(swork)) /\ AreItems(I2, ssvr, rq, MesgsOf(swork'))
    BY <1>1 DEF SworkPlaced, I, I2
  <1>4. \E f : Renames(f, I, I2, DOMAIN I)
    BY <1>2, <1>3, MesgFacts, ItemsStay
  <1>5. Stored(I, spare, Len(came), Gone(done), Recvqs, SdtpBlocks)
    BY DEF SworkInv, I
  <1>6. Stored(I2, spare, Len(came), Gone(done), Recvqs, SdtpBlocks)
    BY <1>4, <1>5, Moved
  <1>7. JobsInv'
    BY DEF SworkInv, JobsInv, JobTypes, JobsOnce, Running, jobVars
  <1>8. added' = added
    BY DEF jobVars
  <1> QED
    BY <1>6, <1>7, <1>8 DEF SworkInv, I2

LEMMA SdsdRegisterKeeps ==
    ASSUME SworkInv, NEW ty \in SdtpTypes, NEW cb \in Callbacks, SdsdRegister(ty, cb), UNCHANGED jobVars
    PROVE  SworkInv'
  <1>1. came = <<>> /\ UNCHANGED <<came, rq, spare, ssvr, swork, done>> /\ added' = added
    BY DEF SworkInv, SdsdRegister, jobVars
  <1>2. done = {}
    <2>1. Gone(done) = {}
      BY <1>1 DEF SworkInv
    <2> QED
      BY <2>1 DEF Gone
  <1>3. SworkTypes'
    BY <1>1 DEF SworkInv, SworkTypes, SdsdRegister
  <1>4. JobsInv'
    BY DEF SworkInv, JobsInv, JobTypes, JobsOnce, Running, jobVars
  <1> QED
    BY <1>1, <1>2, <1>3, <1>4 DEF SworkInv

\* Behind the types received comes one more.
LEMMA CameLonger ==
    ASSUME SworkInv, NEW ty \in SdtpTypes, came' = Append(came, ty), UNCHANGED <<reg, done>>
    PROVE  /\ came' \in Seq(SdtpTypes) /\ Len(came) \in Nat /\ Len(came') = Len(came) + 1
           /\ Gone(done) \subseteq 1..Len(came')
           /\ \A h \in done : h[2] = reg[came'[h[1]]]
  <1>1. /\ came' \in Seq(SdtpTypes) /\ Len(came) \in Nat /\ Len(came') = Len(came) + 1
        /\ \A i \in 1..Len(came) : came'[i] = came[i]
    BY Longer, SeqFacts DEF SworkInv, SworkTypes
  <1>2. Gone(done) \subseteq 1..Len(came')
    BY <1>1 DEF SworkInv
  <1>3. \A h \in done : h[1] \in 1..Len(came)
    BY DEF SworkInv, Gone
  <1> QED
    BY <1>1, <1>2, <1>3 DEF SworkInv

LEMMA ExpMesgProcKeeps ==
    ASSUME SworkInv, NEW s \in Ssvrs, NEW ty \in SdtpTypes, NEW q \in Recvqs,
           SdsdLaunched, ExpMesgProc(s, ty, q), UNCHANGED jobVars
    PROVE  SworkInv'
  <1>1. SworkTypes /\ UNCHANGED <<reg, rq, swork, done>> /\ ssvr[s].do = "recv"
    BY DEF SworkInv, ExpMesgProc
  <1>2. /\ came' \in Seq(SdtpTypes) /\ Len(came) \in Nat /\ Len(came') = Len(came) + 1
        /\ Gone(done) \subseteq 1..Len(came')
        /\ \A h \in done : h[2] = reg[came'[h[1]]]
    BY CameLonger DEF ExpMesgProc
  <1>3. JobsInv' /\ added' # 0
    BY PoolAssumption DEF SworkInv, JobsInv, JobTypes, JobsOnce, Running, jobVars, SdsdLaunched
  <1>4. CASE spare[q] = {}
    <2>1. UNCHANGED <<spare, ssvr>>
      BY <1>4 DEF ExpMesgProc
    <2>2. SworkTypes'
      BY <1>1, <1>2, <2>1 DEF SworkTypes
    <2>3. Stored(SworkItemsOf(ssvr, rq, swork), spare, Len(came) + 1, Gone(done), Recvqs, SdtpBlocks)
      BY <1>2, CameNot DEF SworkInv
    <2> QED
      BY <1>1, <1>2, <1>3, <2>1, <2>2, <2>3 DEF SworkInv
  <1>5. CASE spare[q] # {}
    <2>1. PICK b \in spare[q] :
            /\ spare' = [spare EXCEPT ![q] = @ \ {b}]
            /\ ssvr' = [ssvr EXCEPT ![s] = [do |-> "push", q |-> q, b |-> b, no |-> Len(came')]]
      BY <1>5 DEF ExpMesgProc
    <2> DEFINE st == [do |-> "push", q |-> q, b |-> b, no |-> Len(came')]
               I == SworkItemsOf(ssvr, rq, swork)
               I2 == SworkItemsOf(ssvr', rq, swork)
               H == MesgsOf(swork)
    <2>2. b \in SdtpBlocks
      BY <1>1 DEF SworkTypes
    <2>3. st \in SsvrStates
      BY <1>2, <2>2 DEF SsvrStates
    <2>4. SworkTypes'
      <3>1. ssvr' \in [Ssvrs -> SsvrStates]
        BY <1>1, <2>1, <2>3 DEF SworkTypes
      <3>2. spare' \in [Recvqs -> SUBSET SdtpBlocks]
        BY <1>1, <2>1 DEF SworkTypes
      <3> QED
        BY <1>1, <1>2, <3>1, <3>2 DEF SworkTypes
    <2> HIDE DEF I, I2, H, st
    <2>5. AreItems(I, ssvr, rq, H) /\ AreItems(I2, ssvr', rq, H)
      BY <1>1, <2>4, SworkItemsAre DEF SworkTypes, SworkPlaced, I, I2, H
    <2>6. Arrives(PushAt(s), q, b, I, I2, spare, spare', Len(came'))
      <3>1. s \in DOMAIN ssvr /\ ssvr[s].do # "push"
        BY <1>1 DEF SworkTypes
      <3> QED
        BY <2>1, <2>5, <3>1, ItemArrives
    <2>7. Stored(I2, spare', Len(came) + 1, Gone(done), Recvqs, SdtpBlocks)
      <3>1. /\ Stored(I, spare, Len(came), Gone(done), Recvqs, SdtpBlocks)
            /\ spare \in [Recvqs -> SUBSET SdtpBlocks] /\ Gone(done) \subseteq 1..Len(came)
        BY <1>1 DEF SworkInv, SworkTypes, I
      <3>2. Arrives(PushAt(s), q, b, I, I2, spare, spare', Len(came) + 1)
        BY <1>2, <2>6
      <3> QED
        BY <1>2, <3>1, <3>2, Came
    <2> QED
      BY <1>1, <1>2, <1>3, <2>4, <2>7 DEF SworkInv, I2
  <1> QED
    BY <1>4, <1>5

LEMMA ExpMesgPushKeeps ==
    ASSUME SworkInv, NEW s \in Ssvrs, ExpMesgPush(s), UNCHANGED jobVars
    PROVE  SworkInv'
  <1> DEFINE q == ssvr[s].q
             it == [b |-> ssvr[s].b, no |-> ssvr[s].no]
             st == [do |-> "recv"]
             I == SworkItemsOf(ssvr, rq, swork)
             I2 == SworkItemsOf(ssvr', rq', swork)
             H == MesgsOf(swork)
  <1>1. /\ SworkTypes /\ ssvr[s].do = "push" /\ UNCHANGED <<reg, came, spare, swork, done>>
        /\ rq' = [rq EXCEPT ![q] = Append(@, it)] /\ ssvr' = [ssvr EXCEPT ![s] = st]
    BY DEF SworkInv, ExpMesgPush
  <1>2. q \in Recvqs /\ it \in SdtpStock /\ st \in SsvrStates /\ st.do = "recv" /\ rq[q] \in Seq(SdtpStock)
    BY <1>1, SworkKnows DEF SdtpStock, SsvrStates, SworkTypes
  <1> HIDE DEF I, I2, H
  <1>3. SworkTypes'
    <2> HIDE DEF it, st, q
    <2>1. Append(rq[q], it) \in Seq(SdtpStock)
      BY <1>2, Longer
    <2>2. rq' \in [Recvqs -> Seq(SdtpStock)]
      BY <1>1, <1>2, <2>1 DEF SworkTypes
    <2>3. ssvr' \in [Ssvrs -> SsvrStates]
      BY <1>1, <1>2 DEF SworkTypes
    <2> QED
      BY <1>1, <2>2, <2>3 DEF SworkTypes
  <1>4. AreItems(I, ssvr, rq, H) /\ AreItems(I2, ssvr', rq', H)
    BY <1>1, <1>3, SworkItemsAre DEF SworkTypes, SworkPlaced, I, I2, H
  <1>5. \E f : Renames(f, I, I2, DOMAIN I)
    <2>1. s \in DOMAIN ssvr /\ q \in DOMAIN rq
      BY <1>1, <1>2 DEF SworkTypes
    <2>2. PushedTo(s, q, st, ssvr, rq, ssvr', rq', SdtpStock)
      BY <1>1, <1>2, <2>1 DEF PushedTo
    <2> HIDE DEF st, q
    <2> QED
      BY <1>4, <2>2, ItemPushed
  <1>6. Stored(I2, spare, Len(came), Gone(done), Recvqs, SdtpBlocks)
    <2>1. Stored(I, spare, Len(came), Gone(done), Recvqs, SdtpBlocks)
      BY DEF SworkInv, I
    <2> QED
      BY <1>5, <2>1, Moved
  <1>7. JobsInv' /\ added' = added
    BY DEF SworkInv, JobsInv, JobTypes, JobsOnce, Running, jobVars
  <1> QED
    BY <1>1, <1>3, <1>6, <1>7 DEF SworkInv, I2

\* To the next queue, or back to waiting.
LEMMA ToQueueKeeps ==
    ASSUME SworkInv, NEW w \in Threads, swork[w].do # "proc",
           \/ swork' = [swork EXCEPT ![w] = Waits]
           \/ \E q \in 0..ThreadNum : ToQueue(w, q),
           UNCHANGED <<reg, came, rq, spare, ssvr, done, jobVars>>
    PROVE  SworkInv'
  <1>1. PICK st \in SworkStates : st.do # "proc" /\ swork' = [swork EXCEPT ![w] = st]
    <2>1. Waits \in SworkStates /\ Waits.do = "wait"
      BY DEF Waits, SworkStates
    <2>2. CASE swork' = [swork EXCEPT ![w] = Waits]
      BY <2>1, <2>2
    <2>3. CASE \E q \in 0..ThreadNum : ToQueue(w, q)
      <3>1. PICK q \in 0..ThreadNum : ToQueue(w, q)
        BY <2>3
      <3> DEFINE st == [do |-> "pop", q |-> q]
      <3>2. CASE q = ThreadNum
        BY <2>1, <3>1, <3>2 DEF ToQueue
      <3>3. CASE q # ThreadNum
        <4>1. q \in Recvqs
          BY <3>3, PoolAssumption DEF Recvqs
        <4>2. st \in SworkStates /\ st.do = "pop"
          BY <4>1 DEF SworkStates
        <4>3. swork' = [swork EXCEPT ![w] = st]
          BY <3>1, <3>3 DEF ToQueue
        <4> HIDE DEF st
        <4> QED
          BY <4>2, <4>3
      <3> QED
        BY <3>2, <3>3
    <2> QED
      BY <2>2, <2>3
  <1>2. SworkTypes'
    BY <1>1 DEF SworkInv, SworkTypes
  <1>3. \A v \in Threads : swork'[v] = swork[v] \/ (swork[v].do # "proc" /\ swork'[v].do # "proc")
    BY <1>1 DEF SworkInv, SworkTypes
  <1> QED
    BY <1>2, <1>3, SworkSame

LEMMA WorkerPopKeeps ==
    ASSUME SworkInv, NEW w \in Threads, WorkerPop(w), UNCHANGED jobVars
    PROVE  SworkInv'
  <1> DEFINE q == swork[w].q
  <1>1. /\ SworkTypes /\ swork[w].do = "pop" /\ UNCHANGED <<reg, came, spare, ssvr, done>>
    BY DEF SworkInv, WorkerPop
  <1>2. q \in Recvqs /\ rq[q] \in Seq(SdtpStock)
    BY <1>1, SworkKnows DEF SworkTypes
  <1>3. CASE rq[q] = <<>>
    <2>1. q + 1 \in 0..ThreadNum
      BY <1>2, PoolAssumption DEF Recvqs
    <2> QED
      BY <1>1, <1>3, <2>1, ToQueueKeeps DEF WorkerPop
  <1>4. CASE rq[q] # <<>>
    <2> DEFINE s == rq[q]
               st == [do |-> "proc", q |-> q, mesg |-> Head(s)]
               I == SworkItemsOf(ssvr, rq, swork)
               I2 == SworkItemsOf(ssvr, rq', swork')
    <2>1. swork' = [swork EXCEPT ![w] = st] /\ rq' = [rq EXCEPT ![q] = Tail(@)]
      BY <1>4 DEF WorkerPop
    <2>2. /\ 1 \in 0..Len(s) /\ Head(s) \in SdtpStock /\ Tail(s) \in Seq(SdtpStock)
          /\ Tail(s) = SubSeq(s, 1 + 1, Len(s)) /\ <<Head(s)>> = SubSeq(s, 1, 1)
      <3> HIDE DEF s
      <3>0. s \in Seq(SdtpStock) /\ s # <<>>
        BY <1>2, <1>4 DEF s
      <3>1. /\ Head(s) \in SdtpStock /\ Head(s) = s[1] /\ Tail(s) \in Seq(SdtpStock)
            /\ Len(Tail(s)) = Len(s) - 1 /\ 1 \in 1..Len(s) /\ Len(s) \in Nat
            /\ \A i \in 1..Len(Tail(s)) : i + 1 \in 1..Len(s) /\ Tail(s)[i] = s[i + 1]
        BY <3>0, Shorter, SeqFacts
      <3>2. /\ 1 \in 0..Len(s)
            /\ SubSeq(s, 1, 1) \in Seq(SdtpStock) /\ Len(SubSeq(s, 1, 1)) = 1
            /\ \A i \in 1..1 : SubSeq(s, 1, 1)[i] = s[i]
            /\ SubSeq(s, 1 + 1, Len(s)) \in Seq(SdtpStock)
            /\ Len(SubSeq(s, 1 + 1, Len(s))) = Len(s) - 1
            /\ \A i \in 1..(Len(s) - 1) : SubSeq(s, 1 + 1, Len(s))[i] = s[1 + i]
        <4>1. 1 \in 0..Len(s)
          BY <3>1
        <4> QED
          BY ZenonT(60), <3>0, <4>1, Cut
      <3>3. Tail(s) = SubSeq(s, 1 + 1, Len(s))
        <4> DEFINE a == Tail(s)
                   b == SubSeq(s, 1 + 1, Len(s))
        <4>1. /\ a \in Seq(SdtpStock) /\ b \in Seq(SdtpStock) /\ Len(a) = Len(b)
              /\ \A i \in 1..Len(a) : a[i] = b[i]
          BY <3>1, <3>2
        <4> HIDE DEF a, b
        <4>2. a = b
          BY <4>1, SameSeq
        <4> QED
          BY <4>2 DEF a, b
      <3>4. <<Head(s)>> = SubSeq(s, 1, 1)
        <4> DEFINE a == <<Head(s)>>
                   b == SubSeq(s, 1, 1)
        <4>1. /\ a \in Seq(SdtpStock) /\ b \in Seq(SdtpStock) /\ Len(a) = Len(b)
              /\ \A i \in 1..Len(a) : a[i] = b[i]
          BY <3>1, <3>2
        <4> HIDE DEF a, b
        <4>2. a = b
          BY <4>1, SameSeq
        <4> QED
          BY <4>2 DEF a, b
      <3> QED
        BY <3>1, <3>2, <3>3, <3>4
    <2>3. st \in SworkStates /\ st.do = "proc" /\ st.q = q /\ st.mesg = Head(s)
      BY <1>2, <2>2 DEF SworkStates
    <2> HIDE DEF st
    <2>4. SworkTypes'
      <3>1. swork' \in [Threads -> SworkStates]
        BY <1>1, <2>1, <2>3 DEF SworkTypes
      <3>2. rq' \in [Recvqs -> Seq(SdtpStock)]
        BY <1>1, <1>2, <2>1, <2>2 DEF SworkTypes
      <3> QED
        BY <1>1, <3>1, <3>2 DEF SworkTypes
    <2> HIDE DEF I, I2
    <2>5. AreItems(I, ssvr, rq, MesgsOf(swork)) /\ AreItems(I2, ssvr, rq', MesgsOf(swork'))
      BY <1>1, <2>4, SworkItemsAre DEF SworkTypes, SworkPlaced, I, I2
    <2>6. /\ w \in DOMAIN MesgsOf(swork) /\ MesgsOf(swork)[w].batch = <<>>
          /\ MesgsOf(swork') = [MesgsOf(swork) EXCEPT ![w] = MesgOf(st)]
          /\ MesgOf(st).q = q /\ MesgOf(st).batch = <<Head(s)>>
      <3>1. swork'[w] = st /\ \A v \in Threads \ {w} : swork'[v] = swork[v]
        BY <1>1, <2>1 DEF SworkTypes
      <3> QED
        BY <1>1, <2>3, <3>1, MesgFacts DEF MesgsOf
    <2>7. \E f : Renames(f, I, I2, DOMAIN I)
      <3>1. q \in DOMAIN rq
        BY <1>1, <1>2 DEF SworkTypes
      <3>2. rq' = [rq EXCEPT ![q] = SubSeq(@, 1 + 1, Len(@))]
        BY <2>1, <2>2
      <3>3. TakenBy(w, 1, q, MesgOf(st), rq, MesgsOf(swork), rq', MesgsOf(swork'), SdtpStock)
        BY <1>2, <2>2, <2>6, <3>1, <3>2 DEF TakenBy
      <3> HIDE DEF q
      <3> QED
        BY <2>5, <3>3, ItemsTaken
    <2>8. Stored(I2, spare, Len(came), Gone(done), Recvqs, SdtpBlocks)
      <3>1. Stored(I, spare, Len(came), Gone(done), Recvqs, SdtpBlocks)
        BY DEF SworkInv, I
      <3> QED
        BY <2>7, <3>1, Moved
    <2>9. JobsInv' /\ added' = added
      BY DEF SworkInv, JobsInv, JobTypes, JobsOnce, Running, jobVars
    <2> QED
      BY <1>1, <2>4, <2>8, <2>9 DEF SworkInv, I2
  <1> QED
    BY <1>3, <1>4

LEMMA WorkerProcReqKeeps ==
    ASSUME SworkInv, NEW w \in Threads, WorkerProcReq(w), UNCHANGED jobVars
    PROVE  SworkInv'
  <1> DEFINE q == swork[w].q
             m == swork[w].mesg
             st == [do |-> "pop", q |-> q]
             I == SworkItemsOf(ssvr, rq, swork)
             I2 == SworkItemsOf(ssvr, rq, swork')
             H == MesgsOf(swork)
             first == BatchAt(w, 1)
  <1>1. /\ SworkTypes /\ swork[w].do = "proc" /\ UNCHANGED <<reg, came, rq, ssvr>>
        /\ done' = done \cup {<<m.no, reg[came[m.no]]>>}
        /\ spare' = [spare EXCEPT ![q] = @ \cup {m.b}]
        /\ swork' = [swork EXCEPT ![w] = st]
    BY DEF SworkInv, WorkerProcReq
  <1>2. q \in Recvqs /\ m \in SdtpStock /\ m.b \in SdtpBlocks
    BY <1>1, SworkKnows DEF SdtpStock
  <1>3. st \in SworkStates /\ st.do = "pop"
    BY <1>2 DEF SworkStates
  <1> HIDE DEF st
  <1>4. SworkTypes'
    <2>1. swork' \in [Threads -> SworkStates]
      BY <1>1, <1>3 DEF SworkTypes
    <2>2. spare' \in [Recvqs -> SUBSET SdtpBlocks]
      BY <1>1, <1>2 DEF SworkTypes
    <2> QED
      BY <1>1, <2>1, <2>2 DEF SworkTypes
  <1> HIDE DEF I, I2, H
  <1>5. AreItems(I, ssvr, rq, H) /\ AreItems(I2, ssvr, rq, MesgsOf(swork'))
    BY <1>1, <1>4, SworkItemsAre DEF SworkTypes, SworkPlaced, I, I2, H
  <1>6. /\ w \in DOMAIN H /\ H[w].batch = <<m>> /\ H[w].q = q
        /\ MesgsOf(swork') = [H EXCEPT ![w] = MesgOf(st)]
        /\ MesgOf(st).batch = <<>>
    <2>1. swork'[w] = st /\ \A v \in Threads \ {w} : swork'[v] = swork[v]
      BY <1>1 DEF SworkTypes
    <2>2. w \in DOMAIN H /\ H[w] = MesgOf(swork[w]) /\ MesgOf(st).batch = <<>>
      BY <1>3, MesgFacts DEF H
    <2>3. MesgOf(swork[w]).q = q /\ MesgOf(swork[w]).batch = <<m>>
      BY <1>1, MesgFacts
    <2>4. MesgsOf(swork') = [H EXCEPT ![w] = MesgOf(st)]
      BY <2>1 DEF MesgsOf, H
    <2> QED
      BY <2>2, <2>3, <2>4
  <1> HIDE DEF q, m, first
  <1>7. /\ first \in DOMAIN I /\ I[first].q = q /\ I[first].b = m.b /\ I[first].no = m.no
        /\ \E f : Renames(f, I, I2, DOMAIN I \ {first})
    <2>1. <<m>> \in Seq(SdtpStock) /\ <<m>> # <<>> /\ Tail(<<m>>) = <<>> /\ <<m>>[1] = m
      BY <1>2
    <2>2. GivenBack(w, MesgOf(st), H, MesgsOf(swork'), SdtpStock)
      BY <1>6, <2>1 DEF GivenBack
    <2>3. GaveBack(first, H[w], I, I2)
      BY <1>5, <2>2, ItemGiven DEF first
    <2> QED
      BY <1>6, <2>1, <2>3 DEF GaveBack
  <1>8. Stored(I, spare, Len(came), Gone(done), Recvqs, SdtpBlocks)
    BY DEF SworkInv, I
  <1>9. Stored(I2, spare', Len(came), Gone(done) \cup {m.no}, Recvqs, SdtpBlocks)
    <2>1. spare \in [Recvqs -> SUBSET SdtpBlocks]
          /\ spare' = [spare EXCEPT ![I[first].q] = @ \cup {I[first].b}]
      BY <1>1, <1>7 DEF SworkTypes
    <2>2. Stored(I2, spare', Len(came), Gone(done) \cup {I[first].no}, Recvqs, SdtpBlocks)
      BY <1>7, <1>8, <2>1, Handled
    <2> QED
      BY <1>7, <2>2
  <1>10. Gone(done') = Gone(done) \cup {m.no}
    BY <1>1, GoneGrows
  <1>11. m.no \in 1..Len(came)
    BY <1>7, <1>8 DEF Stored
  <1>12. \A h \in done' : h[2] = reg[came[h[1]]]
    <2>1. <<m.no, reg[came[m.no]]>>[1] = m.no /\ <<m.no, reg[came[m.no]]>>[2] = reg[came[m.no]]
      OBVIOUS
    <2> QED
      BY <1>1, <2>1 DEF SworkInv
  <1>13. JobsInv' /\ added' = added
    BY DEF SworkInv, JobsInv, JobTypes, JobsOnce, Running, jobVars
  <1> QED
    BY <1>1, <1>4, <1>9, <1>10, <1>11, <1>12, <1>13 DEF SworkInv, I2

LEMMA SworkStepKeeps ==
    ASSUME SworkInv, SdtpWorkNext \/ UNCHANGED <<jobVars, sworkVars>>
    PROVE  SworkInv'
  <1>1. CASE (PoolStep \/ SdsdCreatWorktp \/ Signal(SdtpStarter)) /\ UNCHANGED sworkVars
    <2>1. JobsInv' /\ (added' = 0 => added = 0)
      <3>0. added \in Nat
        BY DEF SworkInv, JobsInv, JobTypes
      <3>1. CASE PoolStep
        BY <3>1, PoolStepKeeps DEF SworkInv, PoolStep, Look, SpuriousWakeup
      <3>2. CASE SdsdCreatWorktp
        BY <3>0, <3>2, AddWorkerKeeps DEF SworkInv, SdsdCreatWorktp, AddWorker
      <3>3. CASE Signal(SdtpStarter)
        BY <3>3, SignalKeeps DEF SworkInv, Signal
      <3> QED
        BY <1>1, <3>1, <3>2, <3>3
    <2> QED
      BY <1>1, <2>1 DEF SworkInv, SworkTypes, sworkVars
  <1>2. CASE (\E ty \in SdtpTypes, cb \in Callbacks : SdsdRegister(ty, cb)) /\ UNCHANGED jobVars
    BY <1>2, SdsdRegisterKeeps
  <1>3. CASE (\E w \in Threads : SworkStep(w)) /\ UNCHANGED jobVars
    <2>1. PICK w \in Threads : SworkStep(w)
      BY <1>3
    <2>2. CASE WorkerGetCurr(w) \/ WorkerTimeout(w)
      <3>1. 0 \in 0..ThreadNum
        BY PoolAssumption
      <3> QED
        BY <1>3, <2>2, <3>1, ToQueueKeeps DEF WorkerGetCurr, WorkerTimeout
    <2> QED
      BY <1>3, <2>1, <2>2, WorkerPopKeeps, WorkerProcReqKeeps DEF SworkStep
  <1>4. CASE /\ SdsdLaunched /\ UNCHANGED jobVars
             /\ \E s \in Ssvrs : \/ ExpMesgPush(s)
                                 \/ \E ty \in SdtpTypes, q \in Recvqs : ExpMesgProc(s, ty, q)
    BY <1>4, ExpMesgPushKeeps, ExpMesgProcKeeps
  <1>5. CASE UNCHANGED <<jobVars, sworkVars>>
    BY <1>5 DEF SworkInv, SworkTypes, JobsInv, JobTypes, JobsOnce, Running, jobVars, sworkVars
  <1> QED
    BY <1>1, <1>2, <1>3, <1>4, <1>5 DEF SdtpWorkNext

LEMMA SworkGives == ASSUME SworkInv PROVE SdtpWorkExact
  <1> DEFINE I == SworkItemsOf(ssvr, rq, swork)
             H == MesgsOf(swork)
  <1>1. /\ AreItems(I, ssvr, rq, H)
        /\ \A p \in DOMAIN rq : DOMAIN rq[p] \subseteq Nat
        /\ \A w \in DOMAIN H : DOMAIN H[w].batch \subseteq Nat
        /\ DOMAIN ssvr = Ssvrs /\ DOMAIN rq = Recvqs /\ DOMAIN H = Threads
        /\ Stored(I, spare, Len(came), Gone(done), DOMAIN rq, SdtpBlocks)
    BY SworkItemsAre, MesgFacts DEF SworkInv, SworkTypes, SworkPlaced
  <1>2. \A w \in Threads :
           /\ swork[w].do = "proc" => H[w].q = swork[w].q /\ H[w].batch = <<swork[w].mesg>>
           /\ swork[w].do # "proc" => H[w].batch = <<>>
    BY MesgFacts
  <1> HIDE DEF I, H
  <1>3. \A w \in Threads : \A i : i \in DOMAIN H[w].batch <=> swork[w].do = "proc" /\ i = 1
    <2> SUFFICES ASSUME NEW w \in Threads, NEW i
                 PROVE  i \in DOMAIN H[w].batch <=> swork[w].do = "proc" /\ i = 1
      OBVIOUS
    <2>1. DOMAIN <<swork[w].mesg>> = {1} /\ DOMAIN <<>> = {}
      OBVIOUS
    <2> QED
      BY <1>2, <2>1
  <1>4. ASSUME NEW q \in Recvqs, NEW b \in SdtpBlocks
        PROVE  SdtpUses(q, b) = IF b \in spare[q] THEN 0 ELSE 1
    <2> DEFINE Pushes(s) == ssvr[s].do = "push" /\ ssvr[s].q = q /\ ssvr[s].b = b
               Queued(i) == rq[q][i].b = b
               Has(w, i) == H[w].q = q /\ H[w].batch[i].b = b
               A == {s \in Ssvrs : Pushes(s)}
               B == {i \in DOMAIN rq[q] : Queued(i)}
               C == {w \in Threads : swork[w].do = "proc" /\ swork[w].q = q /\ swork[w].mesg.b = b}
               NonePushes == \A s \in Ssvrs : ~Pushes(s)
               NoneQueued == \A i \in DOMAIN rq[q] : ~Queued(i)
               NoneHas == \A w \in Threads : \A i \in DOMAIN H[w].batch : ~Has(w, i)
    <2>1. SdtpUses(q, b) = Cardinality(A) + Cardinality(B) + Cardinality(C)
      BY DEF SdtpUses
    <2>2. IF b \in spare[q] THEN NonePushes /\ NoneQueued /\ NoneHas
          ELSE \/ /\ \E s \in Ssvrs : \A t \in Ssvrs : Pushes(t) <=> t = s
                  /\ NoneQueued /\ NoneHas
               \/ /\ \E i \in DOMAIN rq[q] : \A j \in DOMAIN rq[q] : Queued(j) <=> j = i
                  /\ NonePushes /\ NoneHas
               \/ /\ \E w \in Threads : \E i \in DOMAIN H[w].batch :
                        \A v \in Threads : \A j \in DOMAIN H[v].batch : Has(v, j) <=> v = w /\ j = i
                  /\ NonePushes /\ NoneQueued
      BY <1>1, UsedOnce
    <2>3. \A w \in Threads : w \in C <=> 1 \in DOMAIN H[w].batch /\ Has(w, 1)
      <3> SUFFICES ASSUME NEW w \in Threads
                   PROVE  w \in C <=> 1 \in DOMAIN H[w].batch /\ Has(w, 1)
        OBVIOUS
      <3>1. CASE swork[w].do = "proc"
        <4>1. H[w].batch[1] = swork[w].mesg /\ H[w].q = swork[w].q
          BY <1>2, <3>1
        <4> QED
          BY <1>3, <3>1, <4>1
      <3>2. CASE swork[w].do # "proc"
        BY <1>3, <3>2
      <3> QED
        BY <3>1, <3>2
    <2>4. C \subseteq Threads
      OBVIOUS
    <2>5. /\ NonePushes => A = {}
          /\ NoneQueued => B = {}
      OBVIOUS
    <2> HIDE DEF C, Has
    <2>6. NoneHas => C = {}
      BY <2>3, <2>4
    <2>7. (\E s \in Ssvrs : \A t \in Ssvrs : Pushes(t) <=> t = s) => \E x : A = {x}
      <3> SUFFICES ASSUME NEW s \in Ssvrs, \A t \in Ssvrs : Pushes(t) <=> t = s PROVE \E x : A = {x}
        OBVIOUS
      <3>1. A = {s}
        OBVIOUS
      <3> QED
        BY <3>1
    <2>8. (\E i \in DOMAIN rq[q] : \A j \in DOMAIN rq[q] : Queued(j) <=> j = i) => \E x : B = {x}
      <3> SUFFICES ASSUME NEW i \in DOMAIN rq[q], \A j \in DOMAIN rq[q] : Queued(j) <=> j = i
                   PROVE  \E x : B = {x}
        OBVIOUS
      <3>1. B = {i}
        OBVIOUS
      <3> QED
        BY <3>1
    <2>9. (\E w \in Threads : \E i \in DOMAIN H[w].batch :
              \A v \in Threads : \A j \in DOMAIN H[v].batch : Has(v, j) <=> v = w /\ j = i)
          => \E x : C = {x}
      <3> SUFFICES ASSUME NEW w \in Threads, NEW i \in DOMAIN H[w].batch,
                          \A v \in Threads : \A j \in DOMAIN H[v].batch : Has(v, j) <=> v = w /\ j = i
                   PROVE  \E x : C = {x}
        OBVIOUS
      <3>1. i = 1
        BY <1>3
      <3>2. C = {w}
        BY <2>3, <2>4, <3>1
      <3> QED
        BY <3>2
    <2> HIDE DEF A, B, NonePushes, NoneQueued, NoneHas, Pushes, Queued
    <2>10. Cardinality({}) = 0 /\ \A x : Cardinality({x}) = 1
      BY FS_EmptySet, FS_Singleton
    <2>11. CASE b \in spare[q]
      BY <2>1, <2>2, <2>5, <2>6, <2>10, <2>11
    <2>12. CASE b \notin spare[q]
      <3>1. \/ A = {} /\ B = {} /\ \E x : C = {x}
            \/ A = {} /\ C = {} /\ \E x : B = {x}
            \/ B = {} /\ C = {} /\ \E x : A = {x}
        <4>1. CASE NonePushes /\ NoneQueued
          BY <2>2, <2>5, <2>7, <2>8, <2>9, <2>12, <4>1 DEF NonePushes, NoneQueued
        <4>2. CASE NonePushes /\ NoneHas
          BY <2>2, <2>5, <2>6, <2>8, <2>12, <4>2 DEF NonePushes, NoneHas
        <4>3. CASE NoneQueued /\ NoneHas
          BY <2>2, <2>5, <2>6, <2>7, <2>12, <4>3 DEF NoneQueued, NoneHas
        <4> QED
          BY <2>2, <2>12, <4>1, <4>2, <4>3
      <3>2. \/ Cardinality(A) = 0 /\ Cardinality(B) = 0 /\ Cardinality(C) = 1
            \/ Cardinality(A) = 0 /\ Cardinality(B) = 1 /\ Cardinality(C) = 0
            \/ Cardinality(A) = 1 /\ Cardinality(B) = 0 /\ Cardinality(C) = 0
        BY <2>10, <3>1, Zenon
      <3>3. Cardinality(A) + Cardinality(B) + Cardinality(C) = 1
        BY <3>2
      <3> QED
        BY <2>1, <2>12, <3>3
    <2> QED
      BY <2>11, <2>12
  <1>5. ASSUME NEW q \in Recvqs, NEW h \in done, NEW i \in DOMAIN rq[q]
        PROVE  rq[q][i].no # h[1]
    <2>1. i \in Nat /\ q \in DOMAIN rq
      BY <1>1
    <2>2. QueueAt(q, i) \in DOMAIN I /\ I[QueueAt(q, i)].no = rq[q][i].no
      BY <1>1, <2>1 DEF AreItems, AtQueue
    <2> QED
      BY <1>1, <2>2 DEF Stored, Gone
  <1>6. ASSUME NEW h \in done, NEW w \in Threads, swork[w].do = "proc"
        PROVE  swork[w].mesg.no # h[1]
    <2>1. 1 \in Nat /\ w \in DOMAIN H /\ 1 \in DOMAIN H[w].batch /\ H[w].batch[1] = swork[w].mesg
      BY <1>1, <1>2, <1>3, <1>6
    <2>2. BatchAt(w, 1) \in DOMAIN I /\ I[BatchAt(w, 1)].no = H[w].batch[1].no
      BY <1>1, <2>1 DEF AreItems, AtBatch
    <2> QED
      BY <1>1, <2>1, <2>2 DEF Stored, Gone
  <1>7. \A h \in done : h[2] = reg[came[h[1]]]
    BY DEF SworkInv
  <1> QED
    BY <1>4, <1>5, <1>6, <1>7 DEF SdtpWorkExact, SdtpBlocks

\* Although every worker of the sdtp sender goes over every queue, every block is in its
\* pool or used in one place, and a message is handled once, by the callback registered
\* for its type (sdsd_worker.c, sdsd_ssvr.c).  The part of QueuesExact about sdtp.
THEOREM SdtpWorkersExact == Spec => [](unit = "sdtp_work" => SdtpWorkExact)
  <1>1. Init => (unit = "sdtp_work" => SworkInv)
    BY SworkInitially DEF Init
  <1>2. (unit = "sdtp_work" => SworkInv) /\ [Next]_vars => (unit = "sdtp_work" => SworkInv)'
    BY WorkersApart, SworkStepKeeps
  <1>3. (unit = "sdtp_work" => SworkInv) => (unit = "sdtp_work" => SdtpWorkExact)
    BY SworkGives
  <1> QED
    BY <1>1, <1>2, <1>3, PTL DEF Spec

-----------------------------------------------------------------------------
(* The log. *)

\* Each of n lines is in the buffer b, in one of the files fs, or in d.
Ascending(s) == \A i, j \in DOMAIN s : i < j => s[i] < s[j]

LinesIn(b, fs, d, n) ==
    /\ \A i \in DOMAIN b : b[i] \in (1..n) \ d
    /\ \A f \in DOMAIN fs : \A j \in DOMAIN fs[f] : fs[f][j] \in (1..n) \ d

InOrder(b, fs) ==
    /\ Ascending(b)
    /\ \A f \in DOMAIN fs : Ascending(fs[f])
    /\ \A f \in DOMAIN fs : \A j \in DOMAIN fs[f] : \A i \in DOMAIN b : fs[f][j] < b[i]

InOneFile(fs) ==
    \A f, g \in DOMAIN fs : \A j \in DOMAIN fs[f], k \in DOMAIN fs[g] :
        fs[f][j] = fs[g][k] => f = g

Somewhere(b, fs, d, n) ==
    \A l \in 1..n : \/ l \in d
                    \/ \E i \in DOMAIN b : b[i] = l
                    \/ \E f \in DOMAIN fs : \E j \in DOMAIN fs[f] : fs[f][j] = l

Lines(b, fs, d, n) ==
    LinesIn(b, fs, d, n) /\ InOrder(b, fs) /\ InOneFile(fs) /\ Somewhere(b, fs, d, n) /\ d \subseteq 1..n

LEMMA LineLogged ==
    ASSUME NEW b \in Seq(Nat), NEW fs \in Seq(Seq(Nat)), NEW d, NEW n \in Nat, Lines(b, fs, d, n)
    PROVE  Lines(Append(b, n + 1), fs, d, n + 1)
  <1> DEFINE a == Append(b, n + 1)
  <1>1. /\ DOMAIN b = 1..Len(b) /\ DOMAIN a = 1..Len(b) + 1 /\ Len(b) \in Nat
        /\ \A i \in 1..Len(b) : a[i] = b[i]
        /\ a[Len(b) + 1] = n + 1
    <2>1. a \in Seq(Nat) /\ Len(a) = Len(b) + 1 /\ Len(b) \in Nat
      BY Longer, SeqFacts
    <2> QED
      BY <2>1, Longer, SeqFacts
  <1> HIDE DEF a
  <1>2. \A i \in DOMAIN b : b[i] \in 1..n /\ b[i] \notin d /\ b[i] \in Nat
    BY DEF Lines, LinesIn
  <1>a. \A f \in DOMAIN fs : \A j \in DOMAIN fs[f] : fs[f][j] \in 1..n /\ fs[f][j] \notin d /\ fs[f][j] \in Nat
    BY DEF Lines, LinesIn
  <1>b. n + 1 \notin d /\ n + 1 \in Nat /\ \A l \in 1..n : l \in 1..(n + 1) /\ l < n + 1
    BY DEF Lines
  <1>c. \A i \in DOMAIN a : (i \in DOMAIN b /\ a[i] = b[i]) \/ (i = Len(b) + 1 /\ a[i] = n + 1)
    <2> SUFFICES ASSUME NEW i \in DOMAIN a
                 PROVE  (i \in DOMAIN b /\ a[i] = b[i]) \/ (i = Len(b) + 1 /\ a[i] = n + 1)
      OBVIOUS
    <2>1. i \in 1..Len(b) \/ i = Len(b) + 1
      <3> DEFINE L == Len(b)
      <3>1. L \in Nat /\ i \in 1..L + 1
        BY <1>1
      <3> HIDE DEF L
      <3>2. i \in 1..L \/ i = L + 1
        BY <3>1
      <3> QED
        BY <3>2 DEF L
    <2> QED
      BY <1>1, <2>1
  <1>d. n + 1 \in 1..(n + 1) /\ \A l \in 1..(n + 1) : l = n + 1 \/ l \in 1..n
    OBVIOUS
  <1>e. \A i \in DOMAIN b : i \in DOMAIN a /\ a[i] = b[i]
    BY <1>1
  <1>3. LinesIn(a, fs, d, n + 1)
    BY <1>2, <1>a, <1>b, <1>c, <1>d DEF LinesIn
  <1>4. Ascending(a)
    <2> SUFFICES ASSUME NEW i \in DOMAIN a, NEW j \in DOMAIN a, i < j PROVE a[i] < a[j]
      BY DEF Ascending
    <2>1. i \in DOMAIN b /\ a[i] = b[i]
      BY <1>1
    <2>2. CASE j \in DOMAIN b
      BY <1>c, <1>e, <2>1, <2>2 DEF Lines, InOrder, Ascending
    <2>3. CASE a[j] = n + 1
      BY <1>2, <1>b, <2>1, <2>3
    <2> QED
      BY <1>c, <2>2, <2>3
  <1>5. \A f \in DOMAIN fs : \A j \in DOMAIN fs[f] : \A i \in DOMAIN a : fs[f][j] < a[i]
    <2> SUFFICES ASSUME NEW f \in DOMAIN fs, NEW j \in DOMAIN fs[f], NEW i \in DOMAIN a
                 PROVE  fs[f][j] < a[i]
      OBVIOUS
    <2> QED
      BY <1>a, <1>b, <1>c DEF Lines, InOrder
  <1>6. Somewhere(a, fs, d, n + 1)
    <2> SUFFICES ASSUME NEW l \in 1..(n + 1)
                 PROVE  \/ l \in d
                        \/ \E i \in DOMAIN a : a[i] = l
                        \/ \E f \in DOMAIN fs : \E j \in DOMAIN fs[f] : fs[f][j] = l
      BY DEF Somewhere
    <2>1. CASE l = n + 1
      BY <1>1, <2>1
    <2>2. CASE l \in 1..n
      <3>1. (\E i \in DOMAIN b : b[i] = l) => \E i \in DOMAIN a : a[i] = l
        BY <1>e
      <3> QED
        BY <2>2, <3>1 DEF Lines, Somewhere
    <2> QED
      BY <1>d, <2>1, <2>2
  <1>7. d \subseteq 1..(n + 1)
    BY <1>b DEF Lines
  <1>8. Lines(a, fs, d, n + 1)
    BY <1>3, <1>4, <1>5, <1>6, <1>7 DEF Lines, InOrder
  <1> QED
    BY <1>8 DEF a

LEMMA FileMade ==
    ASSUME NEW b, NEW fs \in Seq(Seq(Nat)), NEW d, NEW n \in Nat, Lines(b, fs, d, n)
    PROVE  /\ Append(fs, <<>>) \in Seq(Seq(Nat)) /\ Len(Append(fs, <<>>)) = Len(fs) + 1
           /\ DOMAIN Append(fs, <<>>) = DOMAIN fs \cup {Len(fs) + 1}
           /\ Len(fs) + 1 \notin DOMAIN fs
           /\ Lines(b, Append(fs, <<>>), d, n)
  <1> DEFINE a == Append(fs, <<>>)
  <1>1. /\ a \in Seq(Seq(Nat)) /\ Len(a) = Len(fs) + 1 /\ DOMAIN a = DOMAIN fs \cup {Len(fs) + 1}
        /\ \A f \in DOMAIN fs : a[f] = fs[f]
        /\ a[Len(fs) + 1] = <<>> /\ Len(fs) + 1 \notin DOMAIN fs
    <2>0. <<>> \in Seq(Nat) /\ Len(fs) \in Nat /\ DOMAIN fs = 1..Len(fs)
      BY SeqFacts
    <2>1. a \in Seq(Seq(Nat)) /\ Len(a) = Len(fs) + 1 /\ a[Len(fs) + 1] = <<>>
          /\ \A f \in 1..Len(fs) : a[f] = fs[f]
      BY <2>0, Longer
    <2>2. DOMAIN a = 1..Len(a)
      BY <2>1, SeqFacts
    <2> QED
      BY <2>0, <2>1, <2>2
  <1> HIDE DEF a
  <1>2. \A f \in DOMAIN a : \A j \in DOMAIN a[f] : f \in DOMAIN fs /\ a[f] = fs[f]
    BY <1>1
  <1>3. LinesIn(b, a, d, n)
    BY <1>2 DEF Lines, LinesIn
  <1>4. InOrder(b, a)
    BY <1>1, <1>2 DEF Lines, InOrder, Ascending
  <1>5. InOneFile(a)
    BY <1>2 DEF Lines, InOneFile
  <1>6. Somewhere(b, a, d, n)
    <2>1. \A f \in DOMAIN fs : f \in DOMAIN a /\ a[f] = fs[f]
      BY <1>1
    <2>2. \A l : (\E f \in DOMAIN fs : \E j \in DOMAIN fs[f] : fs[f][j] = l)
                   => \E f \in DOMAIN a : \E j \in DOMAIN a[f] : a[f][j] = l
      BY <2>1
    <2> HIDE DEF a
    <2> QED
      BY <2>2 DEF Lines, Somewhere
  <1> QED
    BY <1>1, <1>3, <1>4, <1>5, <1>6 DEF Lines, a

LEMMA LinesDropped ==
    ASSUME NEW b, NEW fs, NEW d, NEW n \in Nat, Lines(b, fs, d, n)
    PROVE  Lines(<<>>, fs, d \cup {b[i] : i \in DOMAIN b}, n)
  <1> DEFINE r == {b[i] : i \in DOMAIN b}
  <1>1. \A l : l \in r <=> \E i \in DOMAIN b : b[i] = l
    OBVIOUS
  <1> HIDE DEF r
  <1>2. DOMAIN <<>> = {}
    OBVIOUS
  <1>3. \A f \in DOMAIN fs : \A j \in DOMAIN fs[f] : fs[f][j] \notin r
    <2> SUFFICES ASSUME NEW f \in DOMAIN fs, NEW j \in DOMAIN fs[f], NEW i \in DOMAIN b, fs[f][j] = b[i]
                 PROVE  FALSE
      BY <1>1
    <2>1. b[i] \in Nat /\ fs[f][j] < b[i]
      BY DEF Lines, LinesIn, InOrder
    <2> QED
      BY <2>1
  <1>4. LinesIn(<<>>, fs, d \cup r, n)
    BY <1>2, <1>3 DEF Lines, LinesIn
  <1>5. InOrder(<<>>, fs)
    BY <1>2 DEF Lines, InOrder, Ascending
  <1>6. Somewhere(<<>>, fs, d \cup r, n)
    BY <1>1 DEF Lines, Somewhere
  <1>7. d \cup r \subseteq 1..n
    BY <1>1 DEF Lines, LinesIn
  <1> QED
    BY <1>4, <1>5, <1>6, <1>7 DEF Lines, r

\* The first k lines stay to be written, the others are dropped.
LEMMA LinesCut ==
    ASSUME NEW b \in Seq(Nat), NEW fs \in Seq(Seq(Nat)), NEW d, NEW n \in Nat, Lines(b, fs, d, n),
           NEW k \in 0 .. Len(b)
    PROVE  /\ SubSeq(b, 1, k) \in Seq(Nat)
           /\ Lines(SubSeq(b, 1, k), fs, d \cup {b[i] : i \in k + 1 .. Len(b)}, n)
  <1> DEFINE s == SubSeq(b, 1, k)
             r == {b[i] : i \in k + 1 .. Len(b)}
  <1>1. Len(b) \in Nat /\ k \in Nat /\ k <= Len(b) /\ DOMAIN b = 1..Len(b)
    BY SeqFacts
  <1>2. s \in Seq(Nat) /\ DOMAIN s = 1..k /\ \A i \in 1..k : s[i] = b[i]
    <2>1. \A i \in 1..k : b[i] \in Nat
      BY <1>1
    <2>2. s = [i \in 1..k |-> b[i]]
      BY <1>1
    <2> QED
      BY <1>1, <2>1, <2>2
  <1>3. \A l : l \in r <=> \E i \in k + 1 .. Len(b) : b[i] = l
    OBVIOUS
  <1> HIDE DEF s, r
  <1>4. \A i \in DOMAIN b : b[i] \in Nat
    BY <1>1
  <1>5. \A i \in DOMAIN s : i \in DOMAIN b /\ s[i] = b[i] /\ i \in Nat /\ i <= k
    BY <1>1, <1>2
  <1>6. ASSUME NEW l \in r PROVE \E i \in DOMAIN b : b[i] = l /\ i \in Nat /\ k < i
    <2>1. PICK i \in k + 1 .. Len(b) : b[i] = l
      BY <1>3
    <2>2. i \in DOMAIN b /\ i \in Nat /\ k < i
      BY <1>1
    <2> QED
      BY <2>1, <2>2
  <1>7. LinesIn(s, fs, d \cup r, n)
    <2>1. ASSUME NEW i \in DOMAIN s PROVE s[i] \in (1..n) \ (d \cup r)
      <3>1. s[i] = b[i] /\ i \in DOMAIN b /\ i \in Nat /\ i <= k /\ b[i] \in (1..n) \ d
        BY <1>5 DEF Lines, LinesIn
      <3>2. s[i] \notin r
        <4> SUFFICES ASSUME s[i] \in r PROVE FALSE
          OBVIOUS
        <4>1. PICK j \in DOMAIN b : b[j] = s[i] /\ j \in Nat /\ k < j
          BY <1>6
        <4>2. i < j
          BY <1>1, <3>1, <4>1
        <4>3. b[i] < b[j]
          BY <3>1, <4>2 DEF Lines, InOrder, Ascending
        <4> QED
          BY <1>4, <3>1, <4>1, <4>3
      <3> QED
        BY <3>1, <3>2
    <2>2. ASSUME NEW f \in DOMAIN fs, NEW j \in DOMAIN fs[f] PROVE fs[f][j] \in (1..n) \ (d \cup r)
      <3>1. fs[f][j] \in (1..n) \ d /\ \A i \in DOMAIN b : fs[f][j] < b[i]
        BY DEF Lines, LinesIn, InOrder
      <3>2. fs[f][j] \notin r
        BY <1>4, <1>6, <3>1
      <3> QED
        BY <3>1, <3>2
    <2> QED
      BY <2>1, <2>2 DEF LinesIn
  <1>8. InOrder(s, fs)
    <2>1. Ascending(s)
      BY <1>5 DEF Lines, InOrder, Ascending
    <2>2. \A f \in DOMAIN fs : \A j \in DOMAIN fs[f] : \A i \in DOMAIN s : fs[f][j] < s[i]
      BY <1>5 DEF Lines, InOrder
    <2> QED
      BY <2>1, <2>2 DEF Lines, InOrder
  <1>9. Somewhere(s, fs, d \cup r, n)
    <2> SUFFICES ASSUME NEW l \in 1..n, NEW i \in DOMAIN b, b[i] = l
                 PROVE  l \in r \/ \E j \in DOMAIN s : s[j] = l
      BY DEF Lines, Somewhere
    <2>1. CASE i \in 1..k
      BY <1>2, <2>1
    <2>2. CASE i \in k + 1 .. Len(b)
      BY <1>3, <2>2
    <2> QED
      BY <1>1, <2>1, <2>2
  <1>10. d \cup r \subseteq 1..n
    BY <1>6 DEF Lines, LinesIn
  <1> QED
    BY <1>2, <1>7, <1>8, <1>9, <1>10 DEF Lines, s, r

LEMMA LinesWritten ==
    ASSUME NEW b \in Seq(Nat), NEW fs \in Seq(Seq(Nat)), NEW d, NEW n \in Nat, Lines(b, fs, d, n),
           NEW f \in DOMAIN fs
    PROVE  LET new == [fs EXCEPT ![f] = @ \o b]
           IN  new \in Seq(Seq(Nat)) /\ DOMAIN new = DOMAIN fs /\ Lines(<<>>, new, d, n)
  <1> DEFINE new == [fs EXCEPT ![f] = @ \o b]
             had == fs[f]
             both == had \o b
  <1>1. had \in Seq(Nat) /\ DOMAIN fs = 1..Len(fs) /\ Len(fs) \in Nat
    BY SeqFacts
  <1>2. /\ both \in Seq(Nat)
        /\ \A i \in 1..Len(had) : both[i] = had[i]
        /\ \A i \in 1..Len(b) : both[Len(had) + i] = b[i]
        /\ DOMAIN both = 1..(Len(had) + Len(b)) /\ DOMAIN had = 1..Len(had) /\ DOMAIN b = 1..Len(b)
        /\ Len(had) \in Nat /\ Len(b) \in Nat
    <2> HIDE DEF had
    <2>1. /\ both \in Seq(Nat) /\ Len(both) = Len(had) + Len(b)
          /\ \A i \in 1..Len(had) : both[i] = had[i]
          /\ \A i \in 1..Len(b) : both[Len(had) + i] = b[i]
      BY <1>1, Join
    <2>2. /\ DOMAIN both = 1..Len(both) /\ DOMAIN had = 1..Len(had) /\ DOMAIN b = 1..Len(b)
          /\ Len(had) \in Nat /\ Len(b) \in Nat
      <3> HIDE DEF both
      <3> QED
        BY <1>1, <2>1, SeqFacts
    <2> QED
      BY <2>1, <2>2
  <1>3. /\ new \in Seq(Seq(Nat)) /\ DOMAIN new = DOMAIN fs /\ new[f] = both
        /\ \A g \in DOMAIN fs \ {f} : new[g] = fs[g]
    <2> HIDE DEF both
    <2>1. new = [fs EXCEPT ![f] = both]
      BY DEF both
    <2> HIDE DEF new
    <2> QED
      BY <1>1, <1>2, <2>1
  <1> HIDE DEF new, both
  <1>4. ASSUME NEW j \in DOMAIN both
        PROVE  \/ j \in DOMAIN had /\ both[j] = had[j]
               \/ \E i \in DOMAIN b : j = Len(had) + i /\ both[j] = b[i]
    <2>1. CASE j \in 1..Len(had)
      BY <1>2, <2>1
    <2>2. CASE j - Len(had) \in 1..Len(b)
      <3>1. j = Len(had) + (j - Len(had))
        BY <1>2
      <3> QED
        BY <1>2, <2>2, <3>1
    <2> QED
      BY SMTT(40), <1>2, <2>1, <2>2
  <1>5. \A j \in DOMAIN had : j \in DOMAIN both /\ both[j] = had[j]
    BY <1>2
  <1>6. \A i \in DOMAIN b : Len(had) + i \in DOMAIN both /\ both[Len(had) + i] = b[i]
    <2> SUFFICES ASSUME NEW i \in DOMAIN b
                 PROVE  Len(had) + i \in DOMAIN both /\ both[Len(had) + i] = b[i]
      OBVIOUS
    <2> HIDE DEF had
    <2> DEFINE K == Len(had)
               L == Len(b)
    <2>1. K \in Nat /\ L \in Nat /\ i \in 1..L /\ DOMAIN both = 1..(K + L)
      BY <1>2
    <2> HIDE DEF K, L
    <2>2. K + i \in 1..(K + L)
      <3>1. K \in Nat /\ L \in Nat /\ i \in Nat /\ 1 <= i /\ i <= L
        BY <2>1
      <3>2. 1 <= K + i /\ K + i <= K + L /\ K + i \in Nat
        BY <3>1
      <3> QED
        BY <3>1, <3>2
    <2> QED
      BY <1>2, <2>1, <2>2 DEF K
  <1>7. \A j \in DOMAIN had : had[j] \in (1..n) \ d
    BY DEF Lines, LinesIn
  <1>8. \A i \in DOMAIN b : b[i] \in (1..n) \ d
    BY DEF Lines, LinesIn
  <1>9. \A j \in DOMAIN had : \A i \in DOMAIN b : had[j] < b[i]
    BY DEF Lines, InOrder
  <1>10. Ascending(had) /\ Ascending(b)
    BY DEF Lines, InOrder
  <1>11. DOMAIN <<>> = {}
    OBVIOUS
  <1>12. LinesIn(<<>>, new, d, n)
    <2>1. \A j \in DOMAIN both : both[j] \in (1..n) \ d
      BY <1>4, <1>7, <1>8
    <2> QED
      BY <1>3, <1>11, <2>1 DEF Lines, LinesIn
  <1> HIDE DEF had
  <1>13. Ascending(both)
    <2> SUFFICES ASSUME NEW i \in DOMAIN both, NEW j \in DOMAIN both, i < j PROVE both[i] < both[j]
      BY DEF Ascending
    <2>0. i \in Nat /\ j \in Nat
      BY SMTT(40), <1>2
    <2>1. CASE j \in DOMAIN had
      <3>1. i \in DOMAIN had
        BY <1>2, <2>0, <2>1
      <3> QED
        BY <1>5, <1>10, <2>1, <3>1 DEF Ascending
    <2>2. CASE \E k \in DOMAIN b : j = Len(had) + k /\ both[j] = b[k]
      <3>1. PICK k \in DOMAIN b : j = Len(had) + k /\ both[j] = b[k]
        BY <2>2
      <3>2. CASE i \in DOMAIN had
        BY <1>5, <1>9, <3>1, <3>2
      <3>3. CASE \E m \in DOMAIN b : i = Len(had) + m /\ both[i] = b[m]
        <4>1. PICK m \in DOMAIN b : i = Len(had) + m /\ both[i] = b[m]
          BY <3>3
        <4>2. m < k
          BY <1>2, <3>1, <4>1
        <4> QED
          BY <1>10, <3>1, <4>1, <4>2 DEF Ascending
      <3> QED
        BY <1>4, <3>2, <3>3
    <2> QED
      BY <1>4, <2>1, <2>2
  <1>14. InOrder(<<>>, new)
    <2>1. \A g \in DOMAIN new : Ascending(new[g])
      BY <1>3, <1>13 DEF Lines, InOrder
    <2>2. Ascending(<<>>)
      BY <1>11 DEF Ascending
    <2> QED
      BY <1>11, <2>1, <2>2 DEF InOrder
  <1>15. ASSUME NEW g \in DOMAIN fs \ {f}, NEW k \in DOMAIN fs[g], NEW j \in DOMAIN both
         PROVE  both[j] # fs[g][k]
    <2>1. CASE j \in DOMAIN had /\ both[j] = had[j]
      BY <2>1 DEF Lines, InOneFile, had
    <2>2. CASE \E i \in DOMAIN b : j = Len(had) + i /\ both[j] = b[i]
      <3>1. PICK i \in DOMAIN b : both[j] = b[i]
        BY <2>2
      <3>2. fs[g][k] < b[i] /\ fs[g][k] \in Nat /\ b[i] \in Nat
        BY SMTT(40) DEF Lines, InOrder, LinesIn
      <3> QED
        BY <3>1, <3>2
    <2> QED
      BY <1>4, <2>1, <2>2
  <1>16. InOneFile(new)
    <2> SUFFICES ASSUME NEW g \in DOMAIN fs, NEW h \in DOMAIN fs, g # h,
                        NEW j \in DOMAIN new[g], NEW k \in DOMAIN new[h], new[g][j] = new[h][k]
                 PROVE  FALSE
      BY <1>3 DEF InOneFile
    <2>1. CASE g = f
      BY <1>3, <1>15, <2>1
    <2>2. CASE h = f
      BY <1>3, <1>15, <2>2
    <2>3. CASE g # f /\ h # f
      BY <1>3, <2>3 DEF Lines, InOneFile
    <2> QED
      BY <2>1, <2>2, <2>3
  <1>17. Somewhere(<<>>, new, d, n)
    <2> SUFFICES ASSUME NEW l \in 1..n, l \notin d
                 PROVE  \E g \in DOMAIN new : \E j \in DOMAIN new[g] : new[g][j] = l
      BY DEF Somewhere
    <2>1. CASE \E i \in DOMAIN b : b[i] = l
      BY <1>3, <1>6, <2>1
    <2>2. CASE \E g \in DOMAIN fs : \E j \in DOMAIN fs[g] : fs[g][j] = l
      <3>1. PICK g \in DOMAIN fs : \E j \in DOMAIN fs[g] : fs[g][j] = l
        BY <2>2
      <3>2. PICK j \in DOMAIN fs[g] : fs[g][j] = l
        BY <3>1
      <3>3. CASE g = f
        BY <1>3, <1>5, <3>2, <3>3 DEF had
      <3>4. CASE g # f
        BY <1>3, <3>2, <3>4
      <3> QED
        BY <3>3, <3>4
    <2> QED
      BY <2>1, <2>2 DEF Lines, Somewhere
  <1>18. Lines(<<>>, new, d, n)
    BY <1>12, <1>14, <1>16, <1>17 DEF Lines
  <1> QED
    BY <1>3, <1>18 DEF new

LogTypes ==
    /\ buf \in Seq(Nat) /\ files \in Seq(Seq(Nat)) /\ said \in Nat /\ used \in Nat /\ widest \in Nat
    /\ logFd \in {0} \cup DOMAIN files /\ logPath \in {0} \cup DOMAIN files
    /\ bak \in [Seconds -> Seq(Nat)] /\ logSec \in Seconds
    /\ removed \subseteq DOMAIN files /\ before \subseteq removed

\* Who holds the lock is in a sync, and nobody is before the log is in the tree.  A
\* fifth of the buffer at most is in use without the last dump when nobody holds the
\* lock, and one more line with its dump when somebody does.
LogSync ==
    /\ holder = NoHolder <=> syncing = NoSync
    /\ logStart \in {"svr", "unlock", "open", "insert"} => holder = NoHolder
    /\ logStart \in {"svr", "unlock", "open", "insert", "inserted", "on"}
    /\ buf = <<>> => used = 0
    /\ syncing = "rename" => buf = <<>>
    /\ 5 * used <= LogSize + 5 * (2 * widest + 1)
    /\ holder = NoHolder => 5 * used <= LogSize + 5 * widest

\* A file has the name of the log, was removed, or has, or had, the name of a second.
LogNames ==
    /\ \A f \in DOMAIN files :
          \/ f = logPath
          \/ f \in removed
          \/ \E t \in Seconds : \E k \in DOMAIN bak[t] : bak[t][k] = f
    /\ logPath \notin removed
    /\ logFd # 0 /\ logPath # 0 => logFd = logPath
    /\ syncing = "write" => logFd # 0 /\ logFd \notin before

LogInv == LogTypes /\ LogSync /\ LogNames /\ Lines(buf, files, dropped, said)

LEMMA LogInitially == LogInit => LogInv
  <1> SUFFICES ASSUME LogInit PROVE LogInv
    OBVIOUS
  <1>0. LogSize \in Nat /\ MaxTime \in Nat
    BY LogAssumption
  <1>1. LogTypes
    BY <1>0 DEF LogInit, LogTypes, Seconds
  <1>2. LogSync
    BY <1>0 DEF LogInit, LogSync, NoSync, NoHolder
  <1>3. LogNames
    BY DEF LogInit, LogNames, NoSync
  <1>4. Lines(buf, files, dropped, said)
    BY DEF LogInit, Lines, LinesIn, InOrder, InOneFile, Somewhere, Ascending
  <1> QED
    BY <1>1, <1>2, <1>3, <1>4 DEF LogInv

\* Steps that leave the lines and the files alone.
LEMMA LogControlKeeps ==
    ASSUME LogInv, LogSvrInit \/ LogInsert \/ SyncProc \/ Second \/ UNCHANGED logVars
    PROVE  LogInv'
  <1> USE DEF LogInv
  <1>0. MaxTime \in Nat /\ logSec \in Nat
    BY LogAssumption DEF LogTypes, Seconds
  <1>1. UNCHANGED <<bufVars, diskVars, removed>>
    BY DEF LogSvrInit, LogInsert, SyncProc, Second, logVars
  <1>2. logSec' \in Seconds
    BY <1>0 DEF LogSvrInit, LogInsert, SyncProc, Second, logVars, LogTypes, Seconds
  <1>3. \/ UNCHANGED <<holder, syncing, before>>
        \/ LogLock(Syncer) /\ InTree /\ holder = NoHolder /\ logStart' = logStart
    BY DEF LogSvrInit, LogInsert, SyncProc, Second, logVars
  <1>4. /\ logStart' \in {"svr", "unlock", "open", "insert", "inserted", "on"}
        /\ logStart' \in {"svr", "unlock", "open", "insert"} =>
              logStart \in {"svr", "unlock", "open", "insert"}
    BY DEF LogSvrInit, LogInsert, SyncProc, Second, logVars, initVars, LogSync
  <1>5. LogTypes'
    BY <1>1, <1>2, <1>3 DEF LogTypes, LogLock, bufVars, diskVars
  <1>6. LogSync'
    BY <1>1, <1>3, <1>4 DEF LogSync, LogLock, bufVars, InTree, Syncer, NoHolder, NoSync
  <1>7. LogNames'
    BY <1>1, <1>3 DEF LogNames, LogLock, bufVars, diskVars
  <1>8. Lines(buf, files, dropped, said)'
    BY <1>1 DEF bufVars, diskVars
  <1> QED
    BY <1>5, <1>6, <1>7, <1>8

LEMMA RemoveKeeps == ASSUME LogInv, Remove PROVE LogInv'
  <1> USE DEF LogInv
  <1>1. /\ UNCHANGED <<initVars, holder, syncing, bufVars, logFd, bak, files, logSec, before>>
        /\ logPath # 0 /\ logPath' = 0 /\ removed' = removed \cup {logPath}
    BY DEF Remove
  <1>2. LogTypes'
    BY <1>1 DEF LogTypes, bufVars
  <1>3. LogSync'
    BY <1>1 DEF LogSync, bufVars, initVars
  <1>4. 0 \notin removed'
    <2>1. 0 \notin DOMAIN files
      BY SeqFacts DEF LogTypes
    <2> QED
      BY <1>1, <2>1 DEF LogTypes
  <1>5. LogNames'
    BY <1>1, <1>4 DEF LogNames
  <1> QED
    BY <1>1, <1>2, <1>3, <1>5 DEF bufVars

\* The path is open afterwards, and is of a file that was not removed.
LEMMA OpenPathFacts ==
    ASSUME LogInv, OpenPath, UNCHANGED <<buf, used, widest, said, dropped, bak, logSec, removed, before>>
    PROVE  /\ LogTypes' /\ Lines(buf, files, dropped, said)'
           /\ logFd' = logPath' /\ logFd' # 0 /\ logFd' \notin removed
           /\ DOMAIN files \subseteq DOMAIN files'
           /\ \A f \in DOMAIN files' : f \in DOMAIN files \/ f = logPath'
           /\ logPath # 0 => logPath' = logPath
  <1> USE DEF LogInv
  <1>0. 0 \notin DOMAIN files
    BY SeqFacts DEF LogTypes
  <1>1. CASE logPath = 0
    <2> DEFINE n == Len(files) + 1
    <2>1. files' = Append(files, <<>>) /\ logPath' = Len(files') /\ logFd' = logPath'
      BY <1>1 DEF OpenPath
    <2>2. /\ files' \in Seq(Seq(Nat)) /\ Len(files') = n /\ DOMAIN files' = DOMAIN files \cup {n}
          /\ n \notin DOMAIN files /\ Lines(buf, files', dropped, said)
      BY <2>1, FileMade DEF LogTypes
    <2>3. n # 0 /\ n \in Nat
      BY SeqFacts DEF LogTypes
    <2> HIDE DEF n
    <2>4. LogTypes'
      BY <2>1, <2>2 DEF LogTypes
    <2> QED
      BY <1>1, <2>1, <2>2, <2>3, <2>4 DEF LogTypes
  <1>2. CASE logPath # 0
    <2>1. logFd' = logPath /\ UNCHANGED <<logPath, files>>
      BY <1>2 DEF OpenPath
    <2>2. LogTypes'
      BY <2>1 DEF LogTypes
    <2> QED
      BY <1>2, <2>1, <2>2 DEF LogNames
  <1> QED
    BY <1>1, <1>2

LEMMA OpenedNames ==
    ASSUME LogInv, OpenPath, UNCHANGED <<buf, used, widest, said, dropped, bak, logSec, removed, before>>
    PROVE  LogNames'
  <1>1. /\ LogTypes' /\ logFd' = logPath' /\ logFd' # 0 /\ logFd' \notin removed
        /\ \A f \in DOMAIN files' : f \in DOMAIN files \/ f = logPath'
        /\ logPath # 0 => logPath' = logPath
    BY OpenPathFacts
  <1>2. ASSUME NEW f \in DOMAIN files'
        PROVE  \/ f = logPath'
               \/ f \in removed
               \/ \E t \in Seconds : \E k \in DOMAIN bak[t] : bak[t][k] = f
    <2>1. 0 \notin DOMAIN files
      BY SeqFacts DEF LogInv, LogTypes
    <2> QED
      BY <1>1, <2>1 DEF LogInv, LogNames
  <1> QED
    BY <1>1, <1>2 DEF LogNames, LogTypes

LEMMA LogOpenKeeps == ASSUME LogInv, LogOpen PROVE LogInv'
  <1>1. /\ OpenPath /\ UNCHANGED <<buf, used, widest, said, dropped, bak, logSec, removed, before>>
        /\ UNCHANGED <<holder, syncing>> /\ logStart = "open" /\ logStart' = "insert"
    BY DEF LogOpen, bufVars
  <1>2. LogTypes' /\ Lines(buf, files, dropped, said)'
    BY <1>1, OpenPathFacts
  <1>3. LogNames'
    BY <1>1, OpenedNames
  <1>4. LogSync'
    BY <1>1 DEF LogInv, LogSync
  <1> QED
    BY <1>2, <1>3, <1>4 DEF LogInv

\* The buffer is emptied, and the lines that got into no file are among the dropped.
LEMMA EmptiedKeeps ==
    ASSUME LogInv, Lost(0), Emptied, UNCHANGED <<files, said, logPath, bak, logSec, removed, before, logStart>>,
           logFd' = 0 \/ logFd' = logFd,
           \/ holder' = NoHolder /\ syncing' = NoSync
           \/ syncing = "write" /\ syncing' = "rename" /\ holder' = holder
    PROVE  LogInv'
  <1> USE DEF LogInv
  <1>0. LogSize \in Nat
    BY LogAssumption
  <1>1. /\ buf' = <<>> /\ used' = 0 /\ widest' = 0
        /\ dropped' = dropped \cup {buf[i] : i \in DOMAIN buf}
    <2>1. DOMAIN buf = 0 + 1 .. Len(buf)
      BY SeqFacts DEF LogTypes
    <2> QED
      BY <2>1 DEF Emptied, Lost
  <1>2. LogTypes'
    BY <1>1 DEF LogTypes
  <1>3. Lines(buf, files, dropped, said)'
    <2>1. Lines(<<>>, files, dropped \cup {buf[i] : i \in DOMAIN buf}, said)
      BY LinesDropped DEF LogTypes
    <2> QED
      BY <1>1, <2>1
  <1>4. LogNames'
    BY DEF LogNames, NoSync
  <1>5. LogSync'
    BY <1>0, <1>1 DEF LogSync, NoSync
  <1> QED
    BY <1>2, <1>3, <1>4, <1>5

LEMMA StatKeeps == ASSUME LogInv, Stat PROVE LogInv'
  <1> USE DEF LogInv
  <1>0. /\ syncing = "stat" /\ UNCHANGED <<initVars, logPath, bak, files, logSec, removed, before>>
        /\ LogSize \in Nat
    BY LogAssumption DEF Stat
  <1>1. CASE /\ UNCHANGED bufVars
             /\ \/ buf = <<>> /\ LogUnlock /\ logFd' = logFd
                \/ /\ logFd' = IF logPath = 0 THEN 0 ELSE logFd
                   /\ syncing' = IF logFd' = 0 THEN "open" ELSE "write"
                   /\ holder' = holder
    <2>1. LogTypes'
      BY <1>0, <1>1 DEF LogTypes, bufVars
    <2>2. LogSync'
      BY <1>0, <1>1 DEF LogSync, LogTypes, LogUnlock, bufVars, initVars, NoSync
    <2>3. LogNames'
      BY <1>0, <1>1 DEF LogNames, LogTypes, LogUnlock, NoSync
    <2> QED
      BY <1>0, <1>1, <2>1, <2>2, <2>3 DEF bufVars
  <1>2. CASE Lost(0) /\ Emptied /\ logFd' = 0 /\ LogUnlock /\ said' = said
    BY <1>0, <1>2, EmptiedKeeps DEF LogUnlock, initVars
  <1> QED
    BY <1>1, <1>2 DEF Stat

LEMMA ReopenKeeps == ASSUME LogInv, Reopen PROVE LogInv'
  <1>0. LogSize \in Nat
    BY LogAssumption
  <1>1. CASE OpenPath /\ syncing' = "write" /\ UNCHANGED <<bufVars, holder>>
    <2>1. /\ UNCHANGED <<buf, used, widest, said, dropped, bak, logSec, removed, before>>
          /\ logStart' = logStart /\ syncing = "open" /\ holder' = holder
      BY <1>1 DEF Reopen, initVars, bufVars
    <2>2. LogTypes' /\ Lines(buf, files, dropped, said)'
      BY <1>1, <2>1, OpenPathFacts
    <2>3. LogNames'
      BY <1>1, <2>1, OpenedNames
    <2>4. LogSync'
      BY <1>1, <2>1 DEF LogInv, LogSync, NoSync
    <2> QED
      BY <2>2, <2>3, <2>4 DEF LogInv
  <1>2. CASE Lost(0) /\ Emptied /\ LogUnlock /\ UNCHANGED <<said, logFd, logPath, files>>
    BY <1>2, EmptiedKeeps DEF Reopen, LogUnlock, initVars
  <1> QED
    BY <1>1, <1>2 DEF Reopen

LEMMA WriteOutKeeps == ASSUME LogInv, WriteOut PROVE LogInv'
  <1>0. /\ syncing = "write" /\ Emptied /\ LogSize \in Nat
        /\ UNCHANGED <<logStart, said, logPath, bak, logSec, removed, before>>
    BY LogAssumption DEF WriteOut, initVars
  <1>1. ASSUME NEW n \in 0 .. Len(buf), Lost(n), logFd' = logFd,
               files' = [files EXCEPT ![logFd] = @ \o SubSeq(buf, 1, n)],
               (syncing' = "rename" /\ holder' = holder) \/ (holder' = NoHolder /\ syncing' = NoSync)
        PROVE  LogInv'
    <2>1. buf' = <<>> /\ used' = 0 /\ widest' = 0
      BY <1>0 DEF Emptied
    <2>2. /\ files' \in Seq(Seq(Nat)) /\ DOMAIN files' = DOMAIN files
          /\ Lines(<<>>, files', dropped', said)
      <3>1. logFd \in DOMAIN files
        BY <1>0 DEF LogInv, LogNames, LogTypes
      <3>2. dropped' = dropped \cup {buf[i] : i \in n + 1 .. Len(buf)}
        BY <1>1 DEF Lost
      <3> QED
        <4>1. /\ buf \in Seq(Nat) /\ files \in Seq(Seq(Nat)) /\ said \in Nat
              /\ Lines(buf, files, dropped, said)
          BY DEF LogInv, LogTypes
        <4>2. /\ SubSeq(buf, 1, n) \in Seq(Nat)
              /\ Lines(SubSeq(buf, 1, n), files, dropped', said)
          BY <3>2, <4>1, LinesCut
        <4> QED
          BY <1>1, <3>1, <4>1, <4>2, LinesWritten
    <2>3. LogTypes'
      BY <1>0, <1>1, <2>1, <2>2 DEF LogInv, LogTypes
    <2>4. LogSync'
      BY <1>0, <1>1, <2>1 DEF LogInv, LogSync, NoSync
    <2>5. LogNames'
      BY <1>0, <1>1, <2>2 DEF LogInv, LogNames, NoSync
    <2> QED
      BY <1>0, <2>1, <2>2, <2>3, <2>4, <2>5 DEF LogInv
  <1>2. CASE Lost(0) /\ logFd' = 0 /\ syncing' = "rename" /\ UNCHANGED <<holder, files>>
    BY <1>0, <1>2, EmptiedKeeps
  <1> QED
    BY <1>1, <1>2 DEF WriteOut, LogUnlock

LEMMA RenameKeeps == ASSUME LogInv, Rename PROVE LogInv'
  <1> USE DEF LogInv
  <1>1. /\ syncing = "rename" /\ logFd' = 0 /\ holder' = NoHolder /\ syncing' = NoSync
        /\ \/ /\ logPath # 0 /\ logPath' = 0
              /\ bak' = [bak EXCEPT ![logSec] = Append(@, logPath)]
           \/ UNCHANGED <<logPath, bak>>
        /\ UNCHANGED <<logStart, buf, used, widest, said, dropped, files, logSec, removed, before>>
    BY DEF Rename, LogUnlock, initVars, bufVars
  <1>2. 0 \notin DOMAIN files /\ DOMAIN files \subseteq Nat
    BY SeqFacts DEF LogTypes
  <1>3. /\ bak' \in [Seconds -> Seq(Nat)]
        /\ \A t \in Seconds : \A k \in DOMAIN bak[t] : k \in DOMAIN bak'[t] /\ bak'[t][k] = bak[t][k]
        /\ logPath' # logPath => \E k \in DOMAIN bak'[logSec] : bak'[logSec][k] = logPath
    <2>1. CASE UNCHANGED <<logPath, bak>>
      BY <1>1, <2>1 DEF LogTypes
    <2>2. CASE logPath # 0 /\ bak' = [bak EXCEPT ![logSec] = Append(@, logPath)]
      <3> DEFINE s == bak[logSec]
                 a == Append(s, logPath)
      <3>1. logPath \in Nat /\ s \in Seq(Nat) /\ logSec \in Seconds
        BY <1>2 DEF LogTypes
      <3> HIDE DEF s
      <3>2. /\ a \in Seq(Nat) /\ Len(s) \in Nat
            /\ DOMAIN s = 1..Len(s) /\ DOMAIN a = 1..Len(s) + 1
            /\ a[Len(s) + 1] = logPath
            /\ \A k \in 1..Len(s) : a[k] = s[k]
        <4>1. /\ a \in Seq(Nat) /\ Len(a) = Len(s) + 1 /\ a[Len(s) + 1] = logPath
              /\ \A k \in 1..Len(s) : a[k] = s[k]
          BY <3>1, Longer
        <4> HIDE DEF a
        <4>2. DOMAIN s = 1..Len(s) /\ DOMAIN a = 1..Len(a) /\ Len(s) \in Nat
          BY <3>1, <4>1, SeqFacts
        <4> QED
          BY <4>1, <4>2
      <3> HIDE DEF a
      <3>3. bak' = [bak EXCEPT ![logSec] = a]
        BY <1>1, <2>2 DEF a, s
      <3>4. bak' \in [Seconds -> Seq(Nat)]
        BY <3>2, <3>3 DEF LogTypes
      <3>5. bak'[logSec] = a /\ bak[logSec] = s /\ \A t \in Seconds \ {logSec} : bak'[t] = bak[t]
        BY <3>1, <3>3 DEF LogTypes, s
      <3>6. Len(s) + 1 \in DOMAIN a /\ \A k \in DOMAIN s : k \in DOMAIN a
        BY <3>2
      <3> QED
        BY <3>2, <3>4, <3>5, <3>6
    <2> QED
      BY <1>1, <2>1, <2>2
  <1>4. LogTypes'
    BY <1>1, <1>3 DEF LogTypes
  <1>5. LogSync'
    <2>1. LogSize \in Nat
      BY LogAssumption
    <2> QED
      BY <1>1, <2>1 DEF LogSync, LogTypes, NoSync
  <1>6. LogNames'
    <2>1. \A f \in DOMAIN files :
             \/ f = logPath' \/ f \in removed
             \/ \E t \in Seconds : \E k \in DOMAIN bak'[t] : bak'[t][k] = f
      <3> SUFFICES ASSUME NEW f \in DOMAIN files
                   PROVE  \/ f = logPath' \/ f \in removed
                          \/ \E t \in Seconds : \E k \in DOMAIN bak'[t] : bak'[t][k] = f
        OBVIOUS
      <3>1. CASE f = logPath
        BY <1>2, <1>3, <3>1 DEF LogTypes
      <3>2. CASE \E t \in Seconds : \E k \in DOMAIN bak[t] : bak[t][k] = f
        BY <1>3, <3>2
      <3> QED
        BY <3>1, <3>2 DEF LogNames
    <2> QED
      BY <1>1, <1>2, <2>1 DEF LogNames, LogTypes, NoSync
  <1> QED
    BY <1>1, <1>4, <1>5, <1>6

LEMMA LogWriteKeeps ==
    ASSUME LogInv, NEW w \in Writers, NEW dump \in DumpSizes, LogWrite(w, dump)
    PROVE  LogInv'
  <1> USE DEF LogInv
  <1>1. /\ logStart = "on" /\ holder = NoHolder /\ said' = said + 1 /\ buf' = Append(buf, said + 1)
        /\ used' = used + 1 + DumpRoom(dump)
        /\ widest' = IF DumpRoom(dump) > widest THEN DumpRoom(dump) ELSE widest
        /\ UNCHANGED <<logStart, dropped, logFd, logPath, bak, files, logSec, removed>>
    BY DEF LogWrite, initVars, diskVars
  <1>2. \/ Forced /\ holder' = w /\ syncing' = "stat" /\ before' = removed
        \/ ~Forced /\ UNCHANGED <<holder, syncing, before>>
    BY DEF LogWrite, LogLock
  <1>3. LogSize \in Nat /\ dump \in Nat /\ w # NoHolder /\ DumpRoom(dump) \in Nat
    BY LogAssumption DEF DumpRoom
  <1>4. buf' \in Seq(Nat) /\ buf' # <<>>
    <2>1. buf \in Seq(Nat) /\ said + 1 \in Nat
      BY DEF LogTypes
    <2>2. Append(buf, said + 1) \in Seq(Nat) /\ Len(Append(buf, said + 1)) = Len(buf) + 1 /\ Len(buf) \in Nat
      BY <2>1, Longer, SeqFacts
    <2> QED
      BY <1>1, <2>2
  <1> DEFINE room == DumpRoom(dump)
  <1>5. /\ used \in Nat /\ widest \in Nat /\ 5 * used <= LogSize + 5 * widest
        /\ room \in Nat /\ used' = used + 1 + room /\ widest' = IF room > widest THEN room ELSE widest
    BY <1>1, <1>3 DEF LogTypes, LogSync
  <1> HIDE DEF room
  <1>6. used' \in Nat /\ widest' \in Nat /\ widest <= widest' /\ room <= widest'
    BY <1>5
  <1>7. LogTypes'
    <2>1. said' \in Nat /\ (before' = removed \/ before' = before) /\ removed \subseteq removed
      BY <1>1, <1>2 DEF LogTypes
    <2>2. removed' \subseteq DOMAIN files' /\ before' \subseteq removed'
      BY <1>1, <2>1 DEF LogTypes
    <2>3. logFd' \in {0} \cup DOMAIN files' /\ logPath' \in {0} \cup DOMAIN files'
      BY <1>1 DEF LogTypes
    <2>4. files' \in Seq(Seq(Nat)) /\ bak' \in [Seconds -> Seq(Nat)] /\ logSec' \in Seconds
      BY <1>1 DEF LogTypes
    <2> QED
      BY <1>4, <1>6, <2>1, <2>2, <2>3, <2>4 DEF LogTypes
  <1>8. LogSync'
    <2>1. 5 * used' <= LogSize + 5 * (2 * widest' + 1)
      BY <1>3, <1>5, <1>6
    <2>2. ~Forced => 5 * used' <= LogSize + 5 * widest'
      BY <1>3, <1>5, <1>6 DEF Forced
    <2>3. holder' = NoHolder <=> syncing' = NoSync
      BY <1>1, <1>2, <1>3 DEF LogSync, NoSync
    <2>4. holder' = NoHolder => ~Forced
      BY <1>2, <1>3
    <2>5. syncing' # "rename"
      BY <1>1, <1>2 DEF LogSync, NoSync
    <2> QED
      BY <1>1, <1>4, <2>1, <2>2, <2>3, <2>4, <2>5 DEF LogSync
  <1>9. LogNames'
    BY <1>1, <1>2 DEF LogNames, LogSync, NoSync
  <1>10. Lines(buf, files, dropped, said)'
    BY <1>1, LineLogged DEF LogTypes
  <1> QED
    BY <1>7, <1>8, <1>9, <1>10

LEMMA LogKeeps == ASSUME LogInv, LogNext \/ UNCHANGED logVars PROVE LogInv'
  BY LogControlKeeps, RemoveKeeps, LogOpenKeeps, StatKeeps, ReopenKeeps, WriteOutKeeps, RenameKeeps,
     LogWriteKeeps DEF LogNext, SyncStep

\* Ascending lines differ, so that no more than n of them are of 1..n.
LEMMA LinesFit ==
    ASSUME NEW s \in Seq(Nat), NEW n \in Nat, Ascending(s), \A j \in DOMAIN s : s[j] \in 1..n
    PROVE  /\ \A i, j \in DOMAIN s : s[i] = s[j] => i = j
           /\ DOMAIN s \subseteq 1..n
  <1>1. Len(s) \in Nat /\ DOMAIN s = 1..Len(s)
    OBVIOUS
  <1>2. \A i \in DOMAIN s : i \in Nat /\ s[i] \in Nat
    BY <1>1
  <1>3. ASSUME NEW i \in DOMAIN s, NEW j \in DOMAIN s, s[i] = s[j] PROVE i = j
    <2>1. i \in Nat /\ j \in Nat /\ s[i] \in Nat /\ s[j] \in Nat
      BY <1>2
    <2>2. (i < j => s[i] < s[j]) /\ (j < i => s[j] < s[i])
      BY DEF Ascending
    <2> QED
      BY <1>3, <2>1, <2>2
  <1>4. /\ IsFiniteSet(1..Len(s)) /\ Cardinality(1..Len(s)) = Len(s)
        /\ IsFiniteSet(1..n) /\ Cardinality(1..n) = n
    <2>1. ASSUME NEW m \in Nat PROVE IsFiniteSet(1..m) /\ Cardinality(1..m) = m
      <3>1. /\ IsFiniteSet(1..m)
            /\ Cardinality(1..m) = IF 1 > m THEN 0 ELSE m - 1 + 1
        BY FS_Interval
      <3> QED
        BY <3>1
    <2> QED
      BY <1>1, <2>1
  <1>5. Len(s) <= n
    <2> SUFFICES ASSUME n < Len(s) PROVE FALSE
      BY <1>1
    <2> DEFINE A == 1..Len(s)
               B == 1..n
               g == [i \in A |-> s[i]]
    <2>1. /\ IsFiniteSet(A) /\ IsFiniteSet(B) /\ Cardinality(B) < Cardinality(A) /\ g \in [A -> B]
      BY <1>1, <1>4
    <2>2. \A x \in A : g[x] = s[x] /\ x \in DOMAIN s
      BY <1>1
    <2> HIDE DEF g, A, B
    <2>3. \E x, y \in A : x # y /\ g[x] = g[y]
      BY <2>1, FS_PigeonHole
    <2> QED
      BY <1>3, <2>2, <2>3
  <1> QED
    BY <1>1, <1>3, <1>5

\* Each line is in one place; what has lost its name was removed or renamed over.
LEMMA LogGives == ASSUME LogInv PROVE LogExact
  <1> DEFINE A(i) == {j \in DOMAIN buf : buf[j] = i}
             B(i) == {p \in Files \X (1 .. said) :
                         p[2] \in DOMAIN files[p[1]] /\ files[p[1]][p[2]] = i}
             ls == [i \in 1 .. said |-> Cardinality(A(i)) + Cardinality(B(i))]
  <1>1. Lines(buf, files, dropped, said) /\ LogTypes /\ LogSync /\ LogNames
    BY DEF LogInv
  <1>2. /\ buf \in Seq(Nat) /\ said \in Nat /\ files \in Seq(Seq(Nat))
        /\ \A f \in DOMAIN files : files[f] \in Seq(Nat)
    BY <1>1 DEF LogTypes
  <1>3. /\ \A i, j \in DOMAIN buf : buf[i] = buf[j] => i = j
        /\ \A f \in DOMAIN files : /\ \A i, j \in DOMAIN files[f] : files[f][i] = files[f][j] => i = j
                                   /\ DOMAIN files[f] \subseteq 1..said
    <2>1. \A i, j \in DOMAIN buf : buf[i] = buf[j] => i = j
      BY <1>1, <1>2, LinesFit DEF Lines, LinesIn, InOrder
    <2>2. ASSUME NEW f \in DOMAIN files
          PROVE  /\ \A i, j \in DOMAIN files[f] : files[f][i] = files[f][j] => i = j
                 /\ DOMAIN files[f] \subseteq 1..said
      <3>1. /\ files[f] \in Seq(Nat) /\ Ascending(files[f])
            /\ \A j \in DOMAIN files[f] : files[f][j] \in 1..said
        BY <1>1, <1>2 DEF Lines, LinesIn, InOrder
      <3> QED
        BY <1>2, <3>1, LinesFit
    <2> QED
      BY <2>1, <2>2
  <1>4. ASSUME NEW i \in 1..said PROVE ls[i] = IF i \in dropped THEN 0 ELSE 1
    <2>1. Cardinality({}) = 0 /\ \A x : Cardinality({x}) = 1
      BY FS_EmptySet, FS_Singleton
    <2>2. \A f, j : <<f, j>> \in B(i) <=> f \in DOMAIN files /\ j \in DOMAIN files[f] /\ files[f][j] = i
      BY <1>3 DEF Files
    <2>3. \A p \in B(i) : p = <<p[1], p[2]>>
      OBVIOUS
    <2>4. \A j \in DOMAIN buf : buf[j] = i =>
              \A f \in DOMAIN files : \A k \in DOMAIN files[f] : files[f][k] # i
      <3> SUFFICES ASSUME NEW j \in DOMAIN buf, buf[j] = i, NEW f \in DOMAIN files, NEW k \in DOMAIN files[f],
                          files[f][k] = i
                   PROVE  FALSE
        OBVIOUS
      <3>1. files[f][k] < buf[j]
        BY <1>1 DEF Lines, InOrder
      <3> QED
        BY <3>1, <1>2
    <2>5. ls[i] = Cardinality(A(i)) + Cardinality(B(i))
      OBVIOUS
    <2> HIDE DEF B, ls
    <2>6. CASE i \in dropped
      <3>1. A(i) = {}
        BY <1>1, <2>6 DEF Lines, LinesIn
      <3>2. B(i) = {}
        <4>1. \A f \in DOMAIN files : \A j \in DOMAIN files[f] : files[f][j] # i
          BY <1>1, <2>6 DEF Lines, LinesIn
        <4> QED
          BY <2>2, <2>3, <4>1
      <3> QED
        BY <2>1, <2>5, <2>6, <3>1, <3>2
    <2>7. CASE i \notin dropped /\ \E j \in DOMAIN buf : buf[j] = i
      <3>1. PICK j \in DOMAIN buf : buf[j] = i
        BY <2>7
      <3>2. A(i) = {j}
        BY <1>3, <3>1
      <3>3. B(i) = {}
        BY <2>2, <2>3, <2>4, <3>1
      <3>4. Cardinality(A(i)) = 1 /\ Cardinality(B(i)) = 0
        BY <2>1, <3>2, <3>3
      <3> QED
        BY <2>5, <2>7, <3>4
    <2>8. CASE i \notin dropped /\ \A j \in DOMAIN buf : buf[j] # i
      <3>1. PICK f \in DOMAIN files : \E k \in DOMAIN files[f] : files[f][k] = i
        BY <1>1, <2>8 DEF Lines, Somewhere
      <3>2. PICK k \in DOMAIN files[f] : files[f][k] = i
        BY <3>1
      <3>3. A(i) = {}
        BY <2>8
      <3>4. ASSUME NEW g, NEW m, g \in DOMAIN files, m \in DOMAIN files[g], files[g][m] = i
            PROVE  g = f /\ m = k
        <4>1. g = f
          BY <1>1, <3>2, <3>4 DEF Lines, InOneFile
        <4> QED
          BY <1>3, <3>2, <3>4, <4>1
      <3>5. B(i) = {<<f, k>>}
        <4>1. <<f, k>> \in B(i)
          BY <2>2, <3>2
        <4>2. \A p \in B(i) : p = <<f, k>>
          BY <2>2, <2>3, <3>4
        <4> QED
          BY <4>1, <4>2
      <3>6. Cardinality(A(i)) = 0 /\ Cardinality(B(i)) = 1
        BY <2>1, <3>3, <3>5
      <3> QED
        BY <2>5, <2>8, <3>6
    <2> QED
      BY <2>6, <2>7, <2>8
  <1>5. /\ \A f \in Files : \A i, j \in DOMAIN files[f] : i < j => files[f][i] < files[f][j]
        /\ \A f \in Files, i \in DOMAIN buf : \A j \in DOMAIN files[f] : files[f][j] < buf[i]
    BY <1>1 DEF Lines, InOrder, Ascending, Files
  <1>6. /\ Overrun => 5 * (2 * widest + 1) > 4 * LogSize
        /\ syncing = "write" => logFd # 0 /\ logFd \notin before
    <2>1. LogSize \in Nat /\ used \in Nat /\ widest \in Nat /\ 5 * used <= LogSize + 5 * (2 * widest + 1)
      BY <1>1, LogAssumption DEF LogTypes, LogSync
    <2>2. Overrun => 5 * (2 * widest + 1) > 4 * LogSize
      BY <2>1 DEF Overrun
    <2> QED
      BY <1>1, <2>2 DEF LogNames
  <1>7. ASSUME NEW f \in Files \ (Named \cup removed)
        PROVE  \E t \in Seconds : Len(bak[t]) > 1 /\ f \in {bak[t][k] : k \in 1 .. Len(bak[t]) - 1}
    <2>1. f \in DOMAIN files /\ f \notin removed /\ f # 0
      BY <1>2 DEF Files
    <2>2. f # logPath
      BY <2>1 DEF Named
    <2>3. PICK t \in Seconds : \E k \in DOMAIN bak[t] : bak[t][k] = f
      BY <1>1, <2>1, <2>2 DEF LogNames
    <2>4. PICK k \in DOMAIN bak[t] : bak[t][k] = f
      BY <2>3
    <2>5. bak[t] \in Seq(Nat) /\ Len(bak[t]) \in Nat /\ k \in 1..Len(bak[t]) /\ bak[t] # <<>>
      BY <1>1, <2>4 DEF LogTypes
    <2>6. k # Len(bak[t])
      BY <2>1, <2>4, <2>5 DEF Named
    <2>7. k \in 1..Len(bak[t]) - 1 /\ Len(bak[t]) > 1
      BY <2>5, <2>6
    <2> QED
      BY <2>4, <2>7
  <1> HIDE DEF A, B
  <1>8. \A i \in 1..said : ls[i] = IF i \in dropped THEN 0 ELSE 1
    BY <1>4
  <1> QED
    BY <1>5, <1>6, <1>7, <1>8 DEF LogExact, A, B

\* Only the log itself moves what the log has.
LEMMA LogApart == ASSUME [Next]_vars PROVE LogNext \/ UNCHANGED logVars
  BY DEF Next, vars, SubStep, SdtpStep, AccessStep, PoolAloneStep, ProxyStep, SdtpWorkStep,
         ShmQueueStep, ShmStep, LogStep

\* Whoever syncs the log, whatever files are removed or renamed and whichever call on them
\* fails: each line logged is in the buffer, in one file, or was lost with a sync that
\* failed, in the order of logging; only a dump of two fifths of the buffer, printed, or
\* about that, overruns it; a file lost its name only by its removal or by the next rename
\* of the same second; nothing is written to a file removed before the sync (log.c,
\* logsvr.c).  The part of QueuesExact about the log.
THEOREM LogLinesExact == Spec => []LogExact
  <1>1. Init => LogInv
    BY LogInitially DEF Init
  <1>2. LogInv /\ [Next]_vars => LogInv'
    BY LogApart, LogKeeps
  <1>3. LogInv => LogExact
    BY LogGives
  <1> QED
    BY <1>1, <1>2, <1>3, PTL DEF Spec

\* The thread pool, whichever unit uses it: no job is with two threads (thread_pool.c).
LEMMA FinishKeeps == ASSUME JobsInv, NEW t \in Threads, Finish(t) PROVE JobsInv'
  <1>1. JobTypes'
    BY DEF Finish, JobsInv, JobTypes, NoJob, Job
  <1>2. \A u \in Running' : u \in Running /\ thr'[u] = thr[u]
    BY DEF Finish, JobsInv, JobTypes, Running
  <1> QED
    BY <1>1, <1>2 DEF Finish, JobsInv, JobsOnce

\* Only the steps of a pool move jobs, whichever unit it is in.
LEMMA PoolApart ==
    ASSUME [Next]_vars
    PROVE  \/ PoolStep
           \/ \E t \in Threads : Finish(t)
           \/ \E a : Signal(a) \/ AddWorker(a, "job") \/ AddWorker(a, "rtmq_worker_routine")
                                  \/ AddWorker(a, "sdsd_worker_routine")
           \/ UNCHANGED jobVars
  BY DEF Next, vars, SubStep, SdtpStep, AccessStep, PoolAloneStep, ProxyStep, SdtpWorkStep,
         ShmQueueStep, ShmStep, LogStep, ProxyWorkNext, SdtpWorkNext, LaunchWorkers, SdsdCreatWorktp

\* However threads are woken, and whoever adds jobs, no job of the pool is with two threads
\* and jobs are taken in the order in which they were added (thread_pool.c).
THEOREM PoolJobsOnce == Spec => []JobsOnce
  <1>1. Init => JobsInv
    BY JobsInitially DEF Init
  <1>2. JobsInv /\ [Next]_vars => JobsInv'
    <2> SUFFICES ASSUME JobsInv, [Next]_vars PROVE JobsInv'
      OBVIOUS
    <2>1. CASE UNCHANGED jobVars
      BY <2>1 DEF JobsInv, JobTypes, JobsOnce, Running, jobVars
    <2> QED
      BY <2>1, PoolApart, PoolStepKeeps, FinishKeeps, SignalKeeps, AddWorkerKeeps
  <1>3. JobsInv => JobsOnce
    BY DEF JobsInv
  <1> QED
    BY <1>1, <1>2, <1>3, PTL DEF Spec
=============================================================================
