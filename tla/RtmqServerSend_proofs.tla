------------------------ MODULE RtmqServerSend_proofs ------------------------
(***************************************************************************)
(* The server's outbound pipeline for every number of threads, queues,     *)
(* connections and nodes: types, the life of a connection, and from it     *)
(* that messages reach their node only and the answer to authentication    *)
(* comes first.                                                            *)
(***************************************************************************)
EXTENDS RtmqServerSend, SequenceTheorems, FiniteSetTheorems, TLAPS

-----------------------------------------------------------------------------
(* Lemmas about the operators. *)

\* A set of numbers has a least one.
LEMMA Least ==
    ASSUME NEW S \in SUBSET Nat, S # {}
    PROVE  Min(S) \in S /\ \A y \in S : Min(S) <= y
  <1>1. PICK x \in S : \A y \in S : <<y, x>> \notin OpToRel(<, Nat)
    BY WFMin, NatLessThanWellFounded
  <1>2. \A y \in S : x <= y
    <2> SUFFICES ASSUME NEW y \in S PROVE x <= y
      OBVIOUS
    <2>1. ~(y < x)
      BY <1>1 DEF OpToRel
    <2>2. QED
      BY <2>1
  <1>3. QED
    BY <1>2 DEF Min

\* A set of connections has a first one.
LEMMA First ==
    ASSUME NEW S \in SUBSET Conns, S # {}
    PROVE  Min(S) \in S
  BY ServerAssumption, Least DEF Conns

\* The entry a removal finds.
LEMMA Found ==
    ASSUME NEW e \in Seq(Rsvrs), NEW r \in ToSet(e)
    PROVE  LET k == Min({j \in DOMAIN e : e[j] = r}) IN k \in 1..Len(e) /\ e[k] = r
  <1> DEFINE I == {j \in DOMAIN e : e[j] = r}
  <1>1. I \in SUBSET Nat /\ I # {}
    BY DEF ToSet
  <1>2. Min(I) \in I
    BY <1>1, Least
  <1>3. QED
    BY <1>2

\* A removal leaves entries of threads.
LEMMA UnmapTyped ==
    ASSUME NEW e \in Seq(Rsvrs), NEW r
    PROVE  /\ Unmap(e, r) \in Seq(Rsvrs)
           /\ r \in ToSet(e) => Len(Unmap(e, r)) = Len(e) - 1
  <1>1. CASE r \notin ToSet(e)
    BY <1>1 DEF Unmap
  <1>2. CASE r \in ToSet(e)
    <2> DEFINE k == Min({j \in DOMAIN e : e[j] = r})
    <2>1. k \in 1..Len(e)
      BY <1>2, Found
    <2> HIDE DEF k
    <2>2. [e EXCEPT ![k] = e[Len(e)]] \in Seq(Rsvrs) /\ Len([e EXCEPT ![k] = e[Len(e)]]) = Len(e)
      BY <2>1
    <2>3. Unmap(e, r) = SubSeq([e EXCEPT ![k] = e[Len(e)]], 1, Len(e) - 1)
      BY <1>2 DEF Unmap, k
    <2>4. QED
      BY <2>1, <2>2, <2>3
  <1>3. QED
    BY <1>1, <1>2

\* What is sent are messages.
LEMMA MessagesMade ==
    /\ \A k \in 1..MaxSend, s \in Senders, q \in Distqs, n \in Nodes : Exp(k, s, q, n) \in Orders
    /\ \A c \in Conns : AuthAck(c) \in Messages /\ KpAck(c) \in Messages
    /\ Orders \subseteq Messages
    /\ \A m \in Orders : m.dest \in Nodes
  BY DEF Exp, AuthAck, KpAck, Messages, Orders

\* The elements of what sequences are made of.
LEMMA AppendElements ==
    ASSUME NEW S, NEW s \in Seq(S), NEW m \in S
    PROVE  ToSet(Append(s, m)) = ToSet(s) \cup {m}
  <1>1. /\ Append(s, m) \in Seq(S) /\ Len(Append(s, m)) = Len(s) + 1
        /\ \A k \in 1..Len(s) : Append(s, m)[k] = s[k]
        /\ Append(s, m)[Len(s) + 1] = m
    OBVIOUS
  <1>2. QED
    BY <1>1 DEF ToSet

LEMMA ConcatElements ==
    ASSUME NEW S, NEW s \in Seq(S), NEW t \in Seq(S)
    PROVE  ToSet(s \o t) \subseteq ToSet(s) \cup ToSet(t)
  <1>1. \A k \in 1..(Len(s) + Len(t)) :
           (s \o t)[k] = IF k <= Len(s) THEN s[k] ELSE t[k - Len(s)]
    OBVIOUS
  <1>2. s \o t \in Seq(S) /\ Len(s \o t) = Len(s) + Len(t)
    OBVIOUS
  <1>3. QED
    BY <1>1, <1>2 DEF ToSet

LEMMA SubSeqElements ==
    ASSUME NEW S, NEW s \in Seq(S), NEW i \in Nat \ {0}, NEW j \in 0..Len(s)
    PROVE  ToSet(SubSeq(s, i, j)) \subseteq ToSet(s)
  BY DEF ToSet

\* The parts of a sequence that is not empty, and of any sequence.
LEMMA Parts ==
    ASSUME NEW S, NEW s \in Seq(S)
    PROVE  /\ s # <<>> => Head(s) \in S /\ Tail(s) \in Seq(S)
           /\ ToSet(s) \subseteq S
  BY DEF ToSet

\* A queue of one of several is emptied, or takes one more.
LEMMA Emptied ==
    ASSUME NEW I, NEW S, NEW f \in [I -> Seq(S)], NEW i
    PROVE  [f EXCEPT ![i] = <<>>] \in [I -> Seq(S)]
  <1>1. <<>> \in Seq(S)
    OBVIOUS
  <1>2. QED
    BY <1>1, Zenon

LEMMA Appended ==
    ASSUME NEW I, NEW S, NEW f \in [I -> Seq(S)], NEW i \in I, NEW m \in S
    PROVE  [f EXCEPT ![i] = Append(@, m)] \in [I -> Seq(S)]
  <1>1. Append(f[i], m) \in Seq(S)
    OBVIOUS
  <1>2. QED
    BY <1>1

\* A pipe with a command more, or none more, and no pipe emptied.
LEMMA Written ==
    ASSUME NEW f \in [Rsvrs -> Seq({"add", "dist"})], NEW i \in Rsvrs, NEW m \in {"add", "dist"}
    PROVE  LET g == [f EXCEPT ![i] = Write(@, m)]
           IN  /\ g \in [Rsvrs -> Seq({"add", "dist"})]
               /\ \A r \in Rsvrs : f[r] # <<>> => g[r] # <<>>
  <1>1. Write(f[i], m) \in Seq({"add", "dist"}) /\ (f[i] # <<>> => Write(f[i], m) # <<>>)
    BY DEF Write
  <1>2. QED
    BY <1>1

\* The sizes are positive, the bounds natural.
LEMMA Sizes ==
    /\ DistqNum \in Nat \ {0} /\ RsvrNum \in Nat \ {0}
    /\ QueueMax \in Nat \ {0} /\ PipeMax \in Nat \ {0}
    /\ MapMax \in Nat \ {0} /\ IovMax \in Nat \ {0}
    /\ ConnNum \in Nat /\ MaxSend \in Nat
  BY ServerAssumption

-----------------------------------------------------------------------------
(* Types. *)

\* What a thread that stands at a step may rely on.
DsvrStands ==
    /\ dpc = "pop" => d \in Distqs
    /\ dpc \in {"map", "push"} => data # <<>>
    /\ dpc \in {"push", "cmd"} => idx \in Rsvrs

RsvrsStand ==
    /\ \A r \in Rsvrs : rpc[r] = "cmd" => rpipe[r] # <<>>
    /\ \A r \in Rsvrs : rpc[r] \in {"recv", "send"} <=> todo[r] # {}

Typed == TypeOK /\ DsvrStands /\ RsvrsStand

LEMMA InitTyped == Init => Typed
  <1> SUFFICES ASSUME Init PROVE Typed
    OBVIOUS
  <1> USE DEF Init
  <1>1. SendersOK /\ SharedOK
    BY Sizes DEF SendersOK, SharedOK
  <1>2. DsvrOK /\ LsnOK
    BY Sizes DEF DsvrOK, LsnOK
  <1>3. RsvrsOK /\ ConnsOK
    BY Sizes DEF RsvrsOK, ConnsOK, Empty
  <1>4. ClientsOK
    BY ServerAssumption DEF ClientsOK
  <1>5. DsvrStands /\ RsvrsStand
    BY DEF DsvrStands, RsvrsStand
  <1>6. QED
    BY <1>1, <1>2, <1>3, <1>4, <1>5 DEF Typed, TypeOK

LEMMA AsyncSendTyped ==
    ASSUME Typed, NEW s \in Senders, AsyncSend(s)
    PROVE  Typed'
  <1> USE DEF Typed, TypeOK, AsyncSend
  <1>1. made' \in 1..MaxSend /\ made' = made + 1
    BY Sizes DEF SendersOK
  <1>2. SendersOK'
    BY <1>1 DEF SendersOK
  <1>3. SharedOK'
    <2>1. PICK q \in Distqs, n \in Nodes :
             IF Len(distq[q]) < QueueMax
             THEN /\ distq' = [distq EXCEPT ![q] = Append(@, Exp(made', s, q, n))]
                  /\ live' = live \cup {Exp(made', s, q, n)}
             ELSE UNCHANGED <<distq, live>>
      OBVIOUS
    <2> DEFINE m == Exp(made', s, q, n)
    <2>2. m \in Orders /\ m \in Messages
      BY <1>1, MessagesMade
    <2> HIDE DEF m
    <2>3. [distq EXCEPT ![q] = Append(@, m)] \in [Distqs -> Seq(Orders)]
      BY <2>2, Appended DEF SharedOK
    <2>4. distq' \in [Distqs -> Seq(Orders)] /\ live' \subseteq Messages
      BY <2>1, <2>2, <2>3 DEF SharedOK, m
    <2>5. QED
      BY <2>4 DEF SharedOK
  <1>4. (DsvrOK /\ LsnOK /\ RsvrsOK /\ ConnsOK /\ ClientsOK)'
    BY DEF DsvrOK, LsnOK, RsvrsOK, ConnsOK, ClientsOK, dvars, lvars, rvars, cvars, nvars
  <1>5. (DsvrStands /\ RsvrsStand)'
    BY DEF DsvrStands, RsvrsStand, dvars, rvars
  <1>6. QED
    BY <1>2, <1>3, <1>4, <1>5

LEMMA SendDistReqTyped ==
    ASSUME Typed, NEW s \in Senders, SendDistReq(s)
    PROVE  Typed'
  <1> USE DEF Typed, TypeOK, SendDistReq
  <1>1. SendersOK'
    BY DEF SendersOK
  <1>2. SharedOK'
    BY Sizes DEF SharedOK
  <1>3. (DsvrOK /\ LsnOK /\ RsvrsOK /\ ConnsOK /\ ClientsOK)'
    BY DEF DsvrOK, LsnOK, RsvrsOK, ConnsOK, ClientsOK, dvars, lvars, rvars, cvars, nvars
  <1>4. (DsvrStands /\ RsvrsStand)'
    BY DEF DsvrStands, RsvrsStand, dvars, rvars
  <1>5. QED
    BY <1>1, <1>2, <1>3, <1>4

\* The loops of the distribution thread come to a step that can be made.
LEMMA NextMessageStands ==
    ASSUME Typed, data' \in Seq(Orders), d' \in 1..(DistqNum + 1), NextMessage(d')
    PROVE  /\ dpc' \in {"select", "pop", "map"}
           /\ dpc' = "pop" => d' \in Distqs
           /\ dpc' = "map" => data' # <<>>
  BY Sizes DEF NextMessage, Distqs

LEMMA DsvrTyped ==
    ASSUME Typed, DsvrStep
    PROVE  Typed'
  <1> USE DEF Typed, TypeOK
  <1> DEFINE Others == SendersOK /\ LsnOK /\ RsvrsOK /\ ConnsOK /\ ClientsOK
  <1>1. CASE DsvrSelect
    <2>1. Others'
      BY <1>1 DEF DsvrSelect, SendersOK, LsnOK, RsvrsOK, ConnsOK, ClientsOK, svars, lvars,
                  rvars, cvars, nvars
    <2>2. SharedOK'
      BY <1>1, Sizes DEF DsvrSelect, SharedOK
    <2>3. DsvrOK' /\ DsvrStands'
      BY <1>1, Sizes DEF DsvrSelect, DsvrOK, DsvrStands, Distqs
    <2>4. RsvrsStand'
      BY <1>1 DEF DsvrSelect, RsvrsStand, rvars
    <2>5. QED
      BY <2>1, <2>2, <2>3, <2>4
  <1>2. CASE DsvrPop
    <2>1. Others'
      BY <1>2 DEF DsvrPop, SendersOK, LsnOK, RsvrsOK, ConnsOK, ClientsOK, svars, lvars,
                  rvars, cvars, nvars
    <2>2. SharedOK'
      BY <1>2, Emptied DEF DsvrPop, SharedOK
    <2>3. data' \in Seq(Orders) /\ d' \in 1..(DistqNum + 1)
      BY <1>2, Sizes DEF DsvrPop, SharedOK, DsvrStands, Distqs
    <2>4. DsvrOK' /\ DsvrStands'
      BY <1>2, <2>3, NextMessageStands DEF DsvrPop, DsvrOK, DsvrStands
    <2>5. RsvrsStand'
      BY <1>2 DEF DsvrPop, RsvrsStand, rvars
    <2>6. QED
      BY <2>1, <2>2, <2>4, <2>5
  <1>3. ASSUME dpc \in {"map", "push"}, Drop, UNCHANGED <<d, idx>>
        PROVE  DsvrOK' /\ DsvrStands' /\ live' \subseteq live
    <2>1. data' \in Seq(Orders) /\ live' \subseteq live
      BY <1>3, Parts DEF Drop, DsvrOK, DsvrStands
    <2>2. NextMessage(d') /\ d' \in 1..(DistqNum + 1)
      BY <1>3 DEF Drop, DsvrOK
    <2>3. QED
      BY <1>3, <2>1, <2>2, NextMessageStands DEF DsvrOK, DsvrStands
  <1>4. CASE DsvrMap
    <2>1. Others'
      BY <1>4 DEF DsvrMap, SendersOK, LsnOK, RsvrsOK, ConnsOK, ClientsOK, svars, lvars,
                  rvars, cvars, nvars
    <2>2. RsvrsStand'
      BY <1>4 DEF DsvrMap, RsvrsStand, rvars
    <2>3. CASE Drop /\ UNCHANGED idx
      BY <1>3, <1>4, <2>1, <2>2, <2>3 DEF DsvrMap, SharedOK
    <2>4. CASE /\ idx' \in ToSet(map[Head(data).dest])
               /\ dpc' = "push"
               /\ UNCHANGED <<live, data>>
      <3>1. idx' \in Rsvrs
        <4>1. Head(data).dest \in Nodes
          BY <1>4, Parts, MessagesMade DEF DsvrMap, DsvrOK, DsvrStands
        <4>2. ToSet(map[Head(data).dest]) \subseteq Rsvrs
          BY <4>1, Parts DEF SharedOK
        <4>3. QED
          BY <2>4, <4>2
      <3>2. QED
        BY <1>4, <2>1, <2>2, <2>4, <3>1 DEF DsvrMap, SharedOK, DsvrOK, DsvrStands
    <2>5. QED
      BY <1>4, <2>3, <2>4 DEF DsvrMap
  <1>5. CASE DsvrPush
    <2>1. Others'
      BY <1>5 DEF DsvrPush, SendersOK, LsnOK, RsvrsOK, ConnsOK, ClientsOK, svars, lvars,
                  rvars, cvars, nvars
    <2>2. RsvrsStand'
      BY <1>5 DEF DsvrPush, RsvrsStand, rvars
    <2>3. CASE Drop /\ UNCHANGED sendq
      BY <1>3, <1>5, <2>1, <2>2, <2>3 DEF DsvrPush, SharedOK
    <2>4. CASE ~(Drop /\ UNCHANGED sendq)
      <3>1. Head(data) \in Orders /\ data' \in Seq(Orders) /\ idx \in Rsvrs
        BY SMTT(40), <1>5, <2>4, Parts DEF DsvrPush, DsvrOK, DsvrStands
      <3>2. [sendq EXCEPT ![idx] = Append(@, Head(data))] \in [Rsvrs -> Seq(Orders)]
        BY <3>1, Appended DEF SharedOK
      <3>3. SharedOK'
        BY <1>5, <2>4, <3>2 DEF DsvrPush, SharedOK
      <3>4. DsvrOK' /\ DsvrStands'
        BY <1>5, <2>4, <3>1 DEF DsvrPush, DsvrOK, DsvrStands
      <3>5. QED
        BY <2>1, <2>2, <3>3, <3>4
    <2>5. QED
      BY <2>3, <2>4
  <1>6. CASE DsvrCmd
    <2>1. Others'
      BY <1>6 DEF DsvrCmd, SendersOK, LsnOK, RsvrsOK, ConnsOK, ClientsOK, svars, lvars,
                  rvars, cvars, nvars
    <2>2. rpipe' \in [Rsvrs -> Seq({"add", "dist"})]
          /\ \A r \in Rsvrs : rpipe[r] # <<>> => rpipe'[r] # <<>>
      BY <1>6, Written DEF DsvrCmd, SharedOK, DsvrStands
    <2>3. DsvrOK' /\ DsvrStands'
      BY <1>6, NextMessageStands DEF DsvrCmd, DsvrOK, DsvrStands
    <2>4. RsvrsStand'
      BY <1>6, <2>2 DEF DsvrCmd, RsvrsStand, rvars
    <2>5. SharedOK'
      BY <1>6, <2>2 DEF DsvrCmd, SharedOK
    <2>6. QED
      BY <2>1, <2>3, <2>4, <2>5
  <1>7. QED
    BY <1>1, <1>2, <1>4, <1>5, <1>6 DEF DsvrStep

LEMMA ListenerTyped ==
    ASSUME Typed, Accept \/ AddCmd
    PROVE  Typed'
  <1> USE DEF Typed, TypeOK
  <1>1. CASE Accept
    <2>1. sid' \in Conns /\ RsvrOf(sid') \in Rsvrs
      BY <1>1, Sizes DEF Accept, LsnOK, Conns, RsvrOf, Rsvrs
    <2>2. (SendersOK /\ DsvrOK /\ RsvrsOK /\ ConnsOK /\ DsvrStands /\ RsvrsStand)'
      BY <1>1 DEF Accept, SendersOK, DsvrOK, RsvrsOK, ConnsOK, DsvrStands, RsvrsStand, svars,
                  dvars, rvars, cvars
    <2>3. SharedOK'
      BY <1>1, <2>1 DEF Accept, SharedOK
    <2>4. LsnOK' /\ ClientsOK'
      BY <1>1, <2>1, Sizes DEF Accept, LsnOK, ClientsOK, Conns
    <2>5. QED
      BY <2>2, <2>3, <2>4
  <1>2. CASE AddCmd
    <2>1. CASE RsvrOf(sid) \in Rsvrs
      <3>1. /\ rpipe' \in [Rsvrs -> Seq({"add", "dist"})]
            /\ \A r \in Rsvrs : rpipe[r] # <<>> => rpipe'[r] # <<>>
        BY <1>2, <2>1, Written DEF AddCmd, SharedOK
      <3>2. (SendersOK /\ LsnOK /\ DsvrOK /\ RsvrsOK /\ ConnsOK /\ ClientsOK /\ DsvrStands)'
        BY <1>2 DEF AddCmd, SendersOK, LsnOK, DsvrOK, RsvrsOK, ConnsOK, ClientsOK, DsvrStands,
                    svars, dvars, rvars, cvars, nvars
      <3>3. SharedOK' /\ RsvrsStand'
        BY <1>2, <3>1 DEF AddCmd, SharedOK, RsvrsStand, rvars
      <3>4. QED
        BY <3>2, <3>3
    <2>2. CASE RsvrOf(sid) \notin Rsvrs
      <3>1. rpipe' = rpipe
        BY <1>2, <2>2 DEF AddCmd, SharedOK
      <3>2. QED
        BY <1>2, <3>1 DEF AddCmd, SendersOK, SharedOK, LsnOK, DsvrOK, RsvrsOK, ConnsOK, ClientsOK,
                          DsvrStands, RsvrsStand, svars, dvars, rvars, cvars, nvars
    <2>3. QED
      BY <2>1, <2>2
  <1>3. QED
    BY <1>1, <1>2

LEMMA ClientTyped ==
    ASSUME Typed, NEW c \in Conns, ClientKeepalive(c) \/ ClientCloses(c)
    PROVE  Typed'
  <1> USE DEF Typed, TypeOK
  <1>1. (SendersOK /\ LsnOK /\ DsvrOK /\ RsvrsOK /\ ConnsOK /\ DsvrStands /\ RsvrsStand)'
    BY DEF ClientKeepalive, ClientCloses, SendersOK, LsnOK, DsvrOK, RsvrsOK, ConnsOK, DsvrStands,
           RsvrsStand, svars, dvars, lvars, rvars, cvars
  <1>2. SharedOK'
    BY DEF ClientKeepalive, ClientCloses, SharedOK
  <1>3. ClientsOK'
    <2>1. [reqs EXCEPT ![c] = Append(@, "kp")] \in [Conns -> Seq({"auth", "kp"})]
      BY Appended DEF ClientsOK
    <2>2. QED
      BY <2>1 DEF ClientKeepalive, ClientCloses, ClientsOK
  <1>4. QED
    BY <1>1, <1>2, <1>3

\* What a deletion leaves.
LEMMA DelConnTyped ==
    ASSUME Typed, NEW r \in Rsvrs, NEW c \in Conns, NEW n \in Nodes \cup {None},
           DelConn(r, c, n)
    PROVE  /\ conn_list' \in [Rsvrs -> SUBSET Conns]
           /\ map' \in [Nodes -> Seq(Rsvrs)]
           /\ live' \subseteq live
           /\ mesg_list' \in [Conns -> Seq(Messages)]
           /\ wiov' \in [Conns -> [cnt : 0..IovMax, items : Seq(Messages)]]
           /\ gone' \subseteq Conns
  <1> USE DEF Typed, TypeOK, DelConn
  <1>1. map' \in [Nodes -> Seq(Rsvrs)]
    <2>1. CASE n = None
      BY <2>1 DEF SharedOK
    <2>2. CASE n # None
      BY <2>2, UnmapTyped DEF SharedOK
    <2>3. QED
      BY <2>1, <2>2
  <1>2. mesg_list' \in [Conns -> Seq(Messages)]
    BY Emptied DEF ConnsOK
  <1>3. Empty \in [cnt : 0..IovMax, items : Seq(Messages)]
    BY Sizes DEF Empty
  <1>4. wiov' \in [Conns -> [cnt : 0..IovMax, items : Seq(Messages)]]
    BY <1>3 DEF ConnsOK
  <1>5. conn_list' \in [Rsvrs -> SUBSET Conns] /\ gone' \subseteq Conns
    BY DEF RsvrsOK, ConnsOK
  <1>6. QED
    BY <1>1, <1>2, <1>4, <1>5

\* Where a traversal goes on: a thread is in one exactly if it has connections to
\* visit, and never goes to "cmd".
Travels(r) ==
    /\ rpc' \in [Rsvrs -> {"select", "cmd", "dist", "recv", "send"}]
    /\ todo' \in [Rsvrs -> SUBSET Conns]
    /\ rpc'[r] \in {"recv", "send"} <=> todo'[r] # {}
    /\ rpc'[r] # "cmd"
    /\ \A x \in Rsvrs \ {r} : rpc'[x] = rpc[x] /\ todo'[x] = todo[x]

LEMMA AtTravels ==
    ASSUME Typed, NEW r \in Rsvrs, NEW phase \in {"select", "recv", "send"},
           NEW set \in SUBSET Conns, phase = "select" <=> set = {}, At(r, phase, set)
    PROVE  Travels(r)
  BY DEF At, Travels, Typed, TypeOK, RsvrsOK

LEMMA TraversalTravels ==
    ASSUME Typed, NEW r \in Rsvrs, conn_list' \in [Rsvrs -> SUBSET Conns]
    PROVE  /\ \A out : ToSend(r, out) => Travels(r)
           /\ \A in, out : ToRecv(r, in, out) => Travels(r)
           /\ \A c : NextRecv(r, c) /\ todo[r] # {} => Travels(r)
           /\ \A c : NextSend(r, c) /\ todo[r] # {} => Travels(r)
           /\ At(r, "select", {}) => Travels(r)
  <1>1. ASSUME NEW out, ToSend(r, out) PROVE Travels(r)
    <2> DEFINE set == conn_list'[r] \cap out
    <2> DEFINE phase == IF set = {} THEN "select" ELSE "send"
    <2>1. set \in SUBSET Conns /\ (phase = "select" <=> set = {})
          /\ phase \in {"select", "recv", "send"}
      OBVIOUS
    <2>2. At(r, phase, set)
      BY <1>1 DEF ToSend
    <2> HIDE DEF set, phase
    <2>3. QED
      BY <2>1, <2>2, AtTravels
  <1>2. ASSUME NEW in, NEW out, ToRecv(r, in, out) PROVE Travels(r)
    <2> DEFINE set == conn_list'[r] \cap in
    <2>1. CASE set = {}
      BY <1>1, <1>2, <2>1 DEF ToRecv
    <2>2. CASE set # {}
      <3>1. At(r, "recv", set) /\ set \in SUBSET Conns
        BY <1>2, <2>2 DEF ToRecv
      <3> HIDE DEF set
      <3>2. QED
        BY <2>2, <3>1, AtTravels
    <2>3. QED
      BY <2>1, <2>2
  <1>3. ASSUME NEW c, NextRecv(r, c), todo[r] # {} PROVE Travels(r)
    <2>1. CASE todo[r] = {c}
      BY <1>1, <1>3, <2>1 DEF NextRecv
    <2>2. CASE todo[r] # {c}
      <3> DEFINE set == todo[r] \ {c}
      <3>1. At(r, "recv", set) /\ set # {} /\ set \in SUBSET Conns
        BY <1>3, <2>2 DEF NextRecv, Typed, TypeOK, RsvrsOK
      <3> HIDE DEF set
      <3>2. QED
        BY <3>1, AtTravels
    <2>3. QED
      BY <2>1, <2>2
  <1>4. ASSUME NEW c, NextSend(r, c), todo[r] # {} PROVE Travels(r)
    <2> DEFINE set == todo[r] \ {c}
    <2> DEFINE phase == IF todo[r] = {c} THEN "select" ELSE "send"
    <2>1. At(r, phase, set)
      BY <1>4 DEF NextSend
    <2>2. set \in SUBSET Conns /\ (phase = "select" <=> set = {})
          /\ phase \in {"select", "recv", "send"}
      BY <1>4 DEF Typed, TypeOK, RsvrsOK
    <2> HIDE DEF set, phase
    <2>3. QED
      BY <2>1, <2>2, AtTravels
  <1>5. ASSUME At(r, "select", {}) PROVE Travels(r)
    BY <1>5, AtTravels
  <1>6. QED
    BY <1>1, <1>2, <1>3, <1>4, <1>5

\* A thread that travels from here stands well there.
LEMMA TravelsStands ==
    ASSUME Typed, NEW r \in Rsvrs, Travels(r),
           \A x \in Rsvrs \ {r} : rpipe'[x] = rpipe[x]
    PROVE  RsvrsStand'
  BY DEF Typed, TypeOK, RsvrsOK, RsvrsStand, Travels

LEMMA RsvrSelectTyped ==
    ASSUME Typed, NEW r \in Rsvrs, RsvrSelect(r)
    PROVE  Typed'
  <1> USE DEF Typed, TypeOK
  <1>1. (SendersOK /\ LsnOK /\ SharedOK /\ DsvrOK /\ ConnsOK /\ ClientsOK /\ DsvrStands)'
    BY DEF RsvrSelect, SendersOK, SharedOK, LsnOK, DsvrOK, ConnsOK, ClientsOK, DsvrStands,
           svars, dvars, lvars, cvars, nvars
  <1>2. rdset' \in [Rsvrs -> SUBSET Conns] /\ wrset' \in [Rsvrs -> SUBSET Conns]
    BY DEF RsvrSelect, RsvrsOK
  <1>3. CASE rpipe[r] # <<>>
    <2>1. rpc' = [rpc EXCEPT ![r] = "cmd"] /\ todo' = todo
          /\ conn_list' = conn_list /\ batch' = batch /\ rpipe' = rpipe /\ rpc[r] = "select"
      BY <1>3 DEF RsvrSelect
    <2>2. RsvrsOK'
      BY <1>2, <2>1 DEF RsvrsOK
    <2>3. RsvrsStand'
      BY <1>3, <2>1 DEF RsvrsOK, RsvrsStand
    <2>4. QED
      BY <1>1, <2>2, <2>3
  <1>4. CASE rpipe[r] = <<>>
    <2>1. /\ \E in, out : ToRecv(r, in, out)
          /\ conn_list' = conn_list /\ batch' = batch /\ rpipe' = rpipe
      BY <1>4 DEF RsvrSelect
    <2>2. Travels(r)
      BY <2>1, TraversalTravels DEF RsvrsOK
    <2>3. RsvrsOK' /\ RsvrsStand'
      BY <1>2, <2>1, <2>2, TravelsStands DEF RsvrsOK, Travels
    <2>4. QED
      BY <1>1, <2>3
  <1>5. QED
    BY <1>3, <1>4

LEMMA RsvrCmdTyped ==
    ASSUME Typed, NEW r \in Rsvrs, RsvrCmd(r)
    PROVE  Typed'
  <1> USE DEF Typed, TypeOK
  <1>1. (SendersOK /\ LsnOK /\ DsvrOK /\ ConnsOK /\ ClientsOK /\ DsvrStands)'
    BY DEF RsvrCmd, SendersOK, LsnOK, DsvrOK, ConnsOK, ClientsOK, DsvrStands,
           svars, dvars, lvars, cvars, nvars
  <1>2. rpipe[r] \in Seq({"add", "dist"}) /\ rpipe[r] # <<>>
    BY DEF RsvrCmd, SharedOK, RsvrsStand
  <1>3. Tail(rpipe[r]) \in Seq({"add", "dist"})
    BY <1>2, Parts
  <1>4. rpipe' \in [Rsvrs -> Seq({"add", "dist"})] /\ \A x \in Rsvrs \ {r} : rpipe'[x] = rpipe[x]
    BY <1>3 DEF RsvrCmd, SharedOK
  <1>5. CASE Head(rpipe[r]) = "add"
    <2>1. conn_list' \in [Rsvrs -> SUBSET Conns] /\ connq' \in [Rsvrs -> SUBSET Conns]
      <3>1. conn_list[r] \cup connq[r] \in SUBSET Conns /\ {} \in SUBSET Conns
        BY DEF RsvrsOK, SharedOK
      <3>2. /\ conn_list' = [conn_list EXCEPT ![r] = conn_list[r] \cup connq[r]]
            /\ connq' = [connq EXCEPT ![r] = {}]
        BY <1>5 DEF RsvrCmd
      <3> HIDE DEF Typed, TypeOK
      <3>3. conn_list \in [Rsvrs -> SUBSET Conns] /\ connq \in [Rsvrs -> SUBSET Conns]
        BY DEF Typed, TypeOK, RsvrsOK, SharedOK
      <3>4. QED
        BY <3>1, <3>2, <3>3
    <2>2. Travels(r)
      BY <1>5, <2>1, TraversalTravels DEF RsvrCmd
    <2>3. RsvrsStand'
      BY <1>4, <2>2, TravelsStands
    <2>4. SharedOK' /\ RsvrsOK'
      BY <1>4, <2>1, <2>2 DEF RsvrCmd, SharedOK, RsvrsOK, Travels
    <2>5. QED
      BY <1>1, <2>3, <2>4
  <1>6. CASE Head(rpipe[r]) # "add"
    <2>1. rpc' = [rpc EXCEPT ![r] = "dist"] /\ UNCHANGED <<conn_list, connq, todo>>
      BY <1>6 DEF RsvrCmd
    <2>2. SharedOK' /\ RsvrsOK'
      BY <1>4, <2>1 DEF RsvrCmd, SharedOK, RsvrsOK
    <2>3. RsvrsStand'
      BY <1>4, <2>1 DEF RsvrCmd, RsvrsStand, RsvrsOK
    <2>4. QED
      BY <1>1, <2>2, <2>3
  <1>7. QED
    BY <1>5, <1>6

LEMMA RsvrPopTyped ==
    ASSUME Typed, NEW r \in Rsvrs, RsvrPop(r)
    PROVE  Typed'
  <1> USE DEF Typed, TypeOK
  <1>1. (SendersOK /\ LsnOK /\ DsvrOK /\ ConnsOK /\ ClientsOK /\ DsvrStands)'
    BY DEF RsvrPop, SendersOK, LsnOK, DsvrOK, ConnsOK, ClientsOK, DsvrStands,
           svars, dvars, lvars, cvars, nvars
  <1>2. SharedOK'
    BY Emptied DEF RsvrPop, SharedOK
  <1>3. batch' \in [Rsvrs -> Seq(Orders)]
    BY DEF RsvrPop, RsvrsOK, SharedOK
  <1>4. CASE sendq[r] = <<>>
    <2>1. Travels(r)
      BY <1>4, TraversalTravels DEF RsvrPop, RsvrsOK
    <2>2. RsvrsOK'
      BY <1>3, <2>1 DEF RsvrPop, RsvrsOK, Travels
    <2>3. RsvrsStand'
      BY <2>1, TravelsStands DEF RsvrPop
    <2>4. QED
      BY <1>1, <1>2, <2>2, <2>3
  <1>5. CASE sendq[r] # <<>>
    BY <1>1, <1>2, <1>3, <1>5 DEF RsvrPop, RsvrsOK, RsvrsStand
  <1>6. QED
    BY <1>4, <1>5

LEMMA RsvrRouteTyped ==
    ASSUME Typed, NEW r \in Rsvrs, RsvrRoute(r)
    PROVE  Typed'
  <1> USE DEF Typed, TypeOK
  <1>1. (SendersOK /\ LsnOK /\ DsvrOK /\ ClientsOK /\ DsvrStands)'
    BY DEF RsvrRoute, SendersOK, LsnOK, DsvrOK, ClientsOK, DsvrStands,
           svars, dvars, lvars, cvars, nvars
  <1> DEFINE m == Head(batch[r])
  <1>2. m \in Messages /\ Tail(batch[r]) \in Seq(Orders)
    BY Parts, MessagesMade DEF RsvrRoute, RsvrsOK
  <1>3. SharedOK'
    BY DEF RsvrRoute, SharedOK
  <1>4. RsvrsOK' /\ RsvrsStand'
    BY <1>2 DEF RsvrRoute, RsvrsOK, RsvrsStand
  <1>5. ASSUME NEW c \in On(r, m.dest)
        PROVE  [mesg_list EXCEPT ![c] = Append(@, m)] \in [Conns -> Seq(Messages)]
    <2> HIDE DEF m
    <2>1. c \in Conns
      BY <1>5 DEF On, RsvrsOK
    <2>2. QED
      BY <1>2, <2>1, Appended DEF ConnsOK
  <1>6. ConnsOK'
    BY <1>5 DEF RsvrRoute, ConnsOK
  <1>7. QED
    BY <1>1, <1>3, <1>4, <1>6

LEMMA RsvrDropsSilentTyped ==
    ASSUME Typed, NEW r \in Rsvrs, RsvrDropsSilent(r)
    PROVE  Typed'
  <1> USE DEF Typed, TypeOK
  <1>1. PICK c \in Silent \cap conn_list[r] : DelConn(r, c, nid[c])
    BY DEF RsvrDropsSilent
  <1>2. c \in Conns /\ nid[c] \in Nodes \cup {None}
    BY DEF RsvrsOK, ConnsOK
  <1>3. /\ conn_list' \in [Rsvrs -> SUBSET Conns]
        /\ map' \in [Nodes -> Seq(Rsvrs)]
        /\ live' \subseteq live
        /\ mesg_list' \in [Conns -> Seq(Messages)]
        /\ wiov' \in [Conns -> [cnt : 0..IovMax, items : Seq(Messages)]]
        /\ gone' \subseteq Conns
    BY <1>1, <1>2, DelConnTyped
  <1>4. (SendersOK /\ LsnOK /\ DsvrOK /\ ClientsOK /\ DsvrStands)'
    BY DEF RsvrDropsSilent, SendersOK, LsnOK, DsvrOK, ClientsOK, DsvrStands, svars, dvars,
           lvars, nvars
  <1>5. (SharedOK /\ RsvrsOK /\ ConnsOK /\ RsvrsStand)'
    BY <1>3 DEF RsvrDropsSilent, SharedOK, RsvrsOK, ConnsOK, RsvrsStand
  <1>6. QED
    BY <1>4, <1>5

\* An answer on the list of a connection.
LEMMA ReplyTyped ==
    ASSUME Typed, NEW c \in Conns, NEW m \in Messages, Reply(c, m)
    PROVE  mesg_list' \in [Conns -> Seq(Messages)] /\ live' \subseteq Messages
  <1>1. [mesg_list EXCEPT ![c] = Append(@, m)] \in [Conns -> Seq(Messages)]
    BY Appended DEF Typed, TypeOK, ConnsOK
  <1>2. QED
    BY <1>1 DEF Reply, Typed, TypeOK, SharedOK

\* A request changes no more than the connection, the map, the list of the thread.
Handled(r) ==
    /\ live' \subseteq Messages
    /\ map' \in [Nodes -> Seq(Rsvrs)]
    /\ conn_list' \in [Rsvrs -> SUBSET Conns]
    /\ nid' \in [Conns -> Nodes \cup {None}]
    /\ mesg_list' \in [Conns -> Seq(Messages)]
    /\ wiov' \in [Conns -> [cnt : 0..IovMax, items : Seq(Messages)]]
    /\ gone' \subseteq Conns
    /\ UNCHANGED <<rpc, todo>> \/ Travels(r)

LEMMA AuthReqHandled ==
    ASSUME Typed, NEW r \in Rsvrs, NEW c \in todo[r], AuthReq(r, c)
    PROVE  Handled(r)
  <1> USE DEF Typed, TypeOK
  <1> DEFINE n == NodeOf[c]
  <1>1. c \in Conns /\ n \in Nodes /\ todo[r] # {}
    BY ServerAssumption DEF RsvrsOK
  <1>2. CASE Reply(c, AuthAck(c)) /\ UNCHANGED <<conn_list, rpc, todo, wiov, gone>>
    <2>1. mesg_list' \in [Conns -> Seq(Messages)] /\ live' \subseteq Messages
      BY <1>1, <1>2, MessagesMade, ReplyTyped
    <2>2. nid' \in [Conns -> Nodes \cup {None}]
      BY <1>1 DEF AuthReq, ConnsOK
    <2>3. [map EXCEPT ![n] = Append(@, r)] \in [Nodes -> Seq(Rsvrs)]
      BY <1>1, Appended DEF SharedOK
    <2>4. map' \in [Nodes -> Seq(Rsvrs)]
      <3>1. CASE c \in Refused
        BY <3>1 DEF AuthReq, SharedOK
      <3>2. CASE c \notin Refused /\ Len(map[n]) < MapMax
        BY <2>3, <3>2 DEF AuthReq
      <3>3. CASE c \notin Refused /\ ~(Len(map[n]) < MapMax)
        BY <1>1, <3>3, DelConnTyped DEF AuthReq
      <3>4. QED
        BY <3>1, <3>2, <3>3
    <2>5. QED
      BY <1>2, <2>1, <2>2, <2>4 DEF Handled, RsvrsOK, ConnsOK
  <1>3. CASE DelConn(r, c, n) /\ NextRecv(r, c) /\ nid' = [nid EXCEPT ![c] = n]
    <2>1. Travels(r)
      BY <1>1, <1>3, DelConnTyped, TraversalTravels
    <2>2. nid' \in [Conns -> Nodes \cup {None}]
      BY <1>1, <1>3 DEF ConnsOK
    <2>3. QED
      BY <1>1, <1>3, <2>1, <2>2, DelConnTyped DEF Handled, SharedOK
  <1>4. QED
    BY <1>2, <1>3 DEF AuthReq

LEMMA KeepaliveReqHandled ==
    ASSUME Typed, NEW r \in Rsvrs, NEW c \in todo[r], KeepaliveReq(r, c)
    PROVE  Handled(r)
  <1> USE DEF Typed, TypeOK
  <1>1. c \in Conns /\ nid[c] \in Nodes \cup {None} /\ todo[r] # {}
    BY DEF RsvrsOK, ConnsOK
  <1>2. CASE nid[c] # None
    <2>1. mesg_list' \in [Conns -> Seq(Messages)] /\ live' \subseteq Messages
      BY <1>1, <1>2, MessagesMade, ReplyTyped DEF KeepaliveReq
    <2>2. QED
      BY <1>2, <2>1 DEF KeepaliveReq, Handled, SharedOK, RsvrsOK, ConnsOK
  <1>3. CASE nid[c] = None
    <2>1. DelConn(r, c, nid[c]) /\ NextRecv(r, c) /\ nid' = nid
      BY <1>3 DEF KeepaliveReq
    <2>2. Travels(r)
      BY <1>1, <2>1, DelConnTyped, TraversalTravels
    <2>3. QED
      BY <1>1, <2>1, <2>2, DelConnTyped DEF Handled, SharedOK, ConnsOK
  <1>4. QED
    BY <1>2, <1>3

LEMMA RsvrRecvTyped ==
    ASSUME Typed, NEW r \in Rsvrs, RsvrRecv(r)
    PROVE  Typed'
  <1> USE DEF Typed, TypeOK
  <1> DEFINE c == Min(todo[r])
  <1>1. c \in todo[r] /\ c \in Conns
    BY First DEF RsvrRecv, RsvrsStand, RsvrsOK
  <1>2. \/ reqs[c] # <<>> /\ (AuthReq(r, c) \/ KeepaliveReq(r, c))
        \/ /\ reqs[c] = <<>>
           /\ IF c \in hup
              THEN DelConn(r, c, nid[c])
              ELSE UNCHANGED <<live, map, conn_list, mesg_list, wiov, gone>>
           /\ NextRecv(r, c)
           /\ UNCHANGED <<nid, reqs>>
    BY DEF RsvrRecv
  <1>3. /\ UNCHANGED <<distq, sendq, dpipe, rpipe, connq, rdset, wrset, batch, talks, hup, inbox>>
        /\ UNCHANGED <<svars, dvars, lvars>>
    BY DEF RsvrRecv
  <1> HIDE DEF c
  <1>4. Handled(r)
    <2>1. CASE reqs[c] # <<>>
      BY <1>1, <1>2, <2>1, AuthReqHandled, KeepaliveReqHandled
    <2>2. CASE reqs[c] = <<>> /\ c \in hup
      <3>1. DelConn(r, c, nid[c]) /\ NextRecv(r, c) /\ nid' = nid
        BY <1>2, <2>2
      <3>2. nid[c] \in Nodes \cup {None} /\ todo[r] # {}
        BY <1>1 DEF ConnsOK
      <3>3. Travels(r)
        BY <1>1, <3>1, <3>2, DelConnTyped, TraversalTravels
      <3>4. QED
        BY <1>1, <3>1, <3>2, <3>3, DelConnTyped DEF Handled, SharedOK, ConnsOK
    <2>3. CASE reqs[c] = <<>> /\ c \notin hup
      <3>1. NextRecv(r, c) /\ UNCHANGED <<live, map, conn_list, mesg_list, wiov, gone, nid>>
        BY <1>2, <2>3
      <3>2. Travels(r)
        BY <1>1, <3>1, TraversalTravels DEF RsvrsOK
      <3>3. QED
        BY <3>1, <3>2 DEF Handled, SharedOK, RsvrsOK, ConnsOK
    <2>4. QED
      BY <2>1, <2>2, <2>3
  <1>5. reqs' \in [Conns -> Seq({"auth", "kp"})]
    <2>1. CASE reqs[c] # <<>>
      <3>1. Tail(reqs[c]) \in Seq({"auth", "kp"})
        BY <1>1, <2>1, Parts DEF ClientsOK
      <3>2. reqs' = [reqs EXCEPT ![c] = Tail(reqs[c])]
        BY <1>2, <2>1 DEF AuthReq, KeepaliveReq, Read
      <3>3. QED
        BY <3>1, <3>2 DEF ClientsOK
    <2>2. CASE reqs[c] = <<>>
      BY <1>2, <2>2 DEF ClientsOK
    <2>3. QED
      BY <2>1, <2>2
  <1>6. (SendersOK /\ LsnOK /\ DsvrOK /\ DsvrStands)'
    BY <1>3 DEF SendersOK, LsnOK, DsvrOK, DsvrStands, svars, dvars, lvars
  <1>7. (SharedOK /\ ConnsOK /\ ClientsOK)'
    BY <1>3, <1>4, <1>5 DEF SharedOK, ConnsOK, ClientsOK, Handled
  <1>8. RsvrsOK' /\ RsvrsStand'
    <2>1. CASE UNCHANGED <<rpc, todo>>
      BY <1>3, <1>4, <2>1 DEF RsvrsOK, RsvrsStand, Handled
    <2>2. CASE Travels(r)
      BY <1>3, <1>4, <2>2, TravelsStands DEF RsvrsOK, Handled, Travels
    <2>3. QED
      BY <1>4, <2>1, <2>2 DEF Handled
  <1>9. QED
    BY <1>6, <1>7, <1>8

\* What is moved to a write vector fits, and what is left is on the list.
LEMMA RoomTyped ==
    ASSUME Typed, NEW c \in Conns
    PROVE  /\ mesg_list[c] \in Seq(Messages)
           /\ wiov[c] \in [cnt : 0..IovMax, items : Seq(Messages)]
           /\ Room(c) \in 0..Len(mesg_list[c])
           /\ wiov[c].cnt + Room(c) \in 0..IovMax
  <1>1. mesg_list[c] \in Seq(Messages) /\ wiov[c] \in [cnt : 0..IovMax, items : Seq(Messages)]
    BY DEF Typed, TypeOK, ConnsOK
  <1>2. Len(mesg_list[c]) \in Nat /\ wiov[c].cnt \in 0..IovMax /\ IovMax \in Nat
    BY <1>1, Sizes
  <1>3. QED
    BY <1>1, <1>2 DEF Room

LEMMA FillTyped ==
    ASSUME Typed, NEW c \in Conns
    PROVE  /\ Fill(c) \in [cnt : 0..IovMax, items : Seq(Messages)]
           /\ SubSeq(mesg_list[c], Room(c) + 1, Len(mesg_list[c])) \in Seq(Messages)
  <1>1. /\ mesg_list[c] \in Seq(Messages)
        /\ wiov[c].items \in Seq(Messages)
        /\ Room(c) \in 0..Len(mesg_list[c])
        /\ wiov[c].cnt + Room(c) \in 0..IovMax
    BY RoomTyped
  <1>2. /\ SubSeq(mesg_list[c], 1, Room(c)) \in Seq(Messages)
        /\ SubSeq(mesg_list[c], Room(c) + 1, Len(mesg_list[c])) \in Seq(Messages)
    BY <1>1
  <1>3. wiov[c].items \o SubSeq(mesg_list[c], 1, Room(c)) \in Seq(Messages)
    BY <1>1, <1>2
  <1>4. QED
    BY <1>1, <1>2, <1>3 DEF Fill

LEMMA AdjustTyped ==
    ASSUME NEW w \in [cnt : 0..IovMax, items : Seq(Messages)], NEW k \in 1..Len(w.items)
    PROVE  /\ Adjust(w, k) \in [cnt : 0..IovMax, items : Seq(Messages)]
           /\ SubSeq(w.items, 1, k) \in Seq(Messages)
  <1>1. w.items \in Seq(Messages) /\ w.cnt \in 0..IovMax
    OBVIOUS
  <1>2. SubSeq(w.items, k + 1, Len(w.items)) \in Seq(Messages)
        /\ SubSeq(w.items, 1, k) \in Seq(Messages)
    BY <1>1
  <1>3. QED
    BY <1>1, <1>2, Sizes DEF Adjust, Empty

LEMMA RsvrSendTyped ==
    ASSUME Typed, NEW r \in Rsvrs, RsvrSend(r)
    PROVE  Typed'
  <1> USE DEF Typed, TypeOK
  <1> DEFINE c == Min(todo[r])
             w == Fill(c)
  <1>1. c \in todo[r] /\ c \in Conns /\ todo[r] # {}
    BY First DEF RsvrSend, RsvrsStand, RsvrsOK
  <1>2. \/ \E k \in 1..Len(w.items) :
              LET out == SubSeq(w.items, 1, k)
              IN  /\ wiov' = [wiov EXCEPT ![c] = Adjust(w, k)]
                  /\ mesg_list' = [mesg_list EXCEPT ![c] = SubSeq(@, Room(c) + 1, Len(@))]
                  /\ live' = live \ ToSet(out)
                  /\ inbox' = IF c \in hup THEN inbox ELSE [inbox EXCEPT ![c] = @ \o out]
                  /\ NextSend(r, c)
                  /\ UNCHANGED <<map, conn_list, gone>>
        \/ /\ c \in hup
           /\ DelConn(r, c, nid[c])
           /\ At(r, "select", {})
           /\ UNCHANGED inbox
    BY DEF RsvrSend
  <1>3. /\ UNCHANGED <<distq, sendq, dpipe, rpipe, connq, rdset, wrset, batch, nid>>
        /\ UNCHANGED <<svars, dvars, lvars, nvars>>
    BY DEF RsvrSend
  <1> HIDE DEF c, w
  <1>4. Handled(r) /\ Travels(r) /\ inbox' \in [Conns -> Seq(Messages)]
    <2>1. CASE c \in hup /\ DelConn(r, c, nid[c]) /\ At(r, "select", {}) /\ UNCHANGED inbox
      <3>1. nid[c] \in Nodes \cup {None}
        BY <1>1 DEF ConnsOK
      <3>2. Travels(r)
        BY <1>1, <2>1, <3>1, DelConnTyped, TraversalTravels
      <3>3. QED
        BY <1>1, <1>3, <2>1, <3>1, <3>2, DelConnTyped DEF Handled, SharedOK, ConnsOK, ClientsOK
    <2>2. ASSUME NEW k \in 1..Len(w.items),
                 /\ wiov' = [wiov EXCEPT ![c] = Adjust(w, k)]
                 /\ mesg_list' = [mesg_list EXCEPT ![c] = SubSeq(@, Room(c) + 1, Len(@))]
                 /\ live' = live \ ToSet(SubSeq(w.items, 1, k))
                 /\ inbox' = IF c \in hup THEN inbox
                             ELSE [inbox EXCEPT ![c] = @ \o SubSeq(w.items, 1, k)]
                 /\ NextSend(r, c)
                 /\ UNCHANGED <<map, conn_list, gone>>
          PROVE  Handled(r) /\ Travels(r) /\ inbox' \in [Conns -> Seq(Messages)]
      <3>1. w \in [cnt : 0..IovMax, items : Seq(Messages)]
        BY <1>1, FillTyped DEF w
      <3>2. /\ Adjust(w, k) \in [cnt : 0..IovMax, items : Seq(Messages)]
            /\ SubSeq(w.items, 1, k) \in Seq(Messages)
        BY <3>1, AdjustTyped
      <3>3. wiov' \in [Conns -> [cnt : 0..IovMax, items : Seq(Messages)]]
        BY <2>2, <3>2 DEF ConnsOK
      <3>4. mesg_list' \in [Conns -> Seq(Messages)]
        BY <1>1, <2>2, FillTyped DEF ConnsOK
      <3>5. inbox[c] \o SubSeq(w.items, 1, k) \in Seq(Messages)
        BY <1>1, <3>2 DEF ClientsOK
      <3>6. inbox' \in [Conns -> Seq(Messages)]
        BY <2>2, <3>5 DEF ClientsOK
      <3>7. live' \subseteq Messages
        BY <2>2 DEF SharedOK
      <3>8. Travels(r)
        BY <1>1, <2>2, TraversalTravels DEF RsvrsOK
      <3>9. QED
        BY <1>3, <2>2, <3>3, <3>4, <3>6, <3>7, <3>8 DEF Handled, SharedOK, RsvrsOK, ConnsOK
    <2>3. QED
      BY <1>2, <2>1, <2>2
  <1>5. (SendersOK /\ LsnOK /\ DsvrOK /\ DsvrStands)'
    BY <1>3 DEF SendersOK, LsnOK, DsvrOK, DsvrStands, svars, dvars, lvars
  <1>6. (SharedOK /\ ConnsOK /\ ClientsOK)'
    BY <1>3, <1>4 DEF SharedOK, ConnsOK, ClientsOK, Handled, nvars
  <1>7. RsvrsOK' /\ RsvrsStand'
    BY <1>3, <1>4, TravelsStands DEF RsvrsOK, Handled, Travels
  <1>8. QED
    BY <1>5, <1>6, <1>7

LEMMA NextTyped == Typed /\ [Next]_vars => Typed'
  <1> SUFFICES ASSUME Typed, [Next]_vars PROVE Typed'
    OBVIOUS
  <1>1. CASE UNCHANGED vars
    BY <1>1 DEF vars, svars, dvars, lvars, rvars, cvars, nvars, Typed, TypeOK, SendersOK, SharedOK,
                DsvrOK, LsnOK, RsvrsOK, ConnsOK, ClientsOK, DsvrStands, RsvrsStand
  <1>2. ASSUME NEW s \in Senders, AsyncSend(s) \/ SendDistReq(s) PROVE Typed'
    BY <1>2, AsyncSendTyped, SendDistReqTyped
  <1>3. CASE DsvrStep
    BY <1>3, DsvrTyped
  <1>4. CASE Accept \/ AddCmd
    BY <1>4, ListenerTyped
  <1>5. ASSUME NEW c \in Conns, ClientKeepalive(c) \/ ClientCloses(c) PROVE Typed'
    BY <1>5, ClientTyped
  <1>6. ASSUME NEW r \in Rsvrs, RsvrDropsSilent(r) \/ RsvrStep(r) PROVE Typed'
    BY <1>6, RsvrDropsSilentTyped, RsvrSelectTyped, RsvrCmdTyped, RsvrPopTyped, RsvrRouteTyped,
       RsvrRecvTyped, RsvrSendTyped DEF RsvrStep
  <1>7. QED
    BY <1>1, <1>2, <1>3, <1>4, <1>5, <1>6 DEF Next

\* Every variable keeps its type, and a thread finds at each of its steps what the
\* step needs: a queue to pop, a message to route, a thread the map has named, a
\* command to read, a connection to visit.
THEOREM TypeCorrect == Spec => []TypeOK
  <1>1. Typed => TypeOK
    BY DEF Typed
  <1>2. QED
    BY <1>1, InitTyped, NextTyped, PTL DEF Spec

-----------------------------------------------------------------------------
(* Messages reach their node only. *)

\* A connection is authenticated as its node, with the right password.
NidRight == \A c \in Conns : nid[c] # None => nid[c] = NodeOf[c] /\ c \notin Refused

\* What a client has got or the server has for it.
OnWay(c) == ToSet(inbox[c]) \cup Blocks(c)

Routed == \A c \in Conns : \A m \in OnWay(c) :
              m.kind = "exp" => m.dest = NodeOf[c] /\ c \notin Refused

RoutedInv == Typed /\ NidRight /\ Routed

\* A deletion takes what the server has for a connection.
LEMMA DelConnEmpties ==
    ASSUME Typed, NEW r, NEW c \in Conns, NEW n, DelConn(r, c, n)
    PROVE  /\ \A x \in Conns \ {c} : mesg_list'[x] = mesg_list[x] /\ wiov'[x] = wiov[x]
           /\ mesg_list'[c] = <<>> /\ wiov'[c].items = <<>>
           /\ \A x \in Rsvrs : conn_list'[x] = IF x = r THEN conn_list[x] \ {c} ELSE conn_list[x]
  BY DEF DelConn, Empty, Typed, TypeOK, ConnsOK, RsvrsOK

LEMMA DelConnRouted ==
    ASSUME Typed, NEW r, NEW c \in Conns, NEW n, DelConn(r, c, n)
    PROVE  \A x \in Conns : Blocks(x)' \subseteq Blocks(x)
  <1> SUFFICES ASSUME NEW x \in Conns PROVE Blocks(x)' \subseteq Blocks(x)
    OBVIOUS
  <1>1. /\ x # c => mesg_list'[x] = mesg_list[x] /\ wiov'[x] = wiov[x]
        /\ x = c => mesg_list'[x] = <<>> /\ wiov'[x].items = <<>>
    BY DelConnEmpties, ZenonT(40)
  <1>2. Blocks(x)' = ToSet(mesg_list'[x]) \cup ToSet(wiov'[x].items)
    BY DEF Blocks
  <1>3. ToSet(<<>>) = {}
    BY DEF ToSet
  <1>4. QED
    BY <1>1, <1>2, <1>3 DEF Blocks

LEMMA ReplyRouted ==
    ASSUME Typed, NEW c \in Conns, NEW m \in Messages, m.kind # "exp", Reply(c, m),
           wiov' = wiov
    PROVE  \A x \in Conns : \A y \in Blocks(x)' : y \in Blocks(x) \/ y.kind # "exp"
  <1> SUFFICES ASSUME NEW x \in Conns, NEW y \in Blocks(x)'
               PROVE  y \in Blocks(x) \/ y.kind # "exp"
    OBVIOUS
  <1>1. CASE x # c
    BY <1>1 DEF Reply, Blocks, Typed, TypeOK, ConnsOK
  <1>2. CASE x = c
    <2>1. mesg_list[c] \in Seq(Messages) /\ mesg_list'[c] = Append(mesg_list[c], m)
      BY DEF Reply, Typed, TypeOK, ConnsOK
    <2>2. ToSet(mesg_list'[c]) = ToSet(mesg_list[c]) \cup {m}
      BY <2>1, AppendElements
    <2>3. QED
      BY <1>2, <2>2 DEF Blocks
  <1>3. QED
    BY <1>1, <1>2

LEMMA RecvRouted ==
    ASSUME RoutedInv, NEW r \in Rsvrs, RsvrRecv(r)
    PROVE  NidRight' /\ Routed'
  <1> USE DEF RoutedInv
  <1> DEFINE c == Min(todo[r])
  <1>1. c \in Conns
    BY First DEF RsvrRecv, RsvrsStand, RsvrsOK, Typed, TypeOK
  <1>2. inbox' = inbox
    BY DEF RsvrRecv
  <1>3. /\ \A x \in Conns : \A y \in Blocks(x)' : y \in Blocks(x) \/ y.kind # "exp"
        /\ NidRight'
    <2>1. CASE AuthReq(r, c)
      <3>1. NidRight'
        BY <1>1, <2>1 DEF AuthReq, NidRight, Typed, TypeOK, ConnsOK
      <3>2. CASE Reply(c, AuthAck(c)) /\ wiov' = wiov
        BY <1>1, <3>1, <3>2, ReplyRouted, MessagesMade DEF AuthAck
      <3>3. CASE DelConn(r, c, NodeOf[c])
        BY <1>1, <3>1, <3>3, DelConnRouted
      <3>4. QED
        BY <2>1, <3>2, <3>3 DEF AuthReq
    <2>2. CASE KeepaliveReq(r, c)
      <3>1. NidRight'
        BY <2>2 DEF KeepaliveReq, NidRight
      <3>2. CASE Reply(c, KpAck(c)) /\ wiov' = wiov
        BY <1>1, <3>1, <3>2, ReplyRouted, MessagesMade DEF KpAck
      <3>3. CASE DelConn(r, c, nid[c])
        BY <1>1, <3>1, <3>3, DelConnRouted
      <3>4. QED
        BY <2>2, <3>2, <3>3 DEF KeepaliveReq
    <2>3. CASE DelConn(r, c, nid[c]) /\ nid' = nid
      BY <1>1, <2>3, DelConnRouted DEF NidRight
    <2>4. CASE UNCHANGED <<mesg_list, wiov, nid>>
      BY <2>4 DEF NidRight, Blocks
    <2>5. QED
      BY <2>1, <2>2, <2>3, <2>4 DEF RsvrRecv
  <1>4. QED
    BY <1>2, <1>3 DEF Routed, OnWay

LEMMA RouteRouted ==
    ASSUME RoutedInv, NEW r \in Rsvrs, RsvrRoute(r)
    PROVE  NidRight' /\ Routed'
  <1> USE DEF RoutedInv
  <1> DEFINE m == Head(batch[r])
  <1>1. m \in Orders /\ m \in Messages /\ m.dest \in Nodes
    BY Parts, MessagesMade DEF RsvrRoute, RsvrsOK, Typed, TypeOK
  <1>2. UNCHANGED <<nid, wiov, inbox>>
    BY DEF RsvrRoute
  <1>3. \/ UNCHANGED mesg_list
        \/ \E c \in On(r, m.dest) : mesg_list' = [mesg_list EXCEPT ![c] = Append(@, m)]
    BY DEF RsvrRoute
  <1> HIDE DEF m
  <1>4. NidRight'
    BY <1>2 DEF NidRight
  <1>5. CASE UNCHANGED mesg_list
    BY <1>2, <1>4, <1>5 DEF Routed, OnWay, Blocks
  <1>6. ASSUME NEW c \in On(r, m.dest), mesg_list' = [mesg_list EXCEPT ![c] = Append(@, m)]
        PROVE  Routed'
    <2>1. c \in Conns /\ NodeOf[c] = m.dest /\ c \notin Refused
      BY <1>1, ServerAssumption DEF On, NidRight, Typed, TypeOK, RsvrsOK
    <2>2. mesg_list[c] \in Seq(Messages) /\ mesg_list'[c] = Append(mesg_list[c], m)
      BY <1>6, <2>1 DEF Typed, TypeOK, ConnsOK
    <2>3. OnWay(c)' = OnWay(c) \cup {m}
      BY <1>1, <1>2, <2>2, AppendElements DEF OnWay, Blocks
    <2>4. \A x \in Conns \ {c} : OnWay(x)' = OnWay(x)
      BY <1>2, <1>6 DEF OnWay, Blocks, Typed, TypeOK, ConnsOK
    <2>5. QED
      BY <2>1, <2>3, <2>4 DEF Routed
  <1>7. QED
    BY <1>3, <1>4, <1>5, <1>6

\* The two outcomes of a write, for the connection it is for.
Wrote(r, c, k) ==
    LET w   == Fill(c)
        out == SubSeq(w.items, 1, k)
    IN  /\ wiov' = [wiov EXCEPT ![c] = Adjust(w, k)]
        /\ mesg_list' = [mesg_list EXCEPT ![c] = SubSeq(@, Room(c) + 1, Len(@))]
        /\ inbox' = IF c \in hup THEN inbox ELSE [inbox EXCEPT ![c] = @ \o out]
        /\ NextSend(r, c)
        /\ UNCHANGED <<map, conn_list, gone, nid, hup>>

Failed(r, c) ==
    /\ c \in hup
    /\ DelConn(r, c, nid[c])
    /\ At(r, "select", {})
    /\ UNCHANGED <<inbox, nid, hup>>

LEMMA SendCases ==
    ASSUME Typed, NEW r \in Rsvrs, RsvrSend(r)
    PROVE  \E c \in todo[r] \cap Conns :
              Failed(r, c) \/ \E k \in 1..Len(Fill(c).items) : Wrote(r, c, k)
  <1> DEFINE c == Min(todo[r])
  <1>1. c \in todo[r] \cap Conns
    BY First DEF RsvrSend, RsvrsStand, RsvrsOK, Typed, TypeOK
  <1>2. Failed(r, c) \/ \E k \in 1..Len(Fill(c).items) : Wrote(r, c, k)
    BY DEF RsvrSend, Failed, Wrote, nvars
  <1>3. QED
    BY <1>1, <1>2

LEMMA SendRouted ==
    ASSUME RoutedInv, NEW r \in Rsvrs, RsvrSend(r)
    PROVE  NidRight' /\ Routed'
  <1> USE DEF RoutedInv
  <1>1. PICK c \in todo[r] \cap Conns :
           Failed(r, c) \/ \E k \in 1..Len(Fill(c).items) : Wrote(r, c, k)
    BY SendCases
  <1>2. NidRight'
    BY DEF RsvrSend, NidRight
  <1>3. CASE Failed(r, c)
    <2>1. \A x \in Conns : Blocks(x)' \subseteq Blocks(x)
      BY <1>3, DelConnRouted DEF Failed
    <2>2. \A x \in Conns : OnWay(x)' \subseteq OnWay(x)
      BY <1>3, <2>1 DEF Failed, OnWay
    <2>3. QED
      BY <1>2, <2>2 DEF Routed
  <1>4. ASSUME NEW k \in 1..Len(Fill(c).items), Wrote(r, c, k)
        PROVE  Routed'
    <2> DEFINE w == Fill(c)
               n == Room(c)
               list == mesg_list[c]
    <2>1. /\ list \in Seq(Messages) /\ wiov[c].items \in Seq(Messages)
          /\ n \in 0..Len(list) /\ w.items \in Seq(Messages)
          /\ inbox[c] \in Seq(Messages)
      BY RoomTyped, FillTyped DEF Typed, TypeOK, ClientsOK
    <2>2. SubSeq(list, 1, n) \in Seq(Messages) /\ SubSeq(w.items, 1, k) \in Seq(Messages)
      BY <2>1
    <2>3. ToSet(w.items) \subseteq ToSet(wiov[c].items) \cup ToSet(SubSeq(list, 1, n))
      <3>1. w.items = wiov[c].items \o SubSeq(list, 1, n)
        BY DEF Fill
      <3> HIDE DEF w
      <3>2. QED
        BY <2>1, <2>2, <3>1, ConcatElements
    <2>4. /\ ToSet(SubSeq(list, 1, n)) \subseteq ToSet(list)
          /\ ToSet(SubSeq(list, n + 1, Len(list))) \subseteq ToSet(list)
      BY <2>1, SubSeqElements
    <2>5. /\ ToSet(SubSeq(w.items, 1, k)) \subseteq ToSet(w.items)
          /\ ToSet(SubSeq(w.items, k + 1, Len(w.items))) \subseteq ToSet(w.items)
      <3>1. k \in 1..Len(w.items)
        OBVIOUS
      <3> DEFINE v == w.items
      <3>2. v \in Seq(Messages) /\ k \in 1..Len(v)
        BY <2>1, <3>1
      <3> HIDE DEF v
      <3>3. 1 \in Nat \ {0} /\ k + 1 \in Nat \ {0} /\ k \in 0..Len(v) /\ Len(v) \in 0..Len(v)
        BY <3>2
      <3>4. ToSet(SubSeq(v, 1, k)) \subseteq ToSet(v)
        BY <3>2, <3>3, SubSeqElements
      <3>5. ToSet(SubSeq(v, k + 1, Len(v))) \subseteq ToSet(v)
        BY <3>2, <3>3, SubSeqElements
      <3>6. QED
        BY <3>4, <3>5 DEF v
    <2>6. ToSet(Adjust(w, k).items) \subseteq ToSet(w.items)
      BY <2>5 DEF Adjust, Empty, ToSet
    <2>7. /\ mesg_list'[c] = SubSeq(list, n + 1, Len(list))
          /\ wiov'[c] = Adjust(w, k)
          /\ inbox'[c] = inbox[c] \/ inbox'[c] = inbox[c] \o SubSeq(w.items, 1, k)
          /\ \A x \in Conns \ {c} : OnWay(x)' = OnWay(x)
      BY <1>4 DEF Wrote, Typed, TypeOK, ConnsOK, ClientsOK, OnWay, Blocks
    <2>8. ToSet(inbox'[c]) \subseteq ToSet(inbox[c]) \cup ToSet(SubSeq(w.items, 1, k))
      <3> HIDE DEF w
      <3>1. QED
        BY <2>1, <2>2, <2>7, ConcatElements
    <2>9. OnWay(c)' = ToSet(inbox'[c]) \cup ToSet(mesg_list'[c]) \cup ToSet(wiov'[c].items)
      BY DEF OnWay, Blocks
    <2> HIDE DEF w, n, list
    <2>10. OnWay(c)' \subseteq ToSet(inbox[c]) \cup ToSet(list) \cup ToSet(wiov[c].items)
      BY <2>3, <2>4, <2>5, <2>6, <2>7, <2>8, <2>9
    <2>11. OnWay(c)' \subseteq OnWay(c)
      BY <2>10 DEF OnWay, Blocks, list
    <2>12. QED
      BY <1>4, <2>7, <2>11 DEF Routed
  <1>5. QED
    BY <1>1, <1>2, <1>3, <1>4

\* Only receiving threads touch what is for a connection.
LEMMA OthersKeep ==
    ASSUME \/ \E s \in Senders : AsyncSend(s) \/ SendDistReq(s)
           \/ DsvrStep
           \/ Accept \/ AddCmd
           \/ \E c \in Conns : ClientKeepalive(c) \/ ClientCloses(c)
           \/ \E r \in Rsvrs : RsvrSelect(r) \/ RsvrCmd(r) \/ RsvrPop(r)
           \/ UNCHANGED vars
    PROVE  UNCHANGED <<nid, mesg_list, wiov, inbox>>
  BY DEF AsyncSend, SendDistReq, DsvrStep, DsvrSelect, DsvrPop, DsvrMap, DsvrPush, DsvrCmd,
         Accept, AddCmd, ClientKeepalive, ClientCloses, RsvrSelect, RsvrCmd, RsvrPop, vars, cvars

LEMMA NextRouted == RoutedInv /\ [Next]_vars => RoutedInv'
  <1> SUFFICES ASSUME RoutedInv, [Next]_vars PROVE RoutedInv'
    OBVIOUS
  <1>1. Typed'
    BY NextTyped DEF RoutedInv
  <1>2. CASE UNCHANGED <<nid, mesg_list, wiov, inbox>>
    <2>1. \A x \in Conns : OnWay(x)' = OnWay(x)
      BY <1>2 DEF OnWay, Blocks
    <2>2. NidRight' /\ Routed'
      BY <1>2, <2>1 DEF RoutedInv, NidRight, Routed
    <2>3. QED
      BY <1>1, <2>2 DEF RoutedInv
  <1>3. ASSUME NEW r \in Rsvrs, RsvrDropsSilent(r) PROVE NidRight' /\ Routed'
    <2>1. PICK c \in Silent \cap conn_list[r] : DelConn(r, c, nid[c])
      BY <1>3 DEF RsvrDropsSilent
    <2>2. c \in Conns
      BY DEF RoutedInv, Typed, TypeOK, RsvrsOK
    <2>3. \A x \in Conns : Blocks(x)' \subseteq Blocks(x)
      BY <2>1, <2>2, DelConnRouted DEF RoutedInv
    <2>4. nid' = nid /\ inbox' = inbox
      BY <1>3 DEF RsvrDropsSilent
    <2>5. QED
      BY <2>3, <2>4 DEF RoutedInv, NidRight, Routed, OnWay
  <1>4. ASSUME NEW r \in Rsvrs, RsvrRoute(r) \/ RsvrRecv(r) \/ RsvrSend(r)
        PROVE  NidRight' /\ Routed'
    BY <1>4, RouteRouted, RecvRouted, SendRouted
  <1>5. QED
    BY <1>1, <1>2, <1>3, <1>4, OthersKeep DEF Next, RsvrStep, RoutedInv

LEMMA InitRouted == Init => RoutedInv
  BY InitTyped DEF Init, RoutedInv, NidRight, Routed, OnWay, Blocks, Empty, ToSet

\* A message is on the way to, or has reached, only a client of the node it is
\* addressed to that has authenticated with the right password, whatever the
\* threads do and however connections come and go.
THEOREM RightNodeHolds == Spec => []RightNode
  <1>1. Init => RoutedInv
    BY InitRouted
  <1>2. RoutedInv => RightNode
    <2> SUFFICES ASSUME RoutedInv, NEW c \in Conns,
                        NEW m \in ToSet(inbox[c] \o wiov[c].items \o mesg_list[c])
                 PROVE  m \in OnWay(c)
      BY DEF RightNode, RoutedInv, Routed
    <2>1. /\ inbox[c] \in Seq(Messages) /\ wiov[c].items \in Seq(Messages)
          /\ mesg_list[c] \in Seq(Messages)
      BY DEF RoutedInv, Typed, TypeOK, ConnsOK, ClientsOK
    <2>2. inbox[c] \o wiov[c].items \in Seq(Messages)
      BY <2>1
    <2> DEFINE a == inbox[c]
               b == wiov[c].items
               l == mesg_list[c]
    <2> HIDE DEF a, b, l
    <2>3. ToSet((a \o b) \o l) \subseteq ToSet(a \o b) \cup ToSet(l)
      BY <2>1, <2>2, ConcatElements DEF a, b, l
    <2>4. ToSet(a \o b) \subseteq ToSet(a) \cup ToSet(b)
      BY <2>1, ConcatElements DEF a, b
    <2>5. QED
      BY <2>3, <2>4 DEF OnWay, Blocks, a, b, l
  <1>3. QED
    BY <1>1, <1>2, NextRouted, PTL DEF Spec

-----------------------------------------------------------------------------
(* The life of a connection. *)

\* A connection waits in the queue of its thread, is on the list of that thread, is
\* gone; it is not authenticated before it is on the list.
ConnsKept ==
    /\ \A r \in Rsvrs : \A c \in connq[r] \cup conn_list[r] : c <= sid /\ RsvrOf(c) = r
    /\ \A r \in Rsvrs : connq[r] \cap conn_list[r] = {}
    /\ \A r \in Rsvrs : todo[r] \subseteq conn_list[r]
    /\ \A c \in Conns : c > sid => nid[c] = None
    /\ \A r \in Rsvrs : \A c \in connq[r] : nid[c] = None

KeptInv == Typed /\ ConnsKept

\* Connections may leave the list of a thread, and one on it be authenticated.
LEMMA ListShrinks ==
    ASSUME KeptInv, Typed', NEW r \in Rsvrs, UNCHANGED <<sid, connq>>,
           \A x \in Rsvrs : conn_list'[x] \subseteq conn_list[x],
           \A x \in Rsvrs : todo'[x] \subseteq conn_list'[x],
           \A c \in Conns : nid'[c] = nid[c] \/ c \in conn_list[r]
    PROVE  ConnsKept'
  <1> USE DEF KeptInv
  <1>1. \A x \in Rsvrs : \A c \in connq'[x] \cup conn_list'[x] : c <= sid' /\ RsvrOf(c) = x
    BY DEF ConnsKept
  <1>2. \A x \in Rsvrs : connq'[x] \cap conn_list'[x] = {}
    BY DEF ConnsKept
  <1>3. \A c \in Conns : c > sid' => nid'[c] = None
    <2> SUFFICES ASSUME NEW c \in Conns, c > sid PROVE nid'[c] = None
      OBVIOUS
    <2>1. sid \in Nat /\ c \in Nat
      BY Sizes DEF Typed, TypeOK, LsnOK, Conns
    <2>2. c \notin conn_list[r]
      BY <2>1 DEF ConnsKept
    <2>3. QED
      BY <2>2 DEF ConnsKept
  <1>4. \A x \in Rsvrs : \A c \in connq'[x] : nid'[c] = None
    <2> SUFFICES ASSUME NEW x \in Rsvrs, NEW c \in connq[x] PROVE nid'[c] = None
      OBVIOUS
    <2>1. c \in Conns /\ c \notin conn_list[r]
      BY DEF ConnsKept, Typed, TypeOK, SharedOK
    <2>2. QED
      BY <2>1 DEF ConnsKept
  <1>5. QED
    BY <1>1, <1>2, <1>3, <1>4 DEF ConnsKept

\* A traversal visits connections of the list.
LEMMA TraversalOnList ==
    ASSUME KeptInv, NEW r \in Rsvrs,
           \A x \in Rsvrs : conn_list'[x] \subseteq conn_list[x] \cup connq[x],
           \A x \in Rsvrs \ {r} : conn_list'[x] = conn_list[x]
    PROVE  /\ \A out : ToSend(r, out) => \A x \in Rsvrs : todo'[x] \subseteq conn_list'[x]
           /\ \A in, out : ToRecv(r, in, out) => \A x \in Rsvrs : todo'[x] \subseteq conn_list'[x]
           /\ \A c : NextRecv(r, c) /\ conn_list[r] \ {c} \subseteq conn_list'[r]
                        => \A x \in Rsvrs : todo'[x] \subseteq conn_list'[x]
           /\ \A c : NextSend(r, c) /\ conn_list[r] \ {c} \subseteq conn_list'[r]
                        => \A x \in Rsvrs : todo'[x] \subseteq conn_list'[x]
           /\ At(r, "select", {}) => \A x \in Rsvrs : todo'[x] \subseteq conn_list'[x]
  <1>1. ASSUME NEW phase, NEW set, At(r, phase, set), set \subseteq conn_list'[r]
        PROVE  \A x \in Rsvrs : todo'[x] \subseteq conn_list'[x]
    BY <1>1 DEF At, KeptInv, ConnsKept, Typed, TypeOK, RsvrsOK
  <1>2. ASSUME NEW out, ToSend(r, out)
        PROVE  \A x \in Rsvrs : todo'[x] \subseteq conn_list'[x]
    BY <1>1, <1>2 DEF ToSend
  <1>3. ASSUME NEW in, NEW out, ToRecv(r, in, out)
        PROVE  \A x \in Rsvrs : todo'[x] \subseteq conn_list'[x]
    BY <1>1, <1>2, <1>3 DEF ToRecv
  <1>4. ASSUME NEW c, conn_list[r] \ {c} \subseteq conn_list'[r]
        PROVE  todo[r] \ {c} \subseteq conn_list'[r]
    BY <1>4 DEF KeptInv, ConnsKept
  <1>5. ASSUME NEW c, NextRecv(r, c), conn_list[r] \ {c} \subseteq conn_list'[r]
        PROVE  \A x \in Rsvrs : todo'[x] \subseteq conn_list'[x]
    BY <1>1, <1>2, <1>4, <1>5 DEF NextRecv
  <1>6. ASSUME NEW c, NextSend(r, c), conn_list[r] \ {c} \subseteq conn_list'[r]
        PROVE  \A x \in Rsvrs : todo'[x] \subseteq conn_list'[x]
    <2> DEFINE set == todo[r] \ {c}
               phase == IF todo[r] = {c} THEN "select" ELSE "send"
    <2>1. At(r, phase, set) /\ set \subseteq conn_list'[r]
      BY <1>4, <1>6 DEF NextSend
    <2> HIDE DEF set, phase
    <2>2. QED
      BY <1>1, <2>1
  <1>7. ASSUME At(r, "select", {}) PROVE \A x \in Rsvrs : todo'[x] \subseteq conn_list'[x]
    BY <1>1, <1>7
  <1>8. QED
    BY <1>2, <1>3, <1>5, <1>6, <1>7

LEMMA AcceptKept ==
    ASSUME KeptInv, Accept
    PROVE  ConnsKept'
  <1> USE DEF KeptInv
  <1>1. sid \in Nat /\ sid' = sid + 1 /\ RsvrOf(sid') \in Rsvrs
    BY Sizes DEF Accept, Typed, TypeOK, LsnOK, RsvrOf, Rsvrs
  <1>2. \A c \in Conns : c \in Nat
    BY Sizes DEF Conns
  <1>3. \A r \in Rsvrs : connq'[r] \subseteq connq[r] \cup {sid'}
                         /\ (sid' \in connq'[r] => RsvrOf(sid') = r \/ sid' \in connq[r])
    BY DEF Accept, Typed, TypeOK, SharedOK
  <1>4. \A r \in Rsvrs : sid' \notin connq[r] \cup conn_list[r]
    BY <1>1 DEF ConnsKept
  <1>5. UNCHANGED <<conn_list, todo, nid>>
    BY DEF Accept, rvars, cvars
  <1>6. \A r \in Rsvrs : \A c \in connq'[r] \cup conn_list'[r] : c <= sid' /\ RsvrOf(c) = r
    <2> SUFFICES ASSUME NEW r \in Rsvrs, NEW c \in connq'[r] \cup conn_list[r]
                 PROVE  c <= sid' /\ RsvrOf(c) = r
      BY <1>5
    <2>1. CASE c \in connq[r] \cup conn_list[r]
      <3>1. c \in Nat
        BY <1>2, <2>1 DEF Typed, TypeOK, SharedOK, RsvrsOK
      <3>2. QED
        BY <1>1, <2>1, <3>1 DEF ConnsKept
    <2>2. CASE c = sid'
      BY <1>1, <1>3, <1>4, <2>2
    <2>3. QED
      BY <1>3, <2>1, <2>2
  <1>7. \A r \in Rsvrs : connq'[r] \cap conn_list'[r] = {}
    BY <1>3, <1>4, <1>5 DEF ConnsKept
  <1>8. \A c \in Conns : c > sid' => nid'[c] = None
    BY <1>1, <1>2, <1>5 DEF ConnsKept
  <1>9. nid[sid'] = None
    BY <1>1, Sizes DEF Accept, ConnsKept, Conns
  <1>10. \A r \in Rsvrs : \A c \in connq'[r] : nid'[c] = None
    BY <1>3, <1>5, <1>9 DEF ConnsKept
  <1>11. QED
    BY <1>5, <1>6, <1>7, <1>8, <1>10 DEF ConnsKept

LEMMA CmdKept ==
    ASSUME KeptInv, NEW r \in Rsvrs, RsvrCmd(r)
    PROVE  ConnsKept'
  <1> USE DEF KeptInv
  <1>1. UNCHANGED <<sid, nid>>
    BY DEF RsvrCmd, lvars, cvars
  <1>2. CASE UNCHANGED <<conn_list, connq, todo>>
    BY <1>1, <1>2 DEF ConnsKept
  <1>3. CASE /\ conn_list' = [conn_list EXCEPT ![r] = @ \cup connq[r]]
             /\ connq' = [connq EXCEPT ![r] = {}]
             /\ ToRecv(r, rdset[r], wrset[r])
    <2>1. \A x \in Rsvrs : /\ conn_list'[x] = IF x = r THEN conn_list[x] \cup connq[x] ELSE conn_list[x]
                           /\ connq'[x] = IF x = r THEN {} ELSE connq[x]
      BY <1>3 DEF Typed, TypeOK, RsvrsOK, SharedOK
    <2>2. \A x \in Rsvrs : todo'[x] \subseteq conn_list'[x]
      BY <1>3, <2>1, TraversalOnList
    <2>3. QED
      BY <1>1, <2>1, <2>2 DEF ConnsKept
  <1>4. QED
    BY <1>2, <1>3 DEF RsvrCmd

\* A step of a receiving thread that deletes a connection, or none.
LEMMA DelConnOnList ==
    ASSUME KeptInv, NEW r \in Rsvrs, NEW c \in Conns, NEW n, DelConn(r, c, n)
    PROVE  /\ \A x \in Rsvrs : conn_list'[x] \subseteq conn_list[x]
           /\ \A x \in Rsvrs \ {r} : conn_list'[x] = conn_list[x]
           /\ conn_list'[r] = conn_list[r] \ {c}
  BY DelConnEmpties DEF KeptInv

LEMMA RecvKept ==
    ASSUME KeptInv, NEW r \in Rsvrs, RsvrRecv(r)
    PROVE  ConnsKept'
  <1> USE DEF KeptInv
  <1> DEFINE c == Min(todo[r])
  <1>1. c \in Conns /\ c \in conn_list[r]
    BY First DEF RsvrRecv, RsvrsStand, RsvrsOK, Typed, TypeOK, ConnsKept
  <1>2. UNCHANGED <<sid, connq>> /\ Typed'
    BY RsvrRecvTyped DEF RsvrRecv, lvars
  <1>3. \/ UNCHANGED <<conn_list, todo>>
        \/ NextRecv(r, c) /\ (UNCHANGED conn_list \/ \E n : DelConn(r, c, n))
    BY DEF RsvrRecv, AuthReq, KeepaliveReq
  <1>4. \A x \in Conns : nid'[x] = nid[x] \/ x = c
    BY DEF RsvrRecv, AuthReq, KeepaliveReq, Typed, TypeOK, ConnsOK
  <1> HIDE DEF c
  <1>5. /\ \A x \in Rsvrs : conn_list'[x] \subseteq conn_list[x]
        /\ \A x \in Rsvrs : todo'[x] \subseteq conn_list'[x]
    <2>1. CASE UNCHANGED <<conn_list, todo>>
      BY <2>1 DEF ConnsKept
    <2>2. CASE NextRecv(r, c) /\ UNCHANGED conn_list
      BY <2>2, TraversalOnList
    <2>3. ASSUME NEW n, NextRecv(r, c), DelConn(r, c, n)
          PROVE  /\ \A x \in Rsvrs : conn_list'[x] \subseteq conn_list[x]
                 /\ \A x \in Rsvrs : todo'[x] \subseteq conn_list'[x]
      BY <1>1, <2>3, DelConnOnList, TraversalOnList
    <2>4. QED
      BY <1>3, <2>1, <2>2, <2>3
  <1>6. QED
    BY <1>1, <1>2, <1>4, <1>5, ListShrinks

LEMMA SendKept ==
    ASSUME KeptInv, NEW r \in Rsvrs, RsvrSend(r)
    PROVE  ConnsKept'
  <1> USE DEF KeptInv
  <1>1. PICK c \in todo[r] \cap Conns :
           Failed(r, c) \/ \E k \in 1..Len(Fill(c).items) : Wrote(r, c, k)
    BY SendCases
  <1>2. UNCHANGED <<sid, connq, nid>> /\ Typed'
    BY RsvrSendTyped DEF RsvrSend, lvars
  <1>3. /\ \A x \in Rsvrs : conn_list'[x] \subseteq conn_list[x]
        /\ \A x \in Rsvrs : todo'[x] \subseteq conn_list'[x]
    <2>1. CASE Failed(r, c)
      BY <2>1, DelConnOnList, TraversalOnList DEF Failed
    <2>2. ASSUME NEW k, Wrote(r, c, k)
          PROVE  UNCHANGED conn_list /\ NextSend(r, c)
      BY <2>2 DEF Wrote
    <2>3. QED
      BY <1>1, <2>1, <2>2, TraversalOnList
  <1>4. QED
    BY <1>2, <1>3, ListShrinks

LEMMA NextKept == KeptInv /\ [Next]_vars => KeptInv'
  <1> SUFFICES ASSUME KeptInv, [Next]_vars PROVE ConnsKept'
    BY NextTyped DEF KeptInv
  <1>1. Typed'
    BY NextTyped DEF KeptInv
  <1>2. CASE UNCHANGED <<sid, connq, conn_list, todo, nid>>
    BY <1>2 DEF KeptInv, ConnsKept
  <1>3. CASE \/ UNCHANGED vars
             \/ \E s \in Senders : AsyncSend(s) \/ SendDistReq(s)
             \/ DsvrStep \/ AddCmd
             \/ \E c \in Conns : ClientKeepalive(c) \/ ClientCloses(c)
             \/ \E r \in Rsvrs : RsvrRoute(r)
    <2>1. UNCHANGED <<sid, connq, conn_list, todo, nid>>
      BY <1>3 DEF AsyncSend, SendDistReq, DsvrStep, DsvrSelect, DsvrPop, DsvrMap, DsvrPush, DsvrCmd,
                  AddCmd, ClientKeepalive, ClientCloses, RsvrRoute, vars, lvars, rvars, cvars
    <2>2. QED
      BY <1>2, <2>1
  <1>4. CASE Accept
    BY <1>4, AcceptKept
  <1>5. ASSUME NEW r \in Rsvrs, RsvrSelect(r) \/ RsvrPop(r) PROVE ConnsKept'
    <2>1. UNCHANGED <<sid, connq, conn_list, nid>>
      BY <1>5 DEF RsvrSelect, RsvrPop, lvars, cvars
    <2>2. todo' = todo \/ \E in, out : ToRecv(r, in, out)
      BY <1>5 DEF RsvrSelect, RsvrPop
    <2>3. \A x \in Rsvrs : todo'[x] \subseteq conn_list'[x]
      BY <2>1, <2>2, TraversalOnList DEF KeptInv, ConnsKept
    <2>4. QED
      BY <1>1, <2>1, <2>3, ListShrinks
  <1>6. ASSUME NEW r \in Rsvrs, RsvrDropsSilent(r) PROVE ConnsKept'
    <2>1. PICK c \in Conns : DelConn(r, c, nid[c])
      BY <1>6 DEF RsvrDropsSilent, KeptInv, Typed, TypeOK, RsvrsOK
    <2>2. UNCHANGED <<sid, connq, nid, todo, rpc>> /\ rpc[r] = "select"
      BY <1>6 DEF RsvrDropsSilent, lvars
    <2>3. todo[r] = {}
      BY <2>2 DEF KeptInv, Typed, RsvrsStand
    <2>4. \A x \in Rsvrs : conn_list'[x] \subseteq conn_list[x]
      BY <2>1, DelConnOnList
    <2>5. \A x \in Rsvrs : todo'[x] \subseteq conn_list'[x]
      BY <2>1, <2>2, <2>3, DelConnOnList DEF KeptInv, ConnsKept
    <2>6. QED
      BY <1>1, <2>2, <2>4, <2>5, ListShrinks
  <1>7. QED
    BY <1>3, <1>4, <1>5, <1>6, CmdKept, RecvKept, SendKept DEF Next, RsvrStep

LEMMA InitKept == Init => KeptInv
  BY InitTyped DEF Init, KeptInv, ConnsKept

-----------------------------------------------------------------------------
(* The answer to authentication comes first. *)

Listed(c) == \E r \in Rsvrs : c \in conn_list[r]

\* The answer is the first of what the client has got, else of the write vector,
\* else of the list; from authentication on it is in one of them.
AckLeads(c) ==
    /\ inbox[c] # <<>> => inbox[c][1] = AuthAck(c)
    /\ c \notin hup /\ inbox[c] = <<>> =>
          /\ wiov[c].items # <<>> => wiov[c].items[1] = AuthAck(c)
          /\ wiov[c].items = <<>> /\ mesg_list[c] # <<>> => mesg_list[c][1] = AuthAck(c)
          /\ nid[c] # None /\ Listed(c) => wiov[c].items # <<>> \/ mesg_list[c] # <<>>

Answered == \A c \in Conns : AckLeads(c)

AckInv == KeptInv /\ Answered

\* A connection nothing is put on or taken from.
LEMMA AckStays ==
    ASSUME AckInv, NEW c \in Conns, hup \subseteq hup',
           inbox'[c] = inbox[c], wiov'[c] = wiov[c], mesg_list'[c] = mesg_list[c],
           nid'[c] # None /\ Listed(c)' => nid[c] # None /\ Listed(c)
    PROVE  AckLeads(c)'
  BY DEF AckInv, Answered, AckLeads

\* A message more: the answer itself, or another after it.
LEMMA AckAppends ==
    ASSUME AckInv, NEW c \in Conns, NEW m \in Messages, hup' = hup,
           inbox'[c] = inbox[c], wiov'[c] = wiov[c], mesg_list'[c] = Append(mesg_list[c], m),
           m = AuthAck(c) \/ (nid[c] # None /\ Listed(c))
    PROVE  AckLeads(c)'
  <1> DEFINE l == mesg_list[c]
  <1>1. l \in Seq(Messages)
    BY DEF AckInv, KeptInv, Typed, TypeOK, ConnsOK
  <1> HIDE DEF l
  <1>2. /\ Append(l, m) # <<>>
        /\ l # <<>> => Append(l, m)[1] = l[1]
        /\ l = <<>> => Append(l, m)[1] = m
    BY <1>1
  <1>3. QED
    BY <1>2 DEF AckInv, Answered, AckLeads, l

\* A connection deleted.
LEMMA AckDeleted ==
    ASSUME AckInv, NEW r \in Rsvrs, NEW c \in conn_list[r], NEW n, DelConn(r, c, n),
           inbox' = inbox, hup' = hup, \A x \in Conns \ {c} : nid'[x] = nid[x]
    PROVE  Answered'
  <1>1. c \in Conns /\ Typed
    BY DEF AckInv, KeptInv, Typed, TypeOK, RsvrsOK
  <1>2. /\ \A x \in Conns \ {c} : mesg_list'[x] = mesg_list[x] /\ wiov'[x] = wiov[x]
        /\ mesg_list'[c] = <<>> /\ wiov'[c].items = <<>>
        /\ \A x \in Rsvrs : conn_list'[x] = IF x = r THEN conn_list[x] \ {c} ELSE conn_list[x]
    BY <1>1, DelConnEmpties
  <1>3. ~Listed(c)'
    <2>1. \A x \in Rsvrs : c \in conn_list[x] => x = r
      BY DEF AckInv, KeptInv, ConnsKept
    <2>2. QED
      BY <1>2, <2>1 DEF Listed
  <1>4. AckLeads(c)'
    BY <1>1, <1>2, <1>3 DEF AckLeads, AckInv, Answered
  <1>5. \A x \in Conns : Listed(x)' => Listed(x)
    BY <1>2 DEF Listed
  <1>6. \A x \in Conns \ {c} : AckLeads(x)'
    BY <1>2, <1>5, AckStays
  <1>7. QED
    BY <1>4, <1>6 DEF Answered

LEMMA RouteAnswered ==
    ASSUME AckInv, NEW r \in Rsvrs, RsvrRoute(r)
    PROVE  Answered'
  <1> DEFINE m == Head(batch[r])
  <1>1. m \in Messages /\ m.dest \in Nodes
    BY Parts, MessagesMade DEF RsvrRoute, RsvrsOK, AckInv, KeptInv, Typed, TypeOK
  <1>2. UNCHANGED <<nid, wiov, inbox, conn_list, hup>>
    BY DEF RsvrRoute, nvars
  <1>3. \/ UNCHANGED mesg_list
        \/ \E c \in On(r, m.dest) : mesg_list' = [mesg_list EXCEPT ![c] = Append(@, m)]
    BY DEF RsvrRoute
  <1> HIDE DEF m
  <1>4. \A x \in Conns : Listed(x)' <=> Listed(x)
    BY <1>2 DEF Listed
  <1>5. CASE UNCHANGED mesg_list
    BY <1>2, <1>4, <1>5, AckStays DEF Answered
  <1>6. ASSUME NEW c \in On(r, m.dest), mesg_list' = [mesg_list EXCEPT ![c] = Append(@, m)]
        PROVE  Answered'
    <2>1. c \in Conns /\ nid[c] # None /\ Listed(c)
      BY <1>1, ServerAssumption DEF On, Listed, AckInv, KeptInv, Typed, TypeOK, RsvrsOK
    <2>2. /\ mesg_list'[c] = Append(mesg_list[c], m)
          /\ \A x \in Conns \ {c} : mesg_list'[x] = mesg_list[x]
      BY <1>6, <2>1 DEF AckInv, KeptInv, Typed, TypeOK, ConnsOK
    <2>3. AckLeads(c)'
      BY <1>1, <1>2, <2>1, <2>2, AckAppends
    <2>4. \A x \in Conns \ {c} : AckLeads(x)'
      BY <1>2, <1>4, <2>2, AckStays
    <2>5. QED
      BY <2>3, <2>4 DEF Answered
  <1>7. QED
    BY <1>3, <1>5, <1>6

LEMMA ReplyAnswered ==
    ASSUME AckInv, NEW c \in Conns, NEW m \in Messages, Reply(c, m),
           UNCHANGED <<wiov, inbox, conn_list, hup>>,
           \A x \in Conns \ {c} : nid'[x] = nid[x],
           m = AuthAck(c) \/ (nid[c] # None /\ Listed(c))
    PROVE  Answered'
  <1>1. /\ mesg_list'[c] = Append(mesg_list[c], m)
        /\ \A x \in Conns \ {c} : mesg_list'[x] = mesg_list[x]
    BY DEF Reply, AckInv, KeptInv, Typed, TypeOK, ConnsOK
  <1>2. AckLeads(c)'
    BY <1>1, AckAppends
  <1>3. \A x \in Conns : Listed(x)' <=> Listed(x)
    BY DEF Listed
  <1>4. \A x \in Conns \ {c} : AckLeads(x)'
    BY <1>1, <1>3, AckStays
  <1>5. QED
    BY <1>2, <1>4 DEF Answered

LEMMA RecvAnswered ==
    ASSUME AckInv, NEW r \in Rsvrs, RsvrRecv(r)
    PROVE  Answered'
  <1> DEFINE c == Min(todo[r])
  <1>1. c \in Conns /\ c \in conn_list[r] /\ Listed(c)
    BY First DEF RsvrRecv, RsvrsStand, RsvrsOK, AckInv, KeptInv, Typed, TypeOK, ConnsKept, Listed
  <1>2. UNCHANGED <<inbox, hup>>
    BY DEF RsvrRecv
  <1>3. \A x \in Conns \ {c} : nid'[x] = nid[x]
    BY DEF RsvrRecv, AuthReq, KeepaliveReq, AckInv, KeptInv, Typed, TypeOK, ConnsOK
  <1>4. \/ Reply(c, AuthAck(c)) /\ UNCHANGED <<wiov, conn_list>>
        \/ nid[c] # None /\ Reply(c, KpAck(c)) /\ UNCHANGED <<wiov, conn_list>>
        \/ \E n : DelConn(r, c, n)
        \/ UNCHANGED <<mesg_list, wiov, conn_list, nid>>
    BY DEF RsvrRecv, AuthReq, KeepaliveReq
  <1> HIDE DEF c
  <1>5. CASE Reply(c, AuthAck(c)) /\ UNCHANGED <<wiov, conn_list>>
    BY <1>1, <1>2, <1>3, <1>5, MessagesMade, ReplyAnswered
  <1>6. CASE nid[c] # None /\ Reply(c, KpAck(c)) /\ UNCHANGED <<wiov, conn_list>>
    BY <1>1, <1>2, <1>3, <1>6, MessagesMade, ReplyAnswered
  <1>7. ASSUME NEW n, DelConn(r, c, n) PROVE Answered'
    BY <1>1, <1>2, <1>3, <1>7, AckDeleted
  <1>8. CASE UNCHANGED <<mesg_list, wiov, conn_list, nid>>
    <2>1. \A x \in Conns : Listed(x)' <=> Listed(x)
      BY <1>8 DEF Listed
    <2>2. QED
      BY <1>2, <1>8, <2>1, AckStays DEF Answered
  <1>9. QED
    BY <1>4, <1>5, <1>6, <1>7, <1>8

LEMMA SendAnswered ==
    ASSUME AckInv, NEW r \in Rsvrs, RsvrSend(r)
    PROVE  Answered'
  <1>1. PICK c \in todo[r] \cap Conns :
           Failed(r, c) \/ \E k \in 1..Len(Fill(c).items) : Wrote(r, c, k)
    BY SendCases DEF AckInv, KeptInv
  <1>2. c \in conn_list[r] /\ c \in Conns
    BY DEF AckInv, KeptInv, ConnsKept
  <1>3. CASE Failed(r, c)
    BY <1>2, <1>3, AckDeleted DEF Failed
  <1>4. ASSUME NEW k \in 1..Len(Fill(c).items), Wrote(r, c, k)
        PROVE  Answered'
    <2>1. /\ \A x \in Conns \ {c} : /\ inbox'[x] = inbox[x]
                                   /\ wiov'[x] = wiov[x]
                                   /\ mesg_list'[x] = mesg_list[x]
          /\ UNCHANGED <<nid, conn_list, hup>>
          /\ inbox'[c] = IF c \in hup THEN inbox[c] ELSE inbox[c] \o SubSeq(Fill(c).items, 1, k)
      BY <1>4 DEF Wrote, AckInv, KeptInv, Typed, TypeOK, ConnsOK, ClientsOK
    <2>2. \A x \in Conns : Listed(x)' <=> Listed(x)
      BY <2>1 DEF Listed
    <2>3. \A x \in Conns \ {c} : AckLeads(x)'
      BY <2>1, <2>2, AckStays
    <2>4. CASE c \in hup
      BY <2>1, <2>3, <2>4 DEF AckInv, Answered, AckLeads
    <2>5. CASE c \notin hup
      <3> DEFINE a == inbox[c]
                 b == wiov[c].items
                 l == mesg_list[c]
                 n == Room(c)
                 w == Fill(c).items
      <3>1. /\ a \in Seq(Messages) /\ b \in Seq(Messages) /\ l \in Seq(Messages)
            /\ n \in 0..Len(l)
        BY RoomTyped DEF AckInv, KeptInv, Typed, TypeOK, ClientsOK
      <3>2. w = b \o SubSeq(l, 1, n) /\ k \in 1..Len(w)
        BY DEF Fill
      <3>3. AckLeads(c)
        BY DEF AckInv, Answered
      <3>4. /\ a # <<>> => a[1] = AuthAck(c)
            /\ a = <<>> /\ b # <<>> => b[1] = AuthAck(c)
            /\ a = <<>> /\ b = <<>> /\ l # <<>> => l[1] = AuthAck(c)
        BY <2>5, <3>3 DEF AckLeads
      <3>5. inbox'[c] = a \o SubSeq(w, 1, k)
        BY <2>1, <2>5
      <3> HIDE DEF a, b, l, n, w
      <3>6. a = <<>> => w[1] = AuthAck(c)
        <4>1. SubSeq(l, 1, n) \in Seq(Messages) /\ Len(SubSeq(l, 1, n)) = n
          BY <3>1
        <4>2. b = <<>> => n # 0
          BY <3>1, <3>2, <4>1
        <4>3. CASE b # <<>>
          BY <3>1, <3>2, <3>4, <4>1, <4>3
        <4>4. CASE b = <<>>
          <5>1. w = SubSeq(l, 1, n) /\ l # <<>>
            BY <3>1, <3>2, <4>1, <4>2, <4>4
          <5>2. w[1] = l[1]
            BY <3>1, <4>2, <4>4, <5>1
          <5>3. QED
            BY <3>4, <4>4, <5>1, <5>2
        <4>5. QED
          BY <4>3, <4>4
      <3>7. w \in Seq(Messages)
        BY <3>1, <3>2
      <3>8. (a \o SubSeq(w, 1, k)) # <<>> /\ (a \o SubSeq(w, 1, k))[1] = AuthAck(c)
        <4>1. SubSeq(w, 1, k) \in Seq(Messages) /\ Len(SubSeq(w, 1, k)) = k
              /\ SubSeq(w, 1, k)[1] = w[1]
          BY <3>2, <3>7
        <4> DEFINE o == SubSeq(w, 1, k)
        <4>2. k >= 1
          BY <3>2
        <4>3. o \in Seq(Messages) /\ Len(o) = k /\ o[1] = w[1]
          BY <4>1
        <4> HIDE DEF o
        <4>4. (a \o o) # <<>> /\ (a = <<>> => (a \o o)[1] = o[1]) /\ (a # <<>> => (a \o o)[1] = a[1])
          BY <3>1, <3>2, <4>2, <4>3, SMTT(30)
        <4>5. (a \o o)[1] = AuthAck(c)
          BY <3>4, <3>6, <4>3, <4>4
        <4>6. QED
          BY <4>4, <4>5 DEF o
      <3>9. AckLeads(c)'
        BY <3>5, <3>8 DEF AckLeads
      <3>10. QED
        BY <2>3, <3>9 DEF Answered
    <2>6. QED
      BY <2>4, <2>5
  <1>5. QED
    BY <1>1, <1>3, <1>4

LEMMA NextAnswered == AckInv /\ [Next]_vars => AckInv'
  <1> SUFFICES ASSUME AckInv, [Next]_vars PROVE Answered'
    BY NextKept DEF AckInv
  <1>1. CASE \/ UNCHANGED vars
             \/ \E s \in Senders : AsyncSend(s) \/ SendDistReq(s)
             \/ DsvrStep \/ Accept \/ AddCmd
             \/ \E c \in Conns : ClientKeepalive(c) \/ ClientCloses(c)
             \/ \E r \in Rsvrs : RsvrSelect(r) \/ RsvrPop(r)
    <2>1. UNCHANGED <<conn_list, nid, mesg_list, wiov, inbox>> /\ hup \subseteq hup'
      BY <1>1 DEF AsyncSend, SendDistReq, DsvrStep, DsvrSelect, DsvrPop, DsvrMap, DsvrPush, DsvrCmd,
                  Accept, AddCmd, ClientKeepalive, ClientCloses, RsvrSelect, RsvrPop, vars, rvars,
                  cvars, nvars
    <2>2. \A x \in Conns : Listed(x)' <=> Listed(x)
      BY <2>1 DEF Listed
    <2>3. QED
      BY <2>1, <2>2, AckStays DEF Answered
  <1>2. ASSUME NEW r \in Rsvrs, RsvrCmd(r) PROVE Answered'
    <2>1. UNCHANGED <<nid, mesg_list, wiov, inbox, hup>>
      BY <1>2 DEF RsvrCmd, cvars, nvars
    <2>2. \A x \in Rsvrs : conn_list'[x] \subseteq conn_list[x] \cup connq[x]
      BY <1>2 DEF RsvrCmd, AckInv, KeptInv, Typed, TypeOK, RsvrsOK
    <2>3. \A x \in Conns : nid[x] # None /\ Listed(x)' => Listed(x)
      BY <2>2 DEF Listed, AckInv, KeptInv, ConnsKept
    <2>4. QED
      BY <2>1, <2>3, AckStays DEF Answered
  <1>3. ASSUME NEW r \in Rsvrs, RsvrDropsSilent(r) PROVE Answered'
    <2>1. PICK c \in Silent \cap conn_list[r] : DelConn(r, c, nid[c])
      BY <1>3 DEF RsvrDropsSilent
    <2>2. UNCHANGED <<inbox, hup, nid>>
      BY <1>3 DEF RsvrDropsSilent, nvars
    <2>3. QED
      BY <2>1, <2>2, AckDeleted
  <1>4. QED
    BY <1>1, <1>2, <1>3, RouteAnswered, RecvAnswered, SendAnswered DEF Next, RsvrStep

\* The first thing a client reads is the answer to its authentication request, for
\* any number of threads that send to its node meanwhile.
THEOREM AckFirstHolds == Spec => []AckFirst
  <1>1. Init => AckInv
    BY InitKept DEF Init, AckInv, Answered, AckLeads, Empty
  <1>2. AckInv => AckFirst
    BY DEF AckInv, Answered, AckLeads, AckFirst
  <1>3. QED
    BY <1>1, <1>2, NextAnswered, PTL DEF Spec
=============================================================================
