------------------------ MODULE RtmqServerBlocks_proofs ------------------------
(***************************************************************************)
(* The blocks of the server and the map of its nodes: every block that is  *)
(* not freed is in one place, messages keep their order on the way to a    *)
(* client, the map has one entry for each authenticated connection, and a  *)
(* message is dropped only where nobody of its node can be reached.        *)
(***************************************************************************)
EXTENDS RtmqServerSend_proofs

-----------------------------------------------------------------------------
(* Sequences without duplicates, and parts of sequences. *)

LEMMA Elements ==
    ASSUME NEW S, NEW s \in Seq(S)
    PROVE  /\ Len(s) \in Nat
           /\ \A x : x \in ToSet(s) <=> \E i \in 1..Len(s) : x = s[i]
           /\ \A i \in 1..Len(s) : s[i] \in ToSet(s)
           /\ IsInjective(s) <=> \A i, j \in 1..Len(s) : s[i] = s[j] => i = j
  BY DEF ToSet, IsInjective

LEMMA AppendUnique ==
    ASSUME NEW S, NEW s \in Seq(S), NEW m \in S, IsInjective(s), m \notin ToSet(s)
    PROVE  /\ IsInjective(Append(s, m))
           /\ ToSet(Append(s, m)) = ToSet(s) \cup {m}
  <1>1. ToSet(Append(s, m)) = ToSet(s) \cup {m}
    BY AppendElements
  <1>2. IsInjective(Append(s, m))
    <2> DEFINE t == Append(s, m)
    <2>1. /\ t \in Seq(S) /\ Len(t) = Len(s) + 1
          /\ \A k \in 1..Len(s) : t[k] = s[k]
          /\ t[Len(s) + 1] = m
      OBVIOUS
    <2> HIDE DEF t
    <2>2. \A k \in 1..Len(s) : s[k] # m
      BY Elements
    <2>3. Len(s) \in Nat /\ \A i, j \in 1..Len(s) : s[i] = s[j] => i = j
      BY Elements
    <2>4. \A i, j \in 1..Len(t) : t[i] = t[j] => i = j
      BY <2>1, <2>2, <2>3
    <2>5. IsInjective(t)
      BY <2>1, <2>4, Elements
    <2>6. QED
      BY <2>5 DEF t
  <1>3. QED
    BY <1>1, <1>2

LEMMA TailUnique ==
    ASSUME NEW S, NEW s \in Seq(S), IsInjective(s), s # <<>>
    PROVE  /\ IsInjective(Tail(s)) /\ ToSet(Tail(s)) = ToSet(s) \ {Head(s)}
           /\ Head(s) \in ToSet(s)
  <1> DEFINE t == Tail(s)
  <1>1. /\ t \in Seq(S) /\ Len(t) = Len(s) - 1 /\ Len(s) \in Nat \ {0}
        /\ \A k \in 1..Len(t) : t[k] = s[k + 1]
        /\ Head(s) = s[1]
    OBVIOUS
  <1> HIDE DEF t
  <1>2. \A i, j \in 1..Len(s) : s[i] = s[j] => i = j
    BY Elements
  <1>3. \A i, j \in 1..Len(t) : t[i] = t[j] => i = j
    BY <1>1, <1>2
  <1>4. ToSet(t) \subseteq ToSet(s) \ {s[1]}
    <2> SUFFICES ASSUME NEW i \in 1..Len(t) PROVE t[i] \in ToSet(s) /\ t[i] # s[1]
      BY <1>1, Elements
    <2>1. i + 1 \in 1..Len(s) /\ 1 \in 1..Len(s) /\ i + 1 # 1
      BY <1>1
    <2>2. QED
      BY <1>1, <1>2, <2>1, Elements
  <1>5. ASSUME NEW i \in 1..Len(s), s[i] # s[1] PROVE s[i] \in ToSet(t)
    <2>1. i - 1 \in 1..Len(t) /\ t[i - 1] = s[i]
      BY <1>1, <1>5
    <2>2. QED
      BY <1>1, <2>1, Elements
  <1>6. s[1] \in ToSet(s)
    BY <1>1, Elements
  <1>7. ToSet(t) = ToSet(s) \ {s[1]}
    <2>1. \A x \in ToSet(s) : \E i \in 1..Len(s) : x = s[i]
      BY Elements
    <2>2. QED
      BY <1>4, <1>5, <2>1
  <1>8. IsInjective(t)
    BY <1>1, <1>3, Elements
  <1>9. QED
    BY <1>1, <1>6, <1>7, <1>8 DEF t

\* The two parts of a sequence that is cut.
LEMMA CutParts ==
    ASSUME NEW S, NEW s \in Seq(S), NEW k \in 0..Len(s)
    PROVE  /\ SubSeq(s, 1, k) \in Seq(S) /\ Len(SubSeq(s, 1, k)) = k
           /\ \A i \in 1..k : SubSeq(s, 1, k)[i] = s[i]
           /\ SubSeq(s, k + 1, Len(s)) \in Seq(S)
           /\ Len(SubSeq(s, k + 1, Len(s))) = Len(s) - k
           /\ \A i \in 1..(Len(s) - k) : SubSeq(s, k + 1, Len(s))[i] = s[k + i]
  OBVIOUS

LEMMA CutUnique ==
    ASSUME NEW S, NEW s \in Seq(S), IsInjective(s), NEW k \in 0..Len(s)
    PROVE  LET a == SubSeq(s, 1, k)
               b == SubSeq(s, k + 1, Len(s))
           IN  /\ IsInjective(a) /\ IsInjective(b)
               /\ ToSet(a) \cap ToSet(b) = {}
               /\ ToSet(a) \cup ToSet(b) = ToSet(s)
  <1> DEFINE a == SubSeq(s, 1, k)
             b == SubSeq(s, k + 1, Len(s))
  <1>1. /\ a \in Seq(S) /\ Len(a) = k /\ b \in Seq(S) /\ Len(b) = Len(s) - k
        /\ \A i \in 1..k : a[i] = s[i]
        /\ \A i \in 1..(Len(s) - k) : b[i] = s[k + i]
        /\ Len(s) \in Nat
    BY CutParts
  <1> HIDE DEF a, b
  <1>2. \A i, j \in 1..Len(s) : s[i] = s[j] => i = j
    BY Elements
  <1>3. \A i \in 1..k : i \in 1..Len(s)
    BY <1>1
  <1>4. \A i \in 1..(Len(s) - k) : k + i \in 1..Len(s) /\ k + i \notin 1..k
    BY <1>1
  <1>5. IsInjective(a)
    <2>1. \A i, j \in 1..Len(a) : a[i] = a[j] => i = j
      BY <1>1, <1>2, <1>3
    <2>2. QED
      BY <1>1, <2>1, Elements
  <1>6. IsInjective(b)
    <2>1. \A i, j \in 1..Len(b) : b[i] = b[j] => i = j
      <3> SUFFICES ASSUME NEW i \in 1..Len(b), NEW j \in 1..Len(b), b[i] = b[j] PROVE i = j
        OBVIOUS
      <3>1. i \in 1..(Len(s) - k) /\ j \in 1..(Len(s) - k)
        BY <1>1
      <3>2. s[k + i] = s[k + j]
        BY <1>1, <3>1
      <3>3. k + i = k + j
        BY <1>2, <1>4, <3>1, <3>2
      <3>4. QED
        BY <1>1, <3>1, <3>3
    <2>2. QED
      BY <1>1, <2>1, Elements
  <1>7. ToSet(a) \cap ToSet(b) = {}
    <2> SUFFICES ASSUME NEW x \in ToSet(a), x \in ToSet(b) PROVE FALSE
      OBVIOUS
    <2>1. PICK i \in 1..k : x = a[i]
      BY <1>1, Elements
    <2>2. PICK j \in 1..(Len(s) - k) : x = b[j]
      BY <1>1, Elements
    <2>3. s[i] = s[k + j]
      BY <1>1, <2>1, <2>2
    <2>4. QED
      BY <1>2, <1>3, <1>4, <2>3
  <1>8. ToSet(a) \subseteq ToSet(s)
    <2>1. \A x \in ToSet(a) : \E i \in 1..k : x = a[i]
      BY <1>1, Elements
    <2>2. QED
      BY <1>1, <1>3, <2>1, Elements
  <1>9. ToSet(b) \subseteq ToSet(s)
    <2>1. \A x \in ToSet(b) : \E i \in 1..(Len(s) - k) : x = b[i]
      BY <1>1, Elements
    <2>2. QED
      BY <1>1, <1>4, <2>1, Elements
  <1>10. ASSUME NEW x \in ToSet(s) PROVE x \in ToSet(a) \cup ToSet(b)
    <2>1. PICK i \in 1..Len(s) : x = s[i]
      BY Elements
    <2>2. CASE i <= k
      <3>1. i \in 1..k /\ x = a[i]
        BY <1>1, <2>1, <2>2
      <3>2. QED
        BY <1>1, <3>1, Elements
    <2>3. CASE i > k
      <3>1. i - k \in 1..(Len(s) - k) /\ k + (i - k) = i
        BY <1>1, <2>1, <2>3
      <3>2. x = b[i - k]
        BY <1>1, <2>1, <3>1
      <3>3. QED
        BY <1>1, <3>1, <3>2, Elements
    <2>4. QED
      BY <1>1, <2>2, <2>3
  <1>11. QED
    BY <1>5, <1>6, <1>7, <1>8, <1>9, <1>10 DEF a, b

\* The parts of a sequence that is joined.
LEMMA JoinParts ==
    ASSUME NEW S, NEW s \in Seq(S), NEW t \in Seq(S)
    PROVE  /\ s \o t \in Seq(S) /\ Len(s \o t) = Len(s) + Len(t)
           /\ \A i \in 1..Len(s) : (s \o t)[i] = s[i]
           /\ \A i \in 1..Len(t) : (s \o t)[Len(s) + i] = t[i]
           /\ \A i \in 1..(Len(s) + Len(t)) :
                 i <= Len(s) \/ \E j \in 1..Len(t) : i = Len(s) + j /\ (s \o t)[i] = t[j]
  OBVIOUS

LEMMA JoinElements ==
    ASSUME NEW S, NEW s \in Seq(S), NEW t \in Seq(S)
    PROVE  ToSet(s \o t) = ToSet(s) \cup ToSet(t)
  <1> DEFINE u == s \o t
  <1>1. /\ u \in Seq(S) /\ Len(u) = Len(s) + Len(t)
        /\ \A i \in 1..Len(s) : u[i] = s[i]
        /\ \A i \in 1..Len(t) : u[Len(s) + i] = t[i]
    BY JoinParts, SMTT(40)
  <1> HIDE DEF u
  <1>2. Len(s) \in Nat /\ Len(t) \in Nat
    OBVIOUS
  <1>3. ASSUME NEW x \in ToSet(s) PROVE x \in ToSet(u)
    <2>1. PICK i \in 1..Len(s) : x = s[i]
      BY Elements
    <2>2. i \in 1..Len(u) /\ u[i] = x
      BY <1>1, <1>2, <2>1
    <2>3. QED
      BY <1>1, <2>2, Elements
  <1>4. ASSUME NEW x \in ToSet(t) PROVE x \in ToSet(u)
    <2>1. PICK i \in 1..Len(t) : x = t[i]
      BY Elements
    <2>2. Len(s) + i \in 1..Len(u) /\ u[Len(s) + i] = x
      BY <1>1, <1>2, <2>1
    <2>3. QED
      BY <1>1, <2>2, Elements
  <1>5. QED
    BY <1>3, <1>4, ConcatElements DEF u

LEMMA JoinUnique ==
    ASSUME NEW S, NEW s \in Seq(S), NEW t \in Seq(S), IsInjective(s), IsInjective(t),
           ToSet(s) \cap ToSet(t) = {}
    PROVE  IsInjective(s \o t)
  <1> DEFINE u == s \o t
  <1>1. /\ u \in Seq(S) /\ Len(u) = Len(s) + Len(t)
        /\ \A i \in 1..Len(s) : u[i] = s[i]
    BY JoinParts
  <1>2. \A i \in 1..(Len(s) + Len(t)) :
           i <= Len(s) \/ \E j \in 1..Len(t) : i = Len(s) + j /\ u[i] = t[j]
    BY JoinParts
  <1> HIDE DEF u
  <1>3. Len(s) \in Nat /\ Len(t) \in Nat
    OBVIOUS
  <1>4. /\ \A i, j \in 1..Len(s) : s[i] = s[j] => i = j
        /\ \A i, j \in 1..Len(t) : t[i] = t[j] => i = j
        /\ \A i \in 1..Len(s), j \in 1..Len(t) : s[i] # t[j]
    BY Elements
  <1>5. \A i \in 1..Len(u) : i \in 1..Len(s) \/ \E j \in 1..Len(t) : i = Len(s) + j /\ u[i] = t[j]
    BY <1>1, <1>2, <1>3
  <1>6. \A i, j \in 1..Len(u) : u[i] = u[j] => i = j
    <2> SUFFICES ASSUME NEW i \in 1..Len(u), NEW j \in 1..Len(u), u[i] = u[j] PROVE i = j
      OBVIOUS
    <2>1. CASE i \in 1..Len(s) /\ j \in 1..Len(s)
      BY <1>1, <1>4, <2>1
    <2>2. CASE i \in 1..Len(s) /\ j \notin 1..Len(s)
      BY <1>1, <1>4, <1>5, <2>2
    <2>3. CASE i \notin 1..Len(s) /\ j \in 1..Len(s)
      BY <1>1, <1>4, <1>5, <2>3
    <2>4. CASE i \notin 1..Len(s) /\ j \notin 1..Len(s)
      <3>1. PICK x \in 1..Len(t) : i = Len(s) + x /\ u[i] = t[x]
        BY <1>5, <2>4
      <3>2. PICK y \in 1..Len(t) : j = Len(s) + y /\ u[j] = t[y]
        BY <1>5, <2>4
      <3>3. x = y
        BY <1>4, <3>1, <3>2
      <3>4. QED
        BY <3>1, <3>2, <3>3
    <2>5. QED
      BY <2>1, <2>2, <2>3, <2>4
  <1>7. IsInjective(u)
    BY <1>1, <1>6, Elements
  <1>8. QED
    BY <1>7 DEF u

-----------------------------------------------------------------------------
(* What stands beside the blocks. *)

\* A batch is worked off before the next is popped.
Batches ==
    /\ dpc \in {"select", "pop"} => data = <<>>
    /\ \A r \in Rsvrs : rpc[r] # "dist" => batch[r] = <<>>

\* What can still be allocated is not live: a connection asks for authentication
\* once, and for a keepalive once at most.
FreshFor(c) ==
    /\ IsInjective(reqs[c])
    /\ c > sid => reqs[c] = <<>>
    /\ "kp" \in ToSet(reqs[c]) => c \notin talks
    /\ AuthAck(c) \in live => c <= sid /\ "auth" \notin ToSet(reqs[c])
    /\ KpAck(c) \in live => c \notin talks /\ "kp" \notin ToSet(reqs[c])
    /\ nid[c] # None => "auth" \notin ToSet(reqs[c])

Fresh ==
    /\ \A m \in live : m.kind = "exp" => m.no <= made
    /\ \A c \in Conns : FreshFor(c)

\* Where a thread goes on, and that it changes nobody else's place.
LEMMA Goes ==
    ASSUME NEW r \in Rsvrs
    PROVE  /\ \A phase, set : At(r, phase, set) => \E v : rpc' = [rpc EXCEPT ![r] = v]
           /\ \A out : ToSend(r, out) => \E v : rpc' = [rpc EXCEPT ![r] = v]
           /\ \A in, out : ToRecv(r, in, out) => \E v : rpc' = [rpc EXCEPT ![r] = v]
           /\ \A c : NextRecv(r, c) => \E v : rpc' = [rpc EXCEPT ![r] = v]
           /\ \A c : NextSend(r, c) => \E v : rpc' = [rpc EXCEPT ![r] = v]
  <1>1. ASSUME NEW phase, NEW set, At(r, phase, set) PROVE \E v : rpc' = [rpc EXCEPT ![r] = v]
    BY <1>1 DEF At
  <1>2. ASSUME NEW out, ToSend(r, out) PROVE \E v : rpc' = [rpc EXCEPT ![r] = v]
    BY <1>1, <1>2 DEF ToSend
  <1>3. ASSUME NEW in, NEW out, ToRecv(r, in, out) PROVE \E v : rpc' = [rpc EXCEPT ![r] = v]
    BY <1>1, <1>2, <1>3 DEF ToRecv
  <1>4. ASSUME NEW c, NextRecv(r, c) PROVE \E v : rpc' = [rpc EXCEPT ![r] = v]
    BY <1>1, <1>2, <1>4 DEF NextRecv
  <1>5. ASSUME NEW c, NextSend(r, c) PROVE \E v : rpc' = [rpc EXCEPT ![r] = v]
    BY <1>1, <1>5 DEF NextSend
  <1>6. QED
    BY <1>1, <1>2, <1>3, <1>4, <1>5

LEMMA StepGoes ==
    ASSUME NEW r \in Rsvrs, RsvrDropsSilent(r) \/ RsvrStep(r)
    PROVE  rpc' = rpc \/ \E v : rpc' = [rpc EXCEPT ![r] = v]
  <1>1. CASE RsvrDropsSilent(r) \/ RsvrRoute(r)
    BY <1>1 DEF RsvrDropsSilent, RsvrRoute
  <1>2. CASE RsvrSelect(r)
    BY <1>2, Goes DEF RsvrSelect
  <1>3. CASE RsvrCmd(r)
    BY <1>3, Goes DEF RsvrCmd
  <1>4. CASE RsvrPop(r)
    BY <1>4, Goes DEF RsvrPop
  <1>5. CASE RsvrRecv(r)
    BY <1>5, Goes DEF RsvrRecv, AuthReq, KeepaliveReq
  <1>6. CASE RsvrSend(r)
    BY <1>6, Goes DEF RsvrSend
  <1>7. QED
    BY <1>1, <1>2, <1>3, <1>4, <1>5, <1>6 DEF RsvrStep

LEMMA BatchesKept ==
    ASSUME Typed, Batches, [Next]_vars
    PROVE  Batches'
  <1> USE DEF Batches
  <1>1. CASE \/ UNCHANGED vars
             \/ \E s \in Senders : AsyncSend(s) \/ SendDistReq(s)
             \/ Accept \/ AddCmd
             \/ \E c \in Conns : ClientKeepalive(c) \/ ClientCloses(c)
    <2>1. UNCHANGED <<dpc, data, rpc, batch>>
      BY <1>1 DEF AsyncSend, SendDistReq, Accept, AddCmd, ClientKeepalive, ClientCloses, vars,
                  dvars, rvars
    <2>2. QED
      BY <2>1
  <1>2. CASE DsvrStep
    <2>1. UNCHANGED <<rpc, batch>>
      BY <1>2 DEF DsvrStep, DsvrSelect, DsvrPop, DsvrMap, DsvrPush, DsvrCmd, rvars
    <2>2. dpc' \in {"push", "cmd"} \/ (data' = data /\ dpc \in {"select"}) \/ \E next : NextMessage(next)
      BY <1>2 DEF DsvrStep, DsvrSelect, DsvrPop, DsvrMap, DsvrPush, DsvrCmd, Drop
    <2>3. ASSUME NEW next, NextMessage(next), dpc' \in {"select", "pop"} PROVE data' = <<>>
      <3>1. CASE data' # <<>>
        BY <2>3, <3>1 DEF NextMessage
      <3>2. QED
        BY <3>1
    <2>4. QED
      BY <2>1, <2>2, <2>3
  <1>3. ASSUME NEW r \in Rsvrs, RsvrDropsSilent(r) \/ RsvrStep(r)
        PROVE  Batches'
    <2>1. UNCHANGED <<dpc, data>>
      BY <1>3 DEF RsvrDropsSilent, RsvrStep, RsvrSelect, RsvrCmd, RsvrPop, RsvrRoute, RsvrRecv,
                  RsvrSend, dvars
    <2>2. \A x \in Rsvrs \ {r} : rpc'[x] = rpc[x]
      BY <1>3, StepGoes DEF Typed, TypeOK, RsvrsOK
    <2>3. \A x \in Rsvrs \ {r} : batch'[x] = batch[x]
      BY <1>3 DEF RsvrDropsSilent, RsvrStep, RsvrSelect, RsvrCmd, RsvrPop, RsvrRoute, RsvrRecv,
                  RsvrSend, Typed, TypeOK, RsvrsOK
    <2>4. rpc'[r] # "dist" => batch'[r] = <<>>
      <3>1. CASE RsvrPop(r) /\ sendq[r] = <<>>
        BY <3>1 DEF RsvrPop, Typed, TypeOK, RsvrsOK
      <3>2. CASE RsvrPop(r) /\ sendq[r] # <<>>
        BY <3>2 DEF RsvrPop
      <3>3. CASE RsvrRoute(r)
        BY <3>3 DEF RsvrRoute
      <3>4. CASE RsvrDropsSilent(r) \/ RsvrSelect(r) \/ RsvrCmd(r) \/ RsvrRecv(r) \/ RsvrSend(r)
        <4>1. rpc[r] # "dist" /\ batch' = batch
          BY <3>4 DEF RsvrDropsSilent, RsvrSelect, RsvrCmd, RsvrRecv, RsvrSend
        <4>2. QED
          BY <4>1
      <3>5. QED
        BY <1>3, <3>1, <3>2, <3>3, <3>4 DEF RsvrStep
    <2>5. QED
      BY <2>1, <2>2, <2>3, <2>4
  <1>4. QED
    BY <1>1, <1>2, <1>3 DEF Next

\* Nothing is allocated and nothing asked for.
LEMMA FreshStays ==
    ASSUME Fresh, made' = made, live' \subseteq live, UNCHANGED <<reqs, sid, talks, nid>>
    PROVE  Fresh'
  BY DEF Fresh, FreshFor, AuthAck, KpAck

\* A request that is answered, or read and not answered.
LEMMA FreshRecv ==
    ASSUME KeptInv, Fresh, NEW r \in Rsvrs, RsvrRecv(r)
    PROVE  Fresh'
  <1>0. Min(todo[r]) \in Conns /\ Min(todo[r]) \in conn_list[r]
    BY First DEF RsvrRecv, RsvrsStand, RsvrsOK, KeptInv, Typed, TypeOK, ConnsKept
  <1>8. PICK c \in Conns : c = Min(todo[r])
    BY <1>0
  <1>1. c \in Conns /\ c \in conn_list[r] /\ c <= sid
    BY <1>0, <1>8 DEF KeptInv, ConnsKept
  <1>2. UNCHANGED <<made, sid, talks>> /\ Typed
    BY DEF RsvrRecv, svars, lvars, KeptInv
  <1>3. \A x \in Conns : reqs[x] \in Seq({"auth", "kp"})
    BY <1>2 DEF Typed, TypeOK, ClientsOK
  <1>4. \/ /\ reqs[c] # <<>> /\ Head(reqs[c]) = "auth" /\ Read(c)
           /\ live' \subseteq live \cup {AuthAck(c)}
           /\ \A x \in Conns \ {c} : nid'[x] = nid[x]
        \/ /\ reqs[c] # <<>> /\ Head(reqs[c]) = "kp" /\ Read(c)
           /\ live' \subseteq live \cup {KpAck(c)}
           /\ nid' = nid
        \/ live' \subseteq live /\ UNCHANGED <<reqs, nid>>
    <2>1. CASE AuthReq(r, c) /\ reqs[c] # <<>>
      BY <1>1, <1>2, <2>1 DEF AuthReq, Reply, DelConn, Typed, TypeOK, ConnsOK
    <2>2. CASE KeepaliveReq(r, c) /\ reqs[c] # <<>>
      BY <1>1, <1>2, <2>2 DEF KeepaliveReq, Reply, DelConn
    <2>3. CASE reqs[c] = <<>>
      BY <1>8, <2>3 DEF RsvrRecv, DelConn
    <2>4. QED
      BY <1>8, <2>1, <2>2, <2>3 DEF RsvrRecv
  <1>5. CASE live' \subseteq live /\ UNCHANGED <<reqs, nid>>
    BY <1>2, <1>5, FreshStays
  <1>6. CASE /\ reqs[c] # <<>> /\ Read(c) /\ Head(reqs[c]) \in {"auth", "kp"}
             /\ live' \subseteq live \cup {IF Head(reqs[c]) = "auth" THEN AuthAck(c) ELSE KpAck(c)}
             /\ \A x \in Conns \ {c} : nid'[x] = nid[x]
             /\ Head(reqs[c]) # "auth" => nid' = nid
    <2> DEFINE q == reqs[c]
               t == Tail(reqs[c])
               h == Head(reqs[c])
    <2>1. IsInjective(q)
      BY <1>1 DEF Fresh, FreshFor
    <2>2. /\ t \in Seq({"auth", "kp"}) /\ IsInjective(t) /\ ToSet(t) = ToSet(q) \ {h}
          /\ h \in ToSet(q) /\ h \in {"auth", "kp"}
      BY <1>1, <1>3, <1>6, <2>1, TailUnique, Parts
    <2>3. reqs'[c] = t /\ \A x \in Conns \ {c} : reqs'[x] = reqs[x]
      BY <1>1, <1>2, <1>6 DEF Read, Typed, TypeOK, ClientsOK
    <2>4. FreshFor(c)
      BY <1>1 DEF Fresh
    <2>5. /\ h = "auth" /\ KpAck(c) \in live' => KpAck(c) \in live
          /\ h # "auth" /\ AuthAck(c) \in live' => AuthAck(c) \in live
          /\ h # "auth" => nid' = nid
      BY <1>6 DEF AuthAck, KpAck
    <2>6. sid' = sid /\ talks' = talks /\ c \in Nat /\ sid \in Nat /\ ~(c > sid)
      BY <1>1, <1>2, Sizes DEF Conns, Typed, TypeOK, LsnOK
    <2>7. \A x \in Conns \ {c} : /\ AuthAck(x) \in live' => AuthAck(x) \in live
                                 /\ KpAck(x) \in live' => KpAck(x) \in live
      BY <1>6 DEF AuthAck, KpAck
    <2>8. \A m \in live' : m.kind = "exp" => m \in live
      BY <1>6 DEF AuthAck, KpAck
    <2> HIDE DEF q, t, h
    <2>9. FreshFor(c)'
      <3> USE DEF FreshFor
      <3>1. IsInjective(reqs'[c]) /\ (c > sid' => reqs'[c] = <<>>)
        BY <2>2, <2>3, <2>6
      <3>2. ToSet(reqs'[c]) = ToSet(reqs[c]) \ {h}
        BY <2>2, <2>3 DEF q
      <3>3. "kp" \in ToSet(reqs'[c]) => c \notin talks'
        BY <2>4, <2>6, <3>2
      <3>4. AuthAck(c) \in live' => c <= sid' /\ "auth" \notin ToSet(reqs'[c])
        BY <1>1, <2>4, <2>5, <2>6, <3>2
      <3>5. KpAck(c) \in live' => c \notin talks' /\ "kp" \notin ToSet(reqs'[c])
        BY <2>2, <2>4, <2>5, <2>6, <3>2 DEF q
      <3>6. nid'[c] # None => "auth" \notin ToSet(reqs'[c])
        BY <2>2, <2>4, <2>5, <3>2
      <3>7. QED
        BY <3>1, <3>3, <3>4, <3>5, <3>6
    <2>10. \A x \in Conns \ {c} : FreshFor(x)'
      BY <1>6, <2>3, <2>6, <2>7 DEF Fresh, FreshFor
    <2>11. QED
      BY <1>2, <2>8, <2>9, <2>10 DEF Fresh
  <1>7. QED
    BY <1>4, <1>5, <1>6

LEMMA FreshKept ==
    ASSUME KeptInv, Fresh, [Next]_vars
    PROVE  Fresh'
  <1>1. Typed /\ made \in Nat /\ sid \in Nat
    BY Sizes DEF KeptInv, Typed, TypeOK, SendersOK, LsnOK
  <1>2. CASE UNCHANGED <<reqs, sid, talks, nid, made>> /\ live' \subseteq live
    BY <1>2, FreshStays
  <1>3. ASSUME NEW s \in Senders, AsyncSend(s) PROVE Fresh'
    <2>1. /\ UNCHANGED <<reqs, sid, talks, nid>> /\ made' = made + 1
          /\ live' = live \/ \E q \in Distqs, n \in Nodes : live' = live \cup {Exp(made', s, q, n)}
      BY <1>3 DEF AsyncSend, lvars, cvars, nvars
    <2>2. \A c \in Conns : /\ AuthAck(c) \in live' => AuthAck(c) \in live
                           /\ KpAck(c) \in live' => KpAck(c) \in live
      BY <2>1 DEF AuthAck, KpAck, Exp
    <2>3. \A m \in live' : m \in live \/ m.no = made'
      BY <2>1 DEF Exp
    <2>4. \A m \in live : m.kind = "exp" => m.no \in Nat /\ m.no <= made
      <3>1. \A m \in live : m.kind = "exp" => m.no \in 1..MaxSend
        BY <1>1 DEF Typed, TypeOK, SharedOK, Messages, Orders
      <3>2. QED
        BY <3>1, Sizes DEF Fresh
    <2>5. \A m \in live' : m.kind = "exp" => m.no <= made'
      BY <1>1, <2>1, <2>3, <2>4
    <2>6. \A c \in Conns : FreshFor(c)'
      BY <2>1, <2>2 DEF Fresh, FreshFor
    <2>7. QED
      BY <2>5, <2>6 DEF Fresh
  <1>4. CASE Accept
    <2>0. PICK c \in Conns : c = sid + 1
      BY <1>1, <1>4, Sizes DEF Accept, Conns
    <2>1. /\ c \in Conns /\ c > sid /\ sid' = c /\ UNCHANGED <<made, live, nid, talks>>
          /\ reqs'[c] = <<"auth">> /\ \A x \in Conns \ {c} : reqs'[x] = reqs[x]
      BY <1>1, <1>4, <2>0 DEF Accept, svars, cvars, Typed, TypeOK, ClientsOK
    <2>2. \A x \in Conns : x \in Nat
      BY Sizes DEF Conns
    <2>3. ToSet(<<"auth">>) = {"auth"} /\ IsInjective(<<"auth">>)
      BY DEF ToSet, IsInjective
    <2>4. FreshFor(c) /\ nid[c] = None
      BY <1>1, <2>1 DEF Fresh, KeptInv, ConnsKept
    <2>5. ~(c <= sid) /\ c <= sid' /\ ~(c > sid')
      BY <1>1, <2>1, <2>2
    <2>6. FreshFor(c)'
      BY <2>1, <2>3, <2>4, <2>5 DEF FreshFor
    <2>7. \A x \in Conns \ {c} : (x > sid' => x > sid) /\ (x <= sid => x <= sid')
      BY <1>1, <2>1, <2>2
    <2>8. \A x \in Conns \ {c} : FreshFor(x)'
      BY <2>1, <2>7 DEF Fresh, FreshFor
    <2>9. QED
      BY <2>1, <2>6, <2>8 DEF Fresh
  <1>5. ASSUME NEW c \in Conns, ClientKeepalive(c) PROVE Fresh'
    <2> DEFINE q == reqs[c]
    <2>1. /\ c <= sid /\ c \in talks /\ talks' = talks \ {c} /\ UNCHANGED <<made, live, nid, sid>>
          /\ reqs'[c] = Append(q, "kp") /\ \A x \in Conns \ {c} : reqs'[x] = reqs[x]
      BY <1>1, <1>5 DEF ClientKeepalive, svars, cvars, lvars, Typed, TypeOK, ClientsOK
    <2>2. FreshFor(c) /\ q \in Seq({"auth", "kp"}) /\ "kp" \in {"auth", "kp"}
      BY <1>1 DEF Fresh, Typed, TypeOK, ClientsOK
    <2>3. "kp" \notin ToSet(q) /\ IsInjective(q)
      BY <2>1, <2>2 DEF FreshFor
    <2>4. IsInjective(Append(q, "kp")) /\ ToSet(Append(q, "kp")) = ToSet(q) \cup {"kp"}
      BY <2>2, <2>3, AppendUnique
    <2>5. c \in Nat /\ ~(c > sid)
      BY <1>1, <2>1, Sizes DEF Conns
    <2> HIDE DEF q
    <2>6. ToSet(q) = ToSet(reqs[c])
      BY DEF q
    <2>7. FreshFor(c)'
      BY <2>1, <2>2, <2>4, <2>5, <2>6 DEF FreshFor
    <2>8. \A x \in Conns \ {c} : FreshFor(x)'
      BY <2>1 DEF Fresh, FreshFor
    <2>9. QED
      BY <2>1, <2>7, <2>8 DEF Fresh
  <1>6. CASE \/ UNCHANGED vars
             \/ \E s \in Senders : SendDistReq(s)
             \/ DsvrStep \/ AddCmd
             \/ \E c \in Conns : ClientCloses(c)
             \/ \E r \in Rsvrs : RsvrDropsSilent(r) \/ RsvrSelect(r) \/ RsvrCmd(r) \/ RsvrPop(r)
                                 \/ RsvrRoute(r) \/ RsvrSend(r)
    <2>1. UNCHANGED <<reqs, sid, talks, nid, made>>
      BY <1>6 DEF SendDistReq, DsvrStep, DsvrSelect, DsvrPop, DsvrMap, DsvrPush, DsvrCmd, AddCmd,
                  ClientCloses, RsvrDropsSilent, RsvrSelect, RsvrCmd, RsvrPop, RsvrRoute, RsvrSend,
                  vars, svars, lvars, cvars, nvars
    <2>2. live' \subseteq live
      BY <1>6 DEF SendDistReq, DsvrStep, DsvrSelect, DsvrPop, DsvrMap, DsvrPush, DsvrCmd, Drop, AddCmd,
                  ClientCloses, RsvrDropsSilent, RsvrSelect, RsvrCmd, RsvrPop, RsvrRoute, RsvrSend,
                  DelConn, vars
    <2>3. QED
      BY <1>2, <2>1, <2>2
  <1>7. QED
    BY <1>3, <1>4, <1>5, <1>6, FreshRecv DEF Next, RsvrStep

-----------------------------------------------------------------------------
(* Every block is in one place. *)

\* The places and what is in them, before and after a step.
LEMMA HeldAre ==
    /\ \A q \in Distqs : /\ <<"distq", q>> \in Places
                         /\ Held(<<"distq", q>>) = distq[q] /\ Held(<<"distq", q>>)' = distq'[q]
    /\ \A r \in Rsvrs : /\ <<"sendq", r>> \in Places /\ <<"batch", r>> \in Places
                        /\ Held(<<"sendq", r>>) = sendq[r] /\ Held(<<"sendq", r>>)' = sendq'[r]
                        /\ Held(<<"batch", r>>) = batch[r] /\ Held(<<"batch", r>>)' = batch'[r]
    /\ <<"data", 0>> \in Places
    /\ Held(<<"data", 0>>) = data /\ Held(<<"data", 0>>)' = data'
    /\ \A c \in Conns : /\ <<"list", c>> \in Places /\ <<"iov", c>> \in Places
                        /\ Held(<<"list", c>>) = mesg_list[c] /\ Held(<<"list", c>>)' = mesg_list'[c]
                        /\ Held(<<"iov", c>>) = wiov[c].items /\ Held(<<"iov", c>>)' = wiov'[c].items
  BY DEF Places, Held

LEMMA PlacesAre ==
    \A p \in Places : \/ \E q \in Distqs : p = <<"distq", q>>
                      \/ \E r \in Rsvrs : p = <<"sendq", r>> \/ p = <<"batch", r>>
                      \/ p = <<"data", 0>>
                      \/ \E c \in Conns : p = <<"list", c>> \/ p = <<"iov", c>>
  BY DEF Places

LEMMA HeldTyped ==
    ASSUME Typed
    PROVE  \A p \in Places : Held(p) \in Seq(Messages)
  <1>1. \A S : \A T : S \subseteq T => Seq(S) \subseteq Seq(T)
    OBVIOUS
  <1>2. Seq(Orders) \subseteq Seq(Messages)
    BY <1>1, MessagesMade
  <1>3. /\ \A q \in Distqs : distq[q] \in Seq(Orders)
        /\ \A r \in Rsvrs : sendq[r] \in Seq(Orders) /\ batch[r] \in Seq(Orders)
        /\ data \in Seq(Orders)
        /\ \A c \in Conns : mesg_list[c] \in Seq(Messages) /\ wiov[c].items \in Seq(Messages)
    BY DEF Typed, TypeOK, SharedOK, RsvrsOK, DsvrOK, ConnsOK
  <1>4. SUFFICES ASSUME NEW p \in Places PROVE Held(p) \in Seq(Messages)
    OBVIOUS
  <1>5. CASE \E q \in Distqs : p = <<"distq", q>>
    BY <1>2, <1>3, <1>5 DEF Held
  <1>6. CASE \E r \in Rsvrs : p = <<"sendq", r>> \/ p = <<"batch", r>>
    BY <1>2, <1>3, <1>6 DEF Held
  <1>7. CASE p = <<"data", 0>>
    BY <1>2, <1>3, <1>7 DEF Held
  <1>8. CASE \E c \in Conns : p = <<"list", c>> \/ p = <<"iov", c>>
    BY <1>3, <1>8 DEF Held
  <1>9. QED
    BY <1>5, <1>6, <1>7, <1>8, PlacesAre

\* Places a step leaves alone.
LEMMA OthersHeld ==
    ASSUME NEW a, NEW b,
           \A q \in Distqs : <<"distq", q>> \in {a, b} \/ distq'[q] = distq[q],
           \A r \in Rsvrs : <<"sendq", r>> \in {a, b} \/ sendq'[r] = sendq[r],
           \A r \in Rsvrs : <<"batch", r>> \in {a, b} \/ batch'[r] = batch[r],
           <<"data", 0>> \in {a, b} \/ data' = data,
           \A c \in Conns : <<"list", c>> \in {a, b} \/ mesg_list'[c] = mesg_list[c],
           \A c \in Conns : <<"iov", c>> \in {a, b} \/ wiov'[c].items = wiov[c].items
    PROVE  \A p \in Places \ {a, b} : Held(p)' = Held(p)
  <1> SUFFICES ASSUME NEW p \in Places, p \notin {a, b} PROVE Held(p)' = Held(p)
    OBVIOUS
  <1>1. CASE \E q \in Distqs : p = <<"distq", q>>
    BY <1>1 DEF Held
  <1>2. CASE \E r \in Rsvrs : p = <<"sendq", r>> \/ p = <<"batch", r>>
    BY <1>2 DEF Held
  <1>3. CASE p = <<"data", 0>>
    BY <1>3 DEF Held
  <1>4. CASE \E c \in Conns : p = <<"list", c>> \/ p = <<"iov", c>>
    BY <1>4 DEF Held
  <1>5. QED
    BY <1>1, <1>2, <1>3, <1>4, PlacesAre

\* A step of two places: what is in them after it was in them before or is new, what
\* has left them is freed.
LEMMA BlocksMove ==
    ASSUME BlocksAccounted, NEW a \in Places, NEW b \in Places, a # b,
           NEW gain, gain \cap live = {},
           \A p \in Places \ {a, b} : Held(p)' = Held(p),
           IsInjective(Held(a)'), IsInjective(Held(b)'),
           ToSet(Held(a)') \cap ToSet(Held(b)') = {},
           ToSet(Held(a)') \cup ToSet(Held(b)') \subseteq ToSet(Held(a)) \cup ToSet(Held(b)) \cup gain,
           live' = (live \ (ToSet(Held(a)) \cup ToSet(Held(b)))) \cup ToSet(Held(a)') \cup ToSet(Held(b)')
    PROVE  BlocksAccounted'
  <1> DEFINE S(p) == ToSet(Held(p))
             T(p) == ToSet(Held(p)')
  <1>1. /\ \A p, q \in Places : p # q => S(p) \cap S(q) = {}
        /\ live = UNION {S(p) : p \in Places}
        /\ \A p \in Places : IsInjective(Held(p))
    BY DEF BlocksAccounted
  <1>2. \A p \in Places \ {a, b} : T(p) = S(p) /\ IsInjective(Held(p)')
    BY <1>1
  <1>3. /\ T(a) \cap T(b) = {} /\ T(a) \cup T(b) \subseteq S(a) \cup S(b) \cup gain
        /\ live' = (live \ (S(a) \cup S(b))) \cup T(a) \cup T(b)
        /\ IsInjective(Held(a)') /\ IsInjective(Held(b)')
    OBVIOUS
  <1> HIDE DEF S, T
  <1>4. \A p \in Places : S(p) \subseteq live
    BY <1>1
  <1>5. \A p \in Places \ {a, b} : T(p) \cap (T(a) \cup T(b)) = {}
    BY <1>1, <1>2, <1>3, <1>4
  <1>6. \A p, q \in Places : p # q => T(p) \cap T(q) = {}
    BY <1>1, <1>2, <1>3, <1>5
  <1>7. live' = UNION {T(p) : p \in Places}
    <2>1. ASSUME NEW x \in live' PROVE \E p \in Places : x \in T(p)
      <3>1. CASE x \in T(a) \cup T(b)
        BY <3>1
      <3>2. CASE x \notin T(a) \cup T(b)
        <4>1. x \in live /\ x \notin S(a) /\ x \notin S(b)
          BY <1>3, <2>1, <3>2
        <4>2. PICK p \in Places : x \in S(p)
          BY <1>1, <4>1
        <4>3. QED
          BY <1>2, <4>1, <4>2
      <3>3. QED
        BY <3>1, <3>2
    <2>2. ASSUME NEW p \in Places, NEW x \in T(p) PROVE x \in live'
      <3>1. CASE p \in {a, b}
        BY <1>3, <2>2, <3>1
      <3>2. CASE p \notin {a, b}
        BY <1>1, <1>2, <1>3, <1>4, <2>2, <3>2
      <3>3. QED
        BY <3>1, <3>2
    <2>3. QED
      BY <2>1, <2>2
  <1>8. \A p \in Places : IsInjective(Held(p)')
    BY <1>2, <1>3
  <1>9. /\ \A p, q \in Places : p # q => ToSet(Held(p)') \cap ToSet(Held(q)') = {}
        /\ live' = UNION {ToSet(Held(p)') : p \in Places}
    BY <1>6, <1>7 DEF T
  <1>10. QED
    BY <1>8, <1>9 DEF BlocksAccounted

\* What the places hold is live, and no two hold the same.
LEMMA Apart ==
    ASSUME BlocksAccounted
    PROVE  /\ \A p \in Places : IsInjective(Held(p)) /\ ToSet(Held(p)) \subseteq live
           /\ \A p, q \in Places : p # q => ToSet(Held(p)) \cap ToSet(Held(q)) = {}
  BY DEF BlocksAccounted

LEMMA BlocksStay ==
    ASSUME BlocksAccounted, UNCHANGED <<live, distq, sendq, batch, data, mesg_list, wiov>>
    PROVE  BlocksAccounted'
  <1>1. \A p \in Places : Held(p)' = Held(p)
    BY DEF Held
  <1>2. QED
    BY <1>1 DEF BlocksAccounted

BlockInv == KeptInv /\ Batches /\ Fresh /\ BlocksAccounted

\* The first of what is in one place passes to the end of another.
LEMMA BlockPasses ==
    ASSUME BlockInv, NEW a \in Places, NEW b \in Places, a # b, Held(a) # <<>>,
           \A p \in Places \ {a, b} : Held(p)' = Held(p),
           Held(a)' = Tail(Held(a)), Held(b)' = Append(Held(b), Head(Held(a))), live' = live
    PROVE  BlocksAccounted'
  <1> DEFINE x == Held(a)
             y == Held(b)
             m == Head(Held(a))
  <1>1. /\ x \in Seq(Messages) /\ y \in Seq(Messages) /\ x # <<>>
        /\ IsInjective(x) /\ IsInjective(y) /\ ToSet(x) \cap ToSet(y) = {}
        /\ ToSet(x) \subseteq live /\ ToSet(y) \subseteq live
    BY HeldTyped, Apart DEF BlockInv, KeptInv
  <1>2. /\ IsInjective(Tail(x)) /\ ToSet(Tail(x)) = ToSet(x) \ {m} /\ m \in ToSet(x)
        /\ m \in Messages
    BY <1>1, TailUnique, Parts
  <1>3. m \notin ToSet(y)
    BY <1>1, <1>2
  <1>4. IsInjective(Append(y, m)) /\ ToSet(Append(y, m)) = ToSet(y) \cup {m}
    BY <1>1, <1>2, <1>3, AppendUnique
  <1>5. Held(a)' = Tail(x) /\ Held(b)' = Append(y, m)
    OBVIOUS
  <1> HIDE DEF x, y, m
  <1>6. /\ IsInjective(Held(a)') /\ IsInjective(Held(b)')
        /\ ToSet(Held(a)') = ToSet(x) \ {m} /\ ToSet(Held(b)') = ToSet(y) \cup {m}
    BY <1>2, <1>4, <1>5
  <1>7. /\ ToSet(Held(a)') \cap ToSet(Held(b)') = {}
        /\ ToSet(Held(a)') \cup ToSet(Held(b)') = ToSet(x) \cup ToSet(y)
        /\ live' = (live \ (ToSet(x) \cup ToSet(y))) \cup ToSet(Held(a)') \cup ToSet(Held(b)')
    BY <1>1, <1>2, <1>6
  <1>8. {} \cap live = {}
    OBVIOUS
  <1>9. QED
    BY <1>6, <1>7, <1>8, BlocksMove DEF x, y, BlockInv

\* The first of what is in a place is freed.
LEMMA BlockDrops ==
    ASSUME BlockInv, NEW a \in Places, NEW b \in Places, a # b, Held(a) # <<>>,
           \A p \in Places \ {a, b} : Held(p)' = Held(p),
           Held(a)' = Tail(Held(a)), Held(b)' = Held(b), live' = live \ {Head(Held(a))}
    PROVE  BlocksAccounted'
  <1> DEFINE x == Held(a)
             y == Held(b)
             m == Head(Held(a))
  <1>1. /\ x \in Seq(Messages) /\ x # <<>>
        /\ IsInjective(x) /\ IsInjective(y) /\ ToSet(x) \cap ToSet(y) = {}
        /\ ToSet(x) \subseteq live /\ ToSet(y) \subseteq live
    BY HeldTyped, Apart DEF BlockInv, KeptInv
  <1>2. IsInjective(Tail(x)) /\ ToSet(Tail(x)) = ToSet(x) \ {m} /\ m \in ToSet(x)
    BY <1>1, TailUnique
  <1>3. Held(a)' = Tail(x) /\ Held(b)' = y /\ live' = live \ {m}
    OBVIOUS
  <1> HIDE DEF x, y, m
  <1>4. /\ IsInjective(Held(a)') /\ IsInjective(Held(b)')
        /\ ToSet(Held(a)') = ToSet(x) \ {m} /\ ToSet(Held(b)') = ToSet(y)
    BY <1>1, <1>2, <1>3
  <1>5. /\ ToSet(Held(a)') \cap ToSet(Held(b)') = {}
        /\ ToSet(Held(a)') \cup ToSet(Held(b)') \subseteq ToSet(x) \cup ToSet(y)
        /\ live' = (live \ (ToSet(x) \cup ToSet(y))) \cup ToSet(Held(a)') \cup ToSet(Held(b)')
    BY <1>1, <1>2, <1>3, <1>4
  <1>6. {} \cap live = {}
    OBVIOUS
  <1>7. QED
    BY <1>4, <1>5, <1>6, BlocksMove DEF x, y, BlockInv

\* All that is in a place goes to an empty one.
LEMMA BlocksGo ==
    ASSUME BlockInv, NEW a \in Places, NEW b \in Places, a # b, Held(b) = <<>>,
           \A p \in Places \ {a, b} : Held(p)' = Held(p),
           Held(a)' = <<>>, Held(b)' = Held(a), live' = live
    PROVE  BlocksAccounted'
  <1>1. IsInjective(Held(a)) /\ ToSet(Held(a)) \subseteq live
    BY Apart DEF BlockInv
  <1>2. ToSet(<<>>) = {} /\ IsInjective(<<>>)
    BY DEF ToSet, IsInjective
  <1> DEFINE S == ToSet(Held(a))
  <1>3. S \subseteq live
    BY <1>1
  <1>4. /\ IsInjective(Held(a)') /\ IsInjective(Held(b)')
        /\ ToSet(Held(a)') = {} /\ ToSet(Held(b)') = S /\ ToSet(Held(b)) = {}
    BY <1>1, <1>2
  <1> HIDE DEF S
  <1>5. /\ ToSet(Held(a)') \cap ToSet(Held(b)') = {}
        /\ ToSet(Held(a)') \cup ToSet(Held(b)') \subseteq S \cup ToSet(Held(b)) \cup {}
        /\ live' = (live \ (S \cup ToSet(Held(b)))) \cup ToSet(Held(a)') \cup ToSet(Held(b)')
    BY <1>3, <1>4
  <1>6. {} \cap live = {}
    OBVIOUS
  <1>7. QED
    BY <1>4, <1>5, <1>6, BlocksMove DEF S, BlockInv

\* What is in two places is freed.
LEMMA BlocksFreed ==
    ASSUME BlockInv, NEW a \in Places, NEW b \in Places, a # b,
           \A p \in Places \ {a, b} : Held(p)' = Held(p),
           Held(a)' = <<>>, Held(b)' = <<>>, live' = live \ (ToSet(Held(a)) \cup ToSet(Held(b)))
    PROVE  BlocksAccounted'
  <1>1. ToSet(<<>>) = {} /\ IsInjective(<<>>)
    BY DEF ToSet, IsInjective
  <1>2. /\ IsInjective(Held(a)') /\ IsInjective(Held(b)')
        /\ ToSet(Held(a)') = {} /\ ToSet(Held(b)') = {}
    BY <1>1
  <1>3. /\ ToSet(Held(a)') \cap ToSet(Held(b)') = {}
        /\ ToSet(Held(a)') \cup ToSet(Held(b)') \subseteq ToSet(Held(a)) \cup ToSet(Held(b)) \cup {}
        /\ live' = (live \ (ToSet(Held(a)) \cup ToSet(Held(b)))) \cup ToSet(Held(a)') \cup ToSet(Held(b)')
        /\ {} \cap live = {}
    BY <1>2
  <1>4. QED
    BY <1>2, <1>3, BlocksMove DEF BlockInv

\* A block that was not live goes to the end of a place.
LEMMA BlockNew ==
    ASSUME BlockInv, NEW a \in Places, NEW b \in Places, a # b, NEW m \in Messages, m \notin live,
           \A p \in Places \ {a, b} : Held(p)' = Held(p),
           Held(a)' = Append(Held(a), m), Held(b)' = Held(b), live' = live \cup {m}
    PROVE  BlocksAccounted'
  <1> DEFINE x == Held(a)
             y == Held(b)
  <1>1. /\ x \in Seq(Messages) /\ IsInjective(x) /\ IsInjective(y) /\ ToSet(x) \cap ToSet(y) = {}
        /\ ToSet(x) \subseteq live /\ ToSet(y) \subseteq live /\ Held(a)' = Append(x, m) /\ Held(b)' = y
    BY HeldTyped, Apart DEF BlockInv, KeptInv
  <1>2. IsInjective(Append(x, m)) /\ ToSet(Append(x, m)) = ToSet(x) \cup {m}
    BY <1>1, AppendUnique
  <1> HIDE DEF x, y
  <1>3. /\ IsInjective(Held(a)') /\ IsInjective(Held(b)')
        /\ ToSet(Held(a)') = ToSet(x) \cup {m} /\ ToSet(Held(b)') = ToSet(y)
    BY <1>1, <1>2
  <1>4. /\ ToSet(Held(a)') \cap ToSet(Held(b)') = {} /\ {m} \cap live = {}
        /\ ToSet(Held(a)') \cup ToSet(Held(b)') \subseteq ToSet(x) \cup ToSet(y) \cup {m}
        /\ live' = (live \ (ToSet(x) \cup ToSet(y))) \cup ToSet(Held(a)') \cup ToSet(Held(b)')
    BY <1>1, <1>3
  <1>5. QED
    BY <1>3, <1>4, BlocksMove DEF x, y, BlockInv

LEMMA AsyncSendBlocks ==
    ASSUME BlockInv, NEW s \in Senders, AsyncSend(s)
    PROVE  BlocksAccounted'
  <1> USE DEF BlockInv
  <1>1. made' \in 1..MaxSend /\ made' = made + 1 /\ made \in Nat
    BY Sizes DEF AsyncSend, KeptInv, Typed, TypeOK, SendersOK
  <1>2. UNCHANGED <<sendq, batch, data, mesg_list, wiov>>
    BY DEF AsyncSend, rvars, dvars, cvars
  <1>3. PICK q \in Distqs, n \in Nodes :
           IF Len(distq[q]) < QueueMax
           THEN /\ distq' = [distq EXCEPT ![q] = Append(@, Exp(made', s, q, n))]
                /\ live' = live \cup {Exp(made', s, q, n)}
           ELSE UNCHANGED <<distq, live>>
    BY DEF AsyncSend
  <1>4. PICK m \in Orders : m = Exp(made', s, q, n)
    BY <1>1, MessagesMade
  <1>5. CASE UNCHANGED <<distq, live>>
    BY <1>2, <1>5, BlocksStay
  <1>6. CASE /\ distq' = [distq EXCEPT ![q] = Append(@, m)]
             /\ live' = live \cup {m}
    <2> DEFINE a == <<"distq", q>>
               b == <<"data", 0>>
    <2>1. distq[q] \in Seq(Orders) /\ distq'[q] = Append(distq[q], m)
          /\ \A x \in Distqs \ {q} : distq'[x] = distq[x]
      BY <1>6 DEF KeptInv, Typed, TypeOK, SharedOK
    <2>2. /\ a \in Places /\ b \in Places /\ a # b
          /\ Held(a) = distq[q] /\ Held(a)' = distq'[q] /\ Held(b)' = Held(b)
      BY <1>2 DEF Held, Places
    <2>3. \A p \in Places \ {a, b} : Held(p)' = Held(p)
      BY <1>2, <2>1, OthersHeld
    <2>4. m \notin live
      BY <1>1, <1>4 DEF Fresh, Exp
    <2>5. Held(a)' = Append(Held(a), m)
      BY <2>1, <2>2
    <2>6. m \in Messages
      BY MessagesMade
    <2> HIDE DEF a, b
    <2>7. QED
      BY <1>6, <2>2, <2>3, <2>4, <2>5, <2>6, BlockNew
  <1>7. QED
    BY <1>3, <1>4, <1>5, <1>6

LEMMA DsvrBlocks ==
    ASSUME BlockInv, DsvrStep
    PROVE  BlocksAccounted'
  <1> USE DEF BlockInv
  <1> DEFINE a == <<"data", 0>>
  <1>1. Typed /\ a \in Places /\ Held(a) = data /\ Held(a)' = data'
    BY DEF KeptInv, Held, Places
  <1>2. UNCHANGED <<batch, mesg_list, wiov>>
    BY DEF DsvrStep, DsvrSelect, DsvrPop, DsvrMap, DsvrPush, DsvrCmd, rvars, cvars
  <1>3. CASE DsvrSelect \/ DsvrCmd
    <2>1. UNCHANGED <<live, distq, sendq, data>>
      BY <1>3 DEF DsvrSelect, DsvrCmd
    <2>2. QED
      BY <1>2, <2>1, BlocksStay
  <1>4. CASE DsvrPop
    <2>1. PICK q \in Distqs : q = d
      BY <1>1, <1>4 DEF DsvrPop, Typed, DsvrStands
    <2> DEFINE b == <<"distq", q>>
    <2>2. /\ data' = distq[q] /\ distq'[q] = <<>> /\ \A x \in Distqs \ {q} : distq'[x] = distq[x]
          /\ UNCHANGED <<live, sendq>>
      BY <1>1, <1>4, <2>1 DEF DsvrPop, Typed, TypeOK, SharedOK
    <2>3. b \in Places /\ a # b /\ Held(b) = distq[q] /\ Held(b)' = distq'[q]
      BY DEF Held, Places
    <2>4. \A p \in Places \ {a, b} : Held(p)' = Held(p)
      BY <1>2, <2>2, OthersHeld
    <2>5. Held(a) = <<>>
      BY <1>1, <1>4 DEF DsvrPop, Batches
    <2> HIDE DEF a, b
    <2>6. Held(b)' = <<>> /\ Held(a)' = Held(b) /\ live' = live
      BY <1>1, <2>2, <2>3
    <2>7. \A p \in Places \ {b, a} : Held(p)' = Held(p)
      BY <2>4
    <2>8. QED
      BY <1>1, <2>3, <2>5, <2>6, <2>7, BlocksGo
  <1>5. ASSUME data # <<>>, Drop, UNCHANGED <<distq, sendq>> PROVE BlocksAccounted'
    <2> DEFINE b == <<"distq", 1>>
    <2>1. b \in Places /\ a # b /\ Held(b)' = Held(b)
      BY <1>5, Sizes DEF Held, Places, Distqs
    <2>2. \A p \in Places \ {a, b} : Held(p)' = Held(p)
      BY <1>2, <1>5, OthersHeld
    <2> HIDE DEF a, b
    <2>3. Held(a) # <<>> /\ Held(a)' = Tail(Held(a)) /\ live' = live \ {Head(Held(a))}
      BY <1>1, <1>5 DEF Drop
    <2>4. QED
      BY <1>1, <2>1, <2>2, <2>3, BlockDrops
  <1>6. CASE DsvrMap
    <2>1. CASE Drop
      BY <1>1, <1>5, <1>6, <2>1 DEF DsvrMap, Typed, DsvrStands
    <2>2. CASE UNCHANGED <<live, data>>
      BY <1>2, <1>6, <2>2, BlocksStay DEF DsvrMap
    <2>3. QED
      BY <1>6, <2>1, <2>2 DEF DsvrMap
  <1>7. CASE DsvrPush
    <2>1. data # <<>> /\ UNCHANGED distq
      BY <1>1, <1>7 DEF DsvrPush, Typed, DsvrStands
    <2>2. PICK r \in Rsvrs : r = idx
      BY <1>1, <1>7 DEF DsvrPush, Typed, DsvrStands
    <2>3. CASE Drop /\ UNCHANGED sendq
      BY <1>5, <2>1, <2>3
    <2>4. CASE ~(Drop /\ UNCHANGED sendq)
      <3> DEFINE b == <<"sendq", r>>
      <3>1. /\ sendq' = [sendq EXCEPT ![r] = Append(@, Head(data))] /\ data' = Tail(data)
            /\ live' = live
        BY <1>7, <2>2, <2>4 DEF DsvrPush
      <3>2. sendq'[r] = Append(sendq[r], Head(data)) /\ \A x \in Rsvrs \ {r} : sendq'[x] = sendq[x]
        BY <1>1, <3>1 DEF Typed, TypeOK, SharedOK
      <3>3. b \in Places /\ a # b /\ Held(b) = sendq[r] /\ Held(b)' = sendq'[r]
        BY DEF Held, Places
      <3>4. \A p \in Places \ {a, b} : Held(p)' = Held(p)
        BY <1>2, <2>1, <3>2, OthersHeld
      <3> HIDE DEF a, b
      <3>5. /\ Held(a) # <<>> /\ Held(a)' = Tail(Held(a)) /\ Held(b)' = Append(Held(b), Head(Held(a)))
            /\ live' = live
        BY <1>1, <2>1, <3>1, <3>2, <3>3
      <3>6. QED
        BY <1>1, <3>3, <3>4, <3>5, BlockPasses
    <2>5. QED
      BY <2>3, <2>4
  <1>8. QED
    BY <1>3, <1>4, <1>6, <1>7 DEF DsvrStep

LEMMA PopBlocks ==
    ASSUME BlockInv, NEW r \in Rsvrs, RsvrPop(r)
    PROVE  BlocksAccounted'
  <1> USE DEF BlockInv
  <1> DEFINE a == <<"sendq", r>>
             b == <<"batch", r>>
  <1>1. /\ batch'[r] = sendq[r] /\ sendq'[r] = <<>> /\ batch[r] = <<>> /\ live' = live
        /\ \A x \in Rsvrs \ {r} : sendq'[x] = sendq[x] /\ batch'[x] = batch[x]
        /\ UNCHANGED <<distq, data, mesg_list, wiov>>
    BY DEF RsvrPop, KeptInv, Typed, TypeOK, SharedOK, RsvrsOK, dvars, cvars
  <1>2. /\ a \in Places /\ b \in Places /\ a # b
        /\ Held(a) = sendq[r] /\ Held(a)' = sendq'[r] /\ Held(b) = batch[r] /\ Held(b)' = batch'[r]
    BY DEF Held, Places
  <1>3. \A p \in Places \ {a, b} : Held(p)' = Held(p)
    BY <1>1, OthersHeld
  <1> HIDE DEF a, b
  <1>4. QED
    BY <1>1, <1>2, <1>3, BlocksGo

LEMMA RouteBlocks ==
    ASSUME BlockInv, NEW r \in Rsvrs, RsvrRoute(r)
    PROVE  BlocksAccounted'
  <1> USE DEF BlockInv
  <1> DEFINE a == <<"batch", r>>
  <1>1. /\ batch'[r] = Tail(batch[r]) /\ batch[r] # <<>>
        /\ \A x \in Rsvrs \ {r} : batch'[x] = batch[x]
        /\ UNCHANGED <<distq, sendq, data, wiov>>
    BY DEF RsvrRoute, KeptInv, Typed, TypeOK, RsvrsOK, dvars
  <1>2. a \in Places /\ Held(a) = batch[r] /\ Held(a)' = batch'[r]
    BY DEF Held, Places
  <1>3. CASE live' = live \ {Head(batch[r])} /\ UNCHANGED mesg_list
    <2> DEFINE b == <<"data", 0>>
    <2>1. b \in Places /\ a # b /\ Held(b)' = Held(b)
      BY <1>1 DEF Held, Places
    <2>2. \A p \in Places \ {a, b} : Held(p)' = Held(p)
      BY <1>1, <1>3, OthersHeld
    <2> HIDE DEF a, b
    <2>3. QED
      BY <1>1, <1>2, <1>3, <2>1, <2>2, BlockDrops
  <1>4. ASSUME NEW c \in Conns, mesg_list' = [mesg_list EXCEPT ![c] = Append(@, Head(batch[r]))],
               UNCHANGED live
        PROVE  BlocksAccounted'
    <2> DEFINE b == <<"list", c>>
    <2>1. /\ mesg_list'[c] = Append(mesg_list[c], Head(batch[r]))
          /\ \A x \in Conns \ {c} : mesg_list'[x] = mesg_list[x]
      BY <1>4 DEF KeptInv, Typed, TypeOK, ConnsOK
    <2>2. b \in Places /\ a # b /\ Held(b) = mesg_list[c] /\ Held(b)' = mesg_list'[c]
      BY DEF Held, Places
    <2>3. \A p \in Places \ {a, b} : Held(p)' = Held(p)
      BY <1>1, <2>1, OthersHeld
    <2> HIDE DEF a, b
    <2>4. QED
      BY <1>1, <1>2, <1>4, <2>1, <2>2, <2>3, BlockPasses
  <1>5. \A n : On(r, n) \subseteq Conns
    BY DEF On, KeptInv, Typed, TypeOK, RsvrsOK
  <1>6. QED
    BY <1>3, <1>4, <1>5 DEF RsvrRoute

LEMMA ReplyBlocks ==
    ASSUME BlockInv, NEW c \in Conns, NEW m \in Messages, m \notin live, Reply(c, m),
           UNCHANGED <<distq, sendq, batch, data, wiov>>
    PROVE  BlocksAccounted'
  <1> USE DEF BlockInv
  <1> DEFINE a == <<"list", c>>
             b == <<"iov", c>>
  <1>1. /\ mesg_list'[c] = Append(mesg_list[c], m)
        /\ \A x \in Conns \ {c} : mesg_list'[x] = mesg_list[x]
        /\ live' = live \cup {m}
    BY DEF Reply, KeptInv, Typed, TypeOK, ConnsOK
  <1>2. /\ a \in Places /\ b \in Places /\ a # b
        /\ Held(a) = mesg_list[c] /\ Held(a)' = mesg_list'[c] /\ Held(b)' = Held(b)
    BY DEF Held, Places
  <1>3. \A p \in Places \ {a, b} : Held(p)' = Held(p)
    BY <1>1, OthersHeld
  <1> HIDE DEF a, b
  <1>4. QED
    BY <1>1, <1>2, <1>3, BlockNew

LEMMA DelConnBlocks ==
    ASSUME BlockInv, NEW r \in Rsvrs, NEW c \in Conns, NEW n, DelConn(r, c, n),
           UNCHANGED <<distq, sendq, batch, data>>
    PROVE  BlocksAccounted'
  <1> USE DEF BlockInv
  <1> DEFINE a == <<"list", c>>
             b == <<"iov", c>>
  <1>1. /\ \A x \in Conns \ {c} : mesg_list'[x] = mesg_list[x] /\ wiov'[x] = wiov[x]
        /\ mesg_list'[c] = <<>> /\ wiov'[c].items = <<>>
    BY DelConnEmpties DEF KeptInv
  <1>2. live' = live \ (ToSet(mesg_list[c]) \cup ToSet(wiov[c].items))
    BY DEF DelConn, Blocks
  <1>3. /\ a \in Places /\ b \in Places /\ a # b
        /\ Held(a) = mesg_list[c] /\ Held(a)' = mesg_list'[c]
        /\ Held(b) = wiov[c].items /\ Held(b)' = wiov'[c].items
    BY DEF Held, Places
  <1>4. \A p \in Places \ {a, b} : Held(p)' = Held(p)
    BY <1>1, OthersHeld
  <1> HIDE DEF a, b
  <1>5. QED
    BY <1>1, <1>2, <1>3, <1>4, BlocksFreed

\* A request is answered with a block, or ends the connection.
LEMMA RecvBlocks ==
    ASSUME BlockInv, NEW r \in Rsvrs, RsvrRecv(r)
    PROVE  BlocksAccounted'
  <1> USE DEF BlockInv
  <1>1. PICK c \in Conns : c = Min(todo[r])
    BY First DEF RsvrRecv, RsvrsStand, RsvrsOK, KeptInv, Typed, TypeOK
  <1>2. UNCHANGED <<distq, sendq, batch, data>> /\ FreshFor(c) /\ reqs[c] \in Seq({"auth", "kp"})
    BY DEF RsvrRecv, dvars, Fresh, KeptInv, Typed, TypeOK, ClientsOK
  <1>3. reqs[c] # <<>> => Head(reqs[c]) \in ToSet(reqs[c])
    BY <1>2, TailUnique DEF FreshFor
  <1>4. \/ \E n : DelConn(r, c, n)
        \/ UNCHANGED <<live, mesg_list, wiov>>
        \/ reqs[c] # <<>> /\ Head(reqs[c]) = "auth" /\ Reply(c, AuthAck(c)) /\ UNCHANGED wiov
        \/ reqs[c] # <<>> /\ Head(reqs[c]) = "kp" /\ Reply(c, KpAck(c)) /\ UNCHANGED wiov
    BY <1>1 DEF RsvrRecv, AuthReq, KeepaliveReq
  <1>5. ASSUME NEW n, DelConn(r, c, n) PROVE BlocksAccounted'
    BY <1>2, <1>5, DelConnBlocks
  <1>6. CASE UNCHANGED <<live, mesg_list, wiov>>
    BY <1>2, <1>6, BlocksStay
  <1>7. CASE reqs[c] # <<>> /\ Head(reqs[c]) = "auth" /\ Reply(c, AuthAck(c)) /\ UNCHANGED wiov
    <2>1. AuthAck(c) \notin live /\ AuthAck(c) \in Messages
      BY <1>2, <1>3, <1>7, MessagesMade DEF FreshFor
    <2>2. QED
      BY <1>2, <1>7, <2>1, ReplyBlocks
  <1>8. CASE reqs[c] # <<>> /\ Head(reqs[c]) = "kp" /\ Reply(c, KpAck(c)) /\ UNCHANGED wiov
    <2>1. KpAck(c) \notin live /\ KpAck(c) \in Messages
      BY <1>2, <1>3, <1>8, MessagesMade DEF FreshFor
    <2>2. QED
      BY <1>2, <1>8, <2>1, ReplyBlocks
  <1>9. QED
    BY <1>4, <1>5, <1>6, <1>7, <1>8

\* What a write vector holds after a write.
LEMMA Adjusted ==
    ASSUME NEW w, w.items \in Seq(Messages), NEW k \in 1..Len(w.items)
    PROVE  Adjust(w, k).items = SubSeq(w.items, k + 1, Len(w.items))
  <1>1. CASE k = Len(w.items)
    <2> DEFINE v == w.items
    <2>1. SubSeq(v, k + 1, Len(v)) \in Seq(Messages) /\ Len(SubSeq(v, k + 1, Len(v))) = 0
      <3>1. v \in Seq(Messages) /\ k = Len(v) /\ k \in 0..Len(v) /\ Len(v) - k = 0
        BY <1>1
      <3> HIDE DEF v
      <3>2. QED
        BY <3>1, CutParts
    <2>2. SubSeq(v, k + 1, Len(v)) = <<>>
      BY <2>1, EmptySeq
    <2>3. QED
      BY <1>1, <2>2 DEF Adjust, Empty
  <1>2. CASE k # Len(w.items)
    BY <1>2 DEF Adjust
  <1>3. QED
    BY <1>1, <1>2

\* The blocks of a list that is written: those in the vector, those moved to it and
\* those left, the ones written and the ones not.
LEMMA WrittenParts ==
    ASSUME Typed, NEW c \in Conns, NEW k \in 1..Len(Fill(c).items),
           IsInjective(mesg_list[c]), IsInjective(wiov[c].items),
           ToSet(mesg_list[c]) \cap ToSet(wiov[c].items) = {}
    PROVE  LET w    == Fill(c).items
               out  == SubSeq(w, 1, k)
               rest == SubSeq(w, k + 1, Len(w))
               tail == SubSeq(mesg_list[c], Room(c) + 1, Len(mesg_list[c]))
           IN  /\ IsInjective(rest) /\ IsInjective(tail)
               /\ ToSet(rest) \cap ToSet(tail) = {} /\ ToSet(rest) \cap ToSet(out) = {}
               /\ ToSet(tail) \cap ToSet(out) = {}
               /\ ToSet(rest) \cup ToSet(tail) \cup ToSet(out) = ToSet(mesg_list[c]) \cup ToSet(wiov[c].items)
  <1> DEFINE l == mesg_list[c]
             v == wiov[c].items
             n == Room(c)
             w == Fill(c).items
             p == SubSeq(l, 1, n)
             tail == SubSeq(l, n + 1, Len(l))
             out == SubSeq(w, 1, k)
             rest == SubSeq(w, k + 1, Len(w))
  <1>1. l \in Seq(Messages) /\ v \in Seq(Messages) /\ n \in 0..Len(l)
    BY RoomTyped
  <1>2. w = v \o p
    BY DEF Fill
  <1>3. k \in 1..Len(w) /\ IsInjective(l) /\ IsInjective(v) /\ ToSet(l) \cap ToSet(v) = {}
    OBVIOUS
  <1> HIDE DEF l, v, n, w
  <1>4. /\ IsInjective(p) /\ IsInjective(tail) /\ ToSet(p) \cap ToSet(tail) = {}
        /\ ToSet(p) \cup ToSet(tail) = ToSet(l) /\ p \in Seq(Messages)
    BY <1>1, <1>3, CutUnique, CutParts
  <1> HIDE DEF p, tail
  <1>5. ToSet(v) \cap ToSet(p) = {}
    BY <1>3, <1>4
  <1>6. w \in Seq(Messages)
    BY <1>1, <1>2, <1>4, JoinParts
  <1>7. ToSet(w) = ToSet(v) \cup ToSet(p)
    BY <1>1, <1>2, <1>4, JoinElements
  <1>8. IsInjective(w)
    BY <1>1, <1>2, <1>3, <1>4, <1>5, JoinUnique
  <1>9. k \in 0..Len(w)
    BY <1>3, <1>6
  <1>10. /\ IsInjective(rest) /\ ToSet(out) \cap ToSet(rest) = {}
         /\ ToSet(out) \cup ToSet(rest) = ToSet(w)
    BY <1>6, <1>8, <1>9, CutUnique
  <1> HIDE DEF out, rest
  <1>11. /\ IsInjective(rest) /\ IsInjective(tail)
         /\ ToSet(rest) \cap ToSet(tail) = {} /\ ToSet(rest) \cap ToSet(out) = {}
         /\ ToSet(tail) \cap ToSet(out) = {}
         /\ ToSet(rest) \cup ToSet(tail) \cup ToSet(out) = ToSet(l) \cup ToSet(v)
    BY <1>3, <1>4, <1>7, <1>10
  <1>12. QED
    BY <1>11 DEF l, v, n, w, p, tail, out, rest

LEMMA SendBlocks ==
    ASSUME BlockInv, NEW r \in Rsvrs, RsvrSend(r)
    PROVE  BlocksAccounted'
  <1> USE DEF BlockInv
  <1>1. PICK c \in Conns : c = Min(todo[r])
    BY First DEF RsvrSend, RsvrsStand, RsvrsOK, KeptInv, Typed, TypeOK
  <1>2. UNCHANGED <<distq, sendq, batch, data>> /\ Typed
    BY DEF RsvrSend, dvars, KeptInv
  <1>3. \/ DelConn(r, c, nid[c])
        \/ \E k \in 1..Len(Fill(c).items) :
              /\ wiov' = [wiov EXCEPT ![c] = Adjust(Fill(c), k)]
              /\ mesg_list' = [mesg_list EXCEPT ![c] = SubSeq(@, Room(c) + 1, Len(@))]
              /\ live' = live \ ToSet(SubSeq(Fill(c).items, 1, k))
    BY <1>1 DEF RsvrSend
  <1>4. CASE DelConn(r, c, nid[c])
    BY <1>2, <1>4, DelConnBlocks
  <1>5. ASSUME NEW k \in 1..Len(Fill(c).items),
               wiov' = [wiov EXCEPT ![c] = Adjust(Fill(c), k)],
               mesg_list' = [mesg_list EXCEPT ![c] = SubSeq(@, Room(c) + 1, Len(@))],
               live' = live \ ToSet(SubSeq(Fill(c).items, 1, k))
        PROVE  BlocksAccounted'
    <2> DEFINE a == <<"list", c>>
               b == <<"iov", c>>
               out == SubSeq(Fill(c).items, 1, k)
               rest == SubSeq(Fill(c).items, k + 1, Len(Fill(c).items))
               tail == SubSeq(mesg_list[c], Room(c) + 1, Len(mesg_list[c]))
    <2>1. /\ a \in Places /\ b \in Places /\ a # b
          /\ Held(a) = mesg_list[c] /\ Held(a)' = mesg_list'[c]
          /\ Held(b) = wiov[c].items /\ Held(b)' = wiov'[c].items
      BY DEF Held, Places
    <2>2. Adjust(Fill(c), k).items = rest
      BY <1>2, FillTyped, Adjusted
    <2>3. /\ mesg_list'[c] = tail /\ wiov'[c].items = rest
          /\ \A x \in Conns \ {c} : mesg_list'[x] = mesg_list[x] /\ wiov'[x] = wiov[x]
      BY <1>2, <1>5, <2>2 DEF Typed, TypeOK, ConnsOK
    <2>4. \A p \in Places \ {a, b} : Held(p)' = Held(p)
      BY <1>2, <2>3, OthersHeld
    <2>5. /\ IsInjective(mesg_list[c]) /\ IsInjective(wiov[c].items)
          /\ ToSet(mesg_list[c]) \cap ToSet(wiov[c].items) = {}
          /\ ToSet(mesg_list[c]) \subseteq live /\ ToSet(wiov[c].items) \subseteq live
      BY <2>1, Apart
    <2>6. /\ IsInjective(rest) /\ IsInjective(tail)
          /\ ToSet(rest) \cap ToSet(tail) = {} /\ ToSet(rest) \cap ToSet(out) = {}
          /\ ToSet(tail) \cap ToSet(out) = {}
          /\ ToSet(rest) \cup ToSet(tail) \cup ToSet(out) = ToSet(mesg_list[c]) \cup ToSet(wiov[c].items)
      BY <1>2, <2>5, WrittenParts
    <2>7. live' = live \ ToSet(out)
      BY <1>5
    <2> HIDE DEF a, b, out, rest, tail
    <2>8. /\ Held(a)' = tail /\ Held(b)' = rest /\ IsInjective(Held(a)') /\ IsInjective(Held(b)')
      BY <2>1, <2>3, <2>6
    <2>9. /\ ToSet(Held(a)') \cap ToSet(Held(b)') = {}
          /\ ToSet(Held(a)') \cup ToSet(Held(b)') \subseteq ToSet(Held(a)) \cup ToSet(Held(b)) \cup {}
          /\ live' = (live \ (ToSet(Held(a)) \cup ToSet(Held(b)))) \cup ToSet(Held(a)') \cup ToSet(Held(b)')
          /\ {} \cap live = {}
      BY <2>1, <2>5, <2>6, <2>7, <2>8
    <2>10. QED
      BY <2>1, <2>4, <2>8, <2>9, BlocksMove
  <1>6. QED
    BY <1>3, <1>4, <1>5

LEMMA NextBlocks == BlockInv /\ [Next]_vars => BlockInv'
  <1> SUFFICES ASSUME BlockInv, [Next]_vars PROVE BlocksAccounted'
    BY NextKept, BatchesKept, FreshKept DEF BlockInv, KeptInv
  <1>1. CASE \/ UNCHANGED vars
             \/ \E s \in Senders : SendDistReq(s)
             \/ Accept \/ AddCmd
             \/ \E c \in Conns : ClientKeepalive(c) \/ ClientCloses(c)
             \/ \E r \in Rsvrs : RsvrSelect(r) \/ RsvrCmd(r)
    <2>1. UNCHANGED <<live, distq, sendq, batch, data, mesg_list, wiov>>
      BY <1>1 DEF SendDistReq, Accept, AddCmd, ClientKeepalive, ClientCloses, RsvrSelect, RsvrCmd,
                  vars, dvars, rvars, cvars
    <2>2. QED
      BY <2>1, BlocksStay DEF BlockInv
  <1>2. ASSUME NEW r \in Rsvrs, RsvrDropsSilent(r) PROVE BlocksAccounted'
    <2>1. PICK c \in Conns : DelConn(r, c, nid[c])
      BY <1>2 DEF RsvrDropsSilent, BlockInv, KeptInv, Typed, TypeOK, RsvrsOK
    <2>2. UNCHANGED <<distq, sendq, batch, data>>
      BY <1>2 DEF RsvrDropsSilent, dvars
    <2>3. QED
      BY <2>1, <2>2, DelConnBlocks
  <1>3. QED
    BY <1>1, <1>2, AsyncSendBlocks, DsvrBlocks, PopBlocks, RouteBlocks, RecvBlocks, SendBlocks
       DEF Next, RsvrStep

LEMMA InitBlocks == Init => BlockInv
  <1> SUFFICES ASSUME Init PROVE BlockInv
    OBVIOUS
  <1>1. ToSet(<<>>) = {} /\ IsInjective(<<>>)
    BY DEF ToSet, IsInjective
  <1>2. \A p \in Places : Held(p) = <<>>
    BY DEF Init, Places, Held, Empty
  <1>3. BlocksAccounted
    BY <1>1, <1>2 DEF BlocksAccounted, Init
  <1>4. Batches /\ Fresh
    BY <1>1 DEF Init, Batches, Fresh, FreshFor
  <1>5. QED
    BY <1>3, <1>4, InitKept DEF BlockInv

\* A block that is not freed is in exactly one queue, batch, list or write vector, and
\* a freed one in none, whichever thread gives up on it.
THEOREM OneOwner == Spec => []BlocksAccounted
  <1>1. BlockInv => BlocksAccounted
    BY DEF BlockInv
  <1>2. QED
    BY <1>1, InitBlocks, NextBlocks, PTL DEF Spec

-----------------------------------------------------------------------------
(* Messages keep their order. *)

SameWay(x, y) == x.kind = "exp" /\ y.kind = "exp" /\ x.by = y.by /\ x.via = y.via

\* A sequence in the order of sending, a set sent before another.
InOrd(s) == \A i, j \in DOMAIN s : i < j /\ SameWay(s[i], s[j]) => s[i].no < s[j].no
Before(S, T) == \A x \in S, y \in T : SameWay(x, y) => x.no < y.no

Exps(s) == {x \in ToSet(s) : x.kind = "exp"}

\* What is on the way to connection c, the farthest first.
Stages(c) == <<inbox[c], wiov[c].items, mesg_list[c], batch[RsvrOf(c)], sendq[RsvrOf(c)], data>>

\* What waits in the distribution queues.
Waiting == UNION {ToSet(distq[q]) : q \in Distqs}

\* The farther stage was sent before the nearer.
ChainIn(h, W) ==
    /\ \A k \in 1..6 : InOrd(h[k]) /\ Before(ToSet(h[k]), W)
    /\ \A j, k \in 1..6 : j < k => Before(ToSet(h[j]), ToSet(h[k]))

Ordered ==
    /\ \A c \in Conns : ChainIn(Stages(c), Waiting)
    /\ \A q \in Distqs : InOrd(distq[q]) /\ \A m \in ToSet(distq[q]) : m.via = q
    /\ \A c \in Conns : \A m \in ToSet(inbox[c]) : m.kind = "exp" => m.no <= made

LEMMA OrdElements ==
    ASSUME NEW S, NEW s \in Seq(S)
    PROVE  InOrd(s) <=> \A i, j \in 1..Len(s) : i < j /\ SameWay(s[i], s[j]) => s[i].no < s[j].no
  BY DEF InOrd

LEMMA OrdEmpty == InOrd(<<>>) /\ ToSet(<<>>) = {}
  BY DEF InOrd, ToSet

LEMMA OrdAppend ==
    ASSUME NEW S, NEW s \in Seq(S), NEW m \in S, InOrd(s), Before(ToSet(s), {m})
    PROVE  InOrd(Append(s, m))
  <1> DEFINE t == Append(s, m)
  <1>1. /\ t \in Seq(S) /\ Len(t) = Len(s) + 1 /\ Len(s) \in Nat
        /\ \A k \in 1..Len(s) : t[k] = s[k]
        /\ t[Len(s) + 1] = m
    OBVIOUS
  <1> HIDE DEF t
  <1>2. \A k \in 1..Len(s) : SameWay(s[k], m) => s[k].no < m.no
    BY Elements DEF Before
  <1>3. \A i, j \in 1..Len(s) : i < j /\ SameWay(s[i], s[j]) => s[i].no < s[j].no
    BY OrdElements
  <1>4. ASSUME NEW i \in 1..Len(t), NEW j \in 1..Len(t), i < j, SameWay(t[i], t[j])
        PROVE  t[i].no < t[j].no
    <2>1. i \in 1..Len(s) /\ t[i] = s[i]
      BY <1>1, <1>4
    <2>2. CASE j \in 1..Len(s)
      BY <1>1, <1>3, <1>4, <2>1, <2>2
    <2>3. CASE j = Len(s) + 1
      BY <1>1, <1>2, <1>4, <2>1, <2>3
    <2>4. QED
      BY <1>1, <2>2, <2>3
  <1>5. InOrd(t)
    BY <1>1, <1>4, OrdElements
  <1>6. QED
    BY <1>5 DEF t

LEMMA OrdTail ==
    ASSUME NEW S, NEW s \in Seq(S), InOrd(s), s # <<>>
    PROVE  /\ InOrd(Tail(s)) /\ ToSet(Tail(s)) \subseteq ToSet(s) /\ Head(s) \in ToSet(s)
           /\ Before({Head(s)}, ToSet(Tail(s)))
  <1> DEFINE t == Tail(s)
  <1>1. /\ t \in Seq(S) /\ Len(t) = Len(s) - 1 /\ Len(s) \in Nat \ {0}
        /\ \A k \in 1..Len(t) : t[k] = s[k + 1]
        /\ Head(s) = s[1]
    OBVIOUS
  <1> HIDE DEF t
  <1>2. \A i, j \in 1..Len(s) : i < j /\ SameWay(s[i], s[j]) => s[i].no < s[j].no
    BY OrdElements
  <1>3. \A i, j \in 1..Len(t) : i < j /\ SameWay(t[i], t[j]) => t[i].no < t[j].no
    <2> SUFFICES ASSUME NEW i \in 1..Len(t), NEW j \in 1..Len(t), i < j, SameWay(t[i], t[j])
                 PROVE  t[i].no < t[j].no
      OBVIOUS
    <2>1. i + 1 \in 1..Len(s) /\ j + 1 \in 1..Len(s) /\ i + 1 < j + 1
      BY <1>1
    <2>2. QED
      BY <1>1, <1>2, <2>1
  <1>4. InOrd(t)
    BY <1>1, <1>3, OrdElements
  <1>5. \A x \in ToSet(t) : \E i \in 1..Len(t) : x = t[i]
    BY <1>1, Elements
  <1>6. \A i \in 1..Len(t) : i + 1 \in 1..Len(s) /\ 1 < i + 1 /\ t[i] = s[i + 1]
    BY <1>1
  <1>7. ToSet(t) \subseteq ToSet(s) /\ s[1] \in ToSet(s)
    <2>1. 1 \in 1..Len(s)
      BY <1>1
    <2>2. QED
      BY <1>5, <1>6, <2>1, Elements
  <1>8. Before({s[1]}, ToSet(t))
    <2> SUFFICES ASSUME NEW y \in ToSet(t), SameWay(s[1], y) PROVE s[1].no < y.no
      BY DEF Before
    <2>1. PICK i \in 1..Len(t) : y = t[i]
      BY <1>5
    <2>2. 1 \in 1..Len(s)
      BY <1>1
    <2>3. QED
      BY <1>2, <1>6, <2>1, <2>2
  <1>9. QED
    BY <1>1, <1>4, <1>7, <1>8 DEF t

LEMMA OrdCut ==
    ASSUME NEW S, NEW s \in Seq(S), InOrd(s), NEW k \in 0..Len(s)
    PROVE  LET a == SubSeq(s, 1, k)
               b == SubSeq(s, k + 1, Len(s))
           IN  /\ InOrd(a) /\ InOrd(b) /\ Before(ToSet(a), ToSet(b))
               /\ ToSet(a) \subseteq ToSet(s) /\ ToSet(b) \subseteq ToSet(s)
  <1> DEFINE a == SubSeq(s, 1, k)
             b == SubSeq(s, k + 1, Len(s))
  <1>1. /\ a \in Seq(S) /\ Len(a) = k /\ b \in Seq(S) /\ Len(b) = Len(s) - k
        /\ \A i \in 1..k : a[i] = s[i]
        /\ \A i \in 1..(Len(s) - k) : b[i] = s[k + i]
        /\ Len(s) \in Nat
    BY CutParts
  <1> HIDE DEF a, b
  <1>2. \A i, j \in 1..Len(s) : i < j /\ SameWay(s[i], s[j]) => s[i].no < s[j].no
    BY OrdElements
  <1>3. \A i \in 1..k : i \in 1..Len(s)
    BY <1>1
  <1>4. \A i \in 1..(Len(s) - k) : k + i \in 1..Len(s)
    BY <1>1
  <1>5. InOrd(a)
    <2>1. \A i, j \in 1..Len(a) : i < j /\ SameWay(a[i], a[j]) => a[i].no < a[j].no
      BY <1>1, <1>2, <1>3
    <2>2. QED
      BY <1>1, <2>1, OrdElements
  <1>6. InOrd(b)
    <2>1. ASSUME NEW i \in 1..(Len(s) - k), NEW j \in 1..(Len(s) - k), i < j, SameWay(b[i], b[j])
          PROVE  b[i].no < b[j].no
      <3>1. k + i < k + j
        BY <1>1, <2>1
      <3>2. QED
        BY <1>1, <1>2, <1>4, <2>1, <3>1
    <2>2. QED
      BY <1>1, <2>1, OrdElements
  <1>7. /\ \A x \in ToSet(a) : \E i \in 1..k : x = a[i]
        /\ \A x \in ToSet(b) : \E i \in 1..(Len(s) - k) : x = b[i]
    BY <1>1, Elements
  <1>8. ToSet(a) \subseteq ToSet(s) /\ ToSet(b) \subseteq ToSet(s)
    BY <1>1, <1>3, <1>4, <1>7, Elements, SMTT(40)
  <1>9. Before(ToSet(a), ToSet(b))
    <2> SUFFICES ASSUME NEW x \in ToSet(a), NEW y \in ToSet(b), SameWay(x, y) PROVE x.no < y.no
      BY DEF Before
    <2>1. PICK i \in 1..k : x = a[i]
      BY <1>7
    <2>2. PICK j \in 1..(Len(s) - k) : y = b[j]
      BY <1>7
    <2>3. i < k + j /\ x = s[i] /\ y = s[k + j]
      BY <1>1, <2>1, <2>2
    <2>4. QED
      BY <1>2, <1>3, <1>4, <2>3
  <1>10. QED
    BY <1>5, <1>6, <1>8, <1>9 DEF a, b

LEMMA OrdJoin ==
    ASSUME NEW S, NEW s \in Seq(S), NEW t \in Seq(S), InOrd(s), InOrd(t),
           Before(ToSet(s), ToSet(t))
    PROVE  InOrd(s \o t)
  <1> DEFINE u == s \o t
  <1>1. /\ u \in Seq(S) /\ Len(u) = Len(s) + Len(t)
        /\ \A i \in 1..Len(s) : u[i] = s[i]
    BY JoinParts
  <1>2. \A i \in 1..(Len(s) + Len(t)) :
           i <= Len(s) \/ \E j \in 1..Len(t) : i = Len(s) + j /\ u[i] = t[j]
    BY JoinParts
  <1> HIDE DEF u
  <1>3. Len(s) \in Nat /\ Len(t) \in Nat
    OBVIOUS
  <1>4. /\ \A i, j \in 1..Len(s) : i < j /\ SameWay(s[i], s[j]) => s[i].no < s[j].no
        /\ \A i, j \in 1..Len(t) : i < j /\ SameWay(t[i], t[j]) => t[i].no < t[j].no
    BY OrdElements
  <1>5. \A i \in 1..Len(s), j \in 1..Len(t) : SameWay(s[i], t[j]) => s[i].no < t[j].no
    BY Elements DEF Before
  <1>6. \A i, j \in 1..Len(u) : i < j /\ SameWay(u[i], u[j]) => u[i].no < u[j].no
    <2> SUFFICES ASSUME NEW i \in 1..Len(u), NEW j \in 1..Len(u), i < j, SameWay(u[i], u[j])
                 PROVE  u[i].no < u[j].no
      OBVIOUS
    <2>1. CASE j <= Len(s)
      <3>1. i \in 1..Len(s) /\ j \in 1..Len(s)
        BY <1>3, <2>1
      <3>2. QED
        BY <1>1, <1>4, <3>1
    <2>2. CASE ~(j <= Len(s))
      <3>1. PICK y \in 1..Len(t) : j = Len(s) + y /\ u[j] = t[y]
        BY <1>1, <1>2, <2>2
      <3>2. CASE i <= Len(s)
        <4>1. i \in 1..Len(s)
          BY <1>3, <3>2
        <4>2. QED
          BY <1>1, <1>5, <3>1, <4>1
      <3>3. CASE ~(i <= Len(s))
        <4>1. PICK x \in 1..Len(t) : i = Len(s) + x /\ u[i] = t[x]
          BY <1>1, <1>2, <3>3
        <4>2. x < y
          BY <1>3, <3>1, <4>1
        <4>3. QED
          BY <1>4, <3>1, <4>1, <4>2
      <3>4. QED
        BY <3>2, <3>3
    <2>3. QED
      BY <2>1, <2>2
  <1>7. InOrd(u)
    BY <1>1, <1>6, OrdElements
  <1>8. QED
    BY <1>7 DEF u

\* Stages that lose messages, or take answers.
LEMMA ChainShrinks ==
    ASSUME NEW h, NEW g, NEW W, NEW X, ChainIn(h, W), X \subseteq W,
           \A k \in 1..6 : InOrd(g[k]) /\ Exps(g[k]) \subseteq Exps(h[k])
    PROVE  ChainIn(g, X)
  <1>1. \A k \in 1..6 : \A x \in ToSet(g[k]) : x.kind = "exp" => x \in ToSet(h[k])
    BY DEF Exps
  <1>2. \A k \in 1..6 : Before(ToSet(g[k]), X)
    BY <1>1 DEF ChainIn, Before, SameWay
  <1>3. \A j, k \in 1..6 : j < k => Before(ToSet(g[j]), ToSet(g[k]))
    <2> SUFFICES ASSUME NEW j \in 1..6, NEW k \in 1..6, j < k,
                        NEW x \in ToSet(g[j]), NEW y \in ToSet(g[k]), SameWay(x, y)
                 PROVE  x.no < y.no
      BY DEF Before
    <2>1. x \in ToSet(h[j]) /\ y \in ToSet(h[k])
      BY <1>1 DEF SameWay
    <2>2. Before(ToSet(h[j]), ToSet(h[k]))
      BY DEF ChainIn
    <2>3. QED
      BY <2>1, <2>2 DEF Before
  <1>4. QED
    BY <1>2, <1>3 DEF ChainIn

\* Messages of a stage go to the next; other stages may lose some.
LEMMA ChainMoves ==
    ASSUME NEW h, NEW g, NEW W, NEW X, ChainIn(h, W), X \subseteq W, NEW k \in 1..5,
           \A i \in (1..6) \ {k, k + 1} : InOrd(g[i]) /\ ToSet(g[i]) \subseteq ToSet(h[i]),
           InOrd(g[k]), InOrd(g[k + 1]), Before(ToSet(g[k]), ToSet(g[k + 1])),
           ToSet(g[k]) \subseteq ToSet(h[k]) \cup ToSet(h[k + 1]),
           ToSet(g[k + 1]) \subseteq ToSet(h[k + 1])
    PROVE  ChainIn(g, X)
  <1>1. k + 1 \in 1..6 /\ k \in 1..6
    OBVIOUS
  <1>2. \A i \in 1..6 : \A x \in ToSet(g[i]) :
           x \in ToSet(h[i]) \/ (i = k /\ x \in ToSet(h[k + 1]))
    OBVIOUS
  <1>3. \A i \in 1..6 : InOrd(g[i])
    OBVIOUS
  <1>4. \A i \in 1..6 : Before(ToSet(g[i]), X)
    BY <1>1, <1>2 DEF ChainIn, Before
  <1>5. ASSUME NEW i \in 1..6, NEW j \in 1..6, i < j,
               NEW x \in ToSet(g[i]), NEW y \in ToSet(g[j]), SameWay(x, y)
        PROVE  x.no < y.no
    <2>1. \A m, n \in 1..6 : m < n => Before(ToSet(h[m]), ToSet(h[n]))
      BY DEF ChainIn
    <2>2. CASE i = k /\ j = k + 1
      BY <1>5, <2>2 DEF Before
    <2>3. CASE ~(i = k /\ j = k + 1)
      <3>1. PICK m \in 1..6 : x \in ToSet(h[m]) /\ m \in {i, IF i = k THEN k + 1 ELSE i}
        BY <1>1, <1>2
      <3>2. PICK n \in 1..6 : y \in ToSet(h[n]) /\ n \in {j, IF j = k THEN k + 1 ELSE j}
        BY <1>1, <1>2
      <3>3. m < n
        BY <1>5, <2>3, <3>1, <3>2
      <3>4. QED
        BY <1>5, <2>1, <3>1, <3>2, <3>3 DEF Before
    <2>4. QED
      BY <2>2, <2>3
  <1>6. \A i, j \in 1..6 : i < j => Before(ToSet(g[i]), ToSet(g[j]))
    BY <1>5 DEF Before
  <1>7. QED
    BY <1>3, <1>4, <1>6 DEF ChainIn

\* The first message of a stage goes to the end of the next.
LEMMA HeadMoves ==
    ASSUME NEW h, NEW g, NEW W, ChainIn(h, W), NEW k \in 1..5,
           \A i \in (1..6) \ {k, k + 1} : g[i] = h[i],
           h[k] \in Seq(Messages), h[k + 1] \in Seq(Messages), h[k + 1] # <<>>,
           g[k] = Append(h[k], Head(h[k + 1])), g[k + 1] = Tail(h[k + 1])
    PROVE  ChainIn(g, W)
  <1> DEFINE x == h[k]
             y == h[k + 1]
             m == Head(h[k + 1])
  <1>1. k \in 1..6 /\ k + 1 \in 1..6 /\ k < k + 1
    OBVIOUS
  <1>2. InOrd(x) /\ InOrd(y) /\ Before(ToSet(x), ToSet(y))
    BY <1>1 DEF ChainIn
  <1>3. x \in Seq(Messages) /\ y \in Seq(Messages) /\ y # <<>>
        /\ g[k] = Append(x, m) /\ g[k + 1] = Tail(y)
    OBVIOUS
  <1>4. \A i \in (1..6) \ {k, k + 1} : InOrd(g[i]) /\ ToSet(g[i]) \subseteq ToSet(h[i])
    BY DEF ChainIn
  <1>5. /\ InOrd(Tail(y)) /\ ToSet(Tail(y)) \subseteq ToSet(y) /\ m \in ToSet(y)
        /\ Before({m}, ToSet(Tail(y))) /\ m \in Messages
    BY <1>2, <1>3, OrdTail, Parts
  <1> HIDE DEF x, y, m
  <1>6. Before(ToSet(x), {m}) /\ Before(ToSet(x), ToSet(Tail(y)))
    BY <1>2, <1>5 DEF Before
  <1>7. InOrd(Append(x, m)) /\ ToSet(Append(x, m)) = ToSet(x) \cup {m}
    BY <1>2, <1>3, <1>5, <1>6, OrdAppend, AppendElements
  <1>8. Before(ToSet(Append(x, m)), ToSet(Tail(y)))
    BY <1>5, <1>6, <1>7 DEF Before
  <1>9. /\ InOrd(g[k]) /\ InOrd(g[k + 1]) /\ Before(ToSet(g[k]), ToSet(g[k + 1]))
        /\ ToSet(g[k]) \subseteq ToSet(h[k]) \cup ToSet(h[k + 1])
        /\ ToSet(g[k + 1]) \subseteq ToSet(h[k + 1])
    <2>1. ToSet(g[k]) = ToSet(x) \cup {m} /\ ToSet(g[k + 1]) = ToSet(Tail(y))
      BY <1>3, <1>7
    <2>2. ToSet(h[k]) = ToSet(x) /\ ToSet(h[k + 1]) = ToSet(y)
      BY DEF x, y
    <2>3. QED
      BY <1>3, <1>5, <1>7, <1>8, <2>1, <2>2
  <1>10. QED
    BY <1>4, <1>9, ChainMoves

\* The front of a stage, n messages, goes to the end of the next.
PartMoved(h, g, k, j, n) ==
    /\ k \in 1..5 /\ j = k + 1
    /\ \A i \in (1..6) \ {k, j} : g[i] = h[i]
    /\ h[k] \in Seq(Messages) /\ h[j] \in Seq(Messages) /\ n \in 0..Len(h[j])
    /\ g[k] = h[k] \o SubSeq(h[j], 1, n)
    /\ g[j] = SubSeq(h[j], n + 1, Len(h[j]))

LEMMA PartMoves ==
    ASSUME NEW h, NEW g, NEW W, NEW k, NEW j, NEW n, ChainIn(h, W), PartMoved(h, g, k, j, n)
    PROVE  ChainIn(g, W)
  <1>0. /\ k \in 1..5 /\ j = k + 1 /\ \A i \in (1..6) \ {k, j} : g[i] = h[i]
        /\ h[k] \in Seq(Messages) /\ h[j] \in Seq(Messages) /\ n \in 0..Len(h[j])
        /\ g[k] = h[k] \o SubSeq(h[j], 1, n) /\ g[j] = SubSeq(h[j], n + 1, Len(h[j]))
    BY DEF PartMoved
  <1> DEFINE x == h[k]
             y == h[j]
             a == SubSeq(y, 1, n)
             b == SubSeq(y, n + 1, Len(y))
  <1>1. k \in 1..6 /\ j \in 1..6 /\ k < j
    BY <1>0
  <1>2. InOrd(x) /\ InOrd(y) /\ Before(ToSet(x), ToSet(y))
    BY <1>1 DEF ChainIn
  <1>3. x \in Seq(Messages) /\ y \in Seq(Messages) /\ n \in 0..Len(y)
        /\ g[k] = x \o a /\ g[j] = b
    BY <1>0
  <1>4. \A i \in (1..6) \ {k, j} : InOrd(g[i]) /\ ToSet(g[i]) \subseteq ToSet(h[i])
    BY <1>0 DEF ChainIn
  <1>5. ToSet(h[k]) = ToSet(x) /\ ToSet(h[j]) = ToSet(y)
    OBVIOUS
  <1> HIDE DEF x, y
  <1>6. /\ InOrd(a) /\ InOrd(b) /\ Before(ToSet(a), ToSet(b))
        /\ ToSet(a) \subseteq ToSet(y) /\ ToSet(b) \subseteq ToSet(y)
    BY <1>2, <1>3, OrdCut
  <1>7. a \in Seq(Messages)
    BY <1>3, CutParts
  <1> HIDE DEF a, b
  <1>8. Before(ToSet(x), ToSet(a)) /\ Before(ToSet(x), ToSet(b))
    BY <1>2, <1>6 DEF Before
  <1>9. InOrd(x \o a) /\ ToSet(x \o a) = ToSet(x) \cup ToSet(a)
    BY <1>2, <1>3, <1>6, <1>7, <1>8, OrdJoin, JoinElements
  <1>10. Before(ToSet(x \o a), ToSet(b))
    BY <1>6, <1>8, <1>9 DEF Before
  <1>11. /\ InOrd(g[k]) /\ InOrd(g[j]) /\ Before(ToSet(g[k]), ToSet(g[j]))
         /\ ToSet(g[k]) \subseteq ToSet(h[k]) \cup ToSet(h[j])
         /\ ToSet(g[j]) \subseteq ToSet(h[j])
    BY <1>3, <1>5, <1>6, <1>9, <1>10
  <1>12. QED
    BY <1>0, <1>4, <1>11, ChainMoves

\* A whole stage goes to an empty one.
LEMMA StageMoves ==
    ASSUME NEW h, NEW g, NEW W, ChainIn(h, W), NEW k \in 1..5,
           \A i \in (1..6) \ {k, k + 1} : g[i] = h[i],
           g[k] = h[k + 1], g[k + 1] = <<>>
    PROVE  ChainIn(g, W)
  <1>1. k + 1 \in 1..6
    OBVIOUS
  <1>2. /\ InOrd(g[k]) /\ InOrd(g[k + 1]) /\ ToSet(g[k + 1]) = {} /\ ToSet(g[k]) = ToSet(h[k + 1])
    BY <1>1, OrdEmpty DEF ChainIn
  <1>3. Before(ToSet(g[k]), ToSet(g[k + 1]))
    BY <1>2 DEF Before
  <1>4. \A i \in (1..6) \ {k, k + 1} : InOrd(g[i]) /\ ToSet(g[i]) \subseteq ToSet(h[i])
    BY DEF ChainIn
  <1>5. QED
    BY <1>2, <1>3, <1>4, ChainMoves

OrderInv == BlockInv /\ Ordered

\* The stages, before and after a step, and the messages in them.
LEMMA StagesAre ==
    ASSUME NEW c
    PROVE  /\ Stages(c)[1] = inbox[c] /\ Stages(c)'[1] = inbox'[c]
           /\ Stages(c)[2] = wiov[c].items /\ Stages(c)'[2] = wiov'[c].items
           /\ Stages(c)[3] = mesg_list[c] /\ Stages(c)'[3] = mesg_list'[c]
           /\ Stages(c)[4] = batch[RsvrOf(c)] /\ Stages(c)'[4] = batch'[RsvrOf(c)]
           /\ Stages(c)[5] = sendq[RsvrOf(c)] /\ Stages(c)'[5] = sendq'[RsvrOf(c)]
           /\ Stages(c)[6] = data /\ Stages(c)'[6] = data'
  BY DEF Stages

LEMMA Served ==
    ASSUME NEW c \in Conns
    PROVE  RsvrOf(c) \in Rsvrs
  BY Sizes DEF Conns, RsvrOf, Rsvrs

LEMMA StagesTyped ==
    ASSUME Typed, NEW c \in Conns
    PROVE  \A k \in 1..6 : Stages(c)[k] \in Seq(Messages)
  <1>1. /\ inbox[c] \in Seq(Messages) /\ wiov[c].items \in Seq(Messages)
        /\ mesg_list[c] \in Seq(Messages)
    BY DEF Typed, TypeOK, ConnsOK, ClientsOK
  <1>2. /\ batch[RsvrOf(c)] \in Seq(Orders) /\ sendq[RsvrOf(c)] \in Seq(Orders)
        /\ data \in Seq(Orders)
    BY Served DEF Typed, TypeOK, SharedOK, RsvrsOK, DsvrOK
  <1>3. Seq(Orders) \subseteq Seq(Messages)
    <2>1. \A S : \A T : S \subseteq T => Seq(S) \subseteq Seq(T)
      OBVIOUS
    <2>2. QED
      BY <2>1, MessagesMade
  <1>4. QED
    BY <1>1, <1>2, <1>3, StagesAre, SMTT(40)

\* What is on the way has been sent.
LEMMA Numbered ==
    ASSUME NEW x \in Messages, x.kind = "exp"
    PROVE  x \in Orders /\ x.no \in 1..MaxSend
  BY DEF Messages, Orders

LEMMA SentBefore ==
    ASSUME OrderInv
    PROVE  /\ \A c \in Conns : \A k \in 1..6 : \A x \in ToSet(Stages(c)[k]) :
                 x.kind = "exp" => x.no \in Nat /\ x.no <= made
           /\ \A q \in Distqs : \A x \in ToSet(distq[q]) : x.no \in Nat /\ x.no <= made
  <1> USE DEF OrderInv, BlockInv, KeptInv
  <1>1. \A x \in live : x.kind = "exp" => x.no \in Nat /\ x.no <= made
    <2>1. \A x \in live : x \in Messages
      BY DEF Typed, TypeOK, SharedOK
    <2>2. QED
      BY <2>1, Numbered, Sizes DEF Fresh
  <1>2. ASSUME NEW c \in Conns, NEW k \in 1..6, NEW x \in ToSet(Stages(c)[k]), x.kind = "exp"
        PROVE  x.no \in Nat /\ x.no <= made
    <2>1. CASE k = 1
      <3>1. x \in Messages
        BY <1>2, StagesTyped, Parts
      <3>2. x.no \in Nat
        BY <1>2, <3>1, Numbered, Sizes
      <3>3. QED
        BY <1>2, <2>1, <3>2, StagesAre DEF Ordered
    <2>2. CASE k # 1
      <3>1. \E p \in Places : Held(p) = Stages(c)[k]
        <4> DEFINE g == Stages(c)
        <4>1. k \in {2, 3, 4, 5, 6}
          BY <1>2, <2>2
        <4>2. PICK r \in Rsvrs : r = RsvrOf(c)
          BY Served
        <4>3. /\ g[2] = wiov[c].items /\ g[3] = mesg_list[c] /\ g[4] = batch[r]
              /\ g[5] = sendq[r] /\ g[6] = data
          BY <4>2, StagesAre
        <4>4. /\ Held(<<"iov", c>>) = wiov[c].items /\ Held(<<"list", c>>) = mesg_list[c]
              /\ Held(<<"batch", r>>) = batch[r] /\ Held(<<"sendq", r>>) = sendq[r]
              /\ Held(<<"data", 0>>) = data
              /\ {<<"iov", c>>, <<"list", c>>, <<"batch", r>>, <<"sendq", r>>, <<"data", 0>>} \subseteq Places
          BY HeldAre
        <4> HIDE DEF g
        <4>5. \E p \in Places : Held(p) = g[k]
          BY <4>1, <4>3, <4>4
        <4>6. QED
          BY <4>5 DEF g
      <3>2. x \in live
        BY <1>2, <3>1, Apart
      <3>3. QED
        BY <1>1, <1>2, <3>2
    <2>3. QED
      BY <2>1, <2>2
  <1>3. ASSUME NEW q \in Distqs, NEW x \in ToSet(distq[q])
        PROVE  x.no \in Nat /\ x.no <= made
    <2>1. x \in live
      BY <1>3, HeldAre, Apart
    <2>2. x \in Orders
      BY Parts DEF Typed, TypeOK, SharedOK
    <2>3. x.kind = "exp"
      BY <2>2 DEF Orders
    <2>4. QED
      BY <1>1, <2>1, <2>3
  <1>4. QED
    BY <1>2, <1>3

\* A step that sends nothing and delivers nothing.
LEMMA OrderStays ==
    ASSUME Ordered, UNCHANGED <<distq, made, inbox>>,
           \A c \in Conns : ChainIn(Stages(c)', Waiting)
    PROVE  Ordered'
  <1>1. Waiting' = Waiting
    BY DEF Waiting
  <1>2. \A c \in Conns : ChainIn(Stages(c)', Waiting')
    BY <1>1
  <1>3. QED
    BY <1>2 DEF Ordered, ChainIn

\* A step by which connections and threads lose messages or take answers.
LEMMA OrderShrinks ==
    ASSUME Ordered, UNCHANGED <<distq, made, inbox>>,
           \A c \in Conns : \A k \in 1..6 :
              \/ Stages(c)'[k] = Stages(c)[k]
              \/ InOrd(Stages(c)'[k]) /\ Exps(Stages(c)'[k]) \subseteq Exps(Stages(c)[k])
    PROVE  Ordered'
  <1>1. \A c \in Conns : ChainIn(Stages(c)', Waiting)
    <2> SUFFICES ASSUME NEW c \in Conns PROVE ChainIn(Stages(c)', Waiting)
      OBVIOUS
    <2>1. ChainIn(Stages(c), Waiting)
      BY DEF Ordered
    <2>2. \A k \in 1..6 : InOrd(Stages(c)'[k]) /\ Exps(Stages(c)'[k]) \subseteq Exps(Stages(c)[k])
      <3>1. \A k \in 1..6 : InOrd(Stages(c)[k])
        BY <2>1 DEF ChainIn
      <3> DEFINE h == Stages(c)
                 g == Stages(c)'
      <3>2. \A k \in 1..6 : g[k] = h[k] => InOrd(g[k]) /\ Exps(g[k]) = Exps(h[k])
        BY <3>1
      <3>3. QED
        BY <3>2
    <2> DEFINE h == Stages(c)
               g == Stages(c)'
    <2>3. ChainIn(h, Waiting) /\ \A k \in 1..6 : InOrd(g[k]) /\ Exps(g[k]) \subseteq Exps(h[k])
      BY <2>1, <2>2
    <2> HIDE DEF h, g
    <2>4. ChainIn(g, Waiting)
      BY <2>3, ChainShrinks
    <2>5. QED
      BY <2>4 DEF g
  <1>2. QED
    BY <1>1, OrderStays

\* A message is sent: its number is greater than all on the way.
LEMMA AsyncSendOrder ==
    ASSUME OrderInv, NEW s \in Senders, AsyncSend(s)
    PROVE  Ordered'
  <1> USE DEF OrderInv, BlockInv, KeptInv
  <1>1. made' \in 1..MaxSend /\ made' = made + 1 /\ made \in Nat
    BY Sizes DEF AsyncSend, Typed, TypeOK, SendersOK
  <1>2. UNCHANGED <<inbox, sendq, batch, data, mesg_list, wiov>>
    BY DEF AsyncSend, rvars, dvars, cvars
  <1>3. PICK q \in Distqs, n \in Nodes :
           \/ distq' = [distq EXCEPT ![q] = Append(@, Exp(made', s, q, n))]
           \/ UNCHANGED distq
    BY DEF AsyncSend
  <1>4. PICK m \in Orders : m = Exp(made', s, q, n)
    BY <1>1, MessagesMade
  <1>5. m.no = made' /\ m.via = q
    BY <1>4 DEF Exp
  <1>6. \A c \in Conns : Stages(c)' = Stages(c)
    BY <1>2 DEF Stages
  <1>7. /\ \A c \in Conns : \A k \in 1..6 : Before(ToSet(Stages(c)[k]), {m})
        /\ \A x \in Distqs : Before(ToSet(distq[x]), {m})
    <2>1. \A x : x \in Nat /\ x <= made => x < m.no
      BY <1>1, <1>5
    <2>2. QED
      BY <2>1, SentBefore DEF Before, SameWay
  <1>8. \A c \in Conns : \A x \in ToSet(inbox'[c]) : x.kind = "exp" => x.no <= made'
    <2> SUFFICES ASSUME NEW c \in Conns, NEW x \in ToSet(inbox[c]), x.kind = "exp"
                 PROVE  x.no <= made'
      BY <1>2
    <2>1. x.no \in Nat /\ x.no <= made
      BY SentBefore, StagesAre
    <2>2. QED
      BY <1>1, <2>1
  <1>9. /\ \A x \in Distqs : InOrd(distq'[x]) /\ \A y \in ToSet(distq'[x]) : y.via = x
        /\ Waiting' \subseteq Waiting \cup {m}
    <2>1. CASE UNCHANGED distq
      BY <2>1 DEF Ordered, Waiting
    <2>2. CASE distq' = [distq EXCEPT ![q] = Append(@, m)]
      <3>1. distq[q] \in Seq(Orders) /\ distq'[q] = Append(distq[q], m)
            /\ \A x \in Distqs \ {q} : distq'[x] = distq[x]
        BY <2>2 DEF Typed, TypeOK, SharedOK
      <3>2. InOrd(distq[q]) /\ \A y \in ToSet(distq[q]) : y.via = q
        BY DEF Ordered
      <3>3. InOrd(distq'[q]) /\ ToSet(distq'[q]) = ToSet(distq[q]) \cup {m}
        BY <1>7, <3>1, <3>2, OrdAppend, AppendElements
      <3>4. \A x \in Distqs : ToSet(distq'[x]) \subseteq ToSet(distq[x]) \cup {m}
        BY <3>1, <3>3
      <3>5. Waiting' \subseteq Waiting \cup {m}
        BY <3>4 DEF Waiting
      <3>6. QED
        BY <1>5, <3>1, <3>2, <3>3, <3>5 DEF Ordered
    <2>3. QED
      BY <1>3, <1>4, <2>1, <2>2
  <1>10. \A c \in Conns : ChainIn(Stages(c), Waiting')
    <2> SUFFICES ASSUME NEW c \in Conns, NEW k \in 1..6
                 PROVE  Before(ToSet(Stages(c)[k]), Waiting')
      BY DEF Ordered, ChainIn
    <2>1. Before(ToSet(Stages(c)[k]), Waiting)
      BY DEF Ordered, ChainIn
    <2>2. QED
      BY <1>7, <1>9, <2>1 DEF Before
  <1>11. QED
    BY <1>6, <1>8, <1>9, <1>10 DEF Ordered

\* A queue is popped: what stays in the others was sent through them.
LEMMA DsvrPopOrder ==
    ASSUME OrderInv, DsvrPop
    PROVE  Ordered'
  <1> USE DEF OrderInv, BlockInv, KeptInv
  <1>1. PICK q \in Distqs : q = d
    BY DEF DsvrPop, Typed, DsvrStands
  <1>2. /\ data' = distq[q] /\ distq'[q] = <<>> /\ \A x \in Distqs \ {q} : distq'[x] = distq[x]
        /\ UNCHANGED <<inbox, wiov, mesg_list, batch, sendq, made>>
    BY <1>1 DEF DsvrPop, Typed, TypeOK, SharedOK, svars, rvars, cvars
  <1>3. \A x \in Distqs : InOrd(distq'[x]) /\ \A y \in ToSet(distq'[x]) : y.via = x
    BY <1>2, OrdEmpty DEF Ordered
  <1>4. \A y \in Waiting' : y \in Waiting /\ y.via # q
    BY <1>2, <1>3, OrdEmpty DEF Waiting
  <1>5. InOrd(data') /\ ToSet(data') \subseteq Waiting /\ \A x \in ToSet(data') : x.via = q
    BY <1>2 DEF Ordered, Waiting
  <1>6. Before(ToSet(data'), Waiting')
    BY <1>4, <1>5 DEF Before, SameWay
  <1>7. ASSUME NEW c \in Conns PROVE ChainIn(Stages(c)', Waiting')
    <2> DEFINE h == Stages(c)
               g == Stages(c)'
    <2>1. \A k \in 1..5 : g[k] = h[k]
      <3>1. \A k \in 1..5 : k \in {1, 2, 3, 4, 5}
        OBVIOUS
      <3>2. QED
        BY <1>2, <3>1, StagesAre
    <2>2. g[6] = data'
      BY StagesAre
    <2>3. ChainIn(h, Waiting)
      BY DEF Ordered
    <2> HIDE DEF h, g
    <2>4. \A k \in 1..6 : k \in 1..5 \/ k = 6
      OBVIOUS
    <2>5. \A k \in 1..6 : InOrd(g[k]) /\ Before(ToSet(g[k]), Waiting')
      BY <1>4, <1>5, <1>6, <2>1, <2>2, <2>3, <2>4 DEF ChainIn, Before
    <2>6. \A j, k \in 1..6 : j < k => j \in 1..5 /\ (k \in 1..5 \/ k = 6)
      OBVIOUS
    <2>7. \A j, k \in 1..6 : j < k => Before(ToSet(g[j]), ToSet(g[k]))
      <3> SUFFICES ASSUME NEW j \in 1..6, NEW k \in 1..6, j < k
                   PROVE  Before(ToSet(g[j]), ToSet(g[k]))
        OBVIOUS
      <3>1. Before(ToSet(h[j]), ToSet(h[k])) /\ Before(ToSet(h[j]), Waiting)
        BY <2>3 DEF ChainIn
      <3>2. CASE k \in 1..5
        BY <2>1, <2>6, <3>1, <3>2
      <3>3. CASE k = 6
        BY <1>5, <2>1, <2>2, <2>6, <3>1, <3>3 DEF Before
      <3>4. QED
        BY <2>6, <3>2, <3>3
    <2>8. ChainIn(g, Waiting')
      BY <2>5, <2>7 DEF ChainIn
    <2>9. QED
      BY <2>8 DEF g
  <1>8. \A c \in Conns : \A x \in ToSet(inbox'[c]) : x.kind = "exp" => x.no <= made'
    BY <1>2 DEF Ordered
  <1>9. QED
    BY <1>3, <1>7, <1>8 DEF Ordered

\* A message is given up, or passed to the queue of a thread.
LEMMA DropOrder ==
    ASSUME OrderInv, data # <<>>, data' = Tail(data),
           UNCHANGED <<inbox, wiov, mesg_list, batch, sendq, distq, made>>
    PROVE  Ordered'
  <1> USE DEF OrderInv, BlockInv, KeptInv
  <1>1. \A c \in Conns : InOrd(data)
    <2>1. ASSUME NEW c \in Conns PROVE InOrd(data)
      BY StagesAre DEF Ordered, ChainIn
    <2>2. QED
      BY <2>1
  <1>2. InOrd(data) => InOrd(data') /\ Exps(data') \subseteq Exps(data)
    BY OrdTail DEF Exps, Typed, TypeOK, DsvrOK
  <1>3. ASSUME NEW c \in Conns, NEW k \in 1..6
        PROVE  \/ Stages(c)'[k] = Stages(c)[k]
               \/ InOrd(Stages(c)'[k]) /\ Exps(Stages(c)'[k]) \subseteq Exps(Stages(c)[k])
    <2>1. CASE k = 6
      BY <1>1, <1>2, <2>1, StagesAre
    <2>2. CASE k # 6
      <3>1. k \in {1, 2, 3, 4, 5}
        BY <2>2
      <3>2. QED
        BY <3>1, StagesAre
    <2>3. QED
      BY <2>1, <2>2
  <1>4. QED
    BY <1>3, OrderShrinks

LEMMA PushOrder ==
    ASSUME OrderInv, data # <<>>, NEW r \in Rsvrs,
           sendq' = [sendq EXCEPT ![r] = Append(@, Head(data))], data' = Tail(data),
           UNCHANGED <<inbox, wiov, mesg_list, batch, distq, made>>
    PROVE  Ordered'
  <1> USE DEF OrderInv, BlockInv, KeptInv
  <1>1. ASSUME NEW c \in Conns PROVE ChainIn(Stages(c)', Waiting)
    <2> DEFINE h == Stages(c)
               g == Stages(c)'
    <2>1. PICK x \in Rsvrs : x = RsvrOf(c)
      BY Served
    <2>2. /\ g[1] = h[1] /\ g[2] = h[2] /\ g[3] = h[3] /\ g[4] = h[4]
          /\ g[5] = sendq'[x] /\ h[5] = sendq[x] /\ g[6] = Tail(data) /\ h[6] = data
      BY <2>1, StagesAre
    <2>3. ChainIn(h, Waiting) /\ \A k \in 1..6 : h[k] \in Seq(Messages)
      BY StagesTyped DEF Ordered
    <2>4. sendq'[x] = IF x = r THEN Append(sendq[x], Head(data)) ELSE sendq[x]
      BY DEF Typed, TypeOK, SharedOK
    <2>5. \A k \in 1..6 : k \in {1, 2, 3, 4, 5, 6}
      OBVIOUS
    <2> HIDE DEF h, g
    <2>6. CASE x = r
      <3>1. g[5] = Append(h[5], Head(h[6])) /\ g[6] = Tail(h[6]) /\ h[6] # <<>>
        BY <2>2, <2>4, <2>6
      <3>2. \A i \in (1..6) \ {5, 5 + 1} : g[i] = h[i]
        BY <2>2, <2>5
      <3>3. ChainIn(g, Waiting)
        BY <2>3, <3>1, <3>2, HeadMoves, SMTT(40)
      <3>4. QED
        BY <3>3 DEF g
    <2>7. CASE x # r
      <3>1. \A i \in 1..5 : g[i] = h[i] /\ InOrd(h[i])
        <4>1. \A i \in 1..5 : i \in {1, 2, 3, 4, 5} /\ i \in 1..6
          OBVIOUS
        <4>2. QED
          BY <2>2, <2>3, <2>4, <2>7, <4>1 DEF ChainIn
      <3>2. InOrd(g[6]) /\ Exps(g[6]) \subseteq Exps(h[6])
        <4>1. h[6] \in Seq(Messages) /\ h[6] # <<>> /\ g[6] = Tail(h[6]) /\ InOrd(h[6])
          BY <2>2, <2>3 DEF ChainIn
        <4>2. QED
          BY <4>1, OrdTail DEF Exps
      <3>3. \A i \in 1..6 : i \in 1..5 \/ i = 6
        OBVIOUS
      <3>4. \A i \in 1..6 : InOrd(g[i]) /\ Exps(g[i]) \subseteq Exps(h[i])
        BY <3>1, <3>2, <3>3
      <3>5. ChainIn(g, Waiting)
        BY <2>3, <3>4, ChainShrinks
      <3>6. QED
        BY <3>5 DEF g
    <2>8. QED
      BY <2>6, <2>7
  <1>2. QED
    BY <1>1, OrderStays

LEMMA DsvrOrder ==
    ASSUME OrderInv, DsvrStep
    PROVE  Ordered'
  <1> USE DEF OrderInv, BlockInv, KeptInv
  <1>1. UNCHANGED <<inbox, wiov, mesg_list, batch, made>>
    BY DEF DsvrStep, DsvrSelect, DsvrPop, DsvrMap, DsvrPush, DsvrCmd, rvars, cvars, svars
  <1>2. CASE DsvrPop
    BY <1>2, DsvrPopOrder
  <1>3. CASE UNCHANGED <<sendq, distq, data>>
    <2>1. \A c \in Conns : Stages(c)' = Stages(c)
      BY <1>1, <1>3 DEF Stages
    <2>2. \A c \in Conns : ChainIn(Stages(c)', Waiting)
      BY <2>1 DEF Ordered
    <2>3. QED
      BY <1>1, <1>3, <2>2, OrderStays
  <1>4. CASE DsvrMap /\ Drop
    BY <1>1, <1>4, DropOrder DEF DsvrMap, Drop, Typed, DsvrStands
  <1>5. CASE DsvrPush /\ Drop
    <2>1. data # <<>> /\ data' = Tail(data) /\ UNCHANGED distq
      BY <1>5 DEF DsvrPush, Drop, Typed, DsvrStands
    <2>2. CASE UNCHANGED sendq
      BY <1>1, <2>1, <2>2, DropOrder
    <2>3. CASE ~UNCHANGED sendq
      BY <1>1, <1>5, <2>1, <2>3, PushOrder DEF DsvrPush, Typed, DsvrStands
    <2>4. QED
      BY <2>2, <2>3
  <1>6. CASE DsvrPush /\ ~Drop
    <2>1. /\ idx \in Rsvrs /\ data # <<>> /\ data' = Tail(data) /\ UNCHANGED distq
          /\ sendq' = [sendq EXCEPT ![idx] = Append(@, Head(data))]
      BY <1>6 DEF DsvrPush, Typed, DsvrStands
    <2>2. PICK r \in Rsvrs : r = idx
      BY <2>1
    <2>3. QED
      BY <1>1, <2>1, <2>2, PushOrder
  <1>7. CASE DsvrSelect \/ DsvrCmd \/ (DsvrMap /\ ~Drop)
    BY <1>3, <1>7 DEF DsvrSelect, DsvrCmd, DsvrMap
  <1>8. QED
    BY <1>2, <1>4, <1>5, <1>6, <1>7 DEF DsvrStep

\* A thread takes what its queue holds.
LEMMA RsvrPopOrder ==
    ASSUME OrderInv, NEW r \in Rsvrs, RsvrPop(r)
    PROVE  Ordered'
  <1> USE DEF OrderInv, BlockInv, KeptInv
  <1>1. /\ batch'[r] = sendq[r] /\ sendq'[r] = <<>>
        /\ \A x \in Rsvrs \ {r} : batch'[x] = batch[x] /\ sendq'[x] = sendq[x]
        /\ UNCHANGED <<inbox, wiov, mesg_list, data, distq, made>>
    BY DEF RsvrPop, Typed, TypeOK, SharedOK, RsvrsOK, svars, dvars, cvars
  <1>2. ASSUME NEW c \in Conns PROVE ChainIn(Stages(c)', Waiting)
    <2> DEFINE h == Stages(c)
               g == Stages(c)'
    <2>1. PICK x \in Rsvrs : x = RsvrOf(c)
      BY Served
    <2>2. /\ g[1] = h[1] /\ g[2] = h[2] /\ g[3] = h[3] /\ g[6] = h[6]
          /\ g[4] = batch'[x] /\ h[4] = batch[x] /\ g[5] = sendq'[x] /\ h[5] = sendq[x]
      BY <1>1, <2>1, StagesAre
    <2>3. ChainIn(h, Waiting)
      BY DEF Ordered
    <2>4. \A k \in 1..6 : k \in {1, 2, 3, 4, 5, 6}
      OBVIOUS
    <2> HIDE DEF h, g
    <2>5. CASE x = r
      <3>1. g[4] = h[5] /\ g[5] = <<>>
        BY <1>1, <2>2, <2>5
      <3>2. \A i \in (1..6) \ {4, 4 + 1} : g[i] = h[i]
        BY <2>2, <2>4
      <3>3. ChainIn(g, Waiting)
        BY <2>3, <3>1, <3>2, StageMoves
      <3>4. QED
        BY <3>3 DEF g
    <2>6. CASE x # r
      <3>1. \A i \in 1..6 : g[i] = h[i]
        BY <1>1, <2>2, <2>4, <2>6
      <3>2. ChainIn(g, Waiting)
        BY <2>3, <3>1 DEF ChainIn
      <3>3. QED
        BY <3>2 DEF g
    <2>7. QED
      BY <2>5, <2>6
  <1>3. QED
    BY <1>1, <1>2, OrderStays

\* The lists of one connection change, and what is in them was there or is an answer.
LEMMA ListOrder ==
    ASSUME OrderInv, NEW c \in Conns, UNCHANGED <<inbox, batch, sendq, data, distq, made>>,
           \A x \in Conns \ {c} : mesg_list'[x] = mesg_list[x] /\ wiov'[x] = wiov[x],
           InOrd(mesg_list'[c]), Exps(mesg_list'[c]) \subseteq Exps(mesg_list[c]),
           InOrd(wiov'[c].items), Exps(wiov'[c].items) \subseteq Exps(wiov[c].items)
    PROVE  Ordered'
  <1>1. ASSUME NEW x \in Conns, NEW k \in 1..6
        PROVE  \/ Stages(x)'[k] = Stages(x)[k]
               \/ InOrd(Stages(x)'[k]) /\ Exps(Stages(x)'[k]) \subseteq Exps(Stages(x)[k])
    <2>1. CASE k \in {1, 4, 5, 6}
      BY <2>1, StagesAre
    <2>2. CASE k \in {2, 3}
      <3>1. CASE x = c
        BY <2>2, <3>1, StagesAre
      <3>2. CASE x # c
        BY <2>2, <3>2, StagesAre
      <3>3. QED
        BY <3>1, <3>2
    <2>3. QED
      BY <2>1, <2>2
  <1>2. QED
    BY <1>1, OrderShrinks DEF OrderInv

LEMMA DelConnOrder ==
    ASSUME OrderInv, NEW r \in Rsvrs, NEW c \in Conns, NEW n, DelConn(r, c, n),
           UNCHANGED <<inbox, batch, sendq, data, distq, made>>
    PROVE  Ordered'
  <1>1. /\ \A x \in Conns \ {c} : mesg_list'[x] = mesg_list[x] /\ wiov'[x] = wiov[x]
        /\ mesg_list'[c] = <<>> /\ wiov'[c].items = <<>>
    BY DelConnEmpties DEF OrderInv, BlockInv, KeptInv
  <1>2. InOrd(<<>>) /\ Exps(<<>>) = {}
    BY OrdEmpty DEF Exps
  <1>3. QED
    BY <1>1, <1>2, ListOrder

LEMMA ReplyOrder ==
    ASSUME OrderInv, NEW c \in Conns, NEW m \in Messages, m.kind # "exp", Reply(c, m),
           UNCHANGED <<inbox, wiov, batch, sendq, data, distq, made>>
    PROVE  Ordered'
  <1> USE DEF OrderInv, BlockInv, KeptInv
  <1>1. /\ mesg_list[c] \in Seq(Messages) /\ mesg_list'[c] = Append(mesg_list[c], m)
        /\ \A x \in Conns \ {c} : mesg_list'[x] = mesg_list[x]
    BY DEF Reply, Typed, TypeOK, ConnsOK
  <1>2. InOrd(mesg_list[c]) /\ InOrd(wiov[c].items)
    BY StagesAre DEF Ordered, ChainIn
  <1>3. Before(ToSet(mesg_list[c]), {m})
    BY DEF Before, SameWay
  <1>4. InOrd(mesg_list'[c])
    BY <1>1, <1>2, <1>3, OrdAppend
  <1>5. Exps(mesg_list'[c]) \subseteq Exps(mesg_list[c])
    BY <1>1, AppendElements DEF Exps
  <1>6. QED
    BY <1>1, <1>2, <1>4, <1>5, ListOrder

LEMMA RecvOrder ==
    ASSUME OrderInv, NEW r \in Rsvrs, RsvrRecv(r)
    PROVE  Ordered'
  <1> USE DEF OrderInv, BlockInv, KeptInv
  <1>1. PICK c \in Conns : c = Min(todo[r])
    BY First DEF RsvrRecv, RsvrsStand, RsvrsOK, Typed, TypeOK
  <1>2. UNCHANGED <<inbox, batch, sendq, data, distq, made>>
    BY DEF RsvrRecv, svars, dvars
  <1>3. \/ \E n : DelConn(r, c, n)
        \/ UNCHANGED <<mesg_list, wiov>>
        \/ Reply(c, AuthAck(c)) /\ UNCHANGED wiov
        \/ Reply(c, KpAck(c)) /\ UNCHANGED wiov
    BY <1>1 DEF RsvrRecv, AuthReq, KeepaliveReq
  <1>4. ASSUME NEW n, DelConn(r, c, n) PROVE Ordered'
    BY <1>2, <1>4, DelConnOrder
  <1>5. CASE UNCHANGED <<mesg_list, wiov>>
    <2>1. InOrd(mesg_list[c]) /\ InOrd(wiov[c].items)
      BY StagesAre DEF Ordered, ChainIn
    <2>2. QED
      BY <1>2, <1>5, <2>1, ListOrder
  <1>6. CASE (Reply(c, AuthAck(c)) \/ Reply(c, KpAck(c))) /\ UNCHANGED wiov
    <2>1. /\ AuthAck(c) \in Messages /\ AuthAck(c).kind # "exp"
          /\ KpAck(c) \in Messages /\ KpAck(c).kind # "exp"
      BY MessagesMade DEF AuthAck, KpAck
    <2>2. QED
      BY <1>2, <1>6, <2>1, ReplyOrder
  <1>7. QED
    BY <1>3, <1>4, <1>5, <1>6

\* A message goes to one connection of the thread; for the others it is lost.
LEMMA RouteOrder ==
    ASSUME OrderInv, NEW r \in Rsvrs, RsvrRoute(r)
    PROVE  Ordered'
  <1> USE DEF OrderInv, BlockInv, KeptInv
  <1>1. /\ batch[r] # <<>> /\ batch'[r] = Tail(batch[r])
        /\ \A x \in Rsvrs \ {r} : batch'[x] = batch[x]
        /\ UNCHANGED <<inbox, wiov, sendq, data, distq, made>>
    BY DEF RsvrRoute, Typed, TypeOK, RsvrsOK, svars, dvars
  <1>2. \/ UNCHANGED mesg_list
        \/ \E c \in Conns : /\ RsvrOf(c) = r
                            /\ mesg_list'[c] = Append(mesg_list[c], Head(batch[r]))
                            /\ \A x \in Conns \ {c} : mesg_list'[x] = mesg_list[x]
    <2>1. \A n : \A c \in On(r, n) : c \in Conns /\ RsvrOf(c) = r
      BY DEF On, Typed, TypeOK, RsvrsOK, ConnsKept
    <2>2. CASE UNCHANGED mesg_list
      BY <2>2
    <2>3. CASE ~UNCHANGED mesg_list
      <3>1. PICK c \in On(r, Head(batch[r]).dest) :
               mesg_list' = [mesg_list EXCEPT ![c] = Append(@, Head(batch[r]))]
        BY <2>3 DEF RsvrRoute
      <3>2. c \in Conns /\ RsvrOf(c) = r
        BY <2>1
      <3>3. QED
        BY <3>1, <3>2 DEF Typed, TypeOK, ConnsOK
    <2>4. QED
      BY <2>2, <2>3
  <1>3. ASSUME NEW c \in Conns PROVE ChainIn(Stages(c)', Waiting)
    <2> DEFINE h == Stages(c)
               g == Stages(c)'
    <2>1. PICK x \in Rsvrs : x = RsvrOf(c)
      BY Served
    <2>2. /\ g[1] = h[1] /\ g[2] = h[2] /\ g[5] = h[5] /\ g[6] = h[6]
          /\ g[3] = mesg_list'[c] /\ h[3] = mesg_list[c] /\ g[4] = batch'[x] /\ h[4] = batch[x]
      BY <1>1, <2>1, StagesAre
    <2>3. ChainIn(h, Waiting) /\ \A k \in 1..6 : h[k] \in Seq(Messages) /\ InOrd(h[k])
      BY StagesTyped DEF Ordered, ChainIn
    <2>4. \A k \in 1..6 : k \in {1, 2, 3, 4, 5, 6}
      OBVIOUS
    <2> HIDE DEF h, g
    <2>5. CASE x = r /\ mesg_list'[c] # mesg_list[c]
      <3>1. g[3] = Append(h[3], Head(h[4])) /\ g[4] = Tail(h[4]) /\ h[4] # <<>>
        BY <1>1, <1>2, <2>2, <2>5
      <3>2. \A i \in (1..6) \ {3, 3 + 1} : g[i] = h[i]
        BY <2>2, <2>4
      <3>3. ChainIn(g, Waiting)
        BY <2>3, <3>1, <3>2, HeadMoves, SMTT(40)
      <3>4. QED
        BY <3>3 DEF g
    <2>6. CASE x # r \/ mesg_list'[c] = mesg_list[c]
      <3>1. g[3] = h[3]
        BY <1>2, <2>1, <2>2, <2>6
      <3>2. InOrd(g[4]) /\ Exps(g[4]) \subseteq Exps(h[4])
        <4>1. h[4] \in Seq(Messages) /\ InOrd(h[4])
              /\ (g[4] = h[4] \/ (h[4] # <<>> /\ g[4] = Tail(h[4])))
          BY <1>1, <2>2, <2>3
        <4>2. QED
          BY <4>1, OrdTail DEF Exps
      <3>3. \A i \in 1..6 : InOrd(g[i]) /\ Exps(g[i]) \subseteq Exps(h[i])
        BY <2>2, <2>3, <2>4, <3>1, <3>2
      <3>4. ChainIn(g, Waiting)
        BY <2>3, <3>3, ChainShrinks
      <3>5. QED
        BY <3>4 DEF g
    <2>7. QED
      BY <2>5, <2>6
  <1>4. QED
    BY <1>1, <1>3, OrderStays

\* A write: the vector takes the front of the list, its front goes to the client.
LEMMA WroteOrder ==
    ASSUME OrderInv, NEW r \in Rsvrs, NEW c \in Conns, NEW k \in 1..Len(Fill(c).items),
           Wrote(r, c, k), UNCHANGED <<batch, sendq, data, distq, made>>
    PROVE  Ordered'
  <1> USE DEF OrderInv, BlockInv, KeptInv
  <1> DEFINE h    == Stages(c)
             g    == Stages(c)'
             v    == wiov[c].items
             l    == mesg_list[c]
             n    == Room(c)
             w    == Fill(c).items
             p    == SubSeq(l, 1, n)
             tail == SubSeq(l, n + 1, Len(l))
             out  == SubSeq(w, 1, k)
             rest == SubSeq(w, k + 1, Len(w))
             e    == <<h[1], w, tail, h[4], h[5], h[6]>>
  <1>1. l \in Seq(Messages) /\ v \in Seq(Messages) /\ n \in 0..Len(l) /\ inbox[c] \in Seq(Messages)
    BY RoomTyped DEF Typed, TypeOK, ClientsOK
  <1>2. w = v \o p
    BY DEF Fill
  <1>3. h[1] = inbox[c] /\ h[2] = v /\ h[3] = l
    BY StagesAre
  <1>4. g[4] = h[4] /\ g[5] = h[5] /\ g[6] = h[6] /\ g[1] = inbox'[c]
    BY StagesAre
  <1>5. Adjust(Fill(c), k).items = rest
    BY FillTyped, Adjusted
  <1>6. g[2] = rest /\ g[3] = tail
    <2>1. wiov'[c] = Adjust(Fill(c), k) /\ mesg_list'[c] = tail
      BY DEF Wrote, Typed, TypeOK, ConnsOK
    <2>2. QED
      BY <1>5, <2>1, StagesAre, SMTT(40)
  <1>7. g[1] = IF c \in hup THEN inbox[c] ELSE inbox[c] \o out
    BY <1>4 DEF Wrote, Typed, TypeOK, ClientsOK
  <1>8. \A x \in Conns \ {c} : Stages(x)' = Stages(x) /\ inbox'[x] = inbox[x]
    BY DEF Wrote, Stages, Typed, TypeOK, ConnsOK, ClientsOK
  <1>9. ChainIn(h, Waiting) /\ \A i \in 1..6 : \A x \in ToSet(h[i]) : x.kind = "exp" => x.no <= made
    BY SentBefore DEF Ordered
  <1>10. /\ e[1] = h[1] /\ e[2] = w /\ e[3] = tail /\ e[4] = h[4] /\ e[5] = h[5] /\ e[6] = h[6]
    OBVIOUS
  <1>11. k \in 1..Len(w) /\ g[1] = inbox'[c]
    BY <1>4
  <1>12. \A i \in 1..6 : i \in {1, 2, 3, 4, 5, 6}
    OBVIOUS
  <1> HIDE DEF h, g, v, l, n, w, e
  <1>24. /\ p = SubSeq(l, 1, n) /\ tail = SubSeq(l, n + 1, Len(l))
         /\ out = SubSeq(w, 1, k) /\ rest = SubSeq(w, k + 1, Len(w))
    OBVIOUS
  <1> HIDE DEF p, tail, out, rest
  <1>13. ChainIn(e, Waiting)
    <2>1. e[2] = h[2] \o SubSeq(h[3], 1, n) /\ e[3] = SubSeq(h[3], n + 1, Len(h[3]))
      BY <1>2, <1>3, <1>10, <1>24
    <2>2. \A i \in (1..6) \ {2, 3} : e[i] = h[i]
      BY <1>10, <1>12
    <2>3. h[2] \in Seq(Messages) /\ h[3] \in Seq(Messages) /\ n \in 0..Len(h[3])
      BY <1>1, <1>3
    <2>4. 2 \in 1..5 /\ 3 = 2 + 1
      OBVIOUS
    <2>5. PartMoved(h, e, 2, 3, n)
      BY <2>1, <2>2, <2>3, <2>4 DEF PartMoved
    <2>6. QED
      BY <1>9, <2>5, PartMoves
  <1>14. w \in Seq(Messages) /\ ToSet(w) \subseteq ToSet(v) \cup ToSet(l)
    <2>1. p \in Seq(Messages) /\ ToSet(p) \subseteq ToSet(l)
      <3>1. ToSet(SubSeq(l, 1, n)) \subseteq ToSet(l)
        BY <1>1, SubSeqElements
      <3>2. QED
        BY <1>1, <1>24, <3>1, CutParts
    <2>2. QED
      BY <1>1, <1>2, <2>1, JoinParts, JoinElements
  <1>15. /\ k \in 0..Len(w) /\ InOrd(w) /\ out \in Seq(Messages)
         /\ ToSet(out) \subseteq ToSet(w)
         /\ InOrd(rest) /\ ToSet(rest) \subseteq ToSet(w)
    <2>1. k \in 0..Len(w) /\ InOrd(w)
      BY <1>10, <1>11, <1>13, <1>14 DEF ChainIn
    <2>2. QED
      BY <1>14, <1>24, <2>1, OrdCut, CutParts
  <1>16. ChainIn(g, Waiting)
    <2>1. CASE c \notin hup
      <3>1. g[1] = e[1] \o SubSeq(e[2], 1, k) /\ g[2] = SubSeq(e[2], k + 1, Len(e[2]))
        BY <1>3, <1>6, <1>7, <1>10, <1>24, <2>1
      <3>2. \A i \in (1..6) \ {1, 2} : g[i] = e[i]
        BY <1>4, <1>6, <1>10, <1>12
      <3>3. e[1] \in Seq(Messages) /\ e[2] \in Seq(Messages) /\ k \in 0..Len(e[2])
        BY <1>1, <1>3, <1>10, <1>14, <1>15
      <3>4. 1 \in 1..5 /\ 2 = 1 + 1
        OBVIOUS
      <3>5. PartMoved(e, g, 1, 2, k)
        BY <3>1, <3>2, <3>3, <3>4 DEF PartMoved
      <3>6. QED
        BY <1>13, <3>5, PartMoves
    <2>2. CASE c \in hup
      <3>1. g[2] = rest /\ \A i \in (1..6) \ {2} : g[i] = e[i]
        BY <1>3, <1>4, <1>6, <1>7, <1>10, <1>12, <2>2
      <3>2. \A i \in 1..6 : InOrd(e[i])
        BY <1>13 DEF ChainIn
      <3>3. \A i \in 1..6 : InOrd(g[i]) /\ Exps(g[i]) \subseteq Exps(e[i])
        BY <1>10, <1>15, <3>1, <3>2 DEF Exps
      <3>4. QED
        BY <1>13, <3>3, ChainShrinks
    <2>3. QED
      BY <2>1, <2>2
  <1>17. \A x \in ToSet(inbox'[c]) : x.kind = "exp" => x.no <= made
    <2>1. \A x \in ToSet(inbox[c]) \cup ToSet(v) \cup ToSet(l) : x.kind = "exp" => x.no <= made
      BY <1>3, <1>9
    <2>2. ToSet(inbox'[c]) \subseteq ToSet(inbox[c]) \cup ToSet(out)
      BY <1>1, <1>7, <1>11, <1>15, JoinElements
    <2>3. QED
      BY <1>14, <1>15, <2>1, <2>2
  <1>18. \A x \in Conns : ChainIn(Stages(x)', Waiting)
    <2>1. ASSUME NEW x \in Conns PROVE ChainIn(Stages(x)', Waiting)
      <3>1. CASE x = c
        BY <1>16, <3>1 DEF g
      <3>2. CASE x # c
        BY <1>8, <3>2 DEF Ordered
      <3>3. QED
        BY <3>1, <3>2
    <2>2. QED
      BY <2>1
  <1>19. \A x \in Conns : \A m \in ToSet(inbox'[x]) : m.kind = "exp" => m.no <= made'
    BY <1>8, <1>17 DEF Ordered
  <1>20. Waiting' = Waiting
    BY DEF Waiting
  <1>21. (\A q \in Distqs : InOrd(distq[q]) /\ \A m \in ToSet(distq[q]) : m.via = q)'
    BY DEF Ordered
  <1>22. (\A x \in Conns : ChainIn(Stages(x), Waiting))'
    BY <1>18, <1>20
  <1>23. QED
    BY <1>19, <1>21, <1>22 DEF Ordered

LEMMA SendOrder ==
    ASSUME OrderInv, NEW r \in Rsvrs, RsvrSend(r)
    PROVE  Ordered'
  <1>1. PICK c \in Conns : Failed(r, c) \/ \E k \in 1..Len(Fill(c).items) : Wrote(r, c, k)
    BY SendCases DEF OrderInv, BlockInv, KeptInv
  <1>2. UNCHANGED <<batch, sendq, data, distq, made>>
    BY DEF RsvrSend, svars, dvars
  <1>3. CASE Failed(r, c)
    BY <1>2, <1>3, DelConnOrder DEF Failed
  <1>4. QED
    BY <1>1, <1>2, <1>3, WroteOrder

LEMMA NextOrder == OrderInv /\ [Next]_vars => OrderInv'
  <1> SUFFICES ASSUME OrderInv, [Next]_vars PROVE Ordered'
    BY NextBlocks DEF OrderInv
  <1>1. CASE \/ UNCHANGED vars
             \/ \E s \in Senders : SendDistReq(s)
             \/ Accept \/ AddCmd
             \/ \E c \in Conns : ClientKeepalive(c) \/ ClientCloses(c)
             \/ \E r \in Rsvrs : RsvrSelect(r) \/ RsvrCmd(r)
    <2>1. UNCHANGED <<made, inbox, distq, sendq, batch, data, mesg_list, wiov>>
      BY <1>1 DEF SendDistReq, Accept, AddCmd, ClientKeepalive, ClientCloses, RsvrSelect, RsvrCmd,
                  vars, svars, dvars, rvars, cvars
    <2>2. \A c \in Conns : Stages(c)' = Stages(c)
      BY <2>1 DEF Stages
    <2>3. \A c \in Conns : ChainIn(Stages(c)', Waiting)
      BY <2>2 DEF OrderInv, Ordered
    <2>4. QED
      BY <2>1, <2>3, OrderStays DEF OrderInv
  <1>2. ASSUME NEW r \in Rsvrs, RsvrDropsSilent(r) PROVE Ordered'
    <2>1. PICK c \in Conns : DelConn(r, c, nid[c])
      BY <1>2 DEF RsvrDropsSilent, OrderInv, BlockInv, KeptInv, Typed, TypeOK, RsvrsOK
    <2>2. UNCHANGED <<inbox, batch, sendq, data, distq, made>>
      BY <1>2 DEF RsvrDropsSilent, svars, dvars
    <2>3. QED
      BY <2>1, <2>2, DelConnOrder
  <1>3. QED
    BY <1>1, <1>2, AsyncSendOrder, DsvrOrder, RsvrPopOrder, RouteOrder, RecvOrder, SendOrder
       DEF Next, RsvrStep

LEMMA InitOrder == Init => OrderInv
  <1> SUFFICES ASSUME Init PROVE Ordered
    BY InitBlocks DEF OrderInv
  <1>1. \A c \in Conns : \A k \in 1..6 : Stages(c)[k] = <<>>
    <2> SUFFICES ASSUME NEW c \in Conns PROVE \A k \in 1..6 : Stages(c)[k] = <<>>
      OBVIOUS
    <2>1. RsvrOf(c) \in Rsvrs
      BY Served
    <2>2. /\ inbox[c] = <<>> /\ wiov[c].items = <<>> /\ mesg_list[c] = <<>>
          /\ batch[RsvrOf(c)] = <<>> /\ sendq[RsvrOf(c)] = <<>> /\ data = <<>>
      BY <2>1 DEF Init, Empty
    <2>3. \A k \in 1..6 : k \in {1, 2, 3, 4, 5, 6}
      OBVIOUS
    <2>4. QED
      BY <2>2, <2>3, StagesAre
  <1>2. \A W : \A c \in Conns : ChainIn(Stages(c), W)
    BY <1>1, OrdEmpty DEF ChainIn, Before
  <1>3. \A q \in Distqs : distq[q] = <<>>
    BY DEF Init
  <1>4. \A c \in Conns : inbox[c] = <<>>
    BY DEF Init
  <1>5. QED
    BY <1>2, <1>3, <1>4, OrdEmpty DEF Ordered

\* What one thread sends through one distribution queue arrives in that order on a
\* connection, past the queues, the routing, full queues and short writes.
THEOREM OrderKept == Spec => []ConnOrder
  <1>1. OrderInv => ConnOrder
    <2> SUFFICES ASSUME OrderInv, NEW c \in Conns PROVE InOrd(inbox[c])
      BY DEF ConnOrder, InOrd, SameWay
    <2>1. InOrd(Stages(c)[1])
      BY DEF OrderInv, Ordered, ChainIn
    <2>2. QED
      BY <2>1, StagesAre
  <1>2. QED
    BY <1>1, InitOrder, NextOrder, PTL DEF Spec

-----------------------------------------------------------------------------
(* The map has the entries of the connections. *)

\* The entries of a thread.
Spots(e, x) == {k \in DOMAIN e : e[k] = x}

LEMMA SpotsFinite ==
    ASSUME NEW e \in Seq(Rsvrs), NEW x
    PROVE  /\ Spots(e, x) = {k \in 1..Len(e) : e[k] = x}
           /\ IsFiniteSet(Spots(e, x)) /\ Cardinality(Spots(e, x)) \in Nat
           /\ x \in ToSet(e) <=> Cardinality(Spots(e, x)) # 0
  <1>1. Spots(e, x) = {k \in 1..Len(e) : e[k] = x} /\ Len(e) \in Nat
    BY DEF Spots
  <1>2. IsFiniteSet(1..Len(e)) /\ Spots(e, x) \subseteq 1..Len(e)
    BY <1>1, FS_Interval
  <1>3. IsFiniteSet(Spots(e, x)) /\ Cardinality(Spots(e, x)) \in Nat
    BY <1>2, FS_Subset, FS_CardinalityType
  <1>4. x \in ToSet(e) <=> Spots(e, x) # {}
    BY <1>1, Elements
  <1>5. QED
    BY <1>1, <1>3, <1>4, FS_EmptySet

LEMMA SpotsAppend ==
    ASSUME NEW e \in Seq(Rsvrs), NEW r \in Rsvrs
    PROVE  /\ Cardinality(Spots(Append(e, r), r)) = Cardinality(Spots(e, r)) + 1
           /\ \A x : x # r => Spots(Append(e, r), x) = Spots(e, x)
  <1> DEFINE t == Append(e, r)
  <1>1. /\ t \in Seq(Rsvrs) /\ Len(t) = Len(e) + 1 /\ Len(e) \in Nat
        /\ \A k \in 1..Len(e) : t[k] = e[k]
        /\ t[Len(e) + 1] = r
    OBVIOUS
  <1> HIDE DEF t
  <1>2. \A x : Spots(t, x) = {k \in 1..Len(t) : t[k] = x} /\ Spots(e, x) = {k \in 1..Len(e) : e[k] = x}
    BY <1>1, SpotsFinite
  <1>3. \A k : k \in 1..Len(t) <=> k \in 1..Len(e) \/ k = Len(e) + 1
    BY <1>1
  <1>4. Spots(t, r) = Spots(e, r) \cup {Len(e) + 1} /\ Len(e) + 1 \notin Spots(e, r)
    BY <1>1, <1>2, <1>3
  <1>5. \A x : x # r => Spots(t, x) = Spots(e, x)
    BY <1>1, <1>2, <1>3
  <1>6. Cardinality(Spots(t, r)) = Cardinality(Spots(e, r)) + 1
    BY <1>4, SpotsFinite, FS_AddElement
  <1>7. QED
    BY <1>5, <1>6 DEF t

\* A removal takes one entry of the thread and moves the last into its place.
LEMMA SpotsUnmap ==
    ASSUME NEW e \in Seq(Rsvrs), NEW r \in ToSet(e)
    PROVE  /\ Cardinality(Spots(Unmap(e, r), r)) = Cardinality(Spots(e, r)) - 1
           /\ \A x : x # r => Cardinality(Spots(Unmap(e, r), x)) = Cardinality(Spots(e, x))
  <1> DEFINE k == Min({j \in DOMAIN e : e[j] = r})
             n == Len(e)
             f == [e EXCEPT ![k] = e[n]]
             u == Unmap(e, r)
  <1>1. k \in 1..n /\ e[k] = r /\ n \in Nat
    BY Found
  <1>2. u = SubSeq(f, 1, n - 1)
    BY DEF Unmap
  <1> HIDE DEF k, u
  <1>3. f \in Seq(Rsvrs) /\ Len(f) = n /\ \A i \in 1..n : f[i] = IF i = k THEN e[n] ELSE e[i]
    BY <1>1
  <1> HIDE DEF f, n
  <1>4. n - 1 \in 0..n /\ \A i : i \in 1..n <=> i \in 1..(n - 1) \/ i = n
    BY <1>1
  <1>5. /\ u \in Seq(Rsvrs) /\ Len(u) = n - 1
        /\ \A i \in 1..(n - 1) : u[i] = IF i = k THEN e[n] ELSE e[i]
    BY <1>2, <1>3, <1>4, CutParts
  <1>6. \A x : /\ Spots(e, x) = {i \in 1..n : e[i] = x}
               /\ Spots(u, x) = {i \in 1..(n - 1) : u[i] = x}
               /\ IsFiniteSet(Spots(e, x)) /\ Cardinality(Spots(e, x)) \in Nat
    BY <1>5, SpotsFinite DEF n
  <1>7. n \notin 1..(n - 1)
    BY <1>1
  <1>8. Cardinality(Spots(u, r)) = Cardinality(Spots(e, r)) - 1
    <2>1. CASE e[n] = r
      <3>1. Spots(u, r) = Spots(e, r) \ {n} /\ n \in Spots(e, r)
        BY <1>1, <1>4, <1>5, <1>6, <1>7, <2>1, SMTT(40)
      <3>2. IsFiniteSet(Spots(e, r))
        BY <1>6
      <3>3. Cardinality(Spots(e, r) \ {n}) = Cardinality(Spots(e, r)) - 1
        BY <3>1, <3>2, FS_RemoveElement
      <3>4. QED
        BY <3>1, <3>3
    <2>2. CASE e[n] # r
      <3>1. Spots(u, r) = Spots(e, r) \ {k} /\ k \in Spots(e, r)
        <4>1. k \in Spots(e, r) /\ n \notin Spots(e, r)
          BY <1>1, <1>6, <2>2
        <4>2. \A i \in 1..(n - 1) : u[i] = r <=> e[i] = r /\ i # k
          BY <1>5, <2>2
        <4>3. \A i : i \in Spots(u, r) <=> i \in 1..(n - 1) /\ e[i] = r /\ i # k
          BY <1>6, <4>2
        <4>4. \A i : i \in Spots(e, r) <=> i \in 1..(n - 1) /\ e[i] = r
          BY <1>4, <1>6, <4>1
        <4>5. QED
          BY <4>1, <4>3, <4>4
      <3>2. QED
        BY <1>6, <3>1, FS_RemoveElement
    <2>3. QED
      BY <2>1, <2>2
  <1>9. ASSUME NEW x, x # r PROVE Cardinality(Spots(u, x)) = Cardinality(Spots(e, x))
    <2>1. CASE e[n] = x
      <3> DEFINE A == Spots(e, x) \ {n}
      <3>1. n \in Spots(e, x) /\ k \notin Spots(e, x) /\ k # n
        BY <1>1, <1>4, <1>6, <1>9, <2>1
      <3>2. Spots(u, x) = A \cup {k}
        BY <1>1, <1>4, <1>5, <1>6, <1>7, <1>9, <2>1, SMTT(40)
      <3>3. IsFiniteSet(A) /\ Cardinality(A) = Cardinality(Spots(e, x)) - 1 /\ k \notin A
        BY <1>6, <3>1, FS_RemoveElement
      <3> HIDE DEF A
      <3>4. Cardinality(Spots(u, x)) = Cardinality(A) + 1
        BY <3>2, <3>3, FS_AddElement
      <3>5. QED
        BY <1>6, <3>3, <3>4
    <2>2. CASE e[n] # x
      <3>1. k \notin Spots(e, x) /\ n \notin Spots(e, x)
        BY <1>1, <1>6, <1>9, <2>2
      <3>2. \A i \in 1..(n - 1) : u[i] = x <=> e[i] = x /\ i # k
        BY <1>1, <1>5, <1>9, <2>2
      <3>3. \A i : i \in Spots(u, x) <=> i \in 1..(n - 1) /\ e[i] = x /\ i # k
        BY <1>6, <3>2
      <3>4. \A i : i \in Spots(e, x) <=> i \in 1..(n - 1) /\ e[i] = x
        BY <1>4, <1>6, <3>1
      <3>5. k \in 1..(n - 1) => e[k] # x
        BY <1>1, <1>9
      <3>6. Spots(u, x) = Spots(e, x)
        BY <3>3, <3>4, <3>5
      <3>7. QED
        BY <3>6
    <2>3. QED
      BY <2>1, <2>2
  <1>10. QED
    BY <1>8, <1>9 DEF u

\* What a step does to the connections of a thread: it adds those that wait, one is
\* authenticated, refused for want of room in the map, or deleted.
Added(r) ==
    /\ conn_list' = [conn_list EXCEPT ![r] = @ \cup connq[r]]
    /\ UNCHANGED <<map, nid, gone>>

Authed(r, c) ==
    /\ c \in conn_list[r] /\ nid[c] = None
    /\ nid' = [nid EXCEPT ![c] = NodeOf[c]]
    /\ Len(map[NodeOf[c]]) < MapMax
    /\ map' = [map EXCEPT ![NodeOf[c]] = Append(@, r)]
    /\ UNCHANGED <<conn_list, gone>>

Crowded(r, c) ==
    /\ c \in conn_list[r] /\ nid[c] = None
    /\ nid' = [nid EXCEPT ![c] = NodeOf[c]]
    /\ ~(Len(map[NodeOf[c]]) < MapMax)
    /\ DelConn(r, c, NodeOf[c])

Deleted(r, c) ==
    /\ c \in conn_list[r]
    /\ DelConn(r, c, nid[c])
    /\ UNCHANGED nid

LEMMA RecvCases ==
    ASSUME BlockInv, NEW r \in Rsvrs, RsvrRecv(r)
    PROVE  \/ UNCHANGED <<map, nid, gone, conn_list>>
           \/ \E c \in Conns : Authed(r, c) \/ Crowded(r, c) \/ Deleted(r, c)
  <1> USE DEF BlockInv, KeptInv
  <1>1. Min(todo[r]) \in Conns /\ Min(todo[r]) \in conn_list[r]
    BY First DEF RsvrRecv, RsvrsStand, RsvrsOK, Typed, TypeOK, ConnsKept
  <1>2. PICK c \in Conns : c = Min(todo[r])
    BY <1>1
  <1>3. c \in conn_list[r] /\ reqs[c] \in Seq({"auth", "kp"}) /\ FreshFor(c)
    BY <1>1, <1>2 DEF Typed, TypeOK, ClientsOK, Fresh
  <1>4. reqs[c] # <<>> => Head(reqs[c]) \in ToSet(reqs[c])
    BY <1>3, TailUnique DEF FreshFor
  <1>5. CASE reqs[c] # <<>> /\ AuthReq(r, c)
    <2>1. nid[c] = None
      BY <1>3, <1>4, <1>5 DEF AuthReq, FreshFor
    <2>2. CASE c \in Refused
      BY <1>5, <2>2 DEF AuthReq
    <2>3. CASE c \notin Refused
      BY <1>3, <1>5, <2>1, <2>3 DEF AuthReq, Authed, Crowded
    <2>4. QED
      BY <2>2, <2>3
  <1>6. CASE reqs[c] # <<>> /\ KeepaliveReq(r, c)
    BY <1>3, <1>6 DEF KeepaliveReq, Deleted
  <1>7. CASE reqs[c] = <<>>
    BY <1>2, <1>3, <1>7 DEF RsvrRecv, Deleted
  <1>8. QED
    BY <1>2, <1>5, <1>6, <1>7 DEF RsvrRecv

LEMMA ConnCases ==
    ASSUME BlockInv, [Next]_vars
    PROVE  \/ UNCHANGED <<map, nid, gone, conn_list>>
           \/ \E r \in Rsvrs : \/ RsvrCmd(r) /\ Added(r)
                               \/ \E c \in Conns : Authed(r, c) \/ Crowded(r, c) \/ Deleted(r, c)
  <1> USE DEF BlockInv, KeptInv
  <1>1. CASE \/ UNCHANGED vars
             \/ \E s \in Senders : AsyncSend(s) \/ SendDistReq(s)
             \/ DsvrStep \/ Accept \/ AddCmd
             \/ \E c \in Conns : ClientKeepalive(c) \/ ClientCloses(c)
             \/ \E r \in Rsvrs : RsvrSelect(r) \/ RsvrPop(r) \/ RsvrRoute(r)
    BY <1>1 DEF AsyncSend, SendDistReq, DsvrStep, DsvrSelect, DsvrPop, DsvrMap, DsvrPush, DsvrCmd,
                Accept, AddCmd, ClientKeepalive, ClientCloses, RsvrSelect, RsvrPop, RsvrRoute,
                vars, rvars, cvars
  <1>2. ASSUME NEW r \in Rsvrs, RsvrCmd(r)
        PROVE  UNCHANGED <<map, nid, gone, conn_list>> \/ Added(r)
    BY <1>2 DEF RsvrCmd, Added, cvars
  <1>3. ASSUME NEW r \in Rsvrs, RsvrDropsSilent(r)
        PROVE  \E c \in Conns : Deleted(r, c)
    <2>1. PICK c \in conn_list[r] : DelConn(r, c, nid[c])
      BY <1>3 DEF RsvrDropsSilent
    <2>2. c \in Conns /\ UNCHANGED nid
      BY <1>3 DEF RsvrDropsSilent, Typed, TypeOK, RsvrsOK
    <2>3. QED
      BY <2>1, <2>2 DEF Deleted
  <1>4. ASSUME NEW r \in Rsvrs, RsvrSend(r)
        PROVE  UNCHANGED <<map, nid, gone, conn_list>> \/ \E c \in Conns : Deleted(r, c)
    <2>1. PICK c \in todo[r] \cap Conns :
             Failed(r, c) \/ \E k \in 1..Len(Fill(c).items) : Wrote(r, c, k)
      BY <1>4, SendCases
    <2>2. c \in conn_list[r]
      BY DEF ConnsKept
    <2>3. QED
      BY <2>1, <2>2 DEF Failed, Wrote, Deleted
  <1>5. QED
    BY <1>1, <1>2, <1>3, <1>4, RecvCases DEF Next, RsvrStep

\* The map has room for all connections of a node.
MapRoom == \A n \in Nodes : Cardinality({c \in Conns : NodeOf[c] = n}) <= MapMax

ListedOf(n) == {c \in Conns : Listed(c) /\ nid[c] = n}

MapLen == \A n \in Nodes : Len(map[n]) = Cardinality(ListedOf(n))

MapInv == BlockInv /\ RoutedInv /\ MapExact /\ MapLen

LEMMA OnFinite ==
    ASSUME Typed, NEW n
    PROVE  /\ IsFiniteSet(ListedOf(n)) /\ Cardinality(ListedOf(n)) \in Nat
           /\ \A r \in Rsvrs : /\ On(r, n) \subseteq Conns
                               /\ IsFiniteSet(On(r, n)) /\ Cardinality(On(r, n)) \in Nat
  <1>1. IsFiniteSet(Conns)
    BY Sizes, FS_Interval DEF Conns
  <1>2. ListedOf(n) \subseteq Conns /\ \A r \in Rsvrs : On(r, n) \subseteq Conns
    BY DEF ListedOf, On, Typed, TypeOK, RsvrsOK
  <1>3. \A T : T \subseteq Conns => IsFiniteSet(T) /\ Cardinality(T) \in Nat
    BY <1>1, FS_Subset, FS_CardinalityType
  <1>4. QED
    BY <1>2, <1>3

LEMMA MapTyped ==
    ASSUME Typed
    PROVE  /\ \A n \in Nodes : map[n] \in Seq(Rsvrs)
           /\ \A c \in Conns : NodeOf[c] \in Nodes /\ nid[c] \in Nodes \cup {None}
           /\ None \notin Nodes
  BY ServerAssumption DEF Typed, TypeOK, SharedOK, ConnsOK

LEMMA ExactSpots ==
    /\ MapExact <=> \A n \in Nodes, r \in Rsvrs : Cardinality(Spots(map[n], r)) = Cardinality(On(r, n))
    /\ MapExact' <=> \A n \in Nodes, r \in Rsvrs : Cardinality(Spots(map'[n], r)) = Cardinality(On(r, n)')
  BY DEF MapExact, Spots

\* An authenticated connection on the list of a thread has an entry in the map.
LEMMA EntryThere ==
    ASSUME Typed, MapExact, NEW n \in Nodes, NEW r \in Rsvrs
    PROVE  r \in ToSet(map[n]) <=> On(r, n) # {}
  <1>1. map[n] \in Seq(Rsvrs) /\ Cardinality(Spots(map[n], r)) = Cardinality(On(r, n))
    BY MapTyped, ExactSpots
  <1>2. r \in ToSet(map[n]) <=> Cardinality(On(r, n)) # 0
    BY <1>1, SpotsFinite
  <1>3. QED
    BY <1>2, OnFinite, FS_EmptySet

\* A connection not yet authenticated finds room.
LEMMA RoomLeft ==
    ASSUME MapInv, MapRoom, NEW c \in Conns, nid[c] = None
    PROVE  Len(map[NodeOf[c]]) < MapMax
  <1> DEFINE n == NodeOf[c]
             S == {x \in Conns : NodeOf[x] = n}
  <1>1. n \in Nodes /\ None # n
    BY MapTyped DEF MapInv, RoutedInv
  <1>2. Len(map[n]) = Cardinality(ListedOf(n)) /\ Cardinality(S) <= MapMax
    BY <1>1 DEF MapInv, MapLen, MapRoom
  <1>3. ListedOf(n) \subseteq S \ {c}
    BY <1>1 DEF ListedOf, MapInv, RoutedInv, NidRight
  <1>4. IsFiniteSet(S) /\ c \in S /\ Cardinality(S) \in Nat
    <2>1. IsFiniteSet(Conns)
      BY Sizes, FS_Interval DEF Conns
    <2>2. QED
      BY <2>1, FS_Subset, FS_CardinalityType
  <1> HIDE DEF S
  <1>5. IsFiniteSet(S \ {c}) /\ Cardinality(S \ {c}) = Cardinality(S) - 1
    BY <1>4, FS_RemoveElement
  <1>6. Cardinality(ListedOf(n)) <= Cardinality(S \ {c}) /\ Cardinality(ListedOf(n)) \in Nat
    BY <1>3, <1>5, FS_Subset, OnFinite DEF MapInv, RoutedInv
  <1>7. QED
    BY <1>2, <1>4, <1>5, <1>6, Sizes

LEMMA AuthedMap ==
    ASSUME MapInv, NEW r \in Rsvrs, NEW c \in Conns, Authed(r, c)
    PROVE  MapExact' /\ MapLen'
  <1> USE DEF MapInv, RoutedInv
  <1>1. PICK n \in Nodes : n = NodeOf[c]
    BY MapTyped
  <1>2. /\ c \in conn_list[r] /\ nid[c] = None /\ nid[c] \notin Nodes
        /\ nid'[c] = n /\ \A x \in Conns \ {c} : nid'[x] = nid[x]
        /\ map'[n] = Append(map[n], r) /\ \A m \in Nodes \ {n} : map'[m] = map[m]
        /\ conn_list' = conn_list
    BY <1>1, MapTyped DEF Authed, Typed, TypeOK, ConnsOK, SharedOK
  <1>3. \A x \in Rsvrs : \A y \in conn_list[x] : y \in Conns /\ RsvrOf(y) = x
    BY DEF BlockInv, KeptInv, ConnsKept, Typed, TypeOK, RsvrsOK
  <1>4. /\ On(r, n)' = On(r, n) \cup {c} /\ c \notin On(r, n)
        /\ \A x \in Rsvrs, m \in Nodes : x # r \/ m # n => On(x, m)' = On(x, m)
    <2>1. \A x \in Rsvrs \ {r} : c \notin conn_list[x]
      BY <1>2, <1>3
    <2>2. \A x, m : On(x, m)' = {y \in conn_list[x] : nid'[y] = m}
      BY <1>2 DEF On
    <2>3. ASSUME NEW x \in Rsvrs, NEW m \in Nodes, x # r \/ m # n PROVE On(x, m)' = On(x, m)
      <3>1. \A y \in conn_list[x] : nid'[y] = m <=> nid[y] = m
        BY <1>2, <1>3, <2>1, <2>3
      <3>2. QED
        BY <2>2, <3>1 DEF On
    <2>4. On(r, n)' = On(r, n) \cup {c} /\ c \notin On(r, n)
      <3>1. \A y \in conn_list[r] : nid'[y] = n <=> nid[y] = n \/ y = c
        BY <1>2, <1>3
      <3>2. QED
        BY <1>2, <2>2, <3>1 DEF On
    <2>5. QED
      BY <2>3, <2>4
  <1>5. /\ ListedOf(n)' = ListedOf(n) \cup {c} /\ c \notin ListedOf(n)
        /\ \A m \in Nodes \ {n} : ListedOf(m)' = ListedOf(m)
    <2>1. \A m : ListedOf(m)' = {y \in Conns : Listed(y) /\ nid'[y] = m}
      BY <1>2 DEF ListedOf, Listed
    <2>2. Listed(c)
      BY <1>2 DEF Listed
    <2>3. \A y \in Conns : nid'[y] = n <=> nid[y] = n \/ y = c
      BY <1>2
    <2>4. \A m \in Nodes \ {n} : \A y \in Conns : nid'[y] = m <=> nid[y] = m
      BY <1>2
    <2>5. \A m : ListedOf(m) = {y \in Conns : Listed(y) /\ nid[y] = m}
      BY DEF ListedOf
    <2>6. ListedOf(n)' = ListedOf(n) \cup {c} /\ c \notin ListedOf(n)
      BY <1>2, <2>1, <2>2, <2>3, <2>5
    <2>7. QED
      BY <2>1, <2>4, <2>5, <2>6
  <1>6. \A m \in Nodes, x \in Rsvrs : Cardinality(Spots(map'[m], x)) = Cardinality(On(x, m)')
    <2> SUFFICES ASSUME NEW m \in Nodes, NEW x \in Rsvrs
                 PROVE  Cardinality(Spots(map'[m], x)) = Cardinality(On(x, m)')
      OBVIOUS
    <2>1. Cardinality(Spots(map[m], x)) = Cardinality(On(x, m)) /\ map[m] \in Seq(Rsvrs)
      BY ExactSpots, MapTyped
    <2>2. CASE m = n /\ x = r
      <3>1. Cardinality(Spots(map'[m], x)) = Cardinality(Spots(map[m], x)) + 1
        BY <1>2, <2>1, <2>2, SpotsAppend
      <3>2. Cardinality(On(r, n)') = Cardinality(On(r, n)) + 1
        BY <1>4, OnFinite, FS_AddElement
      <3>3. QED
        BY <2>1, <2>2, <3>1, <3>2
    <2>3. CASE ~(m = n /\ x = r)
      <3>1. Spots(map'[m], x) = Spots(map[m], x)
        <4>1. CASE m # n
          BY <1>2, <4>1
        <4>2. CASE m = n /\ x # r
          <5>1. Spots(Append(map[n], r), x) = Spots(map[n], x)
            BY <2>1, <4>2, SpotsAppend
          <5>2. QED
            BY <1>2, <4>2, <5>1
        <4>3. QED
          BY <2>3, <4>1, <4>2
      <3>2. On(x, m)' = On(x, m)
        BY <1>4, <2>3
      <3>3. QED
        BY <2>1, <3>1, <3>2
    <2>4. QED
      BY <2>2, <2>3
  <1>7. ASSUME NEW m \in Nodes PROVE Len(map'[m]) = Cardinality(ListedOf(m)')
    <2>1. Len(map[m]) = Cardinality(ListedOf(m)) /\ map[m] \in Seq(Rsvrs)
      BY MapTyped DEF MapLen
    <2>2. CASE m = n
      <3>1. Len(map'[m]) = Len(map[m]) + 1
        BY <1>2, <2>1, <2>2
      <3>2. Cardinality(ListedOf(n)') = Cardinality(ListedOf(n)) + 1
        BY <1>5, OnFinite, FS_AddElement
      <3>3. QED
        BY <2>1, <2>2, <3>1, <3>2
    <2>3. CASE m # n
      BY <1>2, <1>5, <2>1, <2>3
    <2>4. QED
      BY <2>2, <2>3
  <1>8. QED
    BY <1>6, <1>7, ExactSpots DEF MapLen

LEMMA DeletedMap ==
    ASSUME MapInv, NEW r \in Rsvrs, NEW c \in Conns, Deleted(r, c)
    PROVE  MapExact' /\ MapLen'
  <1> USE DEF MapInv, RoutedInv
  <1>1. /\ c \in conn_list[r] /\ nid' = nid
        /\ \A x \in Rsvrs : conn_list'[x] = IF x = r THEN conn_list[x] \ {c} ELSE conn_list[x]
    BY DelConnEmpties DEF Deleted
  <1>2. \A x \in Rsvrs : \A y \in conn_list[x] : y \in Conns /\ RsvrOf(y) = x
    BY DEF BlockInv, KeptInv, ConnsKept, Typed, TypeOK, RsvrsOK
  <1>3. \A x \in Rsvrs : c \in conn_list[x] <=> x = r
    BY <1>1, <1>2
  <1>4. \A x \in Rsvrs : \A m : On(x, m)' = On(x, m) \ {c}
    <2>1. \A x, m : On(x, m)' = {y \in conn_list'[x] : nid[y] = m}
      BY <1>1 DEF On
    <2>2. \A x \in Rsvrs : conn_list'[x] = conn_list[x] \ {c}
      BY <1>1, <1>3
    <2>3. QED
      BY <2>1, <2>2 DEF On
  <1>5. \A m : ListedOf(m)' = ListedOf(m) \ {c}
    <2>1. \A m : ListedOf(m)' = {y \in Conns : (\E x \in Rsvrs : y \in conn_list'[x]) /\ nid[y] = m}
      BY <1>1 DEF ListedOf, Listed
    <2>2. \A m : ListedOf(m) = {y \in Conns : (\E x \in Rsvrs : y \in conn_list[x]) /\ nid[y] = m}
      BY DEF ListedOf, Listed
    <2>3. \A y : (\E x \in Rsvrs : y \in conn_list'[x]) <=> (\E x \in Rsvrs : y \in conn_list[x]) /\ y # c
      BY <1>1, <1>3
    <2>4. QED
      BY <2>1, <2>2, <2>3
  <1>6. ASSUME NEW m, m # nid[c]
        PROVE  ListedOf(m)' = ListedOf(m) /\ \A x \in Rsvrs : On(x, m)' = On(x, m)
    <2>1. c \notin ListedOf(m) /\ \A x \in Rsvrs : c \notin On(x, m)
      BY <1>6 DEF ListedOf, On
    <2>2. \A S : c \notin S => S \ {c} = S
      OBVIOUS
    <2>3. QED
      BY <1>4, <1>5, <2>1, <2>2
  <1>7. CASE nid[c] = None
    <2>1. map' = map
      BY <1>7 DEF Deleted, DelConn
    <2>2. \A m \in Nodes : ListedOf(m)' = ListedOf(m) /\ \A x \in Rsvrs : On(x, m)' = On(x, m)
      BY <1>6, <1>7, MapTyped
    <2>3. QED
      BY <2>1, <2>2, ExactSpots DEF MapLen
  <1>8. CASE nid[c] # None
    <2>1. PICK n \in Nodes : n = nid[c]
      BY <1>8, MapTyped
    <2>2. /\ map[n] \in Seq(Rsvrs) /\ map'[n] = Unmap(map[n], r)
          /\ \A m \in Nodes \ {n} : map'[m] = map[m]
      BY <1>8, <2>1, MapTyped DEF Deleted, DelConn, Typed, TypeOK, SharedOK
    <2>3. c \in On(r, n) /\ c \in ListedOf(n) /\ \A x \in Rsvrs : x # r => c \notin On(x, n)
      BY <1>1, <1>3, <2>1 DEF On, ListedOf, Listed
    <2>4. r \in ToSet(map[n])
      BY <2>3, EntryThere
    <2>5. ASSUME NEW m \in Nodes, NEW x \in Rsvrs
          PROVE  Cardinality(Spots(map'[m], x)) = Cardinality(On(x, m)')
      <3>1. Cardinality(Spots(map[m], x)) = Cardinality(On(x, m)) /\ Cardinality(On(x, m)) \in Nat
        BY ExactSpots, OnFinite
      <3>2. CASE m # n
        <4>1. On(x, m)' = On(x, m)
          BY <1>6, <2>1, <3>2
        <4>2. QED
          BY <2>2, <3>1, <3>2, <4>1
      <3>3. CASE m = n /\ x = r
        <4>1. Cardinality(Spots(map'[n], r)) = Cardinality(Spots(map[n], r)) - 1
          BY <2>2, <2>4, SpotsUnmap
        <4>2. Cardinality(On(r, n)') = Cardinality(On(r, n)) - 1
          BY <1>4, <2>3, OnFinite, FS_RemoveElement
        <4>3. QED
          BY <3>1, <3>3, <4>1, <4>2
      <3>4. CASE m = n /\ x # r
        <4>1. Cardinality(Spots(map'[n], x)) = Cardinality(Spots(map[n], x))
          BY <2>2, <2>4, <3>4, SpotsUnmap
        <4>2. On(x, n)' = On(x, n)
          BY <1>4, <2>3, <3>4
        <4>3. QED
          BY <3>1, <3>4, <4>1, <4>2
      <3>5. QED
        BY <3>2, <3>3, <3>4
    <2>6. ASSUME NEW m \in Nodes PROVE Len(map'[m]) = Cardinality(ListedOf(m)')
      <3>1. Len(map[m]) = Cardinality(ListedOf(m))
        BY DEF MapLen
      <3>2. CASE m # n
        <4>1. ListedOf(m)' = ListedOf(m)
          BY <1>6, <2>1, <3>2
        <4>2. QED
          BY <2>2, <3>1, <3>2, <4>1
      <3>3. CASE m = n
        <4>1. Len(map'[n]) = Len(map[n]) - 1
          BY <2>2, <2>4, UnmapTyped
        <4>2. Cardinality(ListedOf(n)') = Cardinality(ListedOf(n)) - 1
          BY <1>5, <2>3, OnFinite, FS_RemoveElement
        <4>3. QED
          BY <3>1, <3>3, <4>1, <4>2
      <3>4. QED
        BY <3>2, <3>3
    <2>7. QED
      BY <2>5, <2>6, ExactSpots DEF MapLen
  <1>9. QED
    BY <1>7, <1>8

\* The connections a thread adds are not authenticated.
LEMMA AddedMap ==
    ASSUME MapInv, NEW r \in Rsvrs, Added(r)
    PROVE  /\ \A x \in Rsvrs, m \in Nodes : On(x, m)' = On(x, m)
           /\ MapExact' /\ MapLen'
  <1> USE DEF MapInv, RoutedInv
  <1>1. /\ map' = map /\ nid' = nid
        /\ \A x \in Rsvrs : conn_list'[x] = IF x = r THEN conn_list[x] \cup connq[x] ELSE conn_list[x]
    BY DEF Added, Typed, TypeOK, RsvrsOK
  <1>2. \A x \in Rsvrs : \A y \in connq[x] : y \in Conns /\ nid[y] = None
    BY DEF BlockInv, KeptInv, ConnsKept, Typed, TypeOK, SharedOK
  <1>3. \A x \in Rsvrs, m \in Nodes : On(x, m)' = On(x, m)
    <2>1. \A x, m : On(x, m)' = {y \in conn_list'[x] : nid[y] = m}
      BY <1>1 DEF On
    <2>2. \A m \in Nodes : m # None
      BY MapTyped
    <2>3. QED
      BY <1>1, <1>2, <2>1, <2>2 DEF On
  <1>4. \A m \in Nodes : ListedOf(m)' = ListedOf(m)
    <2>1. \A m : ListedOf(m)' = {y \in Conns : (\E x \in Rsvrs : y \in conn_list'[x]) /\ nid[y] = m}
      BY <1>1 DEF ListedOf, Listed
    <2>2. \A m : ListedOf(m) = {y \in Conns : (\E x \in Rsvrs : y \in conn_list[x]) /\ nid[y] = m}
      BY DEF ListedOf, Listed
    <2>3. \A y : nid[y] # None => \A x \in Rsvrs : y \in conn_list'[x] <=> y \in conn_list[x]
      BY <1>1, <1>2
    <2>4. \A m \in Nodes : m # None
      BY MapTyped
    <2>5. QED
      BY <2>1, <2>2, <2>3, <2>4
  <1>5. QED
    BY <1>1, <1>3, <1>4, ExactSpots DEF MapLen

LEMMA NextMap == MapRoom /\ MapInv /\ [Next]_vars => MapInv'
  <1> SUFFICES ASSUME MapRoom, MapInv, [Next]_vars PROVE MapExact' /\ MapLen'
    BY NextBlocks, NextRouted DEF MapInv
  <1>1. CASE UNCHANGED <<map, nid, gone, conn_list>>
    <2>1. /\ \A x, m : On(x, m)' = On(x, m)
          /\ \A m : ListedOf(m)' = ListedOf(m)
      BY <1>1 DEF On, ListedOf, Listed
    <2>2. QED
      BY <1>1, <2>1, ExactSpots DEF MapInv, MapLen
  <1>2. ASSUME NEW r \in Rsvrs, NEW c \in Conns, Crowded(r, c) PROVE FALSE
    BY <1>2, RoomLeft DEF Crowded
  <1>3. QED
    BY <1>1, <1>2, AddedMap, AuthedMap, DeletedMap, ConnCases DEF MapInv

LEMMA InitMap == Init => MapInv
  <1> SUFFICES ASSUME Init PROVE MapExact /\ MapLen
    BY InitBlocks, InitRouted DEF MapInv
  <1>1. \A n \in Nodes : map[n] = <<>>
    BY DEF Init
  <1>2. \A n, r : r \in Rsvrs => On(r, n) = {}
    BY DEF Init, On
  <1>3. \A n : ListedOf(n) = {}
    BY DEF Init, ListedOf, Listed
  <1>4. \A x : Spots(<<>>, x) = {}
    BY DEF Spots
  <1>5. Cardinality({}) = 0 /\ Len(<<>>) = 0
    BY FS_EmptySet
  <1>6. \A n \in Nodes, r \in Rsvrs : Cardinality(Spots(map[n], r)) = Cardinality(On(r, n))
    BY <1>1, <1>2, <1>4
  <1>7. \A n \in Nodes : Len(map[n]) = Cardinality(ListedOf(n))
    BY <1>1, <1>3, <1>5
  <1>8. QED
    BY <1>6, <1>7, ExactSpots DEF MapLen

\* If the map has room for all connections of each node, it has one entry for each
\* authenticated connection, with the thread that serves it, and so every
\* authenticated connection can be reached.
THEOREM MapKept ==
    ASSUME MapRoom
    PROVE  Spec => [](MapExact /\ MapCovers)
  <1>1. MapInv => MapExact /\ MapCovers
    <2> SUFFICES ASSUME MapInv, NEW r \in Rsvrs, NEW c \in conn_list[r], nid[c] # None
                 PROVE  r \in ToSet(map[nid[c]])
      BY DEF MapInv, MapCovers
    <2>1. Typed /\ MapExact /\ c \in Conns
      BY DEF MapInv, RoutedInv, Typed, TypeOK, RsvrsOK
    <2>2. nid[c] \in Nodes /\ c \in On(r, nid[c])
      BY <2>1, MapTyped DEF On
    <2>3. QED
      BY <2>1, <2>2, EntryThere
  <1>2. MapInv /\ [Next]_vars => MapInv'
    BY NextMap
  <1>3. QED
    BY <1>1, <1>2, InitMap, PTL DEF Spec

-----------------------------------------------------------------------------
(* Messages are dropped for a reason. *)

\* The thread has a connection of the node, or has deleted one.
Reach(m, r) == On(r, m.dest) # {} \/ \E c \in gone : RsvrOf(c) = r /\ nid[c] = m.dest

\* A message goes only to a thread that had a connection of its node.
Reached ==
    /\ \A r \in Rsvrs : \A m \in ToSet(sendq[r]) \cup ToSet(batch[r]) : Reach(m, r)
    /\ dpc = "push" => Reach(Head(data), idx)

DropInv == MapInv /\ Reached

LEMMA GoesOn ==
    ASSUME Typed
    PROVE  /\ NextMessage(d) => dpc' # "push"
           /\ d' = d + 1 /\ NextMessage(d') => dpc' # "push"
  <1>1. d \in Nat /\ d + 1 \in Nat
    BY Sizes DEF Typed, TypeOK, DsvrOK
  <1>2. ASSUME NEW next \in Nat, NextMessage(next) PROVE dpc' # "push"
    BY <1>2, Sizes DEF NextMessage
  <1>3. QED
    BY <1>1, <1>2

LEMMA TailElements ==
    ASSUME NEW S, NEW s \in Seq(S), s # <<>>
    PROVE  ToSet(Tail(s)) \subseteq ToSet(s)
  <1> DEFINE t == Tail(s)
  <1>1. t \in Seq(S) /\ \A k \in 1..Len(t) : k + 1 \in 1..Len(s) /\ t[k] = s[k + 1]
    OBVIOUS
  <1> HIDE DEF t
  <1>2. ToSet(t) \subseteq ToSet(s)
    BY <1>1, Elements
  <1>3. QED
    BY <1>2 DEF t

LEMMA ReachStays ==
    ASSUME MapInv, [Next]_vars, NEW r \in Rsvrs, NEW m, m.dest \in Nodes, Reach(m, r)
    PROVE  Reach(m, r)'
  <1> USE DEF MapInv, RoutedInv
  <1> DEFINE n == m.dest
  <1>1. n # None
    BY MapTyped
  <1>2. \A x \in Rsvrs : \A y \in conn_list[x] : y \in Conns /\ RsvrOf(y) = x
    BY DEF BlockInv, KeptInv, ConnsKept, Typed, TypeOK, RsvrsOK
  <1>3. gone \subseteq Conns
    BY DEF Typed, TypeOK, ConnsOK
  <1>4. /\ Reach(m, r) <=> \/ \E y \in conn_list[r] : nid[y] = n
                           \/ \E y \in gone : RsvrOf(y) = r /\ nid[y] = n
        /\ Reach(m, r)' <=> \/ \E y \in conn_list'[r] : nid'[y] = n
                            \/ \E y \in gone' : RsvrOf(y) = r /\ nid'[y] = n
    BY DEF Reach, On
  <1>5. CASE UNCHANGED <<nid, gone, conn_list>>
    BY <1>4, <1>5
  <1>6. ASSUME NEW x \in Rsvrs, Added(x) PROVE Reach(m, r)'
    <2>1. nid' = nid /\ gone' = gone /\ conn_list[r] \subseteq conn_list'[r]
      BY <1>6 DEF Added, Typed, TypeOK, RsvrsOK
    <2>2. QED
      BY <1>4, <2>1
  <1>7. ASSUME NEW x \in Rsvrs, NEW c \in Conns, Authed(x, c) \/ Crowded(x, c) PROVE Reach(m, r)'
    <2>1. /\ nid[c] = None /\ \A y \in Conns \ {c} : nid'[y] = nid[y]
          /\ gone \subseteq gone' /\ conn_list[r] \ {c} \subseteq conn_list'[r]
      <3>1. nid[c] = None /\ nid' = [nid EXCEPT ![c] = NodeOf[c]]
        BY <1>7 DEF Authed, Crowded
      <3>2. \A y \in Conns \ {c} : nid'[y] = nid[y]
        BY <3>1 DEF Typed, TypeOK, ConnsOK
      <3>3. CASE Authed(x, c)
        BY <3>1, <3>2, <3>3 DEF Authed
      <3>4. CASE Crowded(x, c)
        <4>1. DelConn(x, c, NodeOf[c])
          BY <3>4 DEF Crowded
        <4>2. gone \subseteq gone' /\ conn_list[r] \ {c} \subseteq conn_list'[r]
          BY <4>1, DelConnEmpties DEF DelConn
        <4>3. QED
          BY <3>1, <3>2, <4>2
      <3>5. QED
        BY <1>7, <3>3, <3>4
    <2>2. QED
      BY <1>1, <1>2, <1>3, <1>4, <2>1
  <1>8. ASSUME NEW x \in Rsvrs, NEW c \in Conns, Deleted(x, c) PROVE Reach(m, r)'
    <2>1. /\ nid' = nid /\ gone' = gone \cup {c} /\ conn_list[r] \ {c} \subseteq conn_list'[r]
      BY <1>8 DEF Deleted, DelConn, Typed, TypeOK, RsvrsOK
    <2>2. QED
      BY <1>2, <1>4, <2>1
  <1>9. QED
    BY <1>5, <1>6, <1>7, <1>8, ConnCases

LEMMA QueuesGo ==
    ASSUME Typed, [Next]_vars, NEW r \in Rsvrs, NEW m \in ToSet(sendq'[r]) \cup ToSet(batch'[r])
    PROVE  \/ m \in ToSet(sendq[r]) \cup ToSet(batch[r])
           \/ dpc = "push" /\ data # <<>> /\ m = Head(data) /\ idx = r
  <1>1. sendq[r] \in Seq(Orders) /\ batch[r] \in Seq(Orders)
    BY DEF Typed, TypeOK, SharedOK, RsvrsOK
  <1>2. CASE UNCHANGED <<sendq, batch>>
    BY <1>2
  <1>3. ASSUME NEW x \in Rsvrs, RsvrPop(x) PROVE m \in ToSet(sendq[r]) \cup ToSet(batch[r])
    <2>1. \/ sendq'[r] = sendq[r] /\ batch'[r] = batch[r]
          \/ sendq'[r] = <<>> /\ batch'[r] = sendq[r]
      BY <1>3 DEF RsvrPop, Typed, TypeOK, SharedOK, RsvrsOK
    <2>2. QED
      BY <2>1, OrdEmpty
  <1>4. ASSUME NEW x \in Rsvrs, RsvrRoute(x) PROVE m \in ToSet(sendq[r]) \cup ToSet(batch[r])
    <2>1. /\ sendq' = sendq
          /\ batch'[r] = batch[r] \/ (batch[r] # <<>> /\ batch'[r] = Tail(batch[r]))
      BY <1>4 DEF RsvrRoute, Typed, TypeOK, RsvrsOK
    <2>2. batch[r] # <<>> => ToSet(Tail(batch[r])) \subseteq ToSet(batch[r])
      BY <1>1, TailElements
    <2>3. QED
      BY <2>1, <2>2
  <1>5. CASE DsvrPush
    <2>1. /\ batch' = batch /\ dpc = "push" /\ data # <<>> /\ idx \in Rsvrs /\ Head(data) \in Orders
          /\ sendq' = sendq \/ sendq' = [sendq EXCEPT ![idx] = Append(@, Head(data))]
      BY <1>5, Parts DEF DsvrPush, rvars, Typed, DsvrStands, TypeOK, DsvrOK
    <2>2. sendq'[r] = sendq[r] \/ (idx = r /\ sendq'[r] = Append(sendq[r], Head(data)))
      BY <2>1 DEF Typed, TypeOK, SharedOK
    <2>3. ToSet(Append(sendq[r], Head(data))) = ToSet(sendq[r]) \cup {Head(data)}
      BY <1>1, <2>1, AppendElements
    <2>4. QED
      BY <2>1, <2>2, <2>3
  <1>6. CASE \/ UNCHANGED vars
             \/ \E s \in Senders : AsyncSend(s) \/ SendDistReq(s)
             \/ DsvrSelect \/ DsvrPop \/ DsvrMap \/ DsvrCmd \/ Accept \/ AddCmd
             \/ \E c \in Conns : ClientKeepalive(c) \/ ClientCloses(c)
             \/ \E x \in Rsvrs : RsvrDropsSilent(x) \/ RsvrSelect(x) \/ RsvrCmd(x) \/ RsvrRecv(x)
                                 \/ RsvrSend(x)
    <2>1. UNCHANGED <<sendq, batch>>
      BY <1>6 DEF AsyncSend, SendDistReq, DsvrSelect, DsvrPop, DsvrMap, DsvrCmd,
                  Accept, AddCmd, ClientKeepalive, ClientCloses, RsvrDropsSilent, RsvrSelect,
                  RsvrCmd, RsvrRecv, RsvrSend, vars, rvars
    <2>2. QED
      BY <1>2, <2>1
  <1>7. QED
    BY <1>3, <1>4, <1>5, <1>6 DEF Next, RsvrStep, DsvrStep

LEMMA NextDrop == MapRoom /\ DropInv /\ [Next]_vars => DropInv'
  <1> SUFFICES ASSUME MapRoom, DropInv, [Next]_vars PROVE Reached'
    BY NextMap DEF DropInv
  <1> USE DEF DropInv, MapInv, RoutedInv
  <1>1. \A m \in Orders : m.dest \in Nodes
    BY MessagesMade
  <1>2. /\ data # <<>> => Head(data) \in Orders
        /\ \A r \in Rsvrs : ToSet(sendq[r]) \cup ToSet(batch[r]) \subseteq Orders
    BY Parts DEF Typed, TypeOK, SharedOK, RsvrsOK, DsvrOK
  <1>3. ASSUME NEW r \in Rsvrs, NEW m \in ToSet(sendq'[r]) \cup ToSet(batch'[r])
        PROVE  Reach(m, r)'
    <2>1. m.dest \in Nodes /\ Reach(m, r)
      <3>1. CASE m \in ToSet(sendq[r]) \cup ToSet(batch[r])
        BY <1>1, <1>2, <3>1 DEF Reached
      <3>2. CASE dpc = "push" /\ data # <<>> /\ m = Head(data) /\ idx = r
        BY <1>1, <1>2, <3>2 DEF Reached
      <3>3. QED
        BY <3>1, <3>2, QueuesGo
    <2>2. QED
      BY <2>1, ReachStays
  <1>4. ASSUME dpc' = "push" PROVE Reach(Head(data), idx)'
    <2>1. /\ idx' \in Rsvrs /\ data' \in Seq(Orders) /\ data' # <<>>
      BY <1>4, NextTyped DEF Typed, TypeOK, DsvrOK, DsvrStands
    <2>2. PICK r \in Rsvrs : r = idx'
      BY <2>1
    <2>3. PICK m \in Orders : m = Head(data')
      BY <2>1, Parts
    <2>4. Reach(m, r)
      <3>1. CASE DsvrMap
        <4>1. r \in ToSet(map[m.dest])
          BY <1>4, <2>2, <2>3, <3>1, GoesOn DEF DsvrMap, Drop
        <4>2. On(r, m.dest) # {}
          BY <1>1, <4>1, EntryThere
        <4>3. QED
          BY <4>2 DEF Reach
      <3>2. CASE DsvrStep /\ ~DsvrMap
        BY <1>4, <3>2, GoesOn DEF DsvrStep, DsvrSelect, DsvrPop, DsvrPush, DsvrCmd, Drop
      <3>3. CASE ~DsvrStep
        <4>1. UNCHANGED <<dpc, data, idx>>
          BY <3>3 DEF Next, AsyncSend, SendDistReq, Accept, AddCmd, ClientKeepalive,
                  ClientCloses, RsvrDropsSilent, RsvrStep, RsvrSelect, RsvrCmd, RsvrPop, RsvrRoute,
                  RsvrRecv, RsvrSend, vars, dvars
        <4>2. QED
          BY <1>4, <2>2, <2>3, <4>1 DEF Reached
      <3>4. QED
        BY <3>1, <3>2, <3>3
    <2>5. Reach(m, r)'
      BY <1>1, <2>4, ReachStays
    <2>6. QED
      BY <2>2, <2>3, <2>5 DEF Reach, On
  <1>5. QED
    BY <1>3, <1>4 DEF Reached

\* Where a block is when it is freed: a message the distribution thread cannot
\* distribute, one a receiving thread cannot route, or one on a connection.
LEMMA LostWhere ==
    ASSUME BlockInv, [Next]_vars, NEW m \in live, m \notin live'
    PROVE  \/ DsvrMap /\ map[Head(data).dest] = <<>> /\ m = Head(data)
           \/ DsvrPush /\ m = Head(data)
           \/ \E r \in Rsvrs : RsvrRoute(r) /\ On(r, m.dest) = {} /\ m = Head(batch[r])
           \/ \E c \in Conns : m \in Blocks(c)
  <1> USE DEF BlockInv, KeptInv
  <1>1. ASSUME NEW r \in Rsvrs, NEW c \in Conns, NEW n, DelConn(r, c, n) PROVE m \in Blocks(c)
    BY <1>1 DEF DelConn
  <1>2. ASSUME NEW c \in Conns, NEW k \in 1..Len(Fill(c).items),
               live' = live \ ToSet(SubSeq(Fill(c).items, 1, k))
        PROVE  m \in Blocks(c)
    <2> DEFINE l == mesg_list[c]
               v == wiov[c].items
               p == SubSeq(l, 1, Room(c))
               w == Fill(c).items
    <2>1. l \in Seq(Messages) /\ v \in Seq(Messages) /\ Room(c) \in 0..Len(l)
      BY RoomTyped
    <2>2. w = v \o p /\ m \in ToSet(SubSeq(w, 1, k)) /\ k \in 1..Len(w)
      BY <1>2 DEF Fill
    <2>3. \A s \in Seq(Messages) : \A j \in 0..Len(s) :
             SubSeq(s, 1, j) \in Seq(Messages) /\ ToSet(SubSeq(s, 1, j)) \subseteq ToSet(s)
      <3> SUFFICES ASSUME NEW s \in Seq(Messages), NEW j \in 0..Len(s)
                   PROVE  /\ SubSeq(s, 1, j) \in Seq(Messages)
                          /\ ToSet(SubSeq(s, 1, j)) \subseteq ToSet(s)
        OBVIOUS
      <3> DEFINE t == SubSeq(s, 1, j)
      <3>1. t \in Seq(Messages) /\ \A i \in 1..Len(t) : i \in 1..Len(s) /\ t[i] = s[i]
        BY CutParts
      <3> HIDE DEF t
      <3>2. ToSet(t) \subseteq ToSet(s)
        BY <3>1, Elements
      <3>3. QED
        BY <3>1, <3>2 DEF t
    <2> HIDE DEF l, v, w
    <2>4. p \in Seq(Messages) /\ ToSet(p) \subseteq ToSet(l)
      BY <2>1, <2>3
    <2> HIDE DEF p
    <2>5. w \in Seq(Messages) /\ ToSet(w) = ToSet(v) \cup ToSet(p)
      BY <2>1, <2>2, <2>4, JoinParts, JoinElements
    <2>6. k \in 0..Len(w)
      BY <2>2, <2>5
    <2>7. m \in ToSet(w)
      BY <2>2, <2>3, <2>5, <2>6
    <2>8. QED
      BY <2>4, <2>5, <2>7 DEF Blocks, l, v
  <1>3. ASSUME NEW r \in Rsvrs, RsvrRecv(r) PROVE \E c \in Conns : m \in Blocks(c)
    <2>1. PICK c \in Conns : c = Min(todo[r])
      BY <1>3, First DEF RsvrRecv, RsvrsStand, RsvrsOK, Typed, TypeOK
    <2>2. \/ \E n : DelConn(r, c, n)
          \/ live' = live
          \/ \E x : Reply(c, x)
      BY <1>3, <2>1 DEF RsvrRecv, AuthReq, KeepaliveReq
    <2>3. \E n : DelConn(r, c, n)
      BY <2>2 DEF Reply
    <2>4. QED
      BY <1>1, <2>3
  <1>4. ASSUME NEW r \in Rsvrs, RsvrSend(r) PROVE \E c \in Conns : m \in Blocks(c)
    <2>1. PICK c \in Conns : c = Min(todo[r])
      BY <1>4, First DEF RsvrSend, RsvrsStand, RsvrsOK, Typed, TypeOK
    <2>2. \/ DelConn(r, c, nid[c])
          \/ \E k \in 1..Len(Fill(c).items) : live' = live \ ToSet(SubSeq(Fill(c).items, 1, k))
      BY <1>4, <2>1 DEF RsvrSend
    <2>3. QED
      BY <1>1, <1>2, <2>1, <2>2
  <1>5. ASSUME NEW r \in Rsvrs, RsvrDropsSilent(r) PROVE \E c \in Conns : m \in Blocks(c)
    <2>1. PICK c \in Conns : DelConn(r, c, nid[c])
      BY <1>5 DEF RsvrDropsSilent, Typed, TypeOK, RsvrsOK
    <2>2. QED
      BY <1>1, <2>1
  <1>6. ASSUME NEW r \in Rsvrs, RsvrRoute(r)
        PROVE  On(r, m.dest) = {} /\ m = Head(batch[r])
    BY <1>6 DEF RsvrRoute
  <1>7. CASE DsvrMap
    BY <1>7 DEF DsvrMap, Drop
  <1>8. CASE DsvrPush
    BY <1>8 DEF DsvrPush, Drop
  <1>9. CASE \/ UNCHANGED vars
             \/ \E s \in Senders : AsyncSend(s) \/ SendDistReq(s)
             \/ DsvrSelect \/ DsvrPop \/ DsvrCmd \/ Accept \/ AddCmd
             \/ \E c \in Conns : ClientKeepalive(c) \/ ClientCloses(c)
             \/ \E r \in Rsvrs : RsvrSelect(r) \/ RsvrCmd(r) \/ RsvrPop(r)
    <2>1. live \subseteq live'
      BY <1>9 DEF AsyncSend, SendDistReq, DsvrSelect, DsvrPop, DsvrCmd, Accept, AddCmd,
                  ClientKeepalive, ClientCloses, RsvrSelect, RsvrCmd, RsvrPop, vars
    <2>2. QED
      BY <2>1
  <1>10. QED
    BY <1>3, <1>4, <1>5, <1>6, <1>7, <1>8, <1>9 DEF Next, RsvrStep, DsvrStep

\* A message in the hands of the distribution thread is in no batch and on no
\* connection, and one in a batch in no other and on no connection.
LEMMA OneHand ==
    ASSUME BlockInv
    PROVE  /\ \A r \in Rsvrs : ToSet(data) \cap ToSet(batch[r]) = {}
           /\ \A r, x \in Rsvrs : r # x => ToSet(batch[r]) \cap ToSet(batch[x]) = {}
           /\ \A c \in Conns : /\ ToSet(data) \cap Blocks(c) = {}
                               /\ \A r \in Rsvrs : ToSet(batch[r]) \cap Blocks(c) = {}
  <1>1. \A p, q \in Places : p # q => ToSet(Held(p)) \cap ToSet(Held(q)) = {}
    BY Apart DEF BlockInv
  <1>2. \A r \in Rsvrs : ToSet(data) \cap ToSet(batch[r]) = {}
    BY <1>1, HeldAre
  <1>3. ASSUME NEW r \in Rsvrs, NEW x \in Rsvrs, r # x
        PROVE  ToSet(batch[r]) \cap ToSet(batch[x]) = {}
    <2>1. <<"batch", r>> # <<"batch", x>>
      BY <1>3
    <2>2. QED
      BY <1>1, <2>1, HeldAre
  <1>4. ASSUME NEW c \in Conns, NEW r \in Rsvrs
        PROVE  ToSet(batch[r]) \cap Blocks(c) = {}
    <2>1. ToSet(batch[r]) \cap ToSet(mesg_list[c]) = {}
      BY <1>1, HeldAre
    <2>2. ToSet(batch[r]) \cap ToSet(wiov[c].items) = {}
      BY <1>1, HeldAre
    <2>3. QED
      BY <2>1, <2>2 DEF Blocks
  <1>5. ASSUME NEW c \in Conns PROVE ToSet(data) \cap Blocks(c) = {}
    <2>1. ToSet(data) \cap ToSet(mesg_list[c]) = {}
      BY <1>1, HeldAre
    <2>2. ToSet(data) \cap ToSet(wiov[c].items) = {}
      BY <1>1, HeldAre
    <2>3. QED
      BY <2>1, <2>2 DEF Blocks
  <1>6. QED
    BY <1>2, <1>3, <1>4, <1>5

LEMMA DropsReasoned == DropInv /\ [Next]_vars => [JustifiedDrop]_vars
  <1> SUFFICES ASSUME DropInv, [Next]_vars PROVE JustifiedDrop
    OBVIOUS
  <1> USE DEF DropInv, MapInv
  <1>1. ASSUME dpc = "map", dpc' # "push", NEW m \in Lost \cap ToSet(data), NEW r \in Rsvrs
        PROVE  On(r, m.dest) = {}
    <2>1. m \in live /\ m \notin live' /\ m \in ToSet(data)
      BY <1>1 DEF Lost
    <2>2. \A x \in Rsvrs : batch[x] # <<>> => Head(batch[x]) \in ToSet(batch[x])
      BY Elements DEF RoutedInv, Typed, TypeOK, RsvrsOK
    <2>3. map[m.dest] = <<>> /\ m.dest \in Nodes
      <3>1. data \in Seq(Orders)
        BY DEF RoutedInv, Typed, TypeOK, DsvrOK
      <3>2. m.dest \in Nodes
        BY <2>1, <3>1, Parts, MessagesMade
      <3>3. ~\E x \in Rsvrs : RsvrRoute(x) /\ m = Head(batch[x])
        BY <2>1, <2>2, OneHand DEF RsvrRoute
      <3>4. ~DsvrPush /\ ~\E c \in Conns : m \in Blocks(c)
        BY <1>1, <2>1, OneHand DEF DsvrPush
      <3>5. QED
        BY <2>1, <3>2, <3>3, <3>4, LostWhere
    <2>4. r \notin ToSet(map[m.dest])
      BY <2>3, OrdEmpty
    <2>5. QED
      BY <2>3, <2>4, EntryThere DEF RoutedInv
  <1>2. ASSUME NEW r \in Rsvrs, rpc[r] = "dist", NEW m \in Lost \cap ToSet(batch[r])
        PROVE  \E c \in gone : RsvrOf(c) = r /\ nid[c] = m.dest
    <2>1. m \in live /\ m \notin live' /\ m \in ToSet(batch[r])
      BY <1>2 DEF Lost
    <2>2. \A x \in Rsvrs : batch[x] # <<>> => Head(batch[x]) \in ToSet(batch[x])
      BY Elements DEF RoutedInv, Typed, TypeOK, RsvrsOK
    <2>3. data # <<>> => Head(data) \in ToSet(data)
      BY Elements DEF RoutedInv, Typed, TypeOK, DsvrOK
    <2>4. ~(DsvrMap /\ m = Head(data)) /\ ~(DsvrPush /\ m = Head(data))
      BY <2>1, <2>3, OneHand DEF DsvrMap, DsvrPush, RoutedInv, Typed, DsvrStands
    <2>5. ~\E c \in Conns : m \in Blocks(c)
      BY <2>1, OneHand
    <2>6. PICK x \in Rsvrs : RsvrRoute(x) /\ On(x, m.dest) = {} /\ m = Head(batch[x])
      BY <2>1, <2>4, <2>5, LostWhere
    <2>7. x = r
      BY <2>1, <2>2, <2>6, OneHand DEF RsvrRoute
    <2>8. Reach(m, r)
      BY <2>1 DEF Reached
    <2>9. QED
      BY <2>6, <2>7, <2>8 DEF Reach
  <1>3. QED
    BY <1>1, <1>2 DEF JustifiedDrop

LEMMA InitDrop == Init => DropInv
  <1>1. Init => Reached
    BY OrdEmpty DEF Init, Reached
  <1>2. QED
    BY <1>1, InitMap DEF DropInv

\* If the map has room for all connections of each node, a message is dropped for want
\* of a connection only if its node has none on any thread when it is mapped, or if
\* the thread it was mapped to has deleted one since.
THEOREM DropsReasonable ==
    ASSUME MapRoom
    PROVE  Spec => DropsJustified
  <1>1. DropInv /\ [Next]_vars => DropInv'
    BY NextDrop
  <1>2. Spec => []DropInv
    BY <1>1, InitDrop, PTL DEF Spec
  <1>3. QED
    BY <1>2, DropsReasoned, PTL DEF Spec, DropsJustified
=============================================================================
