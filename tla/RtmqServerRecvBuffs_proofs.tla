--------------------- MODULE RtmqServerRecvBuffs_proofs ---------------------
(***************************************************************************)
(* Receive buffers for every number of connections, threads, workers and   *)
(* queues: the counts are exact, what an item shows stays whole, and       *)
(* messages are handled once and in order.                                 *)
(***************************************************************************)
EXTENDS RtmqServerRecv_proofs, FunctionTheorems

-----------------------------------------------------------------------------
(* The count of one buffer. *)

CountedAt(b) ==
    /\ IsFiniteSet(Holders(b))
    /\ count[b] = None => Holders(b) = {}
    /\ count[b] # None => count[b] = Cardinality(Holders(b))
    /\ count[b] = 0 => \E x : Freeing(b) = {x}
    /\ count[b] # 0 => Freeing(b) = {}

LEMMA AllCounted ==
    /\ Counted <=> \A b \in Buffs : CountedAt(b)
    /\ Counted' <=> \A b \in Buffs : CountedAt(b)'
  BY DEF Counted, CountedAt

\* Nothing changes for the buffer, or the references get other names.
LEMMA CountStays ==
    ASSUME IInv, NEW b \in Buffs, count'[b] = count[b], Freeing(b)' = Freeing(b),
           \/ Holders(b)' = Holders(b)
           \/ ExistsBijection(Holders(b), Holders(b)')
    PROVE  CountedAt(b)'
  <1>1. CountedAt(b)
    BY AllCounted DEF IInv
  <1>2. CASE Holders(b)' = Holders(b)
    BY <1>1, <1>2 DEF CountedAt
  <1>3. CASE ExistsBijection(Holders(b), Holders(b)')
    <2>2. IsFiniteSet(Holders(b)') /\ Cardinality(Holders(b)') = Cardinality(Holders(b))
      BY <1>1, <1>3, FS_Bijection DEF CountedAt
    <2>3. Holders(b) = {} => Holders(b)' = {}
      BY <1>3 DEF ExistsBijection, Bijection, Surjection
    <2>4. QED
      BY <1>1, <2>2, <2>3 DEF CountedAt
  <1>4. QED
    BY <1>2, <1>3

\* One reference takes the place of another.
LEMMA CountMoves ==
    ASSUME IInv, NEW b \in Buffs, NEW x \in Holders(b), NEW y, y \notin Holders(b),
           count'[b] = count[b], Freeing(b)' = Freeing(b),
           Holders(b)' = (Holders(b) \ {x}) \cup {y}
    PROVE  CountedAt(b)'
  <1>1. CountedAt(b)
    BY AllCounted DEF IInv
  <1>2. count[b] \in Nat \ {0}
    BY HeldCounts
  <1> DEFINE A == Holders(b)
             B == A \ {x}
  <1>3. IsFiniteSet(A) /\ count[b] = Cardinality(A)
    BY <1>1, <1>2, Sizes DEF CountedAt
  <1> HIDE DEF A
  <1>4. IsFiniteSet(B) /\ Cardinality(B) = Cardinality(A) - 1 /\ y \notin B
    BY <1>3, FS_RemoveElement DEF A
  <1> HIDE DEF B
  <1>5. IsFiniteSet(B \cup {y}) /\ Cardinality(B \cup {y}) = Cardinality(B) + 1
    BY <1>4, FS_AddElement
  <1>6. Holders(b)' = B \cup {y}
    BY DEF A, B
  <1>7. Cardinality(Holders(b)') = count'[b]
    BY <1>2, <1>3, <1>4, <1>5, <1>6
  <1>8. count'[b] # None /\ count'[b] # 0 /\ Freeing(b)' = {}
    BY <1>1, <1>2, Sizes DEF CountedAt
  <1>9. QED
    BY <1>5, <1>6, <1>7, <1>8 DEF CountedAt

\* A reference is counted.
LEMMA CountGrows ==
    ASSUME IInv, NEW b \in Buffs, NEW y, y \notin Holders(b), Holders(b) # {},
           count'[b] = count[b] + 1, Freeing(b)' = Freeing(b),
           Holders(b)' = Holders(b) \cup {y}
    PROVE  CountedAt(b)'
  <1>1. CountedAt(b)
    BY AllCounted DEF IInv
  <1>2. count[b] \in Nat \ {0}
    BY HeldCounts
  <1>3. IsFiniteSet(Holders(b)) /\ count[b] = Cardinality(Holders(b))
    BY <1>1, <1>2, Sizes DEF CountedAt
  <1>4. IsFiniteSet(Holders(b)') /\ Cardinality(Holders(b)') = Cardinality(Holders(b)) + 1
    BY <1>3, FS_AddElement
  <1>5. count'[b] \in Nat \ {0} /\ count'[b] # None
    BY <1>2, Sizes
  <1>6. Freeing(b)' = {}
    BY <1>1, <1>2 DEF CountedAt
  <1>7. QED
    BY <1>3, <1>4, <1>5, <1>6, Sizes DEF CountedAt

\* A reference is released; whoever releases the last one is the one to free the
\* buffer.
LEMMA CountShrinks ==
    ASSUME IInv, NEW b \in Buffs, NEW x \in Holders(b), NEW y,
           count'[b] = count[b] - 1,
           Freeing(b)' = IF count[b] = 1 THEN Freeing(b) \cup {y} ELSE Freeing(b),
           Holders(b)' = Holders(b) \ {x}
    PROVE  CountedAt(b)'
  <1>1. CountedAt(b)
    BY AllCounted DEF IInv
  <1>2. count[b] \in Nat \ {0}
    BY HeldCounts
  <1>3. IsFiniteSet(Holders(b)) /\ count[b] = Cardinality(Holders(b))
    BY <1>1, <1>2, Sizes DEF CountedAt
  <1>4. IsFiniteSet(Holders(b)') /\ Cardinality(Holders(b)') = Cardinality(Holders(b)) - 1
    BY <1>3, FS_RemoveElement
  <1>5. count'[b] \in Nat /\ count'[b] # None /\ count'[b] = Cardinality(Holders(b)')
    BY <1>2, <1>3, <1>4, Sizes
  <1>6. Freeing(b) = {}
    BY <1>1, <1>2 DEF CountedAt
  <1>7. count'[b] = 0 <=> count[b] = 1
    BY <1>2
  <1>8. QED
    BY <1>4, <1>5, <1>6, <1>7, Sizes DEF CountedAt

\* A new buffer has one reference.
LEMMA CountBegins ==
    ASSUME NEW b \in Buffs, NEW x, count'[b] = 1, Freeing(b)' = {}, Holders(b)' = {x}
    PROVE  CountedAt(b)'
  <1>1. IsFiniteSet({x}) /\ Cardinality({x}) = 1
    BY FS_Singleton
  <1>2. QED
    BY <1>1, Sizes DEF CountedAt

\* A buffer without references is freed.
LEMMA CountEnds ==
    ASSUME IInv, NEW b \in Buffs, NEW x \in Freeing(b),
           count'[b] = None, Freeing(b)' = Freeing(b) \ {x}, Holders(b)' = Holders(b)
    PROVE  CountedAt(b)'
  <1>1. Holders(b) = {} /\ Freeing(b) = {x}
    BY FreedCounts
  <1>2. QED
    BY <1>1, FS_EmptySet, Sizes DEF CountedAt

-----------------------------------------------------------------------------
(* Who holds a buffer, part by part. *)

\* The names of references of different kinds differ.
LEMMA KindsDiffer ==
    ASSUME NEW b, NEW x, NEW y, NEW i
    PROVE  /\ <<"conn", x>> \notin OldRefs(b) \cup NewRefs(b) \cup RecvqRefs(b) \cup BatchRefs(b)
           /\ <<"old", x>> \notin ConnRefs(b) \cup NewRefs(b) \cup RecvqRefs(b) \cup BatchRefs(b)
           /\ <<"new", x>> \notin ConnRefs(b) \cup OldRefs(b) \cup RecvqRefs(b) \cup BatchRefs(b)
           /\ <<"recvq", x, i>> \notin ConnRefs(b) \cup OldRefs(b) \cup NewRefs(b) \cup BatchRefs(b)
           /\ <<"batch", x, i>> \notin ConnRefs(b) \cup OldRefs(b) \cup NewRefs(b) \cup RecvqRefs(b)
  BY DEF ConnRefs, OldRefs, NewRefs, RecvqRefs, BatchRefs

\* What a step of a thread changes of its own.
LEMMA OwnMoves ==
    ASSUME IInv, NEW r \in Rsvrs, RsvrStep(r)
    PROVE  \A x \in Rsvrs \ {r} : rpc'[x] = rpc[x] /\ old'[x] = old[x] /\ cur'[x] = cur[x] /\ rq'[x] = rq[x]
  <1>1. rpc' = rpc \/ \E v : rpc' = [rpc EXCEPT ![r] = v]
    BY DEF RsvrStep, AddConn, Serve, Read, ReadAgain, Disconnected, Dropped, Silent, Switch, ParseSkip, DelConn,
           ParseExp, IncRef, Push, Cmd, All, Timeout, DecOld, FreeOld, Resume, rvars
  <1>2. old' = old \/ \E v : old' = [old EXCEPT ![r] = v]
    BY DEF RsvrStep, AddConn, Serve, Read, ReadAgain, Disconnected, Dropped, Silent, Switch, ParseSkip, DelConn,
           ParseExp, IncRef, Push, Cmd, All, Timeout, DecOld, FreeOld, Resume, rvars
  <1>3. cur' = cur \/ \E v : cur' = [cur EXCEPT ![r] = v]
    BY DEF RsvrStep, AddConn, Serve, Read, ReadAgain, Disconnected, Dropped, Silent, Switch, ParseSkip, DelConn,
           ParseExp, IncRef, Push, Cmd, All, Timeout, DecOld, FreeOld, Resume, rvars
  <1>4. rq' = rq \/ \E v : rq' = [rq EXCEPT ![r] = v]
    BY DEF RsvrStep, AddConn, Serve, Read, ReadAgain, Disconnected, Dropped, Silent, Switch, ParseSkip, DelConn,
           ParseExp, IncRef, Push, Cmd, All, Timeout, DecOld, FreeOld, Resume, rvars
  <1>5. QED
    BY <1>1, <1>2, <1>3, <1>4 DEF IInv, TypeOK, RsvrsOK

\* A receiving thread leaves the references of the others alone.
LEMMA OthersHold ==
    ASSUME IInv, NEW r \in Rsvrs, RsvrStep(r), NEW b \in Buffs,
           \A c \in Conns : RsvrOf[c] # r => base'[c] = base[c]
    PROVE  /\ BatchRefs(b)' = BatchRefs(b)
           /\ rpc[r] # "dec" /\ ~(rpc'[r] = "dec" /\ old'[r] = b) => OldRefs(b)' = OldRefs(b)
           /\ rpc[r] # "dec" /\ rpc'[r] = "dec" /\ old'[r] = b => OldRefs(b)' = OldRefs(b) \cup {<<"old", r>>}
           /\ rpc'[r] # "dec" => OldRefs(b)' = OldRefs(b) \ {<<"old", r>>}
           /\ rpc[r] # "push" /\ ~(rpc'[r] = "push" /\ base'[cur'[r]] = b) => NewRefs(b)' = NewRefs(b)
           /\ rpc[r] # "push" /\ rpc'[r] = "push" /\ base'[cur'[r]] = b => NewRefs(b)' = NewRefs(b) \cup {<<"new", r>>}
           /\ rpc'[r] # "push" => NewRefs(b)' = NewRefs(b) \ {<<"new", r>>}
           /\ rpc[r] # "free" /\ ~(rpc'[r] = "free" /\ old'[r] = b) => Freeing(b)' = Freeing(b)
           /\ rpc[r] # "free" /\ rpc'[r] = "free" /\ old'[r] = b => Freeing(b)' = Freeing(b) \cup {<<"rsvr", r>>}
           /\ rpc'[r] # "free" => Freeing(b)' = Freeing(b) \ {<<"rsvr", r>>}
  <1>1. UNCHANGED wvars
    BY RsvrWorkers
  <1>2. \A x \in Rsvrs \ {r} : rpc'[x] = rpc[x] /\ old'[x] = old[x] /\ cur'[x] = cur[x]
    BY OwnMoves
  <1>3. BatchRefs(b)' = BatchRefs(b)
    BY <1>1 DEF wvars, BatchRefs, Pending
  <1>4. /\ rpc[r] # "dec" /\ ~(rpc'[r] = "dec" /\ old'[r] = b) => OldRefs(b)' = OldRefs(b)
        /\ rpc[r] # "dec" /\ rpc'[r] = "dec" /\ old'[r] = b => OldRefs(b)' = OldRefs(b) \cup {<<"old", r>>}
        /\ rpc'[r] # "dec" => OldRefs(b)' = OldRefs(b) \ {<<"old", r>>}
    BY <1>2 DEF OldRefs
  <1>5. \A x \in Rsvrs \ {r} : rpc[x] = "push" => base'[cur'[x]] = base[cur[x]]
    BY <1>2 DEF IInv, TypeOK, RsvrsOK, ThreadsStand
  <1>6. /\ rpc[r] # "push" /\ ~(rpc'[r] = "push" /\ base'[cur'[r]] = b) => NewRefs(b)' = NewRefs(b)
        /\ rpc[r] # "push" /\ rpc'[r] = "push" /\ base'[cur'[r]] = b => NewRefs(b)' = NewRefs(b) \cup {<<"new", r>>}
        /\ rpc'[r] # "push" => NewRefs(b)' = NewRefs(b) \ {<<"new", r>>}
    BY <1>2, <1>5 DEF NewRefs
  <1>7. /\ rpc[r] # "free" /\ ~(rpc'[r] = "free" /\ old'[r] = b) => Freeing(b)' = Freeing(b)
        /\ rpc[r] # "free" /\ rpc'[r] = "free" /\ old'[r] = b => Freeing(b)' = Freeing(b) \cup {<<"rsvr", r>>}
        /\ rpc'[r] # "free" => Freeing(b)' = Freeing(b) \ {<<"rsvr", r>>}
    BY <1>1, <1>2 DEF wvars, Freeing
  <1>8. QED
    BY <1>3, <1>4, <1>6, <1>7

\* Steps that take and release nothing.
LEMMA QuietCounts ==
    ASSUME IInv, NEW r \in Rsvrs, RsvrStep(r), UNCHANGED <<count, base, recvq>>,
           rpc[r] \notin {"dec", "push", "free"}, rpc'[r] \notin {"dec", "push", "free"}
    PROVE  Counted'
  <1> SUFFICES ASSUME NEW b \in Buffs PROVE CountedAt(b)'
    BY AllCounted
  <1>1. ConnRefs(b)' = ConnRefs(b) /\ RecvqRefs(b)' = RecvqRefs(b)
    BY DEF ConnRefs, RecvqRefs
  <1>3. /\ OldRefs(b)' = OldRefs(b) /\ NewRefs(b)' = NewRefs(b) /\ BatchRefs(b)' = BatchRefs(b)
        /\ Freeing(b)' = Freeing(b)
    BY OthersHold
  <1>4. Holders(b)' = Holders(b)
    BY <1>1, <1>3 DEF Holders
  <1>5. QED
    BY <1>3, <1>4, CountStays

LEMMA QuietSteps ==
    ASSUME IInv, NEW r \in Rsvrs, RsvrStep(r),
           Serve(r) \/ Read(r) \/ ReadAgain(r) \/ ParseSkip(r) \/ ParseExp(r) \/ Cmd(r) \/ All(r) \/ Timeout(r)
    PROVE  Counted'
  <1>1. UNCHANGED <<count, base, recvq>>
    BY DEF Serve, Read, ReadAgain, ParseSkip, ParseExp, Cmd, All, Timeout, bvars, cvars, qvars
  <1>2. rpc[r] \in {"idle", "read", "parse", "cmd", "all"}
    BY DEF Serve, Read, ReadAgain, Reading, ParseSkip, ParseExp, Cmd, All, Timeout
  <1>3. rpc' = rpc \/ \E v \in {"idle", "read", "parse", "inc", "all"} : rpc' = [rpc EXCEPT ![r] = v]
    BY DEF Serve, Read, ReadAgain, ParseSkip, ParseExp, Cmd, All, Timeout, rvars
  <1>4. rpc'[r] \in {"idle", "read", "parse", "inc", "cmd", "all"}
    BY <1>2, <1>3 DEF IInv, TypeOK, RsvrsOK
  <1>5. QED
    BY <1>1, <1>2, <1>4, QuietCounts

LEMMA AddConnCounts ==
    ASSUME IInv, NEW r \in Rsvrs, AddConn(r)
    PROVE  Counted'
  <1> SUFFICES ASSUME NEW b \in Buffs PROVE CountedAt(b)'
    BY AllCounted
  <1>1. PICK c \in connq : RsvrOf[c] = r /\ base' = [base EXCEPT ![c] = FreeAddr]
    BY DEF AddConn
  <1>2. c \in Conns /\ base[c] = None
    BY DEF IInv, TypeOK, ConnsOK, ConnsStand
  <1>3. RsvrStep(r) /\ UNCHANGED <<recvq, rvars>> /\ rpc[r] = "idle"
    BY DEF AddConn, RsvrStep, qvars
  <1>4. /\ FreeAddr \in Buffs /\ count[FreeAddr] = None
        /\ Holders(FreeAddr) = {} /\ Freeing(FreeAddr) = {}
    BY <1>1, Fresh
  <1>5. count' = [count EXCEPT ![FreeAddr] = 1]
    BY DEF AddConn, Alloc
  <1> DEFINE f == FreeAddr
  <1> HIDE DEF f
  <1>6. ConnRefs(b)' = ConnRefs(b) \cup (IF b = f THEN {<<"conn", c>>} ELSE {})
    <2>1. b # None
      BY Sizes DEF Buffs
    <2>2. \A x \in Conns : base'[x] = IF x = c THEN f ELSE base[x]
      BY <1>1, <1>2 DEF f, IInv, TypeOK, ConnsOK
    <2>3. QED
      BY <1>2, <2>1, <2>2 DEF ConnRefs
  <1>7. \A x \in Conns : RsvrOf[x] # r => base'[x] = base[x]
    BY <1>1, <1>2 DEF IInv, TypeOK, ConnsOK
  <1>8. /\ OldRefs(b)' = OldRefs(b) /\ NewRefs(b)' = NewRefs(b) /\ BatchRefs(b)' = BatchRefs(b)
        /\ Freeing(b)' = Freeing(b)
    <2>1. rpc'[r] = "idle"
      BY <1>3 DEF rvars
    <2>2. QED
      BY <1>3, <1>7, <2>1, OthersHold
  <1>9. RecvqRefs(b)' = RecvqRefs(b)
    BY <1>3 DEF RecvqRefs
  <1>10. Holders(b)' = Holders(b) \cup (IF b = f THEN {<<"conn", c>>} ELSE {})
    BY <1>6, <1>8, <1>9 DEF Holders
  <1>11. CASE b = f
    <2>1. count'[b] = 1
      BY <1>4, <1>5, <1>11 DEF f, IInv, TypeOK, BuffsOK
    <2>2. QED
      BY <1>4, <1>8, <1>10, <1>11, <2>1, CountBegins DEF f
  <1>12. CASE b # f
    <2>1. count'[b] = count[b]
      BY <1>4, <1>5, <1>12 DEF f, IInv, TypeOK, BuffsOK
    <2>2. QED
      BY <1>8, <1>10, <1>12, <2>1, CountStays
  <1>13. QED
    BY <1>11, <1>12

\* A connection's reference becomes the thread's, to be released.
LEMMA DelConnCounts ==
    ASSUME IInv, NEW r \in Rsvrs, NEW c \in Conns, DelConn(r, c), RsvrOf[c] = r, base[c] # None,
           RsvrStep(r), UNCHANGED <<count, recvq>>, rpc[r] \notin {"dec", "push", "free"}
    PROVE  Counted'
  <1> SUFFICES ASSUME NEW b \in Buffs PROVE CountedAt(b)'
    BY AllCounted
  <1> DEFINE f == base[c]
  <1>1. f \in Buffs /\ <<"conn", c>> \in Holders(f)
    BY ConnHolds
  <1>2. \A x \in Conns : base'[x] = IF x = c THEN None ELSE base[x]
    BY DEF DelConn, IInv, TypeOK, ConnsOK
  <1>3. rpc'[r] = "dec" /\ old'[r] = f
    BY DEF DelConn, IInv, TypeOK, RsvrsOK
  <1> HIDE DEF f
  <1>4. ConnRefs(b)' = ConnRefs(b) \ (IF b = f THEN {<<"conn", c>>} ELSE {})
    <2>1. b # None
      BY Sizes DEF Buffs
    <2>2. QED
      BY <1>2, <2>1 DEF ConnRefs, f
  <1>5. /\ OldRefs(b)' = OldRefs(b) \cup (IF b = f THEN {<<"old", r>>} ELSE {})
        /\ NewRefs(b)' = NewRefs(b) /\ BatchRefs(b)' = BatchRefs(b) /\ Freeing(b)' = Freeing(b)
    <2>1. \A x \in Conns : RsvrOf[x] # r => base'[x] = base[x]
      BY <1>2
    <2>2. QED
      BY <1>3, <2>1, OthersHold
  <1>6. RecvqRefs(b)' = RecvqRefs(b)
    BY DEF RecvqRefs
  <1>7. <<"old", r>> \notin Holders(b)
    <2>1. <<"old", r>> \notin OldRefs(b)
      BY DEF OldRefs
    <2>2. QED
      BY <2>1, KindsDiffer DEF Holders
  <1>8. CASE b = f
    <2>1. <<"conn", c>> \notin OldRefs(b) \cup NewRefs(b) \cup RecvqRefs(b) \cup BatchRefs(b)
      BY KindsDiffer
    <2>2. /\ ConnRefs(b)' = ConnRefs(b) \ {<<"conn", c>>}
          /\ OldRefs(b)' = OldRefs(b) \cup {<<"old", r>>}
      BY <1>4, <1>5, <1>8
    <2>3. Holders(b)' = (Holders(b) \ {<<"conn", c>>}) \cup {<<"old", r>>}
      BY <1>5, <1>6, <1>7, <2>1, <2>2 DEF Holders
    <2>4. QED
      BY <1>1, <1>5, <1>7, <1>8, <2>3, CountMoves
  <1>9. CASE b # f
    <2>1. Holders(b)' = Holders(b)
      BY <1>4, <1>5, <1>6, <1>9 DEF Holders
    <2>2. QED
      BY <1>5, <2>1, CountStays
  <1>10. QED
    BY <1>8, <1>9

LEMMA EndingCounts ==
    ASSUME IInv, NEW r \in Rsvrs, Disconnected(r) \/ Dropped(r) \/ Silent(r)
    PROVE  Counted'
  <1>1. RsvrStep(r) /\ UNCHANGED <<count, recvq>> /\ rpc[r] \notin {"dec", "push", "free"}
    BY DEF RsvrStep, Disconnected, Dropped, Silent, Reading, bvars, qvars
  <1>2. \E c \in Conns : DelConn(r, c) /\ RsvrOf[c] = r /\ base[c] # None
    <2>1. CASE Disconnected(r)
      <3>1. cur[r] # None
        BY <2>1 DEF Disconnected, Reading, IInv, ThreadsStand
      <3>2. QED
        BY <2>1, <3>1, Served DEF Disconnected
    <2>2. CASE Dropped(r) \/ Silent(r)
      BY <2>2 DEF Dropped, Silent, Listed
    <2>3. QED
      BY <2>1, <2>2
  <1>3. QED
    BY <1>1, <1>2, DelConnCounts

\* A switch: the new buffer is the connection's, the old one the thread's to release.
LEMMA SwitchCounts ==
    ASSUME IInv, NEW r \in Rsvrs, Switch(r)
    PROVE  Counted'
  <1> SUFFICES ASSUME NEW b \in Buffs PROVE CountedAt(b)'
    BY AllCounted
  <1> DEFINE c == cur[r]
             f == FreeAddr
             g == base[c]
  <1>1. RsvrStep(r) /\ UNCHANGED <<recvq, cur>> /\ rpc[r] = "parse"
    BY DEF RsvrStep, Switch, qvars
  <1>2. cur[r] # None
    BY <1>1 DEF IInv, ThreadsStand
  <1>3. c \in Conns /\ RsvrOf[c] = r /\ g \in Buffs /\ g # None
    BY <1>2, Served
  <1>4. <<"conn", c>> \in Holders(g) /\ count[g] \in Nat \ {0}
    BY <1>3, ConnHolds
  <1>5. f \in Buffs /\ count[f] = None /\ Holders(f) = {} /\ Freeing(f) = {}
    BY <1>1, Fresh
  <1>6. f # g
    BY <1>4, <1>5
  <1>7. count' = [count EXCEPT ![f] = 1] /\ base' = [base EXCEPT ![c] = f]
    BY DEF Switch, Alloc
  <1>8. rpc'[r] = "dec" /\ old'[r] = g
    BY DEF Switch, IInv, TypeOK, RsvrsOK
  <1> HIDE DEF f, g
  <1>9. \A x \in Conns : base'[x] = IF x = c THEN f ELSE base[x]
    BY <1>3, <1>7 DEF IInv, TypeOK, ConnsOK
  <1>10. count'[f] = 1 /\ \A x \in Buffs \ {f} : count'[x] = count[x]
    BY <1>5, <1>7 DEF IInv, TypeOK, BuffsOK
  <1> HIDE DEF c
  <1>11. /\ NewRefs(b)' = NewRefs(b) /\ BatchRefs(b)' = BatchRefs(b) /\ Freeing(b)' = Freeing(b)
         /\ b = g => OldRefs(b)' = OldRefs(b) \cup {<<"old", r>>}
         /\ b # g => OldRefs(b)' = OldRefs(b)
    <2>1. \A x \in Conns : RsvrOf[x] # r => base'[x] = base[x]
      BY <1>3, <1>9
    <2>2. QED
      BY <1>1, <1>8, <2>1, OthersHold
  <1>12. RecvqRefs(b)' = RecvqRefs(b)
    BY <1>1 DEF RecvqRefs
  <1>13. CASE b = f
    <2>1. ConnRefs(b)' = ConnRefs(b) \cup {<<"conn", c>>}
      BY <1>3, <1>9, <1>13, <1>6 DEF ConnRefs, g
    <2>2. Holders(b)' = {<<"conn", c>>}
      BY <1>5, <1>6, <1>11, <1>12, <1>13, <2>1 DEF Holders
    <2>3. QED
      BY <1>5, <1>10, <1>11, <1>13, <2>2, CountBegins
  <1>14. CASE b = g
    <2>1. ConnRefs(b)' = ConnRefs(b) \ {<<"conn", c>>}
      BY <1>3, <1>9, <1>14, <1>6 DEF ConnRefs, g
    <2>2. <<"conn", c>> \notin OldRefs(b) \cup NewRefs(b) \cup RecvqRefs(b) \cup BatchRefs(b)
      BY KindsDiffer
    <2>3. <<"old", r>> \notin Holders(b)
      <3>1. <<"old", r>> \notin OldRefs(b)
        BY <1>1 DEF OldRefs
      <3>2. QED
        BY <3>1, KindsDiffer DEF Holders
    <2>4. Holders(b)' = (Holders(b) \ {<<"conn", c>>}) \cup {<<"old", r>>}
      BY <1>11, <1>12, <1>14, <2>1, <2>2, <2>3 DEF Holders
    <2>5. count'[b] = count[b]
      BY <1>6, <1>10, <1>14
    <2>6. QED
      BY <1>4, <1>11, <1>14, <2>3, <2>4, <2>5, CountMoves
  <1>15. CASE b # f /\ b # g
    <2>1. ConnRefs(b)' = ConnRefs(b)
      BY <1>3, <1>9, <1>15 DEF ConnRefs, g
    <2>2. Holders(b)' = Holders(b) /\ count'[b] = count[b]
      BY <1>10, <1>11, <1>12, <1>15, <2>1 DEF Holders
    <2>3. QED
      BY <1>11, <2>2, CountStays
  <1>16. QED
    BY <1>13, <1>14, <1>15

\* A thread counts a reference for the item it is about to push.
LEMMA IncRefCounts ==
    ASSUME IInv, NEW r \in Rsvrs, IncRef(r)
    PROVE  Counted'
  <1> SUFFICES ASSUME NEW b \in Buffs PROVE CountedAt(b)'
    BY AllCounted
  <1> DEFINE g == base[cur[r]]
  <1>1. RsvrStep(r) /\ UNCHANGED <<recvq, cur, base, old>> /\ rpc[r] = "inc"
    BY DEF RsvrStep, IncRef, qvars, cvars
  <1>2. cur[r] # None
    BY <1>1 DEF IInv, ThreadsStand
  <1>3. cur[r] \in Conns /\ g \in Buffs /\ g # None
    BY <1>2, Served
  <1>4. Holders(g) # {}
    BY <1>3, ConnHolds
  <1>5. rpc'[r] = "push" /\ base'[cur'[r]] = g
    BY <1>1 DEF IncRef, IInv, TypeOK, RsvrsOK
  <1>6. \A x \in Buffs : count'[x] = IF x = g THEN count[x] + 1 ELSE count[x]
    BY <1>3 DEF IncRef, Inc, IInv, TypeOK, BuffsOK
  <1> HIDE DEF g
  <1>7. /\ OldRefs(b)' = OldRefs(b) /\ BatchRefs(b)' = BatchRefs(b) /\ Freeing(b)' = Freeing(b)
        /\ b = g => NewRefs(b)' = NewRefs(b) \cup {<<"new", r>>}
        /\ b # g => NewRefs(b)' = NewRefs(b)
    BY <1>1, <1>5, OthersHold
  <1>8. ConnRefs(b)' = ConnRefs(b) /\ RecvqRefs(b)' = RecvqRefs(b)
    BY <1>1 DEF ConnRefs, RecvqRefs
  <1>9. CASE b = g
    <2>1. Holders(b)' = Holders(b) \cup {<<"new", r>>}
      BY <1>7, <1>8, <1>9 DEF Holders
    <2>2. <<"new", r>> \notin Holders(b)
      <3>1. <<"new", r>> \notin NewRefs(b)
        BY <1>1 DEF NewRefs
      <3>2. QED
        BY <3>1, KindsDiffer DEF Holders
    <2>3. QED
      BY <1>4, <1>6, <1>7, <1>9, <2>1, <2>2, CountGrows
  <1>10. CASE b # g
    <2>1. Holders(b)' = Holders(b)
      BY <1>7, <1>8, <1>10 DEF Holders
    <2>2. QED
      BY <1>6, <1>7, <1>10, <2>1, CountStays
  <1>11. QED
    BY <1>9, <1>10

\* The reference counted becomes the item's.
LEMMA PushCounts ==
    ASSUME IInv, NEW r \in Rsvrs, Push(r)
    PROVE  Counted'
  <1> SUFFICES ASSUME NEW b \in Buffs PROVE CountedAt(b)'
    BY AllCounted
  <1> DEFINE c == cur[r]
             q == rq[r]
             l == Len(recvq[q])
             item == [base |-> base[c], at |-> optr[c], no |-> Header(c).no]
             g == base[c]
             new == <<"recvq", q, l + 1>>
  <1>1. RsvrStep(r) /\ UNCHANGED <<count, cur, base, old>> /\ rpc[r] = "push"
    BY DEF RsvrStep, Push, bvars, cvars
  <1>2. c # None /\ q \in Recvqs /\ l < QueueMax
    BY <1>1, PushFits DEF IInv, ThreadsStand
  <1>3. c \in Conns /\ g \in Buffs
    BY <1>2, Served
  <1>4. recvq[q] \in Seq(Item) /\ \A p \in Recvqs : recvq[p] \in Seq(Item)
    BY <1>2 DEF IInv, TypeOK, QueuesOK
  <1>5. recvq' = [recvq EXCEPT ![q] = Append(recvq[q], item)]
    BY <1>2 DEF Push
  <1>6. item.base = g
    OBVIOUS
  <1> HIDE DEF item
  <1>7. /\ \A p \in Recvqs \ {q} : recvq'[p] = recvq[p]
        /\ DOMAIN recvq'[q] = DOMAIN recvq[q] \cup {l + 1} /\ l + 1 \notin DOMAIN recvq[q]
        /\ recvq'[q][l + 1].base = g
        /\ \A i \in DOMAIN recvq[q] : recvq'[q][i] = recvq[q][i]
    <2>1. recvq'[q] = Append(recvq[q], item) /\ \A p \in Recvqs \ {q} : recvq'[p] = recvq[p]
      BY <1>2, <1>5 DEF IInv, TypeOK, QueuesOK
    <2> DEFINE s == recvq[q]
    <2>2. s \in Seq(Item)
      BY <1>4
    <2>3. /\ l \in Nat /\ DOMAIN s = 1..l
          /\ DOMAIN Append(s, item) = 1..(l + 1)
          /\ Append(s, item)[l + 1] = item
          /\ \A i \in 1..l : Append(s, item)[i] = s[i]
      BY <2>2
    <2> HIDE DEF s, l
    <2>4. 1..(l + 1) = (1..l) \cup {l + 1} /\ l + 1 \notin 1..l
      BY <2>3
    <2>5. QED
      BY <1>6, <2>1, <2>3, <2>4 DEF s
  <1>8. rpc'[r] = "cmd" /\ <<"new", r>> \in NewRefs(g)
    BY <1>1 DEF Push, NewRefs, IInv, TypeOK, RsvrsOK
  <1>9. b # g => <<"new", r>> \notin NewRefs(b)
    BY DEF NewRefs
  <1> HIDE DEF c, g, q, l
  <1>10. /\ OldRefs(b)' = OldRefs(b) /\ BatchRefs(b)' = BatchRefs(b) /\ Freeing(b)' = Freeing(b)
         /\ NewRefs(b)' = NewRefs(b) \ {<<"new", r>>}
    BY <1>1, <1>8, OthersHold
  <1>11. ConnRefs(b)' = ConnRefs(b)
    BY <1>1 DEF ConnRefs
  <1>12. /\ b = g => RecvqRefs(b)' = RecvqRefs(b) \cup {new}
         /\ b # g => RecvqRefs(b)' = RecvqRefs(b)
         /\ new \notin RecvqRefs(b)
    <2>1. new \notin RecvqRefs(b)
      BY <1>7 DEF RecvqRefs
    <2>2. ASSUME NEW x PROVE x \in RecvqRefs(b)' <=> x \in RecvqRefs(b) \/ (b = g /\ x = new)
      <3>1. x \in RecvqRefs(b) <=> \E p \in Recvqs : \E i \in DOMAIN recvq[p] : recvq[p][i].base = b /\ x = <<"recvq", p, i>>
        BY DEF RecvqRefs
      <3>2. x \in RecvqRefs(b)' <=> \E p \in Recvqs : \E i \in DOMAIN recvq'[p] : recvq'[p][i].base = b /\ x = <<"recvq", p, i>>
        BY DEF RecvqRefs
      <3>3. QED
        BY <1>2, <1>7, <3>1, <3>2
    <2>3. QED
      BY <2>1, <2>2
  <1>13. CASE b = g
    <2>1. new \notin Holders(b)
      BY <1>12, KindsDiffer DEF Holders
    <2>2. <<"new", r>> \notin ConnRefs(b) \cup OldRefs(b) \cup RecvqRefs(b) \cup BatchRefs(b)
      BY KindsDiffer
    <2>3. <<"new", r>> \in Holders(b)
      BY <1>8, <1>13 DEF Holders
    <2> HIDE DEF new
    <2>4. Holders(b)' = (Holders(b) \ {<<"new", r>>}) \cup {new}
      BY <1>10, <1>11, <1>12, <1>13, <2>1, <2>2 DEF Holders
    <2>5. QED
      BY <1>1, <1>10, <2>1, <2>3, <2>4, CountMoves
  <1>14. CASE b # g
    <2>1. Holders(b)' = Holders(b)
      BY <1>9, <1>10, <1>11, <1>12, <1>14 DEF Holders
    <2>2. QED
      BY <1>1, <1>10, <2>1, CountStays
  <1>15. QED
    BY <1>13, <1>14

\* A thread releases the buffer a connection had; if it was the last reference the
\* thread frees the buffer next.
LEMMA DecOldCounts ==
    ASSUME IInv, NEW r \in Rsvrs, DecOld(r)
    PROVE  Counted'
  <1> SUFFICES ASSUME NEW b \in Buffs PROVE CountedAt(b)'
    BY AllCounted
  <1> DEFINE g == old[r]
  <1>1. RsvrStep(r) /\ UNCHANGED <<recvq, cur, base>> /\ rpc[r] = "dec"
    BY DEF RsvrStep, DecOld, qvars, cvars
  <1>2. g \in Buffs /\ <<"old", r>> \in Holders(g)
    BY <1>1, OldHolds
  <1>3. \A x \in Buffs : count'[x] = IF x = g THEN count[x] - 1 ELSE count[x]
    BY <1>2 DEF DecOld, Dec, IInv, TypeOK, BuffsOK
  <1>4. /\ count[g] = 1 => rpc'[r] = "free" /\ old'[r] = g
        /\ count[g] # 1 => rpc'[r] \in {"read", "all", "idle"}
    <2>1. count[g] = 1 => rpc' = [rpc EXCEPT ![r] = "free"] /\ old' = old
      BY DEF DecOld, LastRef
    <2>2. count[g] # 1 => \E v \in {"read", "all", "idle"} : rpc' = [rpc EXCEPT ![r] = v]
      BY DEF DecOld, LastRef, Resume
    <2>3. QED
      BY <2>1, <2>2 DEF IInv, TypeOK, RsvrsOK
  <1>5. b # g => <<"old", r>> \notin OldRefs(b)
    BY DEF OldRefs
  <1> HIDE DEF g
  <1>6. /\ OldRefs(b)' = OldRefs(b) \ {<<"old", r>>} /\ NewRefs(b)' = NewRefs(b) /\ BatchRefs(b)' = BatchRefs(b)
        /\ b = g /\ count[g] = 1 => Freeing(b)' = Freeing(b) \cup {<<"rsvr", r>>}
        /\ b # g \/ count[g] # 1 => Freeing(b)' = Freeing(b)
    BY <1>1, <1>4, OthersHold
  <1>7. ConnRefs(b)' = ConnRefs(b) /\ RecvqRefs(b)' = RecvqRefs(b)
    BY <1>1 DEF ConnRefs, RecvqRefs
  <1>8. CASE b = g
    <2>1. <<"old", r>> \notin ConnRefs(b) \cup NewRefs(b) \cup RecvqRefs(b) \cup BatchRefs(b)
      BY KindsDiffer
    <2>2. Holders(b)' = Holders(b) \ {<<"old", r>>}
      BY <1>6, <1>7, <2>1 DEF Holders
    <2>3. Freeing(b)' = IF count[b] = 1 THEN Freeing(b) \cup {<<"rsvr", r>>} ELSE Freeing(b)
      BY <1>6, <1>8
    <2>4. QED
      BY <1>2, <1>3, <1>8, <2>2, <2>3, CountShrinks
  <1>9. CASE b # g
    <2>1. Holders(b)' = Holders(b)
      BY <1>5, <1>6, <1>7, <1>9 DEF Holders
    <2>2. QED
      BY <1>3, <1>6, <1>9, <2>1, CountStays
  <1>10. QED
    BY <1>8, <1>9

LEMMA FreeOldCounts ==
    ASSUME IInv, NEW r \in Rsvrs, FreeOld(r)
    PROVE  Counted'
  <1> SUFFICES ASSUME NEW b \in Buffs PROVE CountedAt(b)'
    BY AllCounted
  <1> DEFINE g == old[r]
  <1>1. RsvrStep(r) /\ UNCHANGED <<recvq, cur, base>> /\ rpc[r] = "free"
    BY DEF RsvrStep, FreeOld, qvars, cvars
  <1>2. g \in Buffs /\ <<"rsvr", r>> \in Freeing(g)
    BY <1>1, OldHolds
  <1>3. count[g] = 0
    BY <1>2, FreedCounts
  <1>4. \A x \in Buffs : count'[x] = IF x = g THEN None ELSE count[x]
    BY <1>2, <1>3 DEF FreeOld, Free, IInv, TypeOK, BuffsOK
  <1>5. rpc'[r] \in {"read", "all", "idle"}
    <2>1. \E v \in {"read", "all", "idle"} : rpc' = [rpc EXCEPT ![r] = v]
      BY DEF FreeOld, Resume
    <2>2. QED
      BY <2>1 DEF IInv, TypeOK, RsvrsOK
  <1>6. b # g => <<"rsvr", r>> \notin Freeing(b)
    BY DEF Freeing
  <1> HIDE DEF g
  <1>7. /\ OldRefs(b)' = OldRefs(b) /\ NewRefs(b)' = NewRefs(b) /\ BatchRefs(b)' = BatchRefs(b)
        /\ Freeing(b)' = Freeing(b) \ {<<"rsvr", r>>}
    BY <1>1, <1>5, OthersHold
  <1>8. ConnRefs(b)' = ConnRefs(b) /\ RecvqRefs(b)' = RecvqRefs(b)
    BY <1>1 DEF ConnRefs, RecvqRefs
  <1>9. Holders(b)' = Holders(b)
    BY <1>7, <1>8 DEF Holders
  <1>10. CASE b = g
    BY <1>2, <1>4, <1>7, <1>9, <1>10, CountEnds
  <1>11. CASE b # g
    BY <1>4, <1>6, <1>7, <1>9, <1>11, CountStays
  <1>12. QED
    BY <1>10, <1>11

LEMMA RsvrCounts ==
    ASSUME IInv, NEW r \in Rsvrs, RsvrStep(r)
    PROVE  Counted'
  <1>1. CASE Serve(r) \/ Read(r) \/ ReadAgain(r) \/ ParseSkip(r) \/ ParseExp(r) \/ Cmd(r) \/ All(r) \/ Timeout(r)
    BY <1>1, QuietSteps
  <1>2. QED
    BY <1>1, AddConnCounts, EndingCounts, SwitchCounts, IncRefCounts, PushCounts, DecOldCounts, FreeOldCounts
       DEF RsvrStep

-----------------------------------------------------------------------------
(* References with workers. *)

\* A worker leaves the references of connections and threads alone.
LEMMA WorkersHold ==
    ASSUME IInv, NEW w \in Workers, WorkStep(w), NEW b \in Buffs
    PROVE  /\ ConnRefs(b)' = ConnRefs(b) /\ OldRefs(b)' = OldRefs(b) /\ NewRefs(b)' = NewRefs(b)
           /\ wpc[w] # "free" /\ ~(wpc'[w] = "free" /\ Head(batch'[w]).base = b) => Freeing(b)' = Freeing(b)
           /\ wpc[w] # "free" /\ wpc'[w] = "free" /\ Head(batch'[w]).base = b => Freeing(b)' = Freeing(b) \cup {<<"worker", w>>}
           /\ wpc'[w] # "free" => Freeing(b)' = Freeing(b) \ {<<"worker", w>>}
  <1>1. UNCHANGED <<base, rpc, old, cur>>
    BY WorkerThreads DEF cvars, rvars
  <1>2. \A v \in Workers \ {w} : batch'[v] = batch[v] /\ wpc'[v] = wpc[v]
    BY OthersVisit
  <1>3. ConnRefs(b)' = ConnRefs(b) /\ OldRefs(b)' = OldRefs(b) /\ NewRefs(b)' = NewRefs(b)
    BY <1>1 DEF ConnRefs, OldRefs, NewRefs
  <1>4. /\ wpc[w] # "free" /\ ~(wpc'[w] = "free" /\ Head(batch'[w]).base = b) => Freeing(b)' = Freeing(b)
        /\ wpc[w] # "free" /\ wpc'[w] = "free" /\ Head(batch'[w]).base = b => Freeing(b)' = Freeing(b) \cup {<<"worker", w>>}
        /\ wpc'[w] # "free" => Freeing(b)' = Freeing(b) \ {<<"worker", w>>}
    BY <1>1, <1>2 DEF Freeing
  <1>5. QED
    BY <1>3, <1>4

\* Elements of the two parts that workers change.
LEMMA ItemNames ==
    ASSUME NEW b \in Buffs, NEW x
    PROVE  /\ x \in RecvqRefs(b) <=> \E p \in Recvqs : \E i \in DOMAIN recvq[p] : recvq[p][i].base = b /\ x = <<"recvq", p, i>>
           /\ x \in RecvqRefs(b)' <=> \E p \in Recvqs : \E i \in DOMAIN recvq'[p] : recvq'[p][i].base = b /\ x = <<"recvq", p, i>>
           /\ x \in BatchRefs(b) <=> \E v \in Workers : \E i \in Pending(v) : batch[v][i].base = b /\ x = <<"batch", v, i>>
           /\ x \in BatchRefs(b)' <=> \E v \in Workers : \E i \in Pending(v)' : batch'[v][i].base = b /\ x = <<"batch", v, i>>
  BY DEF RecvqRefs, BatchRefs

\* The worker looks for items, or has none.
LEMMA LookingCounts ==
    ASSUME IInv, NEW w \in Workers, WorkStep(w), UNCHANGED <<count, recvq, batch>>,
           wpc[w] \notin {"free", "back"}, wpc'[w] \notin {"free", "back"}
    PROVE  Counted'
  <1> SUFFICES ASSUME NEW b \in Buffs PROVE CountedAt(b)'
    BY AllCounted
  <1>1. \A v \in Workers : Pending(v)' = Pending(v)
    BY OthersVisit DEF Pending
  <1>2. BatchRefs(b)' = BatchRefs(b) /\ RecvqRefs(b)' = RecvqRefs(b)
    BY <1>1 DEF BatchRefs, RecvqRefs
  <1>3. Holders(b)' = Holders(b) /\ Freeing(b)' = Freeing(b)
    BY <1>2, WorkersHold DEF Holders
  <1>4. QED
    BY <1>3, CountStays

\* A message is handled and its reference released.
LEMMA WorkProcCounts ==
    ASSUME IInv, NEW w \in Workers, WorkProc(w)
    PROVE  Counted'
  <1> SUFFICES ASSUME NEW b \in Buffs PROVE CountedAt(b)'
    BY AllCounted
  <1> DEFINE g == Head(batch[w]).base
             x == <<"batch", w, 1>>
  <1>1. WorkStep(w) /\ wpc[w] = "proc" /\ UNCHANGED <<recvq, batch>>
    BY DEF WorkProc, WorkStep, qvars
  <1>2. Head(batch[w]) = batch[w][1] /\ 1 \in Pending(w) /\ 1 \in DOMAIN batch[w]
    BY <1>1, AtItem
  <1>3. g \in Buffs /\ x \in Holders(g)
    BY <1>2, BatchHolds
  <1>4. \A y \in Buffs : count'[y] = IF y = g THEN count[y] - 1 ELSE count[y]
    BY <1>3 DEF WorkProc, Dec, IInv, TypeOK, BuffsOK
  <1>5. wpc'[w] = IF count[g] = 1 THEN "free" ELSE "back"
    BY DEF WorkProc, LastRef, IInv, TypeOK, WorkersOK
  <1>6. Pending(w)' = Pending(w) \ {1} /\ \A v \in Workers \ {w} : Pending(v)' = Pending(v)
    <2>1. wpc'[w] \in {"free", "back"}
      BY <1>5
    <2>2. QED
      BY <1>1, <2>1, OthersVisit DEF Pending
  <1>7. b # g => x \notin BatchRefs(b)
    BY <1>2 DEF BatchRefs
  <1>8. Head(batch'[w]).base = g
    BY <1>1
  <1> HIDE DEF g, x
  <1>9. BatchRefs(b)' = BatchRefs(b) \ {x}
    <2>1. ASSUME NEW y PROVE y \in BatchRefs(b)' <=> y \in BatchRefs(b) /\ y # x
      <3>1. y \in BatchRefs(b) <=> \E v \in Workers : \E i \in Pending(v) : batch[v][i].base = b /\ y = <<"batch", v, i>>
        BY ItemNames
      <3>2. y \in BatchRefs(b)' <=> \E v \in Workers : \E i \in Pending(v)' : batch[v][i].base = b /\ y = <<"batch", v, i>>
        BY <1>1, ItemNames
      <3>3. QED
        BY <1>6, <3>1, <3>2 DEF x
    <2>2. QED
      BY <2>1
  <1>10. RecvqRefs(b)' = RecvqRefs(b)
    BY <1>1 DEF RecvqRefs
  <1>11. CASE b = g
    <2>1. x \notin ConnRefs(b) \cup OldRefs(b) \cup NewRefs(b) \cup RecvqRefs(b)
      BY KindsDiffer DEF x
    <2>2. Holders(b)' = Holders(b) \ {x}
      BY <1>1, <1>9, <1>10, <2>1, WorkersHold DEF Holders
    <2>3. Freeing(b)' = IF count[b] = 1 THEN Freeing(b) \cup {<<"worker", w>>} ELSE Freeing(b)
      BY <1>1, <1>5, <1>8, <1>11, WorkersHold
    <2>4. QED
      BY <1>3, <1>4, <1>11, <2>2, <2>3, CountShrinks
  <1>12. CASE b # g
    <2>1. Holders(b)' = Holders(b)
      BY <1>1, <1>7, <1>9, <1>10, <1>12, WorkersHold DEF Holders
    <2>2. Freeing(b)' = Freeing(b)
      BY <1>1, <1>8, <1>12, WorkersHold
    <2>3. QED
      BY <1>4, <1>12, <2>1, <2>2, CountStays
  <1>13. QED
    BY <1>11, <1>12

LEMMA WorkFreeCounts ==
    ASSUME IInv, NEW w \in Workers, WorkFree(w)
    PROVE  Counted'
  <1> SUFFICES ASSUME NEW b \in Buffs PROVE CountedAt(b)'
    BY AllCounted
  <1> DEFINE g == Head(batch[w]).base
  <1>1. WorkStep(w) /\ wpc[w] = "free" /\ UNCHANGED <<recvq, batch>>
    BY DEF WorkFree, WorkStep, qvars
  <1>2. g \in Buffs
    BY <1>1, AtItem DEF Item
  <1>3. <<"worker", w>> \in Freeing(g)
    BY <1>1 DEF Freeing
  <1>4. count[g] = 0
    BY <1>2, <1>3, FreedCounts
  <1>5. \A x \in Buffs : count'[x] = IF x = g THEN None ELSE count[x]
    BY <1>2, <1>4 DEF WorkFree, Free, IInv, TypeOK, BuffsOK
  <1>6. wpc'[w] = "back"
    BY DEF WorkFree, IInv, TypeOK, WorkersOK
  <1>7. b # g => <<"worker", w>> \notin Freeing(b)
    BY DEF Freeing
  <1> HIDE DEF g
  <1>8. \A v \in Workers : Pending(v)' = Pending(v)
    BY <1>1, <1>6, OthersVisit DEF Pending
  <1>9. BatchRefs(b)' = BatchRefs(b) /\ RecvqRefs(b)' = RecvqRefs(b)
    BY <1>1, <1>8 DEF BatchRefs, RecvqRefs
  <1>10. Holders(b)' = Holders(b) /\ Freeing(b)' = Freeing(b) \ {<<"worker", w>>}
    BY <1>1, <1>6, <1>9, WorkersHold DEF Holders
  <1>11. CASE b = g
    BY <1>2, <1>3, <1>5, <1>10, <1>11, CountEnds
  <1>12. CASE b # g
    BY <1>5, <1>7, <1>10, <1>12, CountStays
  <1>13. QED
    BY <1>11, <1>12

\* Some references get other names.
LEMMA Renamed ==
    ASSUME NEW R, NEW A, NEW B, R \cap A = {}, R \cap B = {}, NEW h \in Bijection(A, B)
    PROVE  ExistsBijection(R \cup A, R \cup B)
  <1> DEFINE f == [x \in R \cup A |-> IF x \in A THEN h[x] ELSE x]
  <1>1. h \in [A -> B] /\ (\A x, y \in A : h[x] = h[y] => x = y) /\ \A y \in B : \E x \in A : h[x] = y
    BY Fun_BijectionProperties
  <1>2. f \in [R \cup A -> R \cup B]
    BY <1>1
  <1>3. \A x, y \in R \cup A : f[x] = f[y] => x = y
    BY <1>1
  <1>4. \A y \in R \cup B : \E x \in R \cup A : f[x] = y
    <2>1. ASSUME NEW y \in R PROVE f[y] = y /\ y \in R \cup A
      OBVIOUS
    <2>2. ASSUME NEW y \in B PROVE \E x \in R \cup A : f[x] = y
      <3>1. PICK x \in A : h[x] = y
        BY <1>1
      <3>2. f[x] = y /\ x \in R \cup A
        BY <3>1
      <3>3. QED
        BY <3>2
    <2>3. QED
      BY <2>1, <2>2
  <1> HIDE DEF f
  <1>5. f \in Bijection(R \cup A, R \cup B)
    BY <1>2, <1>3, <1>4, Fun_IsBij
  <1>6. QED
    BY <1>5 DEF ExistsBijection

\* The items of a queue go to the worker, places and all.
LEMMA WorkPopCounts ==
    ASSUME IInv, NEW w \in Workers, WorkPop(w)
    PROVE  Counted'
  <1> DEFINE q == Head(visit[w])
             I(b) == {i \in DOMAIN recvq[q] : recvq[q][i].base = b}
  <1>1. WorkStep(w) /\ wpc[w] = "pop" /\ UNCHANGED count
    BY DEF WorkPop, WorkStep, bvars
  <1>2. batch[w] = <<>> /\ q \in Recvqs
    BY <1>1, AtQueue DEF IInv, WorkersStand
  <1>3. batch' = [batch EXCEPT ![w] = recvq[q]] /\ recvq' = [recvq EXCEPT ![q] = <<>>]
    BY DEF WorkPop
  <1>4. wpc'[w] \notin {"free", "back"}
    <2>1. \E v \in {"proc", "pop", "select"} : wpc' = [wpc EXCEPT ![w] = v]
      BY DEF WorkPop
    <2>2. QED
      BY <2>1 DEF IInv, TypeOK, WorkersOK
  <1> HIDE DEF q
  <1>5. /\ batch'[w] = recvq[q] /\ Pending(w)' = DOMAIN recvq[q] /\ Pending(w) = {}
        /\ \A v \in Workers \ {w} : batch'[v] = batch[v] /\ Pending(v)' = Pending(v)
        /\ recvq'[q] = <<>> /\ \A p \in Recvqs \ {q} : recvq'[p] = recvq[p]
    <2>1. batch'[w] = recvq[q]
      BY <1>3 DEF IInv, TypeOK, WorkersOK
    <2>2. DOMAIN batch[w] = {}
      BY <1>2
    <2>3. \A v \in Workers \ {w} : batch'[v] = batch[v] /\ wpc'[v] = wpc[v]
      BY <1>1, OthersVisit
    <2>4. recvq'[q] = <<>> /\ \A p \in Recvqs \ {q} : recvq'[p] = recvq[p]
      BY <1>2, <1>3 DEF IInv, TypeOK, QueuesOK
    <2>5. QED
      BY <1>1, <1>4, <2>1, <2>2, <2>3, <2>4 DEF Pending
  <1> SUFFICES ASSUME NEW b \in Buffs PROVE CountedAt(b)'
    BY AllCounted
  <1> DEFINE A == {<<"recvq", q, i>> : i \in I(b)}
             B == {<<"batch", w, i>> : i \in I(b)}
             R == Holders(b) \ A
             h == [x \in A |-> <<"batch", w, x[3]>>]
  <1>6. h \in Bijection(A, B)
    <2>1. h \in [A -> B]
      OBVIOUS
    <2>2. \A x, y \in A : h[x] = h[y] => x = y
      OBVIOUS
    <2>3. \A y \in B : \E x \in A : h[x] = y
      <3>1. ASSUME NEW i \in I(b)
            PROVE  <<"recvq", q, i>> \in A /\ h[<<"recvq", q, i>>] = <<"batch", w, i>>
        OBVIOUS
      <3> HIDE DEF h, A
      <3>2. QED
        BY <3>1
    <2> HIDE DEF h, A, B
    <2>4. QED
      BY <2>1, <2>2, <2>3, Fun_IsBij
  <1>7. RecvqRefs(b)' = RecvqRefs(b) \ A /\ A \subseteq RecvqRefs(b)
    <2>1. DOMAIN recvq'[q] = {}
      BY <1>5
    <2>2. ASSUME NEW x PROVE x \in RecvqRefs(b)' <=> x \in RecvqRefs(b) /\ x \notin A
      <3>1. x \in RecvqRefs(b) <=> \E p \in Recvqs : \E i \in DOMAIN recvq[p] : recvq[p][i].base = b /\ x = <<"recvq", p, i>>
        BY ItemNames
      <3>2. x \in RecvqRefs(b)' <=> \E p \in Recvqs : \E i \in DOMAIN recvq'[p] : recvq'[p][i].base = b /\ x = <<"recvq", p, i>>
        BY ItemNames
      <3>3. x \in A <=> \E i \in DOMAIN recvq[q] : recvq[q][i].base = b /\ x = <<"recvq", q, i>>
        OBVIOUS
      <3> HIDE DEF A
      <3>4. QED
        BY <1>2, <1>5, <2>1, <3>1, <3>2, <3>3
    <2>3. A \subseteq RecvqRefs(b)
      BY <1>2 DEF RecvqRefs
    <2> HIDE DEF A
    <2>4. QED
      BY <2>2, <2>3
  <1>8. BatchRefs(b)' = BatchRefs(b) \cup B /\ BatchRefs(b) \cap B = {}
    <2>1. ASSUME NEW x PROVE x \in BatchRefs(b)' <=> x \in BatchRefs(b) \/ x \in B
      <3>1. x \in BatchRefs(b) <=> \E v \in Workers : \E i \in Pending(v) : batch[v][i].base = b /\ x = <<"batch", v, i>>
        BY ItemNames
      <3>2. x \in BatchRefs(b)' <=> \E v \in Workers : \E i \in Pending(v)' : batch'[v][i].base = b /\ x = <<"batch", v, i>>
        BY ItemNames
      <3>3. x \in B <=> \E i \in DOMAIN recvq[q] : recvq[q][i].base = b /\ x = <<"batch", w, i>>
        OBVIOUS
      <3> HIDE DEF B
      <3>4. QED
        BY <1>5, <3>1, <3>2, <3>3
    <2>2. BatchRefs(b) \cap B = {}
      BY <1>5 DEF BatchRefs
    <2> HIDE DEF B
    <2>3. QED
      BY <2>1, <2>2
  <1>9. \A x \in A : x \notin ConnRefs(b) \cup OldRefs(b) \cup NewRefs(b) \cup BatchRefs(b)
    <2> SUFFICES ASSUME NEW i \in I(b) PROVE <<"recvq", q, i>> \notin ConnRefs(b) \cup OldRefs(b) \cup NewRefs(b) \cup BatchRefs(b)
      OBVIOUS
    <2>1. QED
      BY KindsDiffer
  <1>10. \A x \in B : x \notin ConnRefs(b) \cup OldRefs(b) \cup NewRefs(b) \cup RecvqRefs(b)
    <2> SUFFICES ASSUME NEW i \in I(b) PROVE <<"batch", w, i>> \notin ConnRefs(b) \cup OldRefs(b) \cup NewRefs(b) \cup RecvqRefs(b)
      OBVIOUS
    <2>1. QED
      BY KindsDiffer
  <1> HIDE DEF A, B, h
  <1>11. /\ R = ConnRefs(b) \cup OldRefs(b) \cup NewRefs(b) \cup (RecvqRefs(b) \ A) \cup BatchRefs(b)
         /\ Holders(b) = R \cup A
    BY <1>7, <1>9 DEF Holders
  <1>12. Holders(b)' = R \cup B
    BY <1>1, <1>7, <1>8, <1>11, WorkersHold DEF Holders
  <1>13. R \cap A = {} /\ R \cap B = {}
    BY <1>8, <1>10, <1>11
  <1> HIDE DEF R
  <1>14. ExistsBijection(Holders(b), Holders(b)')
    <2>1. ExistsBijection(R \cup A, R \cup B)
      BY <1>6, <1>13, Renamed
    <2>2. QED
      BY <1>11, <1>12, <2>1
  <1>15. Freeing(b)' = Freeing(b)
    BY <1>1, <1>4, WorkersHold
  <1>16. QED
    BY <1>1, <1>14, <1>15, CountStays

\* The item a worker has released leaves its batch, and the others move up.
LEMMA WorkBackCounts ==
    ASSUME IInv, NEW w \in Workers, WorkBack(w)
    PROVE  Counted'
  <1> DEFINE l == Len(batch[w])
             I(b) == {i \in 2..l : batch[w][i].base = b}
  <1>1. WorkStep(w) /\ wpc[w] = "back" /\ UNCHANGED <<count, recvq>>
    BY DEF WorkBack, WorkStep, bvars
  <1>2. batch[w] \in Seq(Item) /\ batch[w] # <<>> /\ l \in Nat /\ DOMAIN batch[w] = 1..l
    BY <1>1, AtItem
  <1>3. batch'[w] = Tail(batch[w]) /\ wpc'[w] \in {"proc", "pop"}
    BY DEF WorkBack, IInv, TypeOK, WorkersOK
  <1>4. /\ Pending(w) = 2..l /\ Pending(w)' = 1..(l - 1)
        /\ \A i \in 1..(l - 1) : batch'[w][i] = batch[w][i + 1]
        /\ \A v \in Workers \ {w} : batch'[v] = batch[v] /\ Pending(v)' = Pending(v)
    <2>1. DOMAIN Tail(batch[w]) = 1..(l - 1) /\ \A i \in 1..(l - 1) : Tail(batch[w])[i] = batch[w][i + 1]
      BY <1>2
    <2>2. \A v \in Workers \ {w} : batch'[v] = batch[v] /\ wpc'[v] = wpc[v]
      BY <1>1, OthersVisit
    <2> HIDE DEF l
    <2>3. (1..l) \ {1} = 2..l
      BY <1>2
    <2>4. QED
      BY <1>1, <1>2, <1>3, <2>1, <2>2, <2>3 DEF Pending
  <1> SUFFICES ASSUME NEW b \in Buffs PROVE CountedAt(b)'
    BY AllCounted
  <1> DEFINE A == {<<"batch", w, i>> : i \in I(b)}
             B == {<<"batch", w, i - 1>> : i \in I(b)}
             R == Holders(b) \ A
             C == BatchRefs(b) \ A
             h == [x \in A |-> <<"batch", w, x[3] - 1>>]
  <1> HIDE DEF l
  <1>5. h \in Bijection(A, B)
    <2>1. \A i \in I(b) : i \in Int
      BY <1>2
    <2>2. \A x \in A : x[3] \in Int /\ x = <<"batch", w, x[3]>> /\ x[3] \in I(b)
      BY <2>1
    <2>3. h \in [A -> B]
      BY <2>2
    <2>4. \A x, y \in A : h[x] = h[y] => x = y
      BY <2>2
    <2>5. \A y \in B : \E x \in A : h[x] = y
      <3>1. ASSUME NEW i \in I(b)
            PROVE  <<"batch", w, i>> \in A /\ h[<<"batch", w, i>>] = <<"batch", w, i - 1>>
        OBVIOUS
      <3> HIDE DEF h, A
      <3>2. QED
        BY <3>1
    <2> HIDE DEF h, A, B
    <2>6. QED
      BY <2>3, <2>4, <2>5, Fun_IsBij
  <1>6. A \subseteq BatchRefs(b) /\ \A x \in C : \A i : x # <<"batch", w, i>>
    <2>1. \A x \in A : x \in BatchRefs(b)
      <3> SUFFICES ASSUME NEW i \in I(b) PROVE <<"batch", w, i>> \in BatchRefs(b)
        OBVIOUS
      <3>1. w \in Workers /\ i \in Pending(w) /\ batch[w][i].base = b
        BY <1>4
      <3>2. QED
        BY <3>1 DEF BatchRefs
    <2>2. ASSUME NEW i, <<"batch", w, i>> \in BatchRefs(b) PROVE i \in I(b)
      <3>1. PICK v \in Workers : \E j \in Pending(v) : batch[v][j].base = b /\ <<"batch", w, i>> = <<"batch", v, j>>
        BY <2>2 DEF BatchRefs
      <3>2. v = w /\ i \in Pending(w) /\ batch[w][i].base = b
        BY <3>1
      <3>3. QED
        BY <1>4, <3>2
    <2>3. \A i : <<"batch", w, i>> \in BatchRefs(b) => <<"batch", w, i>> \in A
      BY <2>2
    <2> HIDE DEF A
    <2>4. QED
      BY <2>1, <2>3
  <1>7. BatchRefs(b)' = C \cup B
    <2>1. ASSUME NEW x PROVE x \in BatchRefs(b)' <=> x \in C \/ x \in B
      <3>1. x \in BatchRefs(b) <=> \E v \in Workers : \E i \in Pending(v) : batch[v][i].base = b /\ x = <<"batch", v, i>>
        BY ItemNames
      <3>2. x \in BatchRefs(b)' <=> \E v \in Workers : \E i \in Pending(v)' : batch'[v][i].base = b /\ x = <<"batch", v, i>>
        BY ItemNames
      <3>3. x \in A <=> \E i \in 2..l : batch[w][i].base = b /\ x = <<"batch", w, i>>
        OBVIOUS
      <3>4. x \in B <=> \E i \in 1..(l - 1) : batch[w][i + 1].base = b /\ x = <<"batch", w, i>>
        <4>1. ASSUME x \in B PROVE \E i \in 1..(l - 1) : batch[w][i + 1].base = b /\ x = <<"batch", w, i>>
          <5>1. PICK i \in I(b) : x = <<"batch", w, i - 1>>
            BY <4>1
          <5>2. i - 1 \in 1..(l - 1) /\ (i - 1) + 1 = i
            BY <1>2
          <5>3. QED
            BY <5>1, <5>2
        <4>2. ASSUME NEW i \in 1..(l - 1), batch[w][i + 1].base = b, x = <<"batch", w, i>> PROVE x \in B
          <5>1. i + 1 \in 2..l /\ (i + 1) - 1 = i
            BY <1>2
          <5>2. i + 1 \in I(b)
            BY <4>2, <5>1
          <5>3. QED
            BY <4>2, <5>1, <5>2
        <4>3. QED
          BY <4>1, <4>2
      <3> HIDE DEF A, B
      <3>5. x \in B <=> \E i \in Pending(w)' : batch'[w][i].base = b /\ x = <<"batch", w, i>>
        BY <1>4, <3>4
      <3>6. x \in C <=> \E v \in Workers \ {w} : \E i \in Pending(v) : batch[v][i].base = b /\ x = <<"batch", v, i>>
        <4>1. x \in A <=> \E i \in Pending(w) : batch[w][i].base = b /\ x = <<"batch", w, i>>
          BY <1>4, <3>3
        <4>2. ASSUME NEW v \in Workers \ {w}, NEW i, x = <<"batch", v, i>> PROVE x \notin A
          BY <4>1, <4>2
        <4>3. QED
          BY <3>1, <4>1, <4>2
      <3> HIDE DEF C
      <3>7. x \in C <=> \E v \in Workers \ {w} : \E i \in Pending(v)' : batch'[v][i].base = b /\ x = <<"batch", v, i>>
        BY <1>4, <3>6
      <3>8. QED
        BY <3>2, <3>5, <3>7
    <2> HIDE DEF B, C
    <2>2. QED
      BY <2>1
  <1>8. \A x \in A : x \notin ConnRefs(b) \cup OldRefs(b) \cup NewRefs(b) \cup RecvqRefs(b)
    <2> SUFFICES ASSUME NEW i \in I(b) PROVE <<"batch", w, i>> \notin ConnRefs(b) \cup OldRefs(b) \cup NewRefs(b) \cup RecvqRefs(b)
      OBVIOUS
    <2>1. QED
      BY KindsDiffer
  <1>9. \A x \in B : x \notin ConnRefs(b) \cup OldRefs(b) \cup NewRefs(b) \cup RecvqRefs(b)
    <2> SUFFICES ASSUME NEW i \in I(b) PROVE <<"batch", w, i - 1>> \notin ConnRefs(b) \cup OldRefs(b) \cup NewRefs(b) \cup RecvqRefs(b)
      OBVIOUS
    <2>1. QED
      BY KindsDiffer
  <1>10. C \cap B = {}
    BY <1>6
  <1>11. RecvqRefs(b)' = RecvqRefs(b)
    BY <1>1 DEF RecvqRefs
  <1> HIDE DEF A, B, h
  <1>12. /\ R = ConnRefs(b) \cup OldRefs(b) \cup NewRefs(b) \cup RecvqRefs(b) \cup C
         /\ Holders(b) = R \cup A
    BY <1>6, <1>8 DEF Holders
  <1> HIDE DEF C
  <1>13. Holders(b)' = R \cup B
    BY <1>1, <1>7, <1>11, <1>12, WorkersHold DEF Holders
  <1>14. R \cap A = {} /\ R \cap B = {}
    BY <1>9, <1>10, <1>12
  <1> HIDE DEF R
  <1>15. ExistsBijection(Holders(b), Holders(b)')
    <2>1. ExistsBijection(R \cup A, R \cup B)
      BY <1>5, <1>14, Renamed
    <2>2. QED
      BY <1>12, <1>13, <2>1
  <1>16. Freeing(b)' = Freeing(b)
    BY <1>1, <1>3, WorkersHold
  <1>17. QED
    BY <1>1, <1>15, <1>16, CountStays

LEMMA WorkerCounts ==
    ASSUME IInv, NEW w \in Workers, WorkStep(w)
    PROVE  Counted'
  <1>1. CASE WorkCmd(w) \/ WorkSweep(w)
    <2>1. wpc[w] = "select" /\ wpc' = [wpc EXCEPT ![w] = "pop"] /\ UNCHANGED <<count, recvq, batch>>
      BY <1>1 DEF WorkCmd, WorkSweep, bvars, qvars
    <2>2. wpc'[w] = "pop"
      BY <2>1 DEF IInv, TypeOK, WorkersOK
    <2>3. QED
      BY <2>1, <2>2, LookingCounts
  <1>2. QED
    BY <1>1, WorkPopCounts, WorkProcCounts, WorkFreeCounts, WorkBackCounts DEF WorkStep

-----------------------------------------------------------------------------
(* What the buffers hold. *)

\* Where a connection stands in its stream.
LEMMA StreamTypes ==
    ASSUME NEW c \in Conns
    PROVE  /\ Stream[c] \in Seq(Unit) /\ DOMAIN Stream[c] = 1..Len(Stream[c]) /\ Len(Stream[c]) \in Nat
           /\ \A i \in DOMAIN Stream[c] : Stream[c][i] \in Unit /\ Stream[c][i].len \in Nat /\ Stream[c][i].at \in Nat
           /\ WellFormed(Stream[c])
  <1>1. Stream[c] \in Seq(Unit) /\ WellFormed(Stream[c])
    BY RecvAssumption
  <1>2. DOMAIN Stream[c] = 1..Len(Stream[c]) /\ Len(Stream[c]) \in Nat
    BY <1>1
  <1>3. \A i \in DOMAIN Stream[c] : Stream[c][i] \in Unit
    BY <1>1, <1>2
  <1>4. QED
    BY <1>1, <1>2, <1>3 DEF Unit

\* A stream starts with a message, and after a message comes the start of another.
LEMMA NextStart ==
    ASSUME NEW c \in Conns
    PROVE  /\ 1 \in DOMAIN Stream[c] => Stream[c][1].at = 1
           /\ \A i \in DOMAIN Stream[c] : Stream[c][i].at = 1 =>
                 /\ Stream[c][i].len \in Nat \ {0}
                 /\ i + Stream[c][i].len - 1 \in DOMAIN Stream[c]
                 /\ \A k \in 1..Stream[c][i].len :
                       i + k - 1 \in DOMAIN Stream[c] /\ Stream[c][i + k - 1] = [Stream[c][i] EXCEPT !.at = k]
                 /\ i + Stream[c][i].len \in DOMAIN Stream[c] => Stream[c][i + Stream[c][i].len].at = 1
  <1> DEFINE s == Stream[c]
  <1>1. /\ DOMAIN s = 1..Len(s) /\ Len(s) \in Nat
        /\ \A i \in DOMAIN s : s[i] \in Unit /\ s[i].len \in Nat /\ s[i].at \in Nat
        /\ WellFormed(s)
    BY StreamTypes
  <1> HIDE DEF s
  <1>2. ASSUME 1 \in DOMAIN s PROVE s[1].at = 1
    <2>1. /\ \A i \in DOMAIN s : s[i].at \in 1..s[i].len
          /\ \A i \in DOMAIN s : s[i].at > 1 => i > 1
      BY <1>1 DEF WellFormed
    <2>2. s[1].at \in 1..s[1].len /\ ~(s[1].at > 1)
      BY <1>2, <2>1
    <2>3. s[1].at \in Nat /\ s[1].len \in Nat
      BY <1>1, <1>2
    <2>4. QED
      BY <2>2, <2>3
  <1>3. ASSUME NEW i \in DOMAIN s, s[i].at = 1
        PROVE  /\ s[i].len \in Nat \ {0} /\ i + s[i].len - 1 \in DOMAIN s
               /\ \A k \in 1..s[i].len : i + k - 1 \in DOMAIN s /\ s[i + k - 1] = [s[i] EXCEPT !.at = k]
               /\ i + s[i].len \in DOMAIN s => s[i + s[i].len].at = 1
    <2> DEFINE l == s[i].len
    <2>1. l \in Nat \ {0} /\ i \in Nat
      BY <1>1, <1>3 DEF WellFormed
    <2>2. \A k \in 1..l : i + k - 1 \in DOMAIN s /\ s[i + k - 1] = [s[i] EXCEPT !.at = k]
      BY <1>3, <1>1 DEF WellFormed
    <2>3. l \in 1..l
      BY <2>1
    <2>4. i + l - 1 \in DOMAIN s /\ s[i + l - 1] = [s[i] EXCEPT !.at = l]
      BY <2>2, <2>3
    <2>5. ASSUME i + l \in DOMAIN s, s[i + l].at # 1 PROVE FALSE
      <3> DEFINE j == i + l
      <3>1. s[j].at \in Nat /\ s[j].len \in Nat /\ s[j].at \in 1..s[j].len /\ s[j] \in Unit
        BY <1>1, <2>5 DEF WellFormed
      <3>2. s[j].at > 1
        BY <2>5, <3>1
      <3>3. s[j - 1] = [s[j] EXCEPT !.at = s[j].at - 1]
        BY <1>1, <2>5, <3>2 DEF WellFormed
      <3>4. j - 1 = i + l - 1
        BY <2>1
      <3>5. s[j - 1].at = s[j].at - 1 /\ s[j - 1].len = s[j].len
        BY <3>1, <3>3 DEF Unit
      <3>6. s[j - 1].at = l /\ s[j - 1].len = l
        BY <1>1, <2>4, <3>4 DEF Unit
      <3> HIDE DEF j, l
      <3>7. QED
        BY <2>1, <3>1, <3>5, <3>6
    <2>6. QED
      BY <2>1, <2>2, <2>4, <2>5
  <1>4. QED
    BY <1>2, <1>3 DEF s

\* What a connection's buffer holds.
LEMMA BufferTypes ==
    ASSUME IInv, NEW c \in Conns, base[c] # None
    PROVE  /\ base[c] \in Buffs /\ mem[base[c]] \in Seq(Unit) /\ Iptr(c) \in 0..BuffLen
           /\ DOMAIN mem[base[c]] = 1..Iptr(c)
           /\ optr[c] \in 0..Iptr(c) /\ got[c] \in 0..Len(Stream[c]) /\ Done(c) \in Nat
           /\ Done(c) = got[c] - (Iptr(c) - optr[c])
           /\ \A k \in (optr[c] + 1)..Iptr(c) : mem[base[c]][k] = Stream[c][got[c] - Iptr(c) + k]
  <1>1. base[c] \in Buffs /\ optr[c] \in 0..BuffLen /\ got[c] \in Nat
    BY DEF IInv, TypeOK, ConnsOK
  <1>2. mem[base[c]] \in Seq(Unit) /\ Len(mem[base[c]]) <= BuffLen
    BY <1>1 DEF IInv, TypeOK, BuffsOK
  <1>3. Iptr(c) \in 0..BuffLen /\ DOMAIN mem[base[c]] = 1..Iptr(c)
    BY <1>2, Sizes DEF Iptr
  <1>4. optr[c] <= Iptr(c) /\ Iptr(c) <= got[c] + optr[c] /\ got[c] <= Len(Stream[c])
    BY DEF IInv, InStream
  <1>5. Len(Stream[c]) \in Nat
    BY StreamTypes
  <1>6. Done(c) \in Nat /\ Done(c) = got[c] - (Iptr(c) - optr[c])
    BY <1>1, <1>3, <1>4, Sizes DEF Done
  <1>7. \A k \in (optr[c] + 1)..Iptr(c) : mem[base[c]][k] = Stream[c][got[c] - Iptr(c) + k]
    BY DEF IInv, InStream
  <1>8. QED
    BY <1>1, <1>2, <1>3, <1>4, <1>5, <1>6, <1>7

\* The header a thread looks at is the start of a message of the stream, and of a
\* complete message every unit is in the buffer.
LEMMA HeaderInStream ==
    ASSUME IInv, NEW c \in Conns, base[c] # None, optr[c] < Iptr(c)
    PROVE  LET i == Done(c) + 1
           IN  /\ i \in DOMAIN Stream[c] /\ Header(c) = Stream[c][i] /\ Header(c).at = 1
               /\ Header(c).len \in Nat \ {0}
               /\ Complete(c) => \A k \in 1..Header(c).len :
                     mem[base[c]][optr[c] + k] = [Header(c) EXCEPT !.at = k]
  <1> DEFINE i == Done(c) + 1
             p == Iptr(c)
             o == optr[c]
             g == got[c]
             l == Len(Stream[c])
             d == Done(c)
  <1>1. /\ p \in Nat /\ o \in 0..p /\ g \in 0..l /\ d \in Nat /\ d = g - (p - o) /\ o < p
        /\ \A k \in (o + 1)..p : mem[base[c]][k] = Stream[c][g - p + k]
    BY BufferTypes, Sizes
  <1>2. l \in Nat /\ DOMAIN Stream[c] = 1..l
    BY StreamTypes
  <1>3. (d < l => Stream[c][d + 1].at = 1)
    BY DEF IInv, InStream
  <1>4. Header(c) = mem[base[c]][o + 1]
    BY DEF Header
  <1>5. Complete(c) => o + Header(c).len <= p
    BY DEF Complete
  <1> HIDE DEF p, o, g, l, d
  <1>6. d < l /\ i \in 1..l
    BY <1>1, <1>2 DEF d
  <1>7. g - p + (o + 1) = d + 1 /\ o + 1 \in (o + 1)..p
    BY <1>1
  <1>8. Header(c) = Stream[c][d + 1]
    BY <1>1, <1>4, <1>7
  <1>9. Header(c) = Stream[c][i] /\ Header(c).at = 1 /\ i \in DOMAIN Stream[c]
    BY <1>2, <1>3, <1>6, <1>8 DEF d
  <1> HIDE DEF i
  <1>10. /\ Header(c).len \in Nat \ {0}
         /\ \A k \in 1..Header(c).len : Stream[c][i + k - 1] = [Header(c) EXCEPT !.at = k]
    BY <1>9, NextStart
  <1>11. ASSUME Complete(c), NEW k \in 1..Header(c).len
         PROVE  mem[base[c]][o + k] = [Header(c) EXCEPT !.at = k]
    <2>1. o + k \in (o + 1)..p /\ g - p + (o + k) = d + k
      BY <1>1, <1>5, <1>10, <1>11
    <2>2. d + k = i + k - 1
      BY <1>1, <1>10 DEF i, d
    <2>3. QED
      BY <1>1, <1>10, <2>1, <2>2
  <1>12. QED
    BY <1>9, <1>10, <1>11 DEF i, o

\* What a read adds.
LEMMA ReadAdds ==
    ASSUME IInv, NEW r \in Rsvrs, Read(r)
    PROVE  LET c == cur[r]
           IN  /\ c \in Conns /\ RsvrOf[c] = r /\ base[c] # None
               /\ \A x \in Buffs \ {base[c]} : mem'[x] = mem[x]
               /\ \A d \in Conns \ {c} : got'[d] = got[d]
               /\ mem' \in [Buffs -> Seq(Unit)]
               /\ \E n \in Nat :
                     /\ Iptr(c) + n <= BuffLen /\ got'[c] = got[c] + n /\ got[c] + n <= Len(Stream[c])
                     /\ Len(mem'[base[c]]) = Iptr(c) + n
                     /\ \A k \in 1..Iptr(c) : mem'[base[c]][k] = mem[base[c]][k]
                     /\ \A k \in 1..n : mem'[base[c]][Iptr(c) + k] = Stream[c][got[c] + k]
  <1> DEFINE c == cur[r]
             b == base[c]
             p == Iptr(c)
             g == got[c]
  <1>1. c # None
    BY DEF Read, Reading, IInv, ThreadsStand
  <1>2. c \in Conns /\ RsvrOf[c] = r /\ b # None
    BY <1>1, Served
  <1>3. b \in Buffs /\ mem[b] \in Seq(Unit) /\ p \in 0..BuffLen /\ g \in 0..Len(Stream[c]) /\ p = Len(mem[b])
    BY <1>2, BufferTypes DEF Iptr
  <1>4. Stream[c] \in Seq(Unit) /\ Len(Stream[c]) \in Nat
    BY <1>2, StreamTypes
  <1>5. PICK n \in 1..Left(c) :
           /\ g + n <= Len(Stream[c])
           /\ mem' = [mem EXCEPT ![b] = @ \o SubSeq(Stream[c], g + 1, g + n)]
           /\ got' = [got EXCEPT ![c] = @ + n]
    BY DEF Read
  <1>6. n \in Nat /\ p + n <= BuffLen
    BY <1>3, <1>5, Sizes DEF Left
  <1> DEFINE S == SubSeq(Stream[c], g + 1, g + n)
  <1>7. S \in Seq(Unit) /\ Len(S) = n /\ \A k \in 1..n : S[k] = Stream[c][g + k]
    <2> DEFINE T == Stream[c]
               l == Len(Stream[c])
    <2>1. l \in Nat /\ g \in Nat /\ n \in Nat /\ g + n <= l /\ \A i \in 1..l : T[i] \in Unit
      <3>1. l \in Nat /\ n \in Nat /\ g + n <= l
        BY <1>4, <1>5, <1>6
      <3>2. g \in Nat
        BY <1>3, <1>4
      <3>3. \A i \in 1..l : T[i] \in Unit
        BY <1>2, StreamTypes
      <3>4. QED
        BY <3>1, <3>2, <3>3
    <2> HIDE DEF T, g, l
    <2>5. g + 1 \in Int /\ g + n \in Int /\ \A i \in (g + 1)..(g + n) : T[i] \in Unit
      BY <2>1
    <2>2. /\ SubSeq(T, g + 1, g + n) \in Seq(Unit)
          /\ Len(SubSeq(T, g + 1, g + n)) = IF g + 1 <= g + n THEN (g + n) - (g + 1) + 1 ELSE 0
          /\ \A i \in 1..((g + n) - (g + 1) + 1) : SubSeq(T, g + 1, g + n)[i] = T[(g + 1) + i - 1]
      BY <2>5, SubSeqProperties
    <2>3. (g + n) - (g + 1) + 1 = n /\ (g + 1 <= g + n <=> n >= 1) /\ \A k \in 1..n : (g + 1) + k - 1 = g + k
      BY <2>1
    <2>4. QED
      BY <1>5, <1>6, <2>2, <2>3, SMTT(30) DEF T
  <1> HIDE DEF S, p, g
  <1>8. mem[b] \o S \in Seq(Unit) /\ Len(mem[b] \o S) = p + n
        /\ \A i \in 1..(p + n) : (mem[b] \o S)[i] = IF i <= p THEN mem[b][i] ELSE S[i - p]
    <2> DEFINE M == mem[b]
    <2>1. M \in Seq(Unit) /\ S \in Seq(Unit) /\ Len(M) = p /\ Len(S) = n
      BY <1>3, <1>7
    <2> HIDE DEF M
    <2>2. /\ M \o S \in Seq(Unit)
          /\ Len(M \o S) = Len(M) + Len(S)
          /\ \A i \in 1..(Len(M) + Len(S)) : (M \o S)[i] = IF i <= Len(M) THEN M[i] ELSE S[i - Len(M)]
      BY <2>1, ConcatProperties
    <2> DEFINE C == M \o S
    <2> HIDE DEF C
    <2>3. /\ C \in Seq(Unit) /\ Len(C) = p + n
          /\ \A i \in 1..(p + n) : C[i] = IF i <= p THEN M[i] ELSE S[i - p]
      BY <2>1, <2>2 DEF C
    <2>4. QED
      BY <2>3 DEF C, M
  <1>9. mem'[b] = mem[b] \o S /\ \A x \in Buffs \ {b} : mem'[x] = mem[x]
    BY <1>3, <1>5 DEF S, IInv, TypeOK, BuffsOK
  <1>10. mem' \in [Buffs -> Seq(Unit)]
    BY <1>3, <1>5, <1>8 DEF S, IInv, TypeOK, BuffsOK
  <1>11. got'[c] = g + n /\ \A d \in Conns \ {c} : got'[d] = got[d]
    BY <1>2, <1>5 DEF g, IInv, TypeOK, ConnsOK
  <1>12. \A k \in 1..p : mem'[b][k] = mem[b][k]
    BY <1>3, <1>6, <1>8, <1>9
  <1>13. \A k \in 1..n : mem'[b][p + k] = Stream[c][g + k]
    <2> SUFFICES ASSUME NEW k \in 1..n PROVE mem'[b][p + k] = Stream[c][g + k]
      OBVIOUS
    <2>1. p + k \in 1..(p + n) /\ ~(p + k <= p) /\ (p + k) - p = k
      BY <1>3, <1>6, Sizes
    <2>2. QED
      BY <1>7, <1>8, <1>9, <2>1
  <1>14. Len(mem'[b]) = p + n
    BY <1>8, <1>9
  <1>15. QED
    BY <1>2, <1>5, <1>6, <1>9, <1>10, <1>11, <1>12, <1>13, <1>14 DEF p, g

\* The units a switch takes along.
LEMMA RestTaken ==
    ASSUME IInv, NEW c \in Conns, base[c] # None
    PROVE  /\ Rest(c) \in Seq(Unit) /\ Len(Rest(c)) = Iptr(c) - optr[c]
           /\ \A k \in 1..(Iptr(c) - optr[c]) : Rest(c)[k] = mem[base[c]][optr[c] + k]
  <1> DEFINE p == Iptr(c)
             o == optr[c]
             T == mem[base[c]]
  <1>1. T \in Seq(Unit) /\ p \in Nat /\ o \in 0..p /\ DOMAIN T = 1..p
    BY BufferTypes, Sizes
  <1> HIDE DEF p, o, T
  <1>2. \A i \in (o + 1)..p : T[i] \in Unit
    BY <1>1
  <1>3. /\ SubSeq(T, o + 1, p) \in Seq(Unit)
        /\ Len(SubSeq(T, o + 1, p)) = IF o + 1 <= p THEN p - (o + 1) + 1 ELSE 0
        /\ \A i \in 1..(p - (o + 1) + 1) : SubSeq(T, o + 1, p)[i] = T[(o + 1) + i - 1]
    BY <1>1, <1>2, SubSeqProperties
  <1>4. p - (o + 1) + 1 = p - o /\ (o + 1 <= p <=> o # p) /\ \A k \in 1..(p - o) : (o + 1) + k - 1 = o + k
    BY <1>1
  <1>5. Len(SubSeq(T, o + 1, p)) = p - o /\ \A k \in 1..(p - o) : SubSeq(T, o + 1, p)[k] = T[o + k]
    BY <1>1, <1>3, <1>4
  <1>6. Rest(c) = SubSeq(T, o + 1, p)
    BY DEF Rest, T, o, p
  <1>7. QED
    BY <1>3, <1>5, <1>6 DEF T, o, p

\* How a step leaves the memory: a buffer in use is only read into.
LEMMA MemKept ==
    ASSUME IInv, (\E r \in Rsvrs : RsvrStep(r)) \/ (\E w \in Workers : WorkStep(w))
    PROVE  /\ mem' \in [Buffs -> Seq(Unit)] /\ \A b \in Buffs : Len(mem'[b]) <= BuffLen
           /\ \A b \in Buffs : count[b] # None /\ count[b] # 0 =>
                 /\ Len(mem[b]) <= Len(mem'[b])
                 /\ \A k \in 1..Len(mem[b]) : mem'[b][k] = mem[b][k]
           /\ \A r \in Rsvrs : RsvrStep(r) /\ ~Read(r) =>
                 \A b \in Buffs : count[b] # None /\ count[b] # 0 => mem'[b] = mem[b]
           /\ \A w \in Workers : WorkStep(w) =>
                 \A b \in Buffs : count[b] # None /\ count[b] # 0 => mem'[b] = mem[b]
  <1> DEFINE Typed == mem' \in [Buffs -> Seq(Unit)] /\ \A b \in Buffs : Len(mem'[b]) <= BuffLen
             Stays == \A b \in Buffs : count[b] # None /\ count[b] # 0 => mem'[b] = mem[b]
  <1>1. mem \in [Buffs -> Seq(Unit)] /\ \A b \in Buffs : Len(mem[b]) <= BuffLen
    BY DEF IInv, TypeOK, BuffsOK
  <1>2. <<>> \in Seq(Unit) /\ Len(<<>>) <= BuffLen
    BY EmptySeq, Sizes
  <1>3. ASSUME NEW b \in Buffs, count[b] = None, NEW u \in Seq(Unit), Len(u) <= BuffLen, Alloc(b, u)
        PROVE  Typed /\ Stays
    BY <1>1, <1>3 DEF Alloc
  <1>4. ASSUME NEW b \in Buffs, Free(b)
        PROVE  Typed /\ Stays
    <2>1. mem' = [mem EXCEPT ![b] = IF count[b] = 0 THEN <<>> ELSE mem[b]]
      BY <1>4 DEF Free
    <2>2. CASE count[b] = 0
      <3>1. mem' = [mem EXCEPT ![b] = <<>>]
        BY <2>1, <2>2
      <3>2. mem' \in [Buffs -> Seq(Unit)]
        BY <1>1, <1>2, <3>1, Zenon
      <3>3. mem'[b] = <<>> /\ \A x \in Buffs \ {b} : mem'[x] = mem[x]
        BY <1>1, <3>1
      <3>4. QED
        BY <1>1, <1>2, <2>2, <3>2, <3>3
    <2>3. CASE count[b] # 0
      BY <1>1, <2>1, <2>3
    <2>4. QED
      BY <2>2, <2>3
  <1>5. ASSUME NEW r \in Rsvrs, RsvrStep(r), ~Read(r) PROVE Typed /\ Stays
    <2>1. CASE AddConn(r)
      <3>1. Alloc(FreeAddr, <<>>) /\ FreeAddr \in Buffs /\ count[FreeAddr] = None
        BY <2>1, Fresh DEF AddConn
      <3>2. QED
        BY <1>2, <1>3, <3>1
    <2>2. CASE Switch(r)
      <3>1. cur[r] # None
        BY <2>2 DEF Switch, IInv, ThreadsStand
      <3>2. cur[r] \in Conns /\ base[cur[r]] # None
        BY <3>1, Served
      <3>3. Rest(cur[r]) \in Seq(Unit) /\ Len(Rest(cur[r])) <= BuffLen
        BY <3>2, RestTaken, BufferTypes, Sizes
      <3>4. Alloc(FreeAddr, Rest(cur[r])) /\ FreeAddr \in Buffs /\ count[FreeAddr] = None
        BY <2>2, Fresh DEF Switch
      <3>5. QED
        BY <1>3, <3>3, <3>4
    <2>3. CASE FreeOld(r)
      <3>1. old[r] \in Buffs /\ Free(old[r])
        BY <2>3, OldHolds DEF FreeOld
      <3>2. QED
        BY <1>4, <3>1
    <2>4. CASE ~AddConn(r) /\ ~Switch(r) /\ ~FreeOld(r)
      <3>1. mem' = mem
        BY <1>5, <2>4 DEF RsvrStep, Serve, ReadAgain, Disconnected, Dropped, Silent, ParseSkip, ParseExp,
                          IncRef, Push, Cmd, All, Timeout, DecOld, bvars
      <3>2. QED
        BY <1>1, <3>1
    <2>5. QED
      BY <2>1, <2>2, <2>3, <2>4
  <1>6. ASSUME NEW w \in Workers, WorkStep(w) PROVE Typed /\ Stays
    <2>1. CASE WorkFree(w)
      <3>1. Head(batch[w]).base \in Buffs /\ Free(Head(batch[w]).base)
        BY <2>1, AtItem DEF WorkFree, Item
      <3>2. QED
        BY <1>4, <3>1
    <2>2. CASE ~WorkFree(w)
      <3>1. mem' = mem
        BY <1>6, <2>2 DEF WorkStep, WorkCmd, WorkSweep, WorkPop, WorkProc, WorkBack, bvars
      <3>2. QED
        BY <1>1, <3>1
    <2>3. QED
      BY <2>1, <2>2
  <1>7. ASSUME NEW r \in Rsvrs, Read(r)
        PROVE  /\ Typed
               /\ \A b \in Buffs : Len(mem[b]) <= Len(mem'[b]) /\ \A k \in 1..Len(mem[b]) : mem'[b][k] = mem[b][k]
    <2> DEFINE c == cur[r]
    <2>1. /\ c \in Conns /\ base[c] # None
          /\ \A x \in Buffs \ {base[c]} : mem'[x] = mem[x]
          /\ mem' \in [Buffs -> Seq(Unit)]
      BY <1>7, ReadAdds
    <2>2. PICK n \in Nat :
             /\ Iptr(c) + n <= BuffLen /\ Len(mem'[base[c]]) = Iptr(c) + n
             /\ \A k \in 1..Iptr(c) : mem'[base[c]][k] = mem[base[c]][k]
      BY <1>7, ReadAdds
    <2>3. base[c] \in Buffs /\ Iptr(c) \in Nat /\ Iptr(c) = Len(mem[base[c]])
      BY <2>1, BufferTypes, Sizes DEF Iptr
    <2> HIDE DEF c
    <2>4. \A b \in Buffs : Len(mem[b]) \in Nat
      BY <1>1
    <2>5. Len(mem[base[c]]) <= Len(mem'[base[c]])
      BY <2>2, <2>3
    <2>6. Typed
      <3>1. \A b \in Buffs \ {base[c]} : Len(mem'[b]) <= BuffLen
        BY <1>1, <2>1
      <3>2. Len(mem'[base[c]]) <= BuffLen
        BY <2>2
      <3>3. QED
        BY <2>1, <3>1, <3>2
    <2>7. \A b \in Buffs \ {base[c]} : Len(mem[b]) <= Len(mem'[b]) /\ \A k \in 1..Len(mem[b]) : mem'[b][k] = mem[b][k]
      BY <2>1, <2>4
    <2>8. \A k \in 1..Len(mem[base[c]]) : mem'[base[c]][k] = mem[base[c]][k]
      BY <2>2, <2>3
    <2> HIDE DEF Typed
    <2>9. QED
      BY <2>5, <2>6, <2>7, <2>8
  <1>8. \A b \in Buffs : Len(mem[b]) \in Nat
    BY <1>1
  <1>9. Stays => \A b \in Buffs : count[b] # None /\ count[b] # 0 =>
                    Len(mem[b]) <= Len(mem'[b]) /\ \A k \in 1..Len(mem[b]) : mem'[b][k] = mem[b][k]
    BY <1>8
  <1> HIDE DEF Typed, Stays
  <1>10. /\ Typed
         /\ \A b \in Buffs : count[b] # None /\ count[b] # 0 =>
               Len(mem[b]) <= Len(mem'[b]) /\ \A k \in 1..Len(mem[b]) : mem'[b][k] = mem[b][k]
    BY <1>5, <1>6, <1>7, <1>9
  <1>11. /\ \A r \in Rsvrs : RsvrStep(r) /\ ~Read(r) => Stays
         /\ \A w \in Workers : WorkStep(w) => Stays
    BY <1>5, <1>6
  <1>12. QED
    BY <1>10, <1>11 DEF Typed, Stays

\* A thread changes its own connections only.
LEMMA OwnConns ==
    ASSUME IInv, NEW r \in Rsvrs, RsvrStep(r)
    PROVE  \A c \in Conns : RsvrOf[c] # r =>
              base'[c] = base[c] /\ optr'[c] = optr[c] /\ got'[c] = got[c] /\ (c \in auth' <=> c \in auth)
  <1>1. rpc[r] \in {"read", "parse", "inc", "push", "cmd"} => cur[r] \in Conns /\ RsvrOf[cur[r]] = r
    BY Served DEF IInv, ThreadsStand
  <1>2. cur[r] # None => cur[r] \in Conns /\ RsvrOf[cur[r]] = r
    BY Served
  <1>3. base' = base \/ \E c \in Conns : \E v : RsvrOf[c] = r /\ base' = [base EXCEPT ![c] = v]
    <2>1. CASE AddConn(r)
      BY <2>1 DEF AddConn, IInv, TypeOK, ConnsOK
    <2>2. CASE Disconnected(r) \/ Switch(r)
      BY <1>1, <2>2 DEF Disconnected, Switch, DelConn, Reading
    <2>3. CASE Dropped(r) \/ Silent(r)
      BY <2>3 DEF Dropped, Silent, DelConn, Listed
    <2>4. CASE ~AddConn(r) /\ ~Disconnected(r) /\ ~Switch(r) /\ ~Dropped(r) /\ ~Silent(r)
      BY <2>4 DEF RsvrStep, Serve, Read, ReadAgain, ParseSkip, ParseExp, IncRef, Push, Cmd, All, Timeout,
                  DecOld, FreeOld, cvars
    <2>5. QED
      BY <2>1, <2>2, <2>3, <2>4
  <1>4. optr' = optr \/ \E c \in Conns : \E v : RsvrOf[c] = r /\ optr' = [optr EXCEPT ![c] = v]
    <2>1. CASE Switch(r) \/ ParseSkip(r) \/ Cmd(r)
      BY <1>1, <2>1 DEF Switch, ParseSkip, Cmd, Consume
    <2>2. CASE All(r)
      BY <1>2, <2>2 DEF All, Consume
    <2>3. CASE ~Switch(r) /\ ~ParseSkip(r) /\ ~Cmd(r) /\ ~All(r)
      BY <2>3 DEF RsvrStep, AddConn, Serve, Read, ReadAgain, Disconnected, Dropped, Silent, ParseExp, IncRef,
                  Push, Timeout, DecOld, FreeOld, cvars
    <2>4. QED
      BY <2>1, <2>2, <2>3
  <1>5. got' = got \/ \E c \in Conns : \E v : RsvrOf[c] = r /\ got' = [got EXCEPT ![c] = v]
    <2>1. CASE Read(r)
      BY <1>1, <2>1 DEF Read, Reading
    <2>2. CASE ~Read(r)
      BY <2>2 DEF RsvrStep, AddConn, Serve, ReadAgain, Disconnected, Dropped, Silent, Switch, ParseSkip,
                  ParseExp, IncRef, Push, Cmd, All, Timeout, DecOld, FreeOld, cvars
    <2>3. QED
      BY <2>1, <2>2
  <1>6. auth' = auth \/ \E c \in Conns : RsvrOf[c] = r /\ auth' = auth \cup {c}
    <2>1. CASE ParseSkip(r)
      BY <1>1, <2>1 DEF ParseSkip
    <2>2. CASE ~ParseSkip(r)
      BY <2>2 DEF RsvrStep, AddConn, Serve, Read, ReadAgain, Disconnected, Dropped, Silent, Switch,
                  ParseExp, IncRef, Push, Cmd, All, Timeout, DecOld, FreeOld, cvars
    <2>3. QED
      BY <2>1, <2>2
  <1>7. QED
    BY <1>3, <1>4, <1>5, <1>6 DEF IInv, TypeOK, ConnsOK

\* The conjuncts of InStream for one connection.
AtStream(c) ==
    /\ optr[c] <= Iptr(c) /\ Iptr(c) <= got[c] + optr[c]
    /\ got[c] <= Len(Stream[c])
    /\ \A k \in (optr[c] + 1)..Iptr(c) : mem[base[c]][k] = Stream[c][got[c] - Iptr(c) + k]
    /\ Done(c) < Len(Stream[c]) => Stream[c][Done(c) + 1].at = 1

LEMMA AllAtStream ==
    /\ InStream <=> \A c \in Conns : base[c] # None => AtStream(c)
    /\ InStream' <=> \A c \in Conns : base'[c] # None => AtStream(c)'
  BY DEF InStream, AtStream

\* Nothing changes for a connection.
LEMMA StreamStays ==
    ASSUME IInv, NEW c \in Conns, base[c] # None, base'[c] = base[c], optr'[c] = optr[c], got'[c] = got[c],
           mem'[base[c]] = mem[base[c]]
    PROVE  AtStream(c)' /\ Done(c)' = Done(c) /\ Iptr(c)' = Iptr(c) /\ Header(c)' = Header(c)
           /\ (Complete(c)' <=> Complete(c))
  <1>1. AtStream(c)
    BY AllAtStream DEF IInv
  <1>2. Iptr(c)' = Iptr(c) /\ Header(c)' = Header(c)
    BY DEF Iptr, Header
  <1>3. Done(c)' = Done(c) /\ (Complete(c)' <=> Complete(c))
    BY <1>2 DEF Done, Complete
  <1>4. QED
    BY <1>1, <1>2, <1>3 DEF AtStream

\* The thread goes on to the next message.
LEMMA StreamConsumed ==
    ASSUME IInv, NEW r \in Rsvrs, NEW c \in Conns, cur[r] = c, Complete(c), Consume(c),
           UNCHANGED <<base, got, mem>>
    PROVE  AtStream(c)' /\ Done(c)' = Done(c) + Header(c).len /\ Header(c).len \in Nat \ {0} /\ Done(c) \in Nat
  <1> DEFINE p == Iptr(c)
             o == optr[c]
             g == got[c]
             l == Len(Stream[c])
             d == Done(c)
             n == Header(c).len
  <1>1. base[c] # None /\ cur[r] # None
    BY Served, Sizes
  <1>2. /\ p \in Nat /\ o \in 0..p /\ g \in 0..l /\ d \in Nat /\ d = g - (p - o)
        /\ \A k \in (o + 1)..p : mem[base[c]][k] = Stream[c][g - p + k]
    BY <1>1, BufferTypes, Sizes
  <1>3. l \in Nat /\ DOMAIN Stream[c] = 1..l
    BY <1>1, StreamTypes
  <1>4. o < p /\ o + n <= p
    BY DEF Complete
  <1>5. d + 1 \in DOMAIN Stream[c] /\ Header(c) = Stream[c][d + 1] /\ Header(c).at = 1 /\ n \in Nat \ {0}
    BY <1>1, <1>4, HeaderInStream
  <1>6. (d + 1) + n \in DOMAIN Stream[c] => Stream[c][(d + 1) + n].at = 1
    BY <1>1, <1>5, NextStart
  <1>7. optr'[c] = o + n
    BY <1>1, Consumed
  <1>8. Iptr(c)' = p
    BY DEF Iptr
  <1> HIDE DEF p, o, g, l, d, n
  <1>9. Done(c)' = d + n
    <2>1. Done(c)' = g + (o + n) - p
      BY <1>7, <1>8 DEF Done, g
    <2>2. QED
      BY <1>2, <1>3, <1>5, <2>1
  <1>10. optr'[c] <= p /\ p <= g + optr'[c] /\ \A k \in (optr'[c] + 1)..p : k \in (o + 1)..p
    BY <1>2, <1>3, <1>4, <1>5, <1>7
  <1>11. Done(c)' < l => Stream[c][Done(c)' + 1].at = 1
    <2>1. (d + 1) + n = (d + n) + 1 /\ (d + n < l => (d + n) + 1 \in 1..l)
      BY <1>2, <1>3, <1>5
    <2>2. QED
      BY <1>3, <1>6, <1>9, <2>1
  <1>12. got[c] = g /\ g <= l
    BY <1>2, <1>3 DEF g
  <1>13. AtStream(c)'
    BY <1>2, <1>8, <1>10, <1>11, <1>12 DEF AtStream, l
  <1>14. QED
    BY <1>2, <1>5, <1>9, <1>13 DEF n, d

\* The buffers of the other connections stay as they are.
LEMMA OtherBuffs ==
    ASSUME IInv, NEW r \in Rsvrs, RsvrStep(r), NEW c \in Conns, base[c] # None,
           ~Read(r) \/ c # cur[r]
    PROVE  mem'[base[c]] = mem[base[c]]
  <1>1. base[c] \in Buffs /\ count[base[c]] # None /\ count[base[c]] # 0
    BY ConnHolds, Sizes
  <1>2. CASE ~Read(r)
    BY <1>1, <1>2, MemKept
  <1>3. CASE Read(r)
    <2>1. cur[r] \in Conns /\ base[cur[r]] # None /\ c # cur[r]
      BY <1>3, ReadAdds
    <2>2. base[c] # base[cur[r]]
      BY <2>1 DEF IInv, ConnsStand
    <2>3. QED
      BY <1>1, <1>3, <2>2, ReadAdds
  <1>4. QED
    BY <1>2, <1>3

\* A read: what is added comes next in the stream.
LEMMA ReadStream ==
    ASSUME IInv, NEW r \in Rsvrs, Read(r), NEW c \in Conns, cur[r] = c
    PROVE  AtStream(c)' /\ Done(c)' = Done(c) /\ base'[c] = base[c]
  <1> DEFINE p == Iptr(c)
             o == optr[c]
             g == got[c]
             l == Len(Stream[c])
             b == base[c]
  <1>1. base[c] # None /\ UNCHANGED <<base, optr>>
    BY ReadAdds DEF Read
  <1>2. /\ p \in Nat /\ o \in 0..p /\ g \in 0..l /\ Done(c) = g - (p - o) /\ Done(c) \in Nat
        /\ \A k \in (o + 1)..p : mem[b][k] = Stream[c][g - p + k]
    BY <1>1, BufferTypes, Sizes
  <1>3. l \in Nat /\ (Done(c) < l => Stream[c][Done(c) + 1].at = 1)
    BY <1>1, StreamTypes DEF IInv, InStream
  <1>4. PICK n \in Nat :
           /\ got'[c] = g + n /\ g + n <= l
           /\ Len(mem'[b]) = p + n
           /\ \A k \in 1..p : mem'[b][k] = mem[b][k]
           /\ \A k \in 1..n : mem'[b][p + k] = Stream[c][g + k]
    BY ReadAdds
  <1>5. Iptr(c)' = p + n /\ optr'[c] = o /\ base'[c] = b
    BY <1>1, <1>4 DEF Iptr
  <1> HIDE DEF p, o, g, l, b
  <1>6. Done(c)' = Done(c)
    <2>1. Done(c)' = (g + n) + o - (p + n)
      BY <1>4, <1>5 DEF Done
    <2>2. QED
      BY <1>2, <1>3, <2>1
  <1>7. o <= p + n /\ p + n <= (g + n) + o
    BY <1>2, <1>3
  <1>8. ASSUME NEW k \in (o + 1)..(p + n) PROVE mem'[b][k] = Stream[c][(g + n) - (p + n) + k]
    <2>1. (g + n) - (p + n) + k = g - p + k /\ k \in Int
      BY <1>2, <1>3
    <2>2. CASE k <= p
      <3>1. k \in (o + 1)..p /\ k \in 1..p
        BY <1>2, <2>1, <2>2
      <3>2. QED
        BY <1>2, <1>4, <2>1, <3>1
    <2>3. CASE ~(k <= p)
      <3>1. k - p \in 1..n /\ p + (k - p) = k /\ g + (k - p) = g - p + k
        BY <1>2, <1>3, <2>1, <2>3
      <3>2. QED
        BY <1>4, <2>1, <3>1
    <2>4. QED
      BY <2>2, <2>3
  <1>9. AtStream(c)'
    BY <1>3, <1>4, <1>5, <1>6, <1>7, <1>8 DEF AtStream, l
  <1>10. QED
    BY <1>5, <1>6, <1>9 DEF b

\* A switch takes along what is not yet dealt with.
LEMMA SwitchStream ==
    ASSUME IInv, NEW r \in Rsvrs, Switch(r), NEW c \in Conns, cur[r] = c
    PROVE  AtStream(c)' /\ Done(c)' = Done(c)
  <1> DEFINE p == Iptr(c)
             o == optr[c]
             g == got[c]
             l == Len(Stream[c])
             f == FreeAddr
  <1>1. base[c] # None /\ rpc[r] = "parse" /\ got' = got
    BY Served, Sizes DEF Switch
  <1>2. /\ p \in Nat /\ o \in 0..p /\ g \in 0..l /\ Done(c) = g - (p - o) /\ Done(c) \in Nat
        /\ \A k \in (o + 1)..p : mem[base[c]][k] = Stream[c][g - p + k]
    BY <1>1, BufferTypes, Sizes
  <1>3. l \in Nat /\ (Done(c) < l => Stream[c][Done(c) + 1].at = 1)
    BY <1>1, StreamTypes DEF IInv, InStream
  <1>4. Len(Rest(c)) = p - o /\ \A k \in 1..(p - o) : Rest(c)[k] = mem[base[c]][o + k]
    BY <1>1, RestTaken
  <1>5. f \in Buffs
    BY <1>1, Fresh
  <1>6. base'[c] = f /\ optr'[c] = 0 /\ mem'[f] = Rest(c)
    <2>1. base' = [base EXCEPT ![c] = f] /\ optr' = [optr EXCEPT ![c] = 0] /\ mem' = [mem EXCEPT ![f] = Rest(c)]
      BY DEF Switch, Alloc
    <2> HIDE DEF f
    <2>2. QED
      BY <1>5, <2>1 DEF IInv, TypeOK, ConnsOK, BuffsOK
  <1> HIDE DEF f
  <1>7. Iptr(c)' = p - o
    BY <1>4, <1>6 DEF Iptr
  <1> HIDE DEF p, o, l
  <1>8. Done(c)' = Done(c)
    <2>1. Done(c)' = g + 0 - (p - o)
      BY <1>1, <1>6, <1>7 DEF Done
    <2> HIDE DEF g
    <2>2. QED
      BY <1>2, <1>3, <2>1
  <1>9. got'[c] = g
    BY <1>1
  <1> HIDE DEF g
  <1>10. 0 <= p - o /\ p - o <= g + 0 /\ g <= l
    BY <1>2, <1>3
  <1>11. ASSUME NEW k \in (0 + 1)..(p - o) PROVE mem'[f][k] = Stream[c][g - (p - o) + k]
    <2>1. k \in 1..(p - o) /\ o + k \in (o + 1)..p /\ g - p + (o + k) = g - (p - o) + k
      BY <1>2, <1>3
    <2>2. QED
      BY <1>2, <1>4, <1>6, <2>1
  <1>12. AtStream(c)'
    BY <1>3, <1>6, <1>7, <1>8, <1>9, <1>10, <1>11 DEF AtStream, l
  <1>13. QED
    BY <1>8, <1>12

\* A new connection has read nothing.
LEMMA AddConnStream ==
    ASSUME IInv, NEW r \in Rsvrs, AddConn(r), NEW c \in connq, base' = [base EXCEPT ![c] = FreeAddr]
    PROVE  AtStream(c)'
  <1>1. c \in Conns /\ got[c] = 0 /\ optr[c] = 0
    BY DEF IInv, TypeOK, ConnsOK, ConnsStand
  <1>2. FreeAddr \in Buffs
    BY Fresh
  <1>3. base'[c] = FreeAddr /\ mem'[FreeAddr] = <<>> /\ got'[c] = 0 /\ optr'[c] = 0
    BY <1>1, <1>2 DEF AddConn, Alloc, IInv, TypeOK, ConnsOK, BuffsOK
  <1>4. Iptr(c)' = 0
    BY <1>3, EmptySeq DEF Iptr
  <1>5. Done(c)' = 0
    BY <1>3, <1>4 DEF Done
  <1> DEFINE l == Len(Stream[c])
  <1>6. l \in Nat /\ (0 < l => Stream[c][0 + 1].at = 1)
    BY <1>1, StreamTypes, NextStart
  <1> HIDE DEF l
  <1>7. (0 + 1)..0 = {}
    OBVIOUS
  <1>8. QED
    BY <1>3, <1>4, <1>5, <1>6, <1>7 DEF AtStream, l

\* Every connection on a list is in its stream after a step of a thread, and not
\* further back than before.
LEMMA StreamStep ==
    ASSUME IInv, NEW r \in Rsvrs, RsvrStep(r), NEW c \in Conns, base'[c] # None
    PROVE  /\ AtStream(c)' /\ Done(c)' \in Nat
           /\ c \notin connq => /\ base[c] # None /\ Done(c) \in Nat /\ Done(c)' >= Done(c)
                                /\ Cmd(r) /\ cur[r] = c => Done(c)' >= Done(c) + 1
  <1> DEFINE On == base[c] # None /\ Done(c) \in Nat /\ Done(c)' \in Nat /\ Done(c)' >= Done(c)
  <1>1. base[c] # None => Done(c) \in Nat /\ base[c] \in Buffs
    BY BufferTypes
  <1>2. ASSUME base[c] # None, base'[c] = base[c], optr'[c] = optr[c], got'[c] = got[c], ~Read(r) \/ c # cur[r]
        PROVE  AtStream(c)' /\ On
    <2>1. mem'[base[c]] = mem[base[c]]
      BY <1>2, OtherBuffs
    <2>2. AtStream(c)' /\ Done(c)' = Done(c)
      BY <1>2, <2>1, StreamStays
    <2>3. QED
      BY <1>1, <1>2, <2>2
  <1>3. CASE AddConn(r)
    <2>1. PICK d \in connq : base' = [base EXCEPT ![d] = FreeAddr]
      BY <1>3 DEF AddConn
    <2>2. d \in Conns /\ ~Read(r) /\ UNCHANGED <<optr, got>>
      BY <1>3 DEF AddConn, Read, Reading, IInv, TypeOK, ConnsOK
    <2>3. CASE c = d
      <3>1. AtStream(d)'
        BY <1>3, <2>1, AddConnStream
      <3>2. got'[d] = 0 /\ optr'[d] = 0
        BY <2>2 DEF IInv, ConnsStand
      <3>3. Iptr(d)' = 0
        <4>1. base'[d] = FreeAddr /\ mem'[FreeAddr] = <<>>
          BY <1>3, <2>1, <2>2, Fresh DEF AddConn, Alloc, IInv, TypeOK, ConnsOK, BuffsOK
        <4>2. QED
          BY <4>1, EmptySeq DEF Iptr
      <3>4. Done(d)' = 0
        BY <3>2, <3>3 DEF Done
      <3>5. ~Cmd(r) /\ c \in connq
        BY <1>3, <2>3 DEF AddConn, Cmd
      <3>6. QED
        BY <2>3, <3>1, <3>4, <3>5
    <2>4. CASE c # d
      <3>1. base'[c] = base[c]
        BY <2>1, <2>2, <2>4 DEF IInv, TypeOK, ConnsOK
      <3>2. ~Cmd(r)
        BY <1>3 DEF AddConn, Cmd
      <3>3. AtStream(c)' /\ On
        BY <1>2, <2>2, <3>1
      <3>4. QED
        BY <3>2, <3>3
    <2>5. QED
      BY <2>3, <2>4
  <1>4. CASE Read(r)
    <2>1. ~Cmd(r) /\ UNCHANGED <<base, optr>>
      BY <1>4 DEF Cmd, Read, Reading
    <2>2. CASE c = cur[r]
      BY <1>1, <1>4, <2>1, <2>2, ReadStream
    <2>3. CASE c # cur[r]
      <3>1. got'[c] = got[c]
        BY <1>4, <2>3, ReadAdds
      <3>2. AtStream(c)' /\ On
        BY <1>2, <2>1, <2>3, <3>1
      <3>3. QED
        BY <2>1, <3>2
    <2>4. QED
      BY <2>2, <2>3
  <1>5. CASE Switch(r)
    <2>1. ~Cmd(r) /\ ~Read(r) /\ rpc[r] = "parse" /\ cur[r] # None /\ ~(Left(cur[r]) > 0)
      BY <1>5, Served, Sizes DEF Cmd, Read, Reading, Switch, IInv, ThreadsStand
    <2>2. CASE c = cur[r]
      <3>1. base[c] # None
        BY <2>1, <2>2, Served
      <3>2. QED
        BY <1>1, <1>5, <2>1, <2>2, <3>1, SwitchStream
    <2>3. CASE c # cur[r]
      <3>1. base'[c] = base[c] /\ optr'[c] = optr[c] /\ got'[c] = got[c]
        BY <1>5, <2>3 DEF Switch, IInv, TypeOK, ConnsOK
      <3>2. AtStream(c)' /\ On
        BY <1>2, <2>1, <3>1
      <3>3. QED
        BY <2>1, <3>2
    <2>4. QED
      BY <2>2, <2>3
  <1>6. ASSUME cur[r] # None, Complete(cur[r]), Consume(cur[r]), UNCHANGED <<base, got, mem>>, ~Read(r)
        PROVE  AtStream(c)' /\ On /\ (cur[r] = c => Done(c)' >= Done(c) + 1)
    <2>1. CASE c = cur[r]
      <3>1. /\ AtStream(c)' /\ Done(c)' = Done(c) + Header(c).len /\ Header(c).len \in Nat \ {0} /\ Done(c) \in Nat
            /\ base[c] # None
        BY <1>6, <2>1, StreamConsumed
      <3> DEFINE n == Header(c).len
                 d == Done(c)
      <3> HIDE DEF n, d
      <3>2. d \in Nat /\ n \in Nat \ {0} /\ Done(c)' = d + n
        BY <3>1 DEF n, d
      <3>3. Done(c)' \in Nat /\ Done(c)' >= d + 1 /\ Done(c)' >= d
        BY <3>2
      <3>4. QED
        BY <3>1, <3>3 DEF d
    <2>2. CASE c # cur[r]
      <3>1. optr'[c] = optr[c]
        BY <1>6, <2>2, Consumed
      <3>2. QED
        BY <1>2, <1>6, <2>2, <3>1
    <2>3. QED
      BY <2>1, <2>2
  <1>7. CASE ParseSkip(r) \/ Cmd(r)
    <2>1. cur[r] # None /\ Complete(cur[r]) /\ Consume(cur[r]) /\ UNCHANGED <<base, got, mem>>
      BY <1>7 DEF ParseSkip, Cmd, bvars, IInv, ThreadsStand, MessageThere
    <2>2. ~Read(r)
      BY <1>7, <2>1 DEF ParseSkip, Cmd, Read, Reading
    <2>3. QED
      BY <1>6, <2>1, <2>2
  <1>8. CASE All(r)
    <2>1. UNCHANGED <<base, got, mem>> /\ ~Read(r) /\ ~Cmd(r)
      BY <1>8 DEF All, bvars, Read, Reading, Cmd
    <2>2. CASE cur[r] # None /\ rq[r] = RecvqNum - 1
      <3>1. Complete(cur[r]) /\ Consume(cur[r])
        BY <1>8, <2>2 DEF All, IInv, MessageThere
      <3>2. QED
        BY <1>6, <2>1, <2>2, <3>1
    <2>3. CASE ~(cur[r] # None /\ rq[r] = RecvqNum - 1)
      <3>1. optr' = optr
        BY <1>8, <2>3 DEF All
      <3>2. QED
        BY <1>2, <2>1, <3>1
    <2>4. QED
      BY <2>2, <2>3
  <1>9. CASE Disconnected(r) \/ Dropped(r) \/ Silent(r)
    <2>1. UNCHANGED <<optr, got, mem>> /\ \E d : base' = [base EXCEPT ![d] = None]
      BY <1>9 DEF Disconnected, Dropped, Silent, DelConn, bvars
    <2>2. base'[c] = base[c]
      BY <2>1 DEF IInv, TypeOK, ConnsOK
    <2>3. base[c] \in Buffs /\ mem'[base[c]] = mem[base[c]]
      BY <1>1, <2>1, <2>2
    <2>4. AtStream(c)' /\ Done(c)' = Done(c)
      BY <2>1, <2>2, StreamStays
    <2>5. ~Cmd(r)
      BY <1>9 DEF Cmd, Disconnected, Dropped, Silent, Reading
    <2>6. QED
      BY <1>1, <2>2, <2>4, <2>5
  <1>10. CASE Serve(r) \/ ReadAgain(r) \/ ParseExp(r) \/ IncRef(r) \/ Push(r) \/ Timeout(r) \/ DecOld(r) \/ FreeOld(r)
    <2>1. UNCHANGED cvars /\ ~Cmd(r)
      BY <1>10 DEF Serve, ReadAgain, Reading, ParseExp, IncRef, Push, Timeout, DecOld, FreeOld, Cmd
    <2>2. base[c] # None /\ base'[c] = base[c] /\ optr'[c] = optr[c] /\ got'[c] = got[c]
      BY <2>1 DEF cvars
    <2>3. CASE Read(r)
      BY <1>4, <2>3
    <2>4. CASE ~Read(r)
      BY <1>2, <2>1, <2>2, <2>4
    <2>5. QED
      BY <2>3, <2>4
  <1>11. QED
    BY <1>3, <1>4, <1>5, <1>7, <1>8, <1>9, <1>10 DEF RsvrStep

\* A message a thread is handing on, or has dropped, stays in the buffer.
LEMMA RsvrMessage ==
    ASSUME IInv, NEW r \in Rsvrs, RsvrStep(r)
    PROVE  MessageThere'
  <1> SUFFICES ASSUME NEW x \in Rsvrs
               PROVE  /\ rpc'[x] \in {"inc", "push", "cmd"} => Complete(cur[x])' /\ Accepted(cur[x])'
                      /\ rpc'[x] = "all" /\ cur'[x] # None => Complete(cur[x])'
    BY DEF MessageThere
  <1> DEFINE c == cur[x]
  <1>1. ASSUME rpc[x] \in {"inc", "push", "cmd", "all"}, c # None, cur'[x] = c,
               base'[c] = base[c], optr'[c] = optr[c], mem'[base[c]] = mem[base[c]], c \in auth' <=> c \in auth
        PROVE  /\ rpc[x] \in {"inc", "push", "cmd"} => Complete(cur[x])' /\ Accepted(cur[x])'
               /\ Complete(cur[x])'
    <2>1. Complete(c) /\ (rpc[x] \in {"inc", "push", "cmd"} => Accepted(c))
      BY <1>1 DEF IInv, MessageThere
    <2>2. Header(cur[x])' = Header(c) /\ Iptr(cur[x])' = Iptr(c)
      BY <1>1 DEF Header, Iptr
    <2>3. Complete(cur[x])'
      BY <1>1, <2>1, <2>2 DEF Complete
    <2>4. rpc[x] \in {"inc", "push", "cmd"} => Accepted(cur[x])'
      BY <1>1, <2>1, <2>2 DEF Accepted
    <2>5. QED
      BY <2>3, <2>4
  <1>2. CASE x # r
    <2>1. rpc'[x] = rpc[x] /\ cur'[x] = cur[x]
      BY <1>2, OwnMoves
    <2>2. CASE cur[x] = None
      BY <2>1, <2>2 DEF IInv, ThreadsStand
    <2>3. CASE cur[x] # None
      <3>1. c \in Conns /\ RsvrOf[c] = x /\ base[c] # None
        BY <2>3, Served
      <3>2. base'[c] = base[c] /\ optr'[c] = optr[c] /\ (c \in auth' <=> c \in auth)
        BY <1>2, <3>1, OwnConns
      <3>3. ~Read(r) \/ c # cur[r]
        BY <1>2, <3>1, ReadAdds
      <3>4. mem'[base[c]] = mem[base[c]]
        BY <3>1, <3>3, OtherBuffs
      <3>5. QED
        BY <1>1, <2>1, <2>3, <3>2, <3>4
    <2>4. QED
      BY <2>2, <2>3
  <1>3. CASE x = r
    <2>1. CASE IncRef(r) \/ Push(r) \/ ParseExp(r)
      <3>1. UNCHANGED <<cvars, mem, cur>> /\ rpc[r] \in {"inc", "push", "parse"}
        BY <2>1 DEF IncRef, Push, ParseExp, bvars
      <3>2. cur[r] # None
        BY <3>1 DEF IInv, ThreadsStand
      <3>3. Complete(cur[r]) /\ Accepted(cur[r])
        BY <2>1, <3>1 DEF ParseExp, IncRef, Push, IInv, MessageThere
      <3>4. Complete(cur[r])' /\ Accepted(cur[r])'
        BY <3>1, <3>3 DEF Complete, Accepted, Header, Iptr, cvars
      <3>5. QED
        BY <1>3, <3>4
    <2>2. CASE All(r)
      <3>1. UNCHANGED <<base, mem, cur, auth>> /\ rpc[r] = "all"
        BY <2>2 DEF All, bvars
      <3>2. rpc'[r] \in {"all", "parse", "idle"} /\ (rpc'[r] = "all" => rq[r] # RecvqNum - 1)
        BY <2>2 DEF All, IInv, TypeOK, RsvrsOK
      <3>3. rpc'[r] = "all" => optr' = optr
        BY <2>2, <3>2 DEF All
      <3>4. cur[r] # None => Complete(cur[r])
        BY <3>1 DEF IInv, MessageThere
      <3>5. rpc'[r] = "all" /\ cur[r] # None => Complete(cur[r])'
        BY <3>1, <3>3, <3>4 DEF Complete, Header, Iptr
      <3>6. QED
        BY <1>3, <3>1, <3>2, <3>5
    <2>3. CASE Timeout(r) \/ DecOld(r) \/ FreeOld(r)
      <3>1. cur' = cur /\ (rpc[r] = "idle" => cur[r] = None)
        BY <2>3 DEF Timeout, DecOld, FreeOld, IInv, ThreadsStand
      <3>2. rpc'[r] \notin {"inc", "push", "cmd"} /\ (rpc'[r] = "all" => cur[r] = None)
        <4>1. CASE Timeout(r)
          BY <3>1, <4>1 DEF Timeout, IInv, TypeOK, RsvrsOK
        <4>2. CASE DecOld(r) \/ FreeOld(r)
          <5>1. \/ rpc' = [rpc EXCEPT ![r] = "free"] \/ rpc' = [rpc EXCEPT ![r] = "read"] \/ rpc' = [rpc EXCEPT ![r] = "idle"]
                \/ cur[r] = None /\ rpc' = [rpc EXCEPT ![r] = "all"]
            BY <4>2 DEF DecOld, FreeOld, Resume
          <5>2. QED
            BY <5>1 DEF IInv, TypeOK, RsvrsOK
        <4>3. QED
          BY <2>3, <4>1, <4>2
      <3>3. QED
        BY <1>3, <3>1, <3>2
    <2>4. CASE AddConn(r) \/ Serve(r) \/ Read(r) \/ ReadAgain(r) \/ Disconnected(r) \/ Dropped(r) \/ Silent(r)
               \/ Switch(r) \/ ParseSkip(r) \/ Cmd(r)
      <3>1. \/ rpc' = rpc /\ rpc[r] \in {"idle", "parse"}
            \/ \E v \in {"read", "parse", "idle", "dec"} : rpc' = [rpc EXCEPT ![r] = v]
        BY <2>4 DEF AddConn, Serve, Read, ReadAgain, Disconnected, Dropped, Silent, Switch, ParseSkip, Cmd, DelConn, rvars
      <3>2. rpc'[r] \in {"read", "parse", "idle", "dec"}
        BY <3>1 DEF IInv, TypeOK, RsvrsOK
      <3>3. QED
        BY <1>3, <3>2
    <2>5. QED
      BY <2>1, <2>2, <2>3, <2>4 DEF RsvrStep
  <1>4. QED
    BY <1>2, <1>3

\* What the buffers hold, after any step.
LEMMA BuffPart ==
    ASSUME IInv, (\E r \in Rsvrs : RsvrStep(r)) \/ (\E w \in Workers : WorkStep(w))
    PROVE  BuffsOK' /\ InStream' /\ MessageThere' /\ Counted'
  <1>1. Counted'
    BY RsvrCounts, WorkerCounts
  <1>2. BuffsOK'
    <2>1. mem' \in [Buffs -> Seq(Unit)] /\ \A b \in Buffs : Len(mem'[b]) <= BuffLen
      BY MemKept
    <2>2. count' = [b \in Buffs |-> count'[b]]
      <3>1. count' = count \/ \E b, v : count' = [count EXCEPT ![b] = v]
        BY ZenonT(40) DEF RsvrStep, AddConn, Serve, Read, ReadAgain, Disconnected, Dropped, Silent, Switch, ParseSkip,
               ParseExp, IncRef, Push, Cmd, All, Timeout, DecOld, FreeOld, WorkStep, WorkCmd, WorkSweep, WorkPop,
               WorkProc, WorkFree, WorkBack, Alloc, Inc, Dec, Free, bvars
      <3>2. QED
        BY <3>1 DEF IInv, TypeOK, BuffsOK
    <2>3. \A b \in Buffs : count'[b] \in Nat \cup {None}
      BY <1>1, FS_CardinalityType DEF Counted
    <2>4. QED
      BY <2>1, <2>2, <2>3 DEF BuffsOK
  <1>3. ASSUME NEW r \in Rsvrs, RsvrStep(r) PROVE InStream' /\ MessageThere'
    BY <1>3, StreamStep, AllAtStream, RsvrMessage
  <1>4. ASSUME NEW w \in Workers, WorkStep(w) PROVE InStream' /\ MessageThere'
    <2>1. UNCHANGED <<base, optr, got, auth, rpc, cur>>
      BY <1>4, WorkerThreads DEF cvars, rvars
    <2>2. \A c \in Conns : base[c] # None => mem'[base[c]] = mem[base[c]]
      BY <1>4, ConnHolds, MemKept, Sizes
    <2>3. InStream'
      BY <2>1, <2>2, StreamStays, AllAtStream
    <2>4. \A x \in Rsvrs : cur[x] # None => Complete(cur[x])' = Complete(cur[x]) /\ Accepted(cur[x])' = Accepted(cur[x])
      <3> SUFFICES ASSUME NEW x \in Rsvrs, cur[x] # None
                   PROVE  Complete(cur[x])' = Complete(cur[x]) /\ Accepted(cur[x])' = Accepted(cur[x])
        OBVIOUS
      <3>1. cur'[x] = cur[x] /\ base'[cur'[x]] = base[cur[x]] /\ mem'[base[cur[x]]] = mem[base[cur[x]]]
        BY <2>1, <2>2, Served
      <3>2. QED
        BY <2>1, <3>1 DEF Complete, Accepted, Header, Iptr
    <2>5. MessageThere'
      <3>1. \A x \in Rsvrs : rpc[x] \in {"inc", "push", "cmd"} => cur[x] # None
        BY DEF IInv, ThreadsStand
      <3>2. QED
        BY <2>1, <2>4, <3>1 DEF IInv, MessageThere
    <2>6. QED
      BY <2>3, <2>5
  <1>5. QED
    BY <1>1, <1>2, <1>3, <1>4

-----------------------------------------------------------------------------
(* What items show. *)

\* Whole, of given counts and given contents of the buffers.
WholeIn(cnt, m, item) ==
    /\ cnt[item.base] # None
    /\ item.at < Len(m[item.base])
    /\ LET first == m[item.base][item.at + 1]
       IN  /\ first.no = item.no /\ first.at = 1
           /\ item.at + first.len <= Len(m[item.base])
           /\ \A k \in 1..first.len : m[item.base][item.at + k] = [first EXCEPT !.at = k]

LEMMA AllWhole ==
    /\ Intact <=> /\ \A q \in Recvqs : \A i \in DOMAIN recvq[q] : WholeIn(count, mem, recvq[q][i])
                  /\ \A w \in Workers : \A i \in Pending(w) : WholeIn(count, mem, batch[w][i])
    /\ Intact' <=> /\ \A q \in Recvqs : \A i \in DOMAIN recvq'[q] : WholeIn(count', mem', recvq'[q][i])
                   /\ \A w \in Workers : \A i \in Pending(w)' : WholeIn(count', mem', batch'[w][i])
  BY DEF Intact, Whole, WholeIn

\* A message stays whole if its buffer only grows.
LEMMA WholeStays ==
    ASSUME NEW cnt, NEW cnt2, NEW m, NEW m2, NEW item \in Item, WholeIn(cnt, m, item),
           cnt2[item.base] # None, m[item.base] \in Seq(Unit), m2[item.base] \in Seq(Unit),
           Len(m[item.base]) <= Len(m2[item.base]),
           \A k \in 1..Len(m[item.base]) : m2[item.base][k] = m[item.base][k]
    PROVE  WholeIn(cnt2, m2, item)
  <1> DEFINE s == m[item.base]
             t == m2[item.base]
             a == item.at
             l == Len(s)
             n == Len(t)
             f == s[a + 1]
  <1>1. l \in Nat /\ n \in Nat /\ a \in Nat /\ a < l /\ l <= n
    BY Sizes DEF WholeIn, Item
  <1>2. a + 1 \in 1..l
    <2> HIDE DEF a, l
    <2>1. QED
      BY <1>1
  <1>3. f \in Unit /\ f.len \in Nat
    <2>1. s \in Seq(Unit)
      OBVIOUS
    <2> HIDE DEF s, a
    <2>2. s[a + 1] \in Unit
      BY <1>2, <2>1
    <2>3. QED
      BY <2>2 DEF Unit
  <1>4. f.no = item.no /\ f.at = 1 /\ a + f.len <= l /\ \A k \in 1..f.len : s[a + k] = [f EXCEPT !.at = k]
    BY DEF WholeIn
  <1>5. \A k \in 1..l : t[k] = s[k]
    OBVIOUS
  <1>6. cnt2[item.base] # None
    OBVIOUS
  <1> HIDE DEF s, t, a, l, n, f
  <1>7. t[a + 1] = f
    BY <1>2, <1>5 DEF f
  <1>8. \A k \in 1..f.len : a + k \in 1..l
    BY <1>1, <1>3, <1>4
  <1>9. \A k \in 1..f.len : t[a + k] = [f EXCEPT !.at = k]
    BY <1>4, <1>5, <1>8
  <1>10. a < n /\ a + f.len <= n
    BY <1>1, <1>3, <1>4
  <1>11. QED
    BY <1>4, <1>6, <1>7, <1>9, <1>10 DEF WholeIn, t, a, n

\* An item that was there, and still is, shows what it showed.
LEMMA ItemStays ==
    ASSUME IInv, (\E r \in Rsvrs : RsvrStep(r)) \/ (\E w \in Workers : WorkStep(w)),
           NEW item \in Item, WholeIn(count, mem, item), count[item.base] # 0,
           \E x : x \in Holders(item.base)'
    PROVE  WholeIn(count', mem', item)
  <1> DEFINE b == item.base
  <1>1. b \in Buffs /\ count[b] # None
    BY DEF Item, WholeIn
  <1>2. Counted' /\ BuffsOK'
    BY BuffPart
  <1>3. count'[b] # None
    BY <1>1, <1>2 DEF Counted
  <1>4. mem[b] \in Seq(Unit) /\ mem'[b] \in Seq(Unit)
    BY <1>1, <1>2 DEF BuffsOK, IInv, TypeOK
  <1>5. Len(mem[b]) <= Len(mem'[b]) /\ \A k \in 1..Len(mem[b]) : mem'[b][k] = mem[b][k]
    BY <1>1, MemKept
  <1>6. QED
    BY <1>3, <1>4, <1>5, WholeStays

\* The items there were.
LEMMA ItemsWere ==
    ASSUME IInv
    PROVE  /\ \A q \in Recvqs : \A i \in DOMAIN recvq[q] :
                 recvq[q][i] \in Item /\ WholeIn(count, mem, recvq[q][i]) /\ count[recvq[q][i].base] # 0
           /\ \A w \in Workers : \A i \in Pending(w) :
                 batch[w][i] \in Item /\ WholeIn(count, mem, batch[w][i]) /\ count[batch[w][i].base] # 0
  <1>1. Intact
    BY DEF IInv
  <1>2. ASSUME NEW q \in Recvqs, NEW i \in DOMAIN recvq[q]
        PROVE  recvq[q][i] \in Item /\ WholeIn(count, mem, recvq[q][i]) /\ count[recvq[q][i].base] # 0
    <2>1. recvq[q] \in Seq(Item)
      BY DEF IInv, TypeOK, QueuesOK
    <2>2. recvq[q][i] \in Item
      BY <2>1
    <2>3. count[recvq[q][i].base] # 0
      BY RecvqHolds
    <2>4. QED
      BY <1>1, <2>2, <2>3, AllWhole
  <1>3. ASSUME NEW w \in Workers, NEW i \in Pending(w)
        PROVE  batch[w][i] \in Item /\ WholeIn(count, mem, batch[w][i]) /\ count[batch[w][i].base] # 0
    <2>1. batch[w] \in Seq(Item) /\ i \in DOMAIN batch[w]
      BY DEF IInv, TypeOK, WorkersOK, Pending
    <2>2. batch[w][i] \in Item
      BY <2>1
    <2>3. count[batch[w][i].base] # 0
      BY BatchHolds
    <2>4. QED
      BY <1>1, <2>2, <2>3, AllWhole
  <1>4. QED
    BY <1>2, <1>3

\* An item in a queue, or with a worker, is a reference.
LEMMA ItemsRefer ==
    /\ \A q \in Recvqs : \A i \in DOMAIN recvq'[q] : <<"recvq", q, i>> \in Holders(recvq[q][i].base)'
    /\ \A w \in Workers : \A i \in Pending(w)' : <<"batch", w, i>> \in Holders(batch[w][i].base)'
  <1>1. ASSUME NEW q \in Recvqs, NEW i \in DOMAIN recvq'[q] PROVE <<"recvq", q, i>> \in Holders(recvq[q][i].base)'
    BY DEF Holders, RecvqRefs
  <1>2. ASSUME NEW w \in Workers, NEW i \in Pending(w)' PROVE <<"batch", w, i>> \in Holders(batch[w][i].base)'
    BY DEF Holders, BatchRefs
  <1>3. QED
    BY <1>1, <1>2

\* The message a thread pushes is whole.
LEMMA PushedWhole ==
    ASSUME IInv, NEW r \in Rsvrs, rpc[r] = "push", NEW c \in Conns, cur[r] = c
    PROVE  LET item == [base |-> base[c], at |-> optr[c], no |-> Header(c).no]
           IN  /\ item \in Item /\ WholeIn(count, mem, item)
               /\ Header(c).kind = "exp" /\ c \in auth /\ base[c] # None /\ optr[c] < Iptr(c)
  <1> DEFINE item == [base |-> base[c], at |-> optr[c], no |-> Header(c).no]
  <1>1. Complete(c) /\ Accepted(c) /\ cur[r] # None
    BY Sizes DEF IInv, MessageThere
  <1>2. base[c] # None /\ base[c] \in Buffs
    BY <1>1, Served
  <1>3. Header(c) \in Unit /\ optr[c] \in 0..(BuffLen - 1)
    BY <1>1, HeaderThere
  <1>4. item \in Item
    BY <1>2, <1>3 DEF Item, Unit
  <1>5. optr[c] < Iptr(c) /\ optr[c] + Header(c).len <= Iptr(c)
    BY <1>1 DEF Complete
  <1>6. Header(c).at = 1 /\ \A k \in 1..Header(c).len : mem[base[c]][optr[c] + k] = [Header(c) EXCEPT !.at = k]
    BY <1>1, <1>2, <1>5, HeaderInStream
  <1>7. count[base[c]] # None
    BY <1>2, ConnHolds, Sizes
  <1>8. item.base = base[c] /\ item.at = optr[c] /\ item.no = Header(c).no
    OBVIOUS
  <1> HIDE DEF item
  <1>9. WholeIn(count, mem, item)
    BY <1>5, <1>6, <1>7, <1>8 DEF WholeIn, Header, Iptr
  <1>10. QED
    BY <1>1, <1>2, <1>4, <1>5, <1>9 DEF item, Accepted

\* What a push does to the queue.
LEMMA PushedItem ==
    ASSUME IInv, NEW r \in Rsvrs, Push(r), NEW c \in Conns, cur[r] = c
    PROVE  LET q    == rq[r]
               item == [base |-> base[c], at |-> optr[c], no |-> Header(c).no]
           IN  /\ q \in Recvqs /\ recvq'[q] = Append(recvq[q], item)
               /\ \A p \in Recvqs \ {q} : recvq'[p] = recvq[p]
  <1> DEFINE q == rq[r]
             item == [base |-> base[c], at |-> optr[c], no |-> Header(c).no]
  <1>1. q \in Recvqs /\ Len(recvq[q]) < QueueMax
    BY PushFits DEF Push
  <1>2. recvq' = [recvq EXCEPT ![q] = Append(recvq[q], item)]
    BY <1>1 DEF Push
  <1> HIDE DEF item, q
  <1>3. recvq'[q] = Append(recvq[q], item) /\ \A p \in Recvqs \ {q} : recvq'[p] = recvq[p]
    BY <1>1, <1>2 DEF IInv, TypeOK, QueuesOK
  <1>4. QED
    BY <1>1, <1>3 DEF item, q

LEMMA RsvrIntact ==
    ASSUME IInv, NEW r \in Rsvrs, RsvrStep(r)
    PROVE  Intact'
  <1>1. UNCHANGED <<batch, wpc>>
    BY RsvrWorkers DEF wvars
  <1>2. ASSUME NEW w \in Workers, NEW i \in Pending(w)' PROVE WholeIn(count', mem', batch'[w][i])
    <2>1. i \in Pending(w)
      BY <1>1, <1>2 DEF Pending
    <2>2. <<"batch", w, i>> \in Holders(batch[w][i].base)'
      BY <1>2, ItemsRefer
    <2> DEFINE item == batch[w][i]
    <2>3. item \in Item /\ WholeIn(count, mem, item) /\ count[item.base] # 0
      BY <2>1, ItemsWere
    <2>4. batch'[w][i] = item
      BY <1>1
    <2>5. PICK it \in Item : it = item
      BY <2>3
    <2>6. \E x : x \in Holders(it.base)'
      BY <2>2, <2>4, <2>5
    <2> HIDE DEF item
    <2>7. WholeIn(count', mem', it)
      BY <2>3, <2>5, <2>6, ItemStays
    <2>8. QED
      BY <2>4, <2>5, <2>7
  <1>3. ASSUME NEW q \in Recvqs, NEW i \in DOMAIN recvq'[q], i \in DOMAIN recvq[q], recvq'[q][i] = recvq[q][i]
        PROVE  WholeIn(count', mem', recvq'[q][i])
    <2> DEFINE item == recvq[q][i]
    <2>1. <<"recvq", q, i>> \in Holders(recvq[q][i].base)'
      BY ItemsRefer
    <2>2. item \in Item /\ WholeIn(count, mem, item) /\ count[item.base] # 0
      BY <1>3, ItemsWere
    <2>3. PICK it \in Item : it = item
      BY <2>2
    <2>4. \E x : x \in Holders(it.base)'
      BY <1>3, <2>1, <2>3
    <2> HIDE DEF item
    <2>5. WholeIn(count', mem', it)
      BY <2>2, <2>3, <2>4, ItemStays
    <2>6. QED
      BY <1>3, <2>3, <2>5 DEF item
  <1>4. ASSUME NEW q \in Recvqs, NEW i \in DOMAIN recvq'[q] PROVE WholeIn(count', mem', recvq'[q][i])
    <2>1. CASE recvq'[q] = recvq[q]
      BY <1>3, <1>4, <2>1
    <2>2. CASE recvq'[q] # recvq[q]
      <3>1. Push(r)
        BY <2>2 DEF RsvrStep, AddConn, Serve, Read, ReadAgain, Disconnected, Dropped, Silent, Switch, ParseSkip,
                    ParseExp, IncRef, Cmd, All, Timeout, DecOld, FreeOld, qvars
      <3>2. cur[r] # None
        BY <3>1 DEF Push, IInv, ThreadsStand
      <3>3. PICK c \in Conns : c = cur[r]
        BY <3>2, Served
      <3> DEFINE item == [base |-> base[c], at |-> optr[c], no |-> Header(c).no]
      <3>4. recvq'[q] = Append(recvq[q], item)
        BY <2>2, <3>1, <3>3, PushedItem
      <3>5. item \in Item /\ WholeIn(count, mem, item)
        BY <3>1, <3>3, PushedWhole DEF Push
      <3> HIDE DEF item
      <3>6. recvq[q] \in Seq(Item)
        BY DEF IInv, TypeOK, QueuesOK
      <3>7. (i \in DOMAIN recvq[q] /\ recvq'[q][i] = recvq[q][i]) \/ recvq'[q][i] = item
        BY <1>4, <3>4, <3>5, <3>6, AppendProperties
      <3>8. CASE recvq'[q][i] = item
        <4>1. UNCHANGED <<count, mem>>
          BY <3>1 DEF Push, bvars
        <4>2. QED
          BY <3>5, <3>8, <4>1
      <3>9. QED
        BY <1>3, <1>4, <3>7, <3>8
    <2>3. QED
      BY <2>1, <2>2
  <1>5. QED
    BY <1>2, <1>4, AllWhole

LEMMA WorkerIntact ==
    ASSUME IInv, NEW w \in Workers, WorkStep(w)
    PROVE  Intact'
  <1>1. ASSUME NEW item \in Item, WholeIn(count, mem, item), count[item.base] # 0,
               NEW x \in Holders(item.base)'
        PROVE  WholeIn(count', mem', item)
    BY <1>1, ItemStays
  <1>2. ASSUME NEW q \in Recvqs, NEW i \in DOMAIN recvq'[q] PROVE WholeIn(count', mem', recvq'[q][i])
    <2>1. i \in DOMAIN recvq[q] /\ recvq'[q][i] = recvq[q][i]
      <3>1. recvq'[q] = recvq[q] \/ recvq'[q] = <<>>
        <4>1. recvq' = recvq \/ \E p : recvq' = [recvq EXCEPT ![p] = <<>>]
          BY DEF WorkStep, WorkCmd, WorkSweep, WorkPop, WorkProc, WorkFree, WorkBack, qvars
        <4>2. QED
          BY <4>1 DEF IInv, TypeOK, QueuesOK
      <3>2. QED
        BY <1>2, <3>1
    <2>2. <<"recvq", q, i>> \in Holders(recvq[q][i].base)'
      BY <1>2, ItemsRefer
    <2>3. recvq[q][i] \in Item /\ WholeIn(count, mem, recvq[q][i]) /\ count[recvq[q][i].base] # 0
      BY <2>1, ItemsWere
    <2>4. PICK it \in Item : it = recvq[q][i]
      BY <2>3
    <2>5. <<"recvq", q, i>> \in Holders(it.base)'
      BY <2>1, <2>2, <2>4
    <2>6. WholeIn(count', mem', it)
      BY <1>1, <2>3, <2>4, <2>5
    <2>7. QED
      BY <2>1, <2>4, <2>6
  <1>3. ASSUME NEW v \in Workers, NEW i \in Pending(v)'
        PROVE  \E it \in Item : it = batch'[v][i] /\ WholeIn(count, mem, it) /\ count[it.base] # 0
    <2>1. CASE batch'[v] = batch[v] /\ i \in Pending(v)
      BY <2>1, ItemsWere
    <2>2. CASE v # w
      <3>1. batch'[v] = batch[v] /\ wpc'[v] = wpc[v]
        BY <2>2, OthersVisit
      <3>2. QED
        BY <1>3, <2>1, <3>1 DEF Pending
    <2>3. CASE v = w /\ WorkPop(w)
      <3> DEFINE q == Head(visit[w])
      <3>1. batch'[w] = recvq[q]
        BY <2>3 DEF WorkPop, IInv, TypeOK, WorkersOK
      <3>2. q \in Recvqs
        BY <2>3, AtQueue DEF WorkPop
      <3>3. i \in DOMAIN recvq[q]
        BY <1>3, <2>3, <3>1 DEF Pending
      <3> HIDE DEF q
      <3>4. QED
        BY <2>3, <3>1, <3>2, <3>3, ItemsWere
    <2>4. CASE v = w /\ WorkBack(w)
      <3>1. batch[w] \in Seq(Item) /\ batch[w] # <<>> /\ wpc[w] = "back"
        BY <2>4, AtItem DEF WorkBack
      <3>2. batch'[w] = Tail(batch[w])
        BY <2>4 DEF WorkBack, IInv, TypeOK, WorkersOK
      <3>3. i \in DOMAIN Tail(batch[w])
        BY <1>3, <2>4, <3>2 DEF Pending
      <3> DEFINE s == batch[w]
      <3> HIDE DEF s
      <3>4. s \in Seq(Item) /\ s # <<>> /\ i \in DOMAIN Tail(s)
        BY <3>1, <3>3 DEF s
      <3>5. i + 1 \in DOMAIN s /\ i + 1 # 1 /\ Tail(s)[i] = s[i + 1]
        BY <3>4
      <3>6. i + 1 \in Pending(w) /\ batch'[w][i] = batch[w][i + 1]
        BY <3>1, <3>2, <3>5 DEF Pending, s
      <3>7. QED
        BY <2>4, <3>6, ItemsWere
    <2>5. CASE v = w /\ ~WorkPop(w) /\ ~WorkBack(w)
      <3>1. batch' = batch
        BY <2>5 DEF WorkStep, WorkCmd, WorkSweep, WorkProc, WorkFree
      <3>2. wpc[w] \in {"free", "back"} => wpc'[w] \in {"free", "back"}
        BY <2>5 DEF WorkStep, WorkCmd, WorkSweep, WorkProc, WorkFree, IInv, TypeOK, WorkersOK
      <3>3. i \in Pending(v)
        BY <1>3, <2>5, <3>1, <3>2 DEF Pending
      <3>4. QED
        BY <2>1, <3>1, <3>3
    <2>6. QED
      BY <2>2, <2>3, <2>4, <2>5
  <1>4. ASSUME NEW v \in Workers, NEW i \in Pending(v)' PROVE WholeIn(count', mem', batch'[v][i])
    <2>1. PICK it \in Item : it = batch'[v][i] /\ WholeIn(count, mem, it) /\ count[it.base] # 0
      BY <1>3, <1>4
    <2>2. <<"batch", v, i>> \in Holders(batch[v][i].base)'
      BY <1>4, ItemsRefer
    <2>3. <<"batch", v, i>> \in Holders(it.base)'
      BY <2>1, <2>2
    <2>4. WholeIn(count', mem', it)
      BY <1>1, <2>1, <2>3
    <2>5. QED
      BY <2>1, <2>4
  <1>5. QED
    BY <1>2, <1>4, AllWhole

-----------------------------------------------------------------------------
(* The messages of a queue, in line. *)

LEMMA NosOf ==
    ASSUME NEW s \in Seq(Item)
    PROVE  Nos(s) \in Seq(Nat) /\ Len(Nos(s)) = Len(s) /\ \A i \in 1..Len(s) : Nos(s)[i] = s[i].no
  <1>1. \A i \in 1..Len(s) : s[i] \in Item
    BY ElementOfSeq
  <1>2. Len(s) \in Nat
    OBVIOUS
  <1>3. \A i \in 1..Len(s) : s[i].no \in Nat
    BY <1>1 DEF Item
  <1>4. Nos(s) \in [1..Len(s) -> Nat]
    BY <1>3 DEF Nos
  <1>5. Nos(s) \in Seq(Nat)
    BY <1>2, <1>4
  <1>6. Len(Nos(s)) = Len(s)
    BY <1>2, <1>4, <1>5
  <1>7. QED
    BY <1>5, <1>6 DEF Nos

LEMMA NosEmpty == Nos(<<>>) = <<>>
  <1>1. <<>> \in Seq(Item) /\ Len(<<>>) = 0
    BY EmptySeq
  <1>2. Nos(<<>>) \in Seq(Nat) /\ Len(Nos(<<>>)) = 0
    BY <1>1, NosOf
  <1>3. QED
    BY <1>2, EmptySeq

LEMMA NosAppend ==
    ASSUME NEW s \in Seq(Item), NEW x \in Item
    PROVE  Nos(Append(s, x)) = Append(Nos(s), x.no)
  <1> DEFINE l == Len(s)
             S == Append(s, x)
             n == Nos(s)
             N == Append(n, x.no)
             M == Nos(S)
  <1>1. x.no \in Nat
    BY DEF Item
  <1>2. l \in Nat /\ n \in Seq(Nat) /\ Len(n) = l /\ \A i \in 1..l : n[i] = s[i].no
    BY NosOf
  <1>3. S \in Seq(Item) /\ Len(S) = l + 1 /\ (\A i \in 1..l : S[i] = s[i]) /\ S[l + 1] = x
    BY AppendProperties
  <1>4. M \in Seq(Nat) /\ Len(M) = Len(S) /\ \A i \in 1..Len(S) : M[i] = S[i].no
    BY <1>3, NosOf
  <1> HIDE DEF l, S, n, M
  <1>5. N \in Seq(Nat) /\ Len(N) = l + 1 /\ (\A i \in 1..l : N[i] = n[i]) /\ N[l + 1] = x.no
    BY <1>1, <1>2, AppendProperties
  <1> HIDE DEF N
  <1>6. \A i \in 1..(l + 1) : M[i] = N[i]
    <2> SUFFICES ASSUME NEW i \in 1..(l + 1) PROVE M[i] = N[i]
      OBVIOUS
    <2>1. i \in 1..l \/ i = l + 1
      BY <1>2
    <2>2. QED
      BY <1>2, <1>3, <1>4, <1>5, <2>1
  <1>7. M = N
    BY <1>3, <1>4, <1>5, <1>6, SeqEqual
  <1>8. QED
    BY <1>7 DEF M, N, S, n

\* The number of the first item goes from one part to the other.
LEMMA NosHandled ==
    ASSUME NEW h \in Seq(Nat), NEW s \in Seq(Item), s # <<>>
    PROVE  Append(h, s[1].no) \o Nos(Tail(s)) = h \o Nos(s) /\ Tail(s) \in Seq(Item)
  <1> DEFINE l == Len(s)
             k == Len(h)
             T == Tail(s)
             n == s[1].no
             A == Append(h, n)
             P == Nos(T)
             Q == Nos(s)
             L == A \o P
             R == h \o Q
  <1>1. l \in Nat \ {0} /\ k \in Nat
    BY EmptySeq
  <1>2. T \in Seq(Item) /\ Len(T) = l - 1 /\ \A i \in 1..(l - 1) : T[i] = s[i + 1]
    BY HeadTailProperties
  <1>3. Q \in Seq(Nat) /\ Len(Q) = l /\ \A i \in 1..l : Q[i] = s[i].no
    BY NosOf
  <1>4. P \in Seq(Nat) /\ Len(P) = Len(T) /\ \A i \in 1..Len(T) : P[i] = T[i].no
    BY <1>2, NosOf
  <1> HIDE DEF l, k, T, P, Q
  <1>5. P \in Seq(Nat) /\ Len(P) = l - 1 /\ \A i \in 1..(l - 1) : P[i] = s[i + 1].no
    BY <1>2, <1>4
  <1>6. n \in Nat /\ Q[1] = n
    <2>1. 1 \in 1..l
      BY <1>1
    <2>2. s[1] \in Item
      BY <2>1 DEF l
    <2>3. QED
      BY <1>3, <2>1, <2>2 DEF Item
  <1> HIDE DEF n
  <1>7. A \in Seq(Nat) /\ Len(A) = k + 1 /\ (\A i \in 1..k : A[i] = h[i]) /\ A[k + 1] = n
    BY <1>6, AppendProperties DEF k
  <1> HIDE DEF A
  <1>8. L \in Seq(Nat) /\ Len(L) = (k + 1) + (l - 1) /\ \A i \in 1..((k + 1) + (l - 1)) : L[i] = IF i <= k + 1 THEN A[i] ELSE P[i - (k + 1)]
    <2>1. L \in Seq(Nat) /\ Len(L) = Len(A) + Len(P)
      BY <1>5, <1>7, ConcatProperties
    <2>2. \A i \in 1..Len(A) + Len(P) : L[i] = IF i <= Len(A) THEN A[i] ELSE P[i - Len(A)]
      BY <1>5, <1>7, ConcatProperties
    <2> HIDE DEF L
    <2>3. QED
      BY <1>5, <1>7, <2>1, <2>2
  <1>9. R \in Seq(Nat) /\ Len(R) = k + l /\ \A i \in 1..(k + l) : R[i] = IF i <= k THEN h[i] ELSE Q[i - k]
    BY <1>3, ConcatProperties DEF k
  <1> HIDE DEF L, R
  <1>10. (k + 1) + (l - 1) = k + l
    BY <1>1
  <1>11. ASSUME NEW i \in 1..(k + l) PROVE L[i] = R[i]
    <2>1. CASE i <= k
      <3>1. i \in 1..k /\ i <= k + 1
        BY <1>1, <2>1
      <3>2. QED
        BY <1>7, <1>8, <1>9, <1>10, <2>1, <3>1
    <2>2. CASE i = k + 1
      <3>1. ~(i <= k) /\ i <= k + 1 /\ i - k = 1
        BY <1>1, <2>2
      <3>2. QED
        BY <1>6, <1>7, <1>8, <1>9, <1>10, <2>2, <3>1
    <2>3. CASE i > k + 1
      <3>1. ~(i <= k) /\ ~(i <= k + 1) /\ i - (k + 1) \in 1..(l - 1) /\ (i - (k + 1)) + 1 = i - k /\ i - k \in 1..l
        BY <1>1, <2>3
      <3>2. QED
        BY <1>3, <1>5, <1>8, <1>9, <1>10, <3>1
    <2>4. QED
      BY <1>1, <2>1, <2>2, <2>3
  <1>12. L = R
    BY <1>8, <1>9, <1>10, <1>11, SeqEqual
  <1>13. QED
    BY <1>2, <1>12 DEF L, R, A, P, Q, T, n

LEMMA LineTypes ==
    ASSUME IInv, NEW q \in Recvqs
    PROVE  /\ handled[q] \in Seq(Nat) /\ InHand(q) \in Seq(Item) /\ recvq[q] \in Seq(Item)
           /\ Nos(InHand(q)) \in Seq(Nat) /\ Nos(recvq[q]) \in Seq(Nat)
           /\ handled[q] \o Nos(InHand(q)) \in Seq(Nat) /\ Line(q) \in Seq(Nat)
  <1>1. handled[q] \in Seq(Nat) /\ recvq[q] \in Seq(Item)
    BY DEF IInv, TypeOK, WorkersOK, QueuesOK
  <1>2. InHand(q) \in Seq(Item)
    <2> DEFINE w == q \div HdlQnum
    <2>1. w \in Workers
      BY Owners
    <2>2. batch[w] \in Seq(Item) /\ (wpc[w] \in {"free", "back"} => batch[w] # <<>>)
      BY <2>1 DEF IInv, TypeOK, WorkersOK, WorkersStand
    <2>3. Unreleased(w) \in Seq(Item)
      BY <2>2, HeadTailProperties DEF Unreleased
    <2>4. QED
      BY <2>3, EmptySeq DEF InHand
  <1>3. Nos(InHand(q)) \in Seq(Nat) /\ Nos(recvq[q]) \in Seq(Nat)
    BY <1>1, <1>2, NosOf
  <1>4. handled[q] \o Nos(InHand(q)) \in Seq(Nat)
    BY <1>1, <1>3, ConcatProperties
  <1>5. Line(q) \in Seq(Nat)
    BY <1>3, <1>4, ConcatProperties DEF Line
  <1>6. QED
    BY <1>1, <1>2, <1>3, <1>4, <1>5

\* A receiving thread changes lines by its push only, which puts a message to the end
\* of one.
LEMMA RsvrLines ==
    ASSUME IInv, NEW r \in Rsvrs, RsvrStep(r), ~Push(r)
    PROVE  \A q \in Recvqs : Line(q)' = Line(q)
  <1>1. UNCHANGED <<wvars, handled>>
    BY RsvrWorkers
  <1>2. recvq' = recvq
    BY DEF RsvrStep, AddConn, Serve, Read, ReadAgain, Disconnected, Dropped, Silent, Switch, ParseSkip,
           ParseExp, IncRef, Cmd, All, Timeout, DecOld, FreeOld, qvars
  <1>3. QED
    BY <1>1, <1>2 DEF wvars, Line, InHand, Visiting, Unreleased, Nos

\* An element put to the end of the second part is put to the end of both.
LEMMA AppendLast ==
    ASSUME NEW f \in Seq(Nat), NEW s \in Seq(Nat), NEW n \in Nat
    PROVE  f \o Append(s, n) = Append(f \o s, n)
  <1> DEFINE k == Len(f)
             l == Len(s)
             S == Append(s, n)
             F == f \o s
             L == f \o S
             R == Append(F, n)
  <1>1. k \in Nat /\ l \in Nat
    OBVIOUS
  <1>2. S \in Seq(Nat) /\ Len(S) = l + 1 /\ (\A i \in 1..l : S[i] = s[i]) /\ S[l + 1] = n
    BY AppendProperties
  <1>3. F \in Seq(Nat) /\ Len(F) = k + l /\ \A i \in 1..(k + l) : F[i] = IF i <= k THEN f[i] ELSE s[i - k]
    BY ConcatProperties
  <1> HIDE DEF F, S
  <1>4. R \in Seq(Nat) /\ Len(R) = (k + l) + 1 /\ (\A i \in 1..(k + l) : R[i] = F[i]) /\ R[(k + l) + 1] = n
    <2>1. R \in Seq(Nat) /\ Len(R) = Len(F) + 1 /\ (\A i \in 1..Len(F) : R[i] = F[i]) /\ R[Len(F) + 1] = n
      <3>1. F \in Seq(Nat)
        BY <1>3
      <3> HIDE DEF k, l
      <3>2. QED
        BY <3>1, AppendProperties
    <2> HIDE DEF k, l, R
    <2>2. QED
      BY <1>3, <2>1
  <1>5. L \in Seq(Nat) /\ Len(L) = k + (l + 1) /\ \A i \in 1..(k + (l + 1)) : L[i] = IF i <= k THEN f[i] ELSE S[i - k]
    <2>1. L \in Seq(Nat) /\ Len(L) = Len(f) + Len(S)
      BY <1>2, ConcatProperties
    <2>2. \A i \in 1..Len(f) + Len(S) : L[i] = IF i <= Len(f) THEN f[i] ELSE S[i - Len(f)]
      BY <1>2, ConcatProperties
    <2> HIDE DEF L
    <2>3. QED
      BY <1>2, <2>1, <2>2
  <1> HIDE DEF k, l, L, R
  <1>6. ASSUME NEW i \in 1..(k + (l + 1)) PROVE L[i] = R[i]
    <2>1. CASE i <= k
      <3>1. i \in 1..(k + l)
        BY <1>1, <2>1
      <3>2. QED
        BY <1>3, <1>4, <1>5, <2>1, <3>1
    <2>2. CASE i > k /\ i # (k + l) + 1
      <3>1. i \in 1..(k + l) /\ ~(i <= k) /\ i - k \in 1..l
        BY <1>1, <2>2
      <3>2. QED
        BY <1>2, <1>3, <1>4, <1>5, <3>1
    <2>3. CASE i = (k + l) + 1
      <3>1. ~(i <= k) /\ i - k = l + 1
        BY <1>1, <2>3
      <3>2. QED
        BY <1>2, <1>4, <1>5, <2>3, <3>1
    <2>4. QED
      BY <1>1, <2>1, <2>2, <2>3
  <1>7. k + (l + 1) = (k + l) + 1
    BY <1>1
  <1>8. L = R
    BY <1>4, <1>5, <1>6, <1>7, SeqEqual
  <1>9. QED
    BY <1>8 DEF L, R, F, S

LEMMA PushLines ==
    ASSUME IInv, NEW r \in Rsvrs, Push(r), NEW c \in Conns, cur[r] = c, NEW q \in Recvqs, rq[r] = q
    PROVE  /\ Header(c).no \in Nat /\ Line(q)' = Append(Line(q), Header(c).no)
           /\ \A p \in Recvqs \ {q} : Line(p)' = Line(p)
  <1> DEFINE item == [base |-> base[c], at |-> optr[c], no |-> Header(c).no]
             n == Header(c).no
             f == handled[q] \o Nos(InHand(q))
  <1>1. rpc[r] = "push" /\ UNCHANGED <<wvars, handled>>
    BY DEF Push
  <1>2. recvq'[q] = Append(recvq[q], item) /\ \A p \in Recvqs \ {q} : recvq'[p] = recvq[p]
    BY PushedItem
  <1>3. item \in Item
    BY <1>1, PushedWhole
  <1>4. n \in Nat
    BY <1>3 DEF Item
  <1>5. f \in Seq(Nat) /\ Nos(recvq[q]) \in Seq(Nat) /\ recvq[q] \in Seq(Item)
    BY LineTypes
  <1>6. Nos(Append(recvq[q], item)) = Append(Nos(recvq[q]), item.no) /\ item.no = n
    BY <1>3, <1>5, NosAppend
  <1> HIDE DEF item, n
  <1>7. Line(q)' = f \o Append(Nos(recvq[q]), n)
    BY <1>1, <1>2, <1>6 DEF wvars, Line, InHand, Visiting, Unreleased, Nos
  <1>8. Line(q) = f \o Nos(recvq[q])
    BY DEF Line
  <1> HIDE DEF f
  <1>9. f \o Append(Nos(recvq[q]), n) = Append(f \o Nos(recvq[q]), n)
    BY <1>4, <1>5, AppendLast
  <1>10. \A p \in Recvqs \ {q} : Line(p)' = Line(p)
    BY <1>1, <1>2 DEF wvars, Line, InHand, Visiting, Unreleased, Nos
  <1>11. QED
    BY <1>4, <1>7, <1>8, <1>9, <1>10 DEF n

\* A worker moves messages along a line.
LEMMA WorkerLines ==
    ASSUME IInv, NEW w \in Workers, WorkStep(w)
    PROVE  \A q \in Recvqs : Line(q)' = Line(q)
  <1> SUFFICES ASSUME NEW q \in Recvqs PROVE Line(q)' = Line(q)
    OBVIOUS
  <1>1. ASSUME handled'[q] = handled[q], recvq'[q] = recvq[q], InHand(q)' = InHand(q) PROVE Line(q)' = Line(q)
    BY <1>1 DEF Line, Nos
  <1>2. /\ visit \in [Workers -> Seq(Recvqs)] /\ batch \in [Workers -> Seq(Item)] /\ wpc \in [Workers -> {"select", "pop", "proc", "free", "back"}]
        /\ recvq \in [Recvqs -> Seq(Item)] /\ handled \in [Recvqs -> Seq(Nat)]
    BY DEF IInv, TypeOK, WorkersOK, QueuesOK
  <1>3. wpc[w] \in {"select", "pop"} => batch[w] = <<>>
    BY DEF IInv, WorkersStand
  <1>4. wpc[w] # "select" => visit[w] # <<>> /\ Head(visit[w]) \in Recvqs /\ Head(visit[w]) \div HdlQnum = w
    BY AtQueue
  <1>5. CASE q \div HdlQnum # w
    <2>1. handled'[q] = handled[q] /\ recvq'[q] = recvq[q]
      BY <1>2, <1>4, <1>5 DEF WorkStep, WorkCmd, WorkSweep, WorkPop, WorkProc, WorkFree, WorkBack, qvars
    <2>2. InHand(q)' = InHand(q)
      BY <1>5, OthersVisit, Owners DEF InHand, Unreleased
    <2>3. QED
      BY <1>1, <2>1, <2>2
  <1>6. CASE q \div HdlQnum = w /\ (WorkCmd(w) \/ WorkSweep(w))
    <2>1. wpc[w] = "select" /\ wpc' = [wpc EXCEPT ![w] = "pop"] /\ UNCHANGED <<recvq, batch, handled>>
      BY <1>6 DEF WorkCmd, WorkSweep, qvars
    <2>2. Unreleased(w) = <<>> /\ Unreleased(w)' = <<>>
      BY <1>2, <1>3, <2>1 DEF Unreleased
    <2>3. InHand(q)' = InHand(q)
      BY <1>6, <2>2 DEF InHand
    <2>4. QED
      BY <1>1, <2>1, <2>3
  <1>7. CASE q \div HdlQnum = w /\ WorkPop(w)
    <2> DEFINE p == Head(visit[w])
    <2>1. /\ wpc[w] = "pop" /\ p \in Recvqs /\ visit[w] # <<>> /\ handled' = handled
          /\ batch'[w] = recvq[p] /\ recvq' = [recvq EXCEPT ![p] = <<>>]
          /\ recvq[p] # <<>> => visit'[w] = visit[w]
          /\ wpc'[w] \in {"proc", "pop", "select"}
      BY <1>2, <1>4, <1>7 DEF WorkPop
    <2>2. Unreleased(w) = <<>> /\ Unreleased(w)' = recvq[p]
      BY <1>3, <2>1 DEF Unreleased
    <2>3. InHand(q) = <<>>
      BY <1>7, <2>2 DEF InHand
    <2>4. CASE q # p
      <3>1. InHand(q)' = <<>>
        BY <1>7, <2>1, <2>2, <2>4 DEF InHand, Visiting
      <3>2. recvq'[q] = recvq[q] /\ handled'[q] = handled[q]
        BY <1>2, <2>1, <2>4
      <3>3. QED
        BY <1>1, <2>3, <3>1, <3>2
    <2>5. CASE q = p
      <3>1. InHand(q)' = recvq[q]
        BY <1>7, <2>1, <2>2, <2>5 DEF InHand, Visiting
      <3>2. recvq'[q] = <<>> /\ handled'[q] = handled[q]
        BY <1>2, <2>1, <2>5
      <3> DEFINE h == handled[q]
                 s == Nos(recvq[q])
      <3>3. h \in Seq(Nat) /\ s \in Seq(Nat)
        BY LineTypes
      <3>4. Line(q) = (h \o <<>>) \o s
        BY <2>3, NosEmpty DEF Line
      <3>5. Line(q)' = (h \o s) \o Nos(<<>>)
        BY <3>1, <3>2 DEF Line, Nos
      <3> HIDE DEF h, s
      <3>6. h \o <<>> = h /\ h \o s \in Seq(Nat)
        BY <3>3, ConcatEmptySeq, ConcatProperties
      <3>7. (h \o s) \o <<>> = h \o s
        BY <3>6, ConcatEmptySeq
      <3>8. QED
        BY <3>4, <3>5, <3>6, <3>7, NosEmpty
    <2>6. QED
      BY <2>4, <2>5
  <1>8. CASE q \div HdlQnum = w /\ WorkProc(w)
    <2> DEFINE item == Head(batch[w])
               p == Head(visit[w])
    <2>1. /\ wpc[w] = "proc" /\ p \in Recvqs /\ visit[w] # <<>> /\ UNCHANGED <<recvq, visit, batch>>
          /\ wpc'[w] \in {"free", "back"}
          /\ handled' = [handled EXCEPT ![p] = Append(@, mem[item.base][item.at + 1].no)]
      BY <1>2, <1>4, <1>8 DEF WorkProc, qvars
    <2>2. Unreleased(w) = batch[w] /\ Unreleased(w)' = Tail(batch[w])
      BY <2>1 DEF Unreleased
    <2>3. CASE q # p
      <3>1. InHand(q) = <<>> /\ InHand(q)' = <<>>
        BY <1>8, <2>1, <2>3 DEF InHand, Visiting
      <3>2. recvq'[q] = recvq[q] /\ handled'[q] = handled[q]
        BY <1>2, <2>1, <2>3
      <3>3. QED
        BY <1>1, <3>1, <3>2
    <2>4. CASE q = p
      <3>1. InHand(q) = batch[w] /\ InHand(q)' = Tail(batch[w])
        BY <1>8, <2>1, <2>2, <2>4 DEF InHand, Visiting
      <3>2. batch[w] \in Seq(Item) /\ batch[w] # <<>> /\ item = batch[w][1] /\ Whole(item)
        BY <2>1, AtItem
      <3>3. mem[item.base][item.at + 1].no = batch[w][1].no
        BY <3>2 DEF Whole
      <3>4. handled'[q] = Append(handled[q], batch[w][1].no)
        BY <1>2, <2>1, <2>4, <3>3
      <3>5. Append(handled[q], batch[w][1].no) \o Nos(Tail(batch[w])) = handled[q] \o Nos(batch[w])
        BY <1>2, <3>2, NosHandled
      <3>6. Line(q)' = (Append(handled[q], batch[w][1].no) \o Nos(Tail(batch[w]))) \o Nos(recvq[q])
        BY <2>1, <3>1, <3>4 DEF Line, Nos
      <3>7. QED
        BY <3>1, <3>5, <3>6 DEF Line
    <2>5. QED
      BY <2>3, <2>4
  <1>9. CASE q \div HdlQnum = w /\ (WorkFree(w) \/ WorkBack(w))
    <2>1. /\ wpc[w] \in {"free", "back"} /\ UNCHANGED <<recvq, visit, handled>>
          /\ WorkFree(w) => wpc'[w] = "back" /\ batch'[w] = batch[w]
          /\ WorkBack(w) => wpc'[w] \in {"proc", "pop"} /\ batch'[w] = Tail(batch[w])
      BY <1>2, <1>9 DEF WorkFree, WorkBack, qvars
    <2>2. Unreleased(w)' = Unreleased(w)
      BY <1>9, <2>1 DEF Unreleased
    <2>3. InHand(q)' = InHand(q)
      BY <1>9, <2>1, <2>2 DEF InHand, Visiting
    <2>4. QED
      BY <1>1, <2>1, <2>3
  <1>10. QED
    BY <1>5, <1>6, <1>7, <1>8, <1>9 DEF WorkStep

-----------------------------------------------------------------------------
(* The order of the lines. *)

\* What a connection has handed on is not taken back by a step of a thread.
LEMMA SentGrows ==
    ASSUME IInv, NEW r \in Rsvrs, RsvrStep(r), NEW c \in Conns, c \notin connq, base'[c] # None
    PROVE  base[c] # None /\ Sent(c) \in Nat /\ Sent(c)' \in Nat /\ Sent(c)' >= Sent(c)
  <1> DEFINE x == RsvrOf[c]
             d == Done(c)
             e == Done(c)'
  <1>1. x \in Rsvrs
    BY Sizes
  <1>2. base[c] # None /\ d \in Nat /\ e \in Nat /\ e >= d /\ (Cmd(r) /\ cur[r] = c => e >= d + 1)
    BY StreamStep
  <1>3. rpc[x] = "cmd" /\ cur[x] = c => (rpc'[x] = "cmd" /\ cur'[x] = c) \/ (Cmd(r) /\ cur[r] = c)
    <2>1. CASE x # r
      BY <1>1, <2>1, OwnMoves
    <2>2. CASE x = r
      <3>1. rpc[r] = "cmd" => Cmd(r)
        BY DEF RsvrStep, AddConn, Serve, Read, ReadAgain, Reading, Disconnected, Dropped, Silent, Switch, ParseSkip,
               ParseExp, IncRef, Push, All, Timeout, DecOld, FreeOld
      <3>2. QED
        BY <2>2, <3>1
    <2>3. QED
      BY <2>1, <2>2
  <1>4. Sent(c) = d + (IF rpc[x] = "cmd" /\ cur[x] = c THEN 1 ELSE 0)
    BY DEF Sent
  <1>5. Sent(c)' = e + (IF rpc'[x] = "cmd" /\ cur'[x] = c THEN 1 ELSE 0)
    BY DEF Sent
  <1> HIDE DEF d, e, x
  <1>6. QED
    BY <1>2, <1>3, <1>4, <1>5

\* The message a thread pushes follows all that its connection has handed on.
LEMMA PushedNext ==
    ASSUME IInv, NEW r \in Rsvrs, Push(r), NEW c \in Conns, cur[r] = c
    PROVE  LET i == Done(c) + 1
           IN  /\ i \in DOMAIN Stream[c] /\ Header(c) = Stream[c][i] /\ Header(c).no \in Nat
               /\ Header(c).kind = "exp" /\ c \notin connq \cup Refused /\ base[c] # None
               /\ base'[c] = base[c] /\ i <= Sent(c)'
               /\ \A p \in Recvqs : \A m \in Range(Line(p)) :
                     m # Header(c).no /\ (m \in Messages(c) => m < Header(c).no)
  <1> DEFINE i == Done(c) + 1
             n == Header(c).no
  <1>1. rpc[r] = "push" /\ UNCHANGED <<bvars, cvars, cur>> /\ rpc' = [rpc EXCEPT ![r] = "cmd"]
    BY DEF Push
  <1>2. base[c] # None /\ optr[c] < Iptr(c) /\ Header(c).kind = "exp" /\ c \in auth
    BY <1>1, PushedWhole
  <1>3. i \in DOMAIN Stream[c] /\ Header(c) = Stream[c][i] /\ Header(c).at = 1
    BY <1>2, HeaderInStream
  <1>4. c \notin connq \cup Refused
    BY <1>2 DEF IInv, TypeOK, ConnsOK
  <1>5. n \in Nat
    BY <1>3, StreamTypes DEF Unit
  <1>6. cur[r] # None /\ RsvrOf[c] = r
    BY Served, Sizes
  <1>7. Done(c) \in Nat /\ Sent(c) = Done(c)
    <2>1. Done(c) \in Nat
      BY <1>2, BufferTypes
    <2>2. Sent(c) = Done(c) + 0
      BY <1>1, <1>6 DEF Sent
    <2> DEFINE d == Done(c)
    <2> HIDE DEF d
    <2>3. d \in Nat /\ Sent(c) = d + 0
      BY <2>1, <2>2 DEF d
    <2>4. Sent(c) = d
      BY <2>3
    <2>5. QED
      BY <2>1, <2>4 DEF d
  <1>8. base'[c] = base[c] /\ Sent(c)' = i
    <2>1. Done(c)' = Done(c)
      BY <1>1 DEF bvars, cvars, Done, Iptr
    <2>2. rpc'[r] = "cmd" /\ cur'[r] = c
      BY <1>1 DEF IInv, TypeOK, RsvrsOK
    <2>3. QED
      BY <1>1, <1>6, <2>1, <2>2 DEF cvars, Sent
  <1>9. ASSUME NEW p \in Recvqs, NEW m \in Range(Line(p)), m \in Messages(c) PROVE m < n
    <2>1. PICK d \in Conns, k \in Nat : k \in DOMAIN Stream[d] /\ m = Stream[d][k].no /\ (base[d] # None => k <= Sent(d))
      <3>1. \E d \in Conns : \E k \in DOMAIN Stream[d] : m = Stream[d][k].no /\ (base[d] # None => k <= Sent(d))
        BY DEF IInv, LinesSent
      <3>2. \A d \in Conns : DOMAIN Stream[d] \subseteq Nat
        BY StreamTypes
      <3>3. QED
        BY <3>1, <3>2
    <2>2. m \in Messages(d)
      BY <2>1 DEF Messages
    <2>3. d = c
      BY <1>9, <2>2, RecvAssumption
    <2>4. k < i
      BY <1>2, <1>7, <2>1, <2>3
    <2>5. Stream[c][k].no < Stream[c][i].no
      BY <1>3, <2>1, <2>3, <2>4, StreamTypes DEF WellFormed
    <2>6. QED
      BY <1>3, <2>1, <2>3, <2>5
  <1>10. n \in Messages(c)
    BY <1>3 DEF Messages
  <1>11. \A p \in Recvqs : \A m \in Range(Line(p)) : m # n
    <2>1. ~(n < n)
      BY <1>5
    <2>2. QED
      BY <1>9, <1>10, <2>1
  <1>12. i <= Sent(c)'
    BY <1>7, <1>8
  <1>13. QED
    BY <1>2, <1>3, <1>4, <1>5, <1>8, <1>9, <1>11, <1>12

LinesPart == LinesSent /\ LinesInOrder /\ LinesApart

\* The lines stay.
LEMMA LinesStay ==
    ASSUME IInv, \A q \in Recvqs : Line(q)' = Line(q),
           \A c \in Conns : c \notin connq => c \notin connq',
           \A c \in Conns \ connq : base'[c] # None => base[c] # None /\ \A k \in Nat : k <= Sent(c) => k <= Sent(c)'
    PROVE  LinesPart'
  <1>1. LinesInOrder' /\ LinesApart'
    BY DEF IInv, LinesInOrder, LinesApart
  <1>2. LinesSent'
    <2> SUFFICES ASSUME NEW q \in Recvqs, NEW n \in Range(Line(q))
                 PROVE  \E c \in Conns \ (connq' \cup Refused) : \E k \in DOMAIN Stream[c] :
                           /\ n = Stream[c][k].no /\ Stream[c][k].kind = "exp"
                           /\ base'[c] # None => k <= Sent(c)'
      BY DEF LinesSent
    <2>1. PICK c \in Conns \ (connq \cup Refused) : \E k \in DOMAIN Stream[c] :
             n = Stream[c][k].no /\ Stream[c][k].kind = "exp" /\ (base[c] # None => k <= Sent(c))
      BY DEF IInv, LinesSent
    <2>2. PICK k \in DOMAIN Stream[c] :
             n = Stream[c][k].no /\ Stream[c][k].kind = "exp" /\ (base[c] # None => k <= Sent(c))
      BY <2>1
    <2>3. k \in Nat
      BY StreamTypes
    <2>4. QED
      BY <2>2, <2>3
  <1>3. QED
    BY <1>1, <1>2 DEF LinesPart

LEMMA PushOrder ==
    ASSUME IInv, NEW r \in Rsvrs, RsvrStep(r), Push(r)
    PROVE  LinesPart'
  <1>1. rpc[r] = "push" /\ cur[r] # None /\ UNCHANGED connq
    BY DEF Push, cvars, IInv, ThreadsStand
  <1>2. PICK c \in Conns : c = cur[r]
    BY <1>1, Served
  <1>3. PICK q \in Recvqs : q = rq[r]
    BY <1>1, PushFits
  <1> DEFINE n == Header(c).no
             i == Done(c) + 1
             L == Line(q)
             M == Line(q)'
  <1>4. n \in Nat /\ M = Append(L, n) /\ \A p \in Recvqs \ {q} : Line(p)' = Line(p)
    BY <1>2, <1>3, PushLines
  <1>5. /\ i \in DOMAIN Stream[c] /\ Stream[c][i].no = n /\ Stream[c][i].kind = "exp"
        /\ c \notin connq \cup Refused /\ i <= Sent(c)'
        /\ \A p \in Recvqs : \A m \in Range(Line(p)) : m # n /\ (m \in Messages(c) => m < n)
    BY <1>2, PushedNext
  <1>6. L \in Seq(Nat)
    BY LineTypes
  <1> HIDE DEF n, i, L, M
  <1>7. M \in Seq(Nat) /\ Len(M) = Len(L) + 1 /\ (\A k \in 1..Len(L) : M[k] = L[k]) /\ M[Len(L) + 1] = n
    BY <1>4, <1>6, AppendProperties
  <1>8. DOMAIN L = 1..Len(L) /\ DOMAIN M = 1..(Len(L) + 1) /\ Len(L) \in Nat
    BY <1>6, <1>7
  <1>9. \A m \in Range(M) : m \in Range(L) \/ m = n
    <2> SUFFICES ASSUME NEW k \in DOMAIN M PROVE M[k] \in Range(L) \/ M[k] = n
      BY DEF Range
    <2>1. k \in 1..Len(L) \/ k = Len(L) + 1
      BY <1>8
    <2>2. QED
      BY <1>7, <1>8, <2>1 DEF Range
  <1>10. ASSUME NEW p \in Recvqs, NEW m \in Range(Line(p)')
         PROVE  m \in Range(Line(p)) \/ (p = q /\ m = n)
    <2>1. CASE p = q
      BY <1>9, <2>1, <1>10 DEF L, M
    <2>2. CASE p # q
      BY <1>4, <2>2, <1>10
    <2>3. QED
      BY <2>1, <2>2
  <1>11. LinesSent'
    <2> SUFFICES ASSUME NEW p \in Recvqs, NEW m \in Range(Line(p)')
                 PROVE  \E d \in Conns \ (connq \cup Refused) : \E k \in DOMAIN Stream[d] :
                           /\ m = Stream[d][k].no /\ Stream[d][k].kind = "exp"
                           /\ base'[d] # None => k <= Sent(d)'
      BY <1>1 DEF LinesSent
    <2>1. CASE m = n
      BY <1>5, <2>1
    <2>2. CASE m \in Range(Line(p))
      <3>1. PICK d \in Conns \ (connq \cup Refused) : \E k \in DOMAIN Stream[d] :
               m = Stream[d][k].no /\ Stream[d][k].kind = "exp" /\ (base[d] # None => k <= Sent(d))
        BY <2>2 DEF IInv, LinesSent
      <3>2. PICK k \in DOMAIN Stream[d] :
               m = Stream[d][k].no /\ Stream[d][k].kind = "exp" /\ (base[d] # None => k <= Sent(d))
        BY <3>1
      <3>3. base'[d] # None => base[d] # None /\ Sent(d) \in Nat /\ Sent(d)' \in Nat /\ Sent(d)' >= Sent(d)
        BY SentGrows
      <3>4. k \in Nat
        BY StreamTypes
      <3>5. base'[d] # None => k <= Sent(d)'
        <4> DEFINE s == Sent(d)
                   t == Sent(d)'
        <4>1. base'[d] # None => s \in Nat /\ t \in Nat /\ t >= s /\ k <= s
          BY <3>2, <3>3
        <4> HIDE DEF s, t
        <4>2. base'[d] # None => k <= t
          BY <3>4, <4>1
        <4>3. QED
          BY <4>2 DEF t
      <3>6. QED
        BY <3>2, <3>5
    <2>3. QED
      BY <1>10, <2>1, <2>2
  <1>12. LinesInOrder'
    <2> SUFFICES ASSUME NEW d \in Conns, NEW p \in Recvqs, NEW j \in DOMAIN Line(p)', NEW k \in DOMAIN Line(p)',
                        j < k, Line(p)'[j] \in Messages(d), Line(p)'[k] \in Messages(d)
                 PROVE  Line(p)'[j] < Line(p)'[k]
      BY DEF LinesInOrder, Messages
    <2>1. CASE p # q
      BY <1>4, <2>1 DEF IInv, LinesInOrder
    <2>2. CASE p = q
      <3>1. j \in 1..(Len(L) + 1) /\ k \in 1..(Len(L) + 1) /\ j < k /\ M[j] \in Messages(d) /\ M[k] \in Messages(d)
        BY <1>8, <2>2 DEF M
      <3>2. j \in 1..Len(L) /\ M[j] = L[j]
        BY <1>7, <1>8, <3>1
      <3>3. CASE k \in 1..Len(L)
        <4>1. M[k] = L[k]
          BY <1>7, <3>3
        <4>2. L[j] < L[k]
          <5>1. \A a, b \in DOMAIN L : a < b /\ L[a] \in Messages(d) /\ L[b] \in Messages(d) => L[a] < L[b]
            BY DEF IInv, LinesInOrder, L
          <5>2. QED
            BY <1>8, <3>1, <3>2, <3>3, <4>1, <5>1
        <4>3. QED
          BY <2>2, <3>2, <4>1, <4>2 DEF M
      <3>4. CASE k = Len(L) + 1
        <4>1. M[k] = n /\ L[j] \in Range(L)
          BY <1>7, <1>8, <3>2, <3>4 DEF Range
        <4>2. n \in Messages(d) /\ n \in Messages(c)
          BY <1>5, <3>1, <4>1 DEF Messages
        <4>3. d = c
          BY <4>2, RecvAssumption
        <4>4. L[j] < n
          BY <1>5, <3>1, <3>2, <4>1, <4>3 DEF L
        <4>5. QED
          BY <2>2, <3>2, <4>1, <4>4 DEF M
      <3>5. QED
        BY <1>8, <3>1, <3>3, <3>4
    <2>3. QED
      BY <2>1, <2>2
  <1>13. LinesApart'
    <2> SUFFICES ASSUME NEW p \in Recvqs, NEW s \in Recvqs, p # s, NEW m,
                        m \in Range(Line(p)'), m \in Range(Line(s)')
                 PROVE  FALSE
      BY DEF LinesApart
    <2>1. m \in Range(Line(p)) /\ m \in Range(Line(s)) => FALSE
      BY DEF IInv, LinesApart
    <2>2. QED
      BY <1>5, <1>10, <2>1
  <1>14. QED
    BY <1>11, <1>12, <1>13 DEF LinesPart

LEMMA LinesKept ==
    ASSUME IInv, (\E r \in Rsvrs : RsvrStep(r)) \/ (\E w \in Workers : WorkStep(w))
    PROVE  LinesPart'
  <1>1. ASSUME NEW r \in Rsvrs, RsvrStep(r), ~Push(r) PROVE LinesPart'
    <2>1. \A q \in Recvqs : Line(q)' = Line(q)
      BY <1>1, RsvrLines
    <2>2. \A c \in Conns : c \notin connq => c \notin connq'
      BY <1>1 DEF RsvrStep, AddConn, Serve, Read, ReadAgain, Disconnected, Dropped, Silent, Switch, ParseSkip,
                  ParseExp, IncRef, Cmd, All, Timeout, DecOld, FreeOld, cvars
    <2>3. ASSUME NEW c \in Conns \ connq, base'[c] # None
          PROVE  base[c] # None /\ \A k \in Nat : k <= Sent(c) => k <= Sent(c)'
      <3> DEFINE s == Sent(c)
                 t == Sent(c)'
      <3>1. base[c] # None /\ s \in Nat /\ t \in Nat /\ t >= s
        BY <1>1, <2>3, SentGrows
      <3> HIDE DEF s, t
      <3>2. \A k \in Nat : k <= s => k <= t
        BY <3>1
      <3>3. QED
        BY <3>1, <3>2 DEF s, t
    <2>4. QED
      BY <2>1, <2>2, <2>3, LinesStay
  <1>2. ASSUME NEW w \in Workers, WorkStep(w) PROVE LinesPart'
    <2>1. \A q \in Recvqs : Line(q)' = Line(q)
      BY <1>2, WorkerLines
    <2>2. UNCHANGED <<connq, base, optr, got, rpc, cur>>
      BY <1>2, WorkerThreads DEF cvars, rvars
    <2>3. ASSUME NEW c \in Conns, base[c] # None PROVE Sent(c)' = Sent(c)
      <3>1. mem'[base[c]] = mem[base[c]]
        BY <1>2, <2>3, ConnHolds, MemKept, Sizes
      <3>2. QED
        BY <2>2, <3>1 DEF Sent, Done, Iptr
    <2>4. QED
      BY <2>1, <2>2, <2>3, LinesStay
  <1>3. QED
    BY <1>1, <1>2, PushOrder

-----------------------------------------------------------------------------
(* The invariant. *)

LEMMA InitIInv == Init => IInv
  <1> SUFFICES ASSUME Init PROVE IInv
    OBVIOUS
  <1>1. \A S : <<>> \in Seq(S)
    BY EmptySeq
  <1>2. Len(<<>>) = 0 /\ DOMAIN <<>> = {}
    BY EmptySeq
  <1>3. None \notin Buffs /\ None \notin Conns
    BY Sizes DEF Buffs
  <1>4. BuffsOK /\ ConnsOK
    <2>1. count \in [Buffs -> Nat \cup {None}] /\ mem \in [Buffs -> Seq(Unit)] /\ \A b \in Buffs : Len(mem[b]) <= BuffLen
      BY <1>1, <1>2, Sizes DEF Init
    <2>2. base \in [Conns -> Buffs \cup {None}] /\ optr \in [Conns -> 0..BuffLen] /\ got \in [Conns -> Nat]
      BY Sizes DEF Init
    <2>3. QED
      BY <2>1, <2>2 DEF Init, BuffsOK, ConnsOK
  <1>5. QueuesOK
    <2>1. pool \in [Recvqs -> 0..QueueMax]
      BY Sizes DEF Init, SlotNum
    <2>2. recvq \in [Recvqs -> Seq(Item)] /\ pipe \in [Workers -> Seq(Recvqs)]
      BY <1>1 DEF Init
    <2>3. \A w \in Workers : Len(pipe[w]) <= PipeMax
      BY <1>2, Sizes DEF Init
    <2>4. QED
      BY <2>1, <2>2, <2>3 DEF QueuesOK
  <1>6. RsvrsOK
    BY Sizes DEF Init, RsvrsOK
  <1>7. WorkersOK
    BY <1>1 DEF Init, WorkersOK
  <1>8. ThreadsStand /\ ConnsStand
    BY <1>3 DEF Init, ThreadsStand, ConnsStand
  <1>9. WorkersStand
    BY <1>1 DEF Init, WorkersStand
  <1>10. BlocksKept
    <2> SUFFICES ASSUME NEW q \in Recvqs
                 PROVE  /\ IsFiniteSet(Taking(q))
                        /\ pool[q] + Cardinality(Taking(q)) + Len(recvq[q]) + InBatch(q) = QueueMax
      BY DEF BlocksKept
    <2>1. Taking(q) = {}
      BY DEF Init, Taking
    <2>2. IsFiniteSet(Taking(q)) /\ Cardinality(Taking(q)) = 0
      BY <2>1, FS_EmptySet
    <2>3. pool[q] = QueueMax /\ Len(recvq[q]) = 0
      BY <1>2 DEF Init, SlotNum
    <2>4. InBatch(q) = 0
      BY Owners DEF Init, InBatch, Visiting
    <2>5. QED
      BY <2>2, <2>3, <2>4, Sizes
  <1>11. Counted
    <2> SUFFICES ASSUME NEW b \in Buffs PROVE CountedAt(b)
      BY AllCounted
    <2>1. count[b] = None /\ count[b] # 0
      BY Sizes DEF Init
    <2>2. Freeing(b) = {}
      BY DEF Init, Freeing
    <2>3. ConnRefs(b) = {} /\ OldRefs(b) = {} /\ NewRefs(b) = {}
      BY <1>3 DEF Init, ConnRefs, OldRefs, NewRefs
    <2>4. RecvqRefs(b) = {}
      BY <1>2 DEF Init, RecvqRefs
    <2>5. BatchRefs(b) = {}
      BY <1>2 DEF Init, BatchRefs, Pending
    <2>6. Holders(b) = {}
      BY <2>3, <2>4, <2>5 DEF Holders
    <2>7. IsFiniteSet(Holders(b))
      BY <2>6, FS_EmptySet
    <2>8. QED
      BY <2>1, <2>2, <2>6, <2>7 DEF CountedAt
  <1>12. InStream /\ MessageThere
    BY DEF Init, InStream, MessageThere
  <1>13. Intact
    BY <1>2 DEF Init, Intact, Pending
  <1>14. \A q \in Recvqs : Range(Line(q)) = {} /\ DOMAIN Line(q) = {}
    <2> SUFFICES ASSUME NEW q \in Recvqs PROVE DOMAIN Line(q) = {}
      BY DEF Range
    <2>1. handled[q] = <<>> /\ InHand(q) = <<>> /\ recvq[q] = <<>>
      BY Owners DEF Init, InHand, Visiting
    <2>2. Line(q) = (<<>> \o <<>>) \o <<>>
      BY <2>1, NosEmpty DEF Line
    <2>3. <<>> \o <<>> = <<>>
      BY <1>1, ConcatEmptySeq
    <2>4. QED
      BY <1>2, <2>2, <2>3
  <1>15. LinesSent /\ LinesInOrder /\ LinesApart
    BY <1>14 DEF LinesSent, LinesInOrder, LinesApart
  <1>16. QED
    BY <1>4, <1>5, <1>6, <1>7, <1>8, <1>9, <1>10, <1>11, <1>12, <1>13, <1>15 DEF IInv, TypeOK

LEMMA NextIInv == IInv /\ [Next]_vars => IInv'
  <1> SUFFICES ASSUME IInv, [Next]_vars PROVE IInv'
    OBVIOUS
  <1>1. CASE Next
    <2>1. (\E r \in Rsvrs : RsvrStep(r)) \/ (\E w \in Workers : WorkStep(w))
      BY <1>1 DEF Next
    <2>2. ThreadPart' /\ WorkerPart' /\ PipesOK' /\ BlockPart'
      <3>1. ASSUME NEW r \in Rsvrs, RsvrStep(r) PROVE ThreadPart' /\ WorkerPart' /\ PipesOK' /\ BlockPart'
        BY <3>1, RsvrThreads, RsvrWorkers, RsvrBlocks
      <3>2. ASSUME NEW w \in Workers, WorkStep(w) PROVE ThreadPart' /\ WorkerPart' /\ PipesOK' /\ BlockPart'
        BY <3>2, WorkerThreads, TakingWorkers, HandlingWorkers, WorkerBlocks DEF WorkStep
      <3>3. QED
        BY <2>1, <3>1, <3>2
    <2>3. BuffsOK' /\ InStream' /\ MessageThere' /\ Counted'
      BY <2>1, BuffPart
    <2>4. Intact'
      BY <2>1, RsvrIntact, WorkerIntact
    <2>5. LinesPart'
      BY <2>1, LinesKept
    <2>6. QED
      BY <2>2, <2>3, <2>4, <2>5
         DEF IInv, TypeOK, ThreadPart, WorkerPart, PipesOK, BlockPart, QueuesOK, LinesPart
  <1>2. CASE UNCHANGED vars
    <2>1. /\ UNCHANGED <<count, mem>> /\ UNCHANGED <<connq, base, optr, got, auth>> /\ UNCHANGED <<pool, recvq, pipe>>
          /\ UNCHANGED <<rpc, cur, rq, old, idle>> /\ UNCHANGED <<wpc, visit, batch, handled>>
      BY <1>2 DEF vars, bvars, cvars, qvars, rvars, wvars
    <2>2. TypeOK' /\ ThreadsStand' /\ WorkersStand' /\ ConnsStand'
      BY <2>1 DEF IInv, TypeOK, BuffsOK, ConnsOK, QueuesOK, RsvrsOK, WorkersOK, ThreadsStand, WorkersStand, ConnsStand
    <2>3. BlocksKept'
      BY <2>1 DEF IInv, BlocksKept, Taking, InBatch, Visiting
    <2>4. \A b \in Buffs : Holders(b)' = Holders(b) /\ Freeing(b)' = Freeing(b)
      BY <2>1 DEF Holders, ConnRefs, OldRefs, NewRefs, RecvqRefs, BatchRefs, Pending, Freeing
    <2>5. Counted'
      BY <2>1, <2>4 DEF IInv, Counted
    <2>6. InStream' /\ MessageThere'
      BY <2>1 DEF IInv, InStream, MessageThere, Done, Iptr, Complete, Accepted, Header
    <2>7. Intact'
      <3>1. \A w \in Workers : Pending(w)' = Pending(w)
        BY <2>1 DEF Pending
      <3>2. QED
        BY <2>1, <3>1, AllWhole DEF IInv
    <2>8. \A q \in Recvqs : Line(q)' = Line(q)
      BY <2>1 DEF Line, InHand, Unreleased, Visiting, Nos
    <2>9. \A c \in Conns : Sent(c)' = Sent(c)
      BY <2>1 DEF Sent, Done, Iptr
    <2>10. LinesPart'
      BY <2>1, <2>8, <2>9, LinesStay
    <2>11. QED
      BY <2>2, <2>3, <2>5, <2>6, <2>7, <2>10 DEF IInv, LinesPart
  <1>3. QED
    BY <1>1, <1>2

\* The inductive invariant holds in every state.
THEOREM Inductive == Spec => []IInv
  BY InitIInv, NextIInv, PTL DEF Spec

\* Every variable has its type, and no buffer is written beyond its end, however the
\* reads, the switches and the parsing of messages interleave (rtmq_rsvr_recv_proc,
\* rtmq_rsvr_switch_recv_buff).
THEOREM TypesKept == Spec => []TypeOK
  <1>1. IInv => TypeOK
    BY DEF IInv
  <1>2. QED
    BY <1>1, Inductive, PTL

\* The count of a buffer is the number of its references, exactly one thread frees it
\* when there are none, and a freed buffer has none (mref_inc, mref_dec).
THEOREM CountsExact == Spec => []BuffersCounted
  <1>1. ASSUME IInv PROVE BuffersCounted
    <2> SUFFICES ASSUME NEW b \in Buffs
                 PROVE  IF count[b] = None
                        THEN Holders(b) = {} /\ Freeing(b) = {}
                        ELSE /\ count[b] = Cardinality(Holders(b))
                             /\ Cardinality(Freeing(b)) = IF count[b] = 0 THEN 1 ELSE 0
      BY DEF BuffersCounted
    <2>1. CountedAt(b)
      BY <1>1, AllCounted DEF IInv
    <2>2. count[b] = None => Holders(b) = {} /\ Freeing(b) = {}
      BY <2>1, Sizes DEF CountedAt
    <2>3. count[b] = 0 => Cardinality(Freeing(b)) = 1
      BY <2>1, FS_Singleton DEF CountedAt
    <2>4. count[b] # 0 => Cardinality(Freeing(b)) = 0
      BY <2>1, FS_EmptySet DEF CountedAt
    <2>5. QED
      BY <2>1, <2>2, <2>3, <2>4 DEF CountedAt
  <1>2. QED
    BY <1>1, Inductive, PTL

\* An item in a queue or with a worker shows its message, whole, until it is released.
THEOREM ItemsIntact == Spec => []Intact
  <1>1. IInv => Intact
    BY DEF IInv
  <1>2. QED
    BY <1>1, Inductive, PTL

\* A thread that has taken a block finds room in the ring: the refusal of queue_push
\* that rtmq_rsvr_exp_mesg_proc does not look at never comes.
PushRoom == \A r \in Rsvrs : rpc[r] = "push" => Len(recvq[rq[r]]) < QueueMax

THEOREM PushNeverFails == Spec => []PushRoom
  <1>1. IInv => PushRoom
    BY PushFits DEF PushRoom
  <1>2. QED
    BY <1>1, Inductive, PTL

\* What was handled is the start of the line.
LEMMA HandledFirst ==
    ASSUME IInv, NEW q \in Recvqs
    PROVE  /\ DOMAIN handled[q] \subseteq DOMAIN Line(q)
           /\ \A i \in DOMAIN handled[q] : Line(q)[i] = handled[q][i]
           /\ Range(handled[q]) \subseteq Range(Line(q))
  <1> DEFINE h == handled[q]
             s == Nos(InHand(q))
             t == Nos(recvq[q])
             f == h \o s
             L == f \o t
  <1>1. h \in Seq(Nat) /\ s \in Seq(Nat) /\ t \in Seq(Nat)
    BY LineTypes
  <1>2. Line(q) = L
    BY DEF Line
  <1> HIDE DEF h, s, t
  <1>3. f \in Seq(Nat) /\ Len(f) = Len(h) + Len(s) /\ \A i \in 1..Len(h) + Len(s) : f[i] = IF i <= Len(h) THEN h[i] ELSE s[i - Len(h)]
    BY <1>1, ConcatProperties
  <1> HIDE DEF f
  <1>4. L \in Seq(Nat) /\ Len(L) = Len(f) + Len(t) /\ \A i \in 1..Len(f) + Len(t) : L[i] = IF i <= Len(f) THEN f[i] ELSE t[i - Len(f)]
    <2>1. f \in Seq(Nat)
      BY <1>3
    <2>2. QED
      BY <1>1, <2>1, ConcatProperties
  <1> HIDE DEF L
  <1>5. DOMAIN h = 1..Len(h) /\ DOMAIN L = 1..Len(L) /\ Len(h) \in Nat /\ Len(s) \in Nat /\ Len(t) \in Nat
    BY <1>1, <1>4
  <1>6. ASSUME NEW i \in DOMAIN h PROVE i \in DOMAIN L /\ L[i] = h[i]
    <2>1. i \in 1..Len(h) /\ i <= Len(h) /\ i \in 1..Len(h) + Len(s)
      BY <1>5
    <2>2. f[i] = h[i]
      BY <1>3, <2>1
    <2>3. i \in 1..Len(f) + Len(t) /\ i <= Len(f)
      BY <1>3, <1>5, <2>1
    <2>4. L[i] = f[i]
      BY <1>4, <2>3
    <2>5. QED
      BY <1>4, <1>5, <2>2, <2>3, <2>4
  <1>7. QED
    BY <1>2, <1>6 DEF Range, h

\* Workers see messages for the application of authenticated connections only, each at
\* most once, and those of a connection in the order they were sent as far as one
\* queue holds them.
THEOREM InOrder == Spec => []HandledInOrder
  <1>1. ASSUME IInv PROVE HandledInOrder
    <2>1. ASSUME NEW q \in Recvqs, NEW i \in DOMAIN handled[q]
          PROVE  \E c \in Conns \ Refused : handled[q][i] \in Exps(c)
      <3>1. handled[q][i] \in Range(Line(q))
        BY <1>1, <2>1, HandledFirst DEF Range
      <3>2. PICK c \in Conns \ (connq \cup Refused) : \E k \in DOMAIN Stream[c] :
               handled[q][i] = Stream[c][k].no /\ Stream[c][k].kind = "exp"
        BY <1>1, <3>1 DEF IInv, LinesSent
      <3>3. handled[q][i] \in Exps(c)
        BY <3>2 DEF Exps, Range
      <3>4. QED
        BY <3>2, <3>3
    <2>2. ASSUME NEW c \in Conns, NEW q \in Recvqs, NEW i \in DOMAIN handled[q], NEW j \in DOMAIN handled[q],
                 i < j, {handled[q][i], handled[q][j]} \subseteq Messages(c)
          PROVE  handled[q][i] < handled[q][j]
      BY <1>1, <2>2, HandledFirst DEF IInv, LinesInOrder
    <2>3. \A p, q \in Recvqs : p # q => Range(handled[p]) \cap Range(handled[q]) = {}
      BY <1>1, HandledFirst DEF IInv, LinesApart
    <2>4. QED
      BY <2>1, <2>2, <2>3 DEF HandledInOrder
  <1>2. QED
    BY <1>1, Inductive, PTL
=============================================================================
