---------------------- MODULE ShmQueueAccess_proofs ----------------------
(***************************************************************************)
(* Two services more, for every value of the constants.  The queue in      *)
(* shared memory: a block is in exactly one place, the pool has room for   *)
(* each block that is given back, and the counts are those of the rings;   *)
(* with the queues of the workers and the log, which Services_proofs is    *)
(* about, it makes the queues of the services exact.  The access layer:    *)
(* what a connection carries are the messages queued for it, in order, and *)
(* a thread is told of a freed socket only after a kick.                   *)
(***************************************************************************)
EXTENDS Services_proofs, WellFoundedInduction

-----------------------------------------------------------------------------
(* Places and spots. *)

\* A power of two that has room for every block.
LEMMA CapFacts ==
    /\ Cap \in Nat /\ Cap >= NumBlocks /\ Cap > 0 /\ Cap < Word16
    /\ NumBlocks \in Nat /\ NumBlocks > 0 /\ MaxBatch \in 1..NumBlocks /\ Word16 = 65536
  <1>1. Cap \in Powers /\ Cap >= NumBlocks
    BY CapAssumption DEF Cap
  <1>2. Word16 = 65536
    BY DEF Word16
  <1>3. Cap \in Nat
    BY <1>1, CapAssumption
  <1> QED
    BY <1>1, <1>2, <1>3, CapAssumption, ShmQueueAssumption

LEMMA PlaceDiv ==
    ASSUME NEW k \in Nat
    PROVE  /\ k \div Cap \in Nat
           /\ Place(k) \in 0..(Cap - 1)
           /\ k = (Cap * (k \div Cap)) + Place(k)
  <1> DEFINE c == Cap
  <1>1. c \in Nat /\ c > 0
    BY CapFacts
  <1> HIDE DEF c
  <1>2. /\ k \div c \in Nat
        /\ k % c \in 0..(c - 1)
        /\ k = (c * (k \div c)) + (k % c)
    BY <1>1, SMT
  <1> QED
    BY <1>2 DEF c, Place

LEMMA TimesDifference ==
    ASSUME NEW m \in Nat \ {0}, NEW a \in Nat, NEW b \in Nat
    PROVE  /\ m * (a - b) = (m * a) - (m * b)
           /\ a - b >= 1 => m * (a - b) >= m
           /\ a - b <= 0 => m * (a - b) <= 0
  BY SMT

\* Indexes less than a capacity apart have different places.
LEMMA PlacesApart ==
    ASSUME NEW k \in Nat, NEW j \in Nat, k < j, j - k < Cap
    PROVE  Place(k) # Place(j)
  <1> DEFINE q == k \div Cap
             r == j \div Cap
             s == Place(k)
             c == Cap
  <1> SUFFICES ASSUME Place(j) = s PROVE FALSE
    OBVIOUS
  <1>1. /\ q \in Nat /\ r \in Nat /\ s \in Nat
        /\ k = (c * q) + s
        /\ j = (c * r) + s
    BY PlaceDiv, CapFacts
  <1>2. c \in Nat \ {0} /\ j - k < c
    BY CapFacts
  <1> HIDE DEF q, r, s, c
  <1>3. j - k = (c * r) - (c * q)
    BY <1>1, <1>2
  <1>4. /\ j - k = c * (r - q)
        /\ r - q >= 1 => j - k >= c
        /\ r - q <= 0 => j - k <= 0
    BY <1>1, <1>2, <1>3, TimesDifference
  <1> QED
    BY <1>1, <1>2, <1>4

\* Where a block is: what is there, whose, and how many-th.
Spot(what, who, i) == <<what, who, i>>
LEMMA SpotsDiffer ==
    ASSUME NEW a, NEW b, NEW c
    PROVE  /\ Spot(a, b, c)[1] = a /\ Spot(a, b, c)[2] = b /\ Spot(a, b, c)[3] = c
           /\ \A x, y, z : Spot(a, b, c) = Spot(x, y, z) => a = x /\ b = y /\ c = z
  BY DEF Spot

\* What the processes have in hand, the blocks filled and those popped; the hand a push
\* to a ring takes from, and the one a pop puts into.
Hands == {"filled", "taken"}
Own(f, t) == [k \in Hands |-> IF k = "filled" THEN f ELSE t]
From(r) == IF r = "queue" THEN "filled" ELSE "taken"
Into(r) == IF r = "slot" THEN "filled" ELSE "taken"

\* The indexes a call has reserved.
Within(st, i) == st.head <= i /\ i < st.head + st.n
Pushes == {"push_copy", "push_tail"}
Pops == {"pop_copy", "pop_tail"}

InRing(c, p, r, i) == c[r] <= i /\ i < p[r]
InCopy(st, i) == st.do = "pop_copy" /\ Within(st, i)

Spots(c, p, s, own) ==
    {l \in ({"ring", "copy"} \cup Hands) \X (Rings \cup Procs) \X Nat :
        \/ l[1] = "ring" /\ l[2] \in Rings /\ InRing(c, p, l[2], l[3])
        \/ l[1] = "copy" /\ l[2] \in Procs /\ InCopy(s[l[2]], l[3])
        \/ l[1] \in Hands /\ l[2] \in Procs /\ l[3] \in DOMAIN own[l[1]][l[2]]}

\* The block at each spot.
Held(c, p, o, s, own) ==
    [l \in Spots(c, p, s, own) |->
        IF l[1] = "ring" THEN o[l[2]][Place(l[3])]
        ELSE IF l[1] = "copy" THEN o[s[l[2]].ring][Place(l[3])]
        ELSE own[l[1]][l[2]][l[3]]]

AreHeld(I, c, p, o, s, own) ==
    /\ \A r \in Rings : \A i \in Nat : InRing(c, p, r, i) =>
          Spot("ring", r, i) \in DOMAIN I /\ I[Spot("ring", r, i)] = o[r][Place(i)]
    /\ \A q \in Procs : \A i \in Nat : InCopy(s[q], i) =>
          Spot("copy", q, i) \in DOMAIN I /\ I[Spot("copy", q, i)] = o[s[q].ring][Place(i)]
    /\ \A k \in Hands : \A q \in Procs : \A i \in Nat : i \in DOMAIN own[k][q] =>
          Spot(k, q, i) \in DOMAIN I /\ I[Spot(k, q, i)] = own[k][q][i]
    /\ \A l \in DOMAIN I :
          \/ \E r \in Rings : \E i \in Nat : InRing(c, p, r, i) /\ l = Spot("ring", r, i)
          \/ \E q \in Procs : \E i \in Nat : InCopy(s[q], i) /\ l = Spot("copy", q, i)
          \/ \E k \in Hands : \E q \in Procs : \E i \in Nat : i \in DOMAIN own[k][q] /\ l = Spot(k, q, i)

LEMMA HeldAre ==
    ASSUME NEW c, NEW p, NEW o, NEW s, NEW own PROVE AreHeld(Held(c, p, o, s, own), c, p, o, s, own)
  <1> DEFINE S == Spots(c, p, s, own)
             I == Held(c, p, o, s, own)
  <1>1. ASSUME NEW r \in Rings, NEW i \in Nat, InRing(c, p, r, i)
        PROVE  Spot("ring", r, i) \in DOMAIN I /\ I[Spot("ring", r, i)] = o[r][Place(i)]
    <2>1. Spot("ring", r, i) \in S
      BY <1>1 DEF Spot, Spots
    <2> QED
      BY <2>1, SpotsDiffer DEF Held
  <1>2. ASSUME NEW q \in Procs, NEW i \in Nat, InCopy(s[q], i)
        PROVE  Spot("copy", q, i) \in DOMAIN I /\ I[Spot("copy", q, i)] = o[s[q].ring][Place(i)]
    <2>1. Spot("copy", q, i) \in S
      BY <1>2 DEF Spot, Spots
    <2> QED
      BY <2>1, SpotsDiffer DEF Held
  <1>3. ASSUME NEW k \in Hands, NEW q \in Procs, NEW i \in Nat, i \in DOMAIN own[k][q]
        PROVE  Spot(k, q, i) \in DOMAIN I /\ I[Spot(k, q, i)] = own[k][q][i]
    <2>1. Spot(k, q, i) \in S
      BY <1>3 DEF Spot, Spots
    <2> QED
      BY <2>1, SpotsDiffer DEF Held, Hands
  <1>4. ASSUME NEW l \in DOMAIN I
        PROVE  \/ \E r \in Rings : \E i \in Nat : InRing(c, p, r, i) /\ l = Spot("ring", r, i)
               \/ \E q \in Procs : \E i \in Nat : InCopy(s[q], i) /\ l = Spot("copy", q, i)
               \/ \E k \in Hands : \E q \in Procs : \E i \in Nat :
                     i \in DOMAIN own[k][q] /\ l = Spot(k, q, i)
    <2>1. l \in S
      BY DEF Held
    <2>2. l = Spot(l[1], l[2], l[3]) /\ l[3] \in Nat
      BY <2>1 DEF Spots, Spot
    <2> QED
      BY <2>1, <2>2 DEF Spots
  <1> QED
    BY <1>1, <1>2, <1>3, <1>4 DEF AreHeld

\* Each block is at exactly one spot.
Once(I) ==
    /\ \A l \in DOMAIN I : I[l] \in QBlocks
    /\ \A k, l \in DOMAIN I : I[k] = I[l] => k = l
    /\ \A b \in QBlocks : \E l \in DOMAIN I : I[l] = b

\* It remains so when the blocks change spots, one for one.
LEMMA SpotsChange ==
    ASSUME NEW I, NEW J, Once(I), NEW F \in [DOMAIN J -> DOMAIN I], NEW G \in [DOMAIN I -> DOMAIN J],
           \A l \in DOMAIN J : G[F[l]] = l /\ J[l] = I[F[l]],
           \A l \in DOMAIN I : F[G[l]] = l
    PROVE  Once(J)
  BY DEF Once

Doings ==
    {"push_head", "push_room", "push_cas", "push_copy", "push_tail", "push_num",
     "pop_head", "pop_data", "pop_cas", "pop_copy", "pop_tail", "pop_num"}

CallStates ==
    {NoCall} \cup [do : {"push_head", "pop_head"}, ring : Rings, n : QBlocks]
             \cup [do : Doings, ring : Rings, n : QBlocks, head : Nat]

Headless == {"no", "push_head", "pop_head"}

ShmTypes ==
    /\ ph \in [Rings -> Nat] /\ pt \in [Rings -> Nat]
    /\ ch \in [Rings -> Nat] /\ ct \in [Rings -> Nat]
    /\ off \in [Rings -> [0 .. Cap - 1 -> Nat]]
    /\ shm \in [Procs -> CallStates]
    /\ filled \in [Procs -> Seq(QBlocks)] /\ taken \in [Procs -> Seq(QBlocks)]

LEMMA CallKnows ==
    ASSUME NEW st \in CallStates
    PROVE  /\ st.do \in Doings \cup {"no"}
           /\ st.do = "no" <=> st = NoCall
           /\ st.do # "no" => st.ring \in Rings /\ st.n \in QBlocks /\ st.n \in Nat /\ st.n > 0
           /\ st.do \notin Headless => st.head \in Nat
  BY CapFacts DEF CallStates, NoCall, Doings, Headless, QBlocks

\* A call that goes on keeps its ring, its number and its head.
LEMMA CallGoesOn ==
    ASSUME NEW st \in CallStates, st.do \notin Headless, NEW do \in Doings
    PROVE  LET new == [st EXCEPT !.do = do]
           IN  new \in CallStates /\ new.do = do /\ new.ring = st.ring /\ new.n = st.n /\ new.head = st.head
  <1>1. st \in [do : Doings, ring : Rings, n : QBlocks, head : Nat]
    BY DEF CallStates, NoCall, Headless
  <1> QED
    BY <1>1 DEF CallStates

\* The calls that do one of D have reserved what is between lo and hi, each its own.
Reserved(s, D, lo, hi) ==
    /\ \A p \in Procs : s[p].do \in D =>
          lo[s[p].ring] <= s[p].head /\ s[p].head + s[p].n <= hi[s[p].ring]
    /\ \A p, q \in Procs : s[p].do \in D /\ s[q].do \in D /\ s[p].ring = s[q].ring =>
          p = q \/ s[p].head + s[p].n <= s[q].head \/ s[q].head + s[q].n <= s[p].head
    /\ \A r \in Rings : \A i \in Nat : lo[r] <= i /\ i < hi[r] =>
          \E p \in Procs : s[p].do \in D /\ s[p].ring = r /\ Within(s[p], i)

LEMMA ReservedAside ==
    ASSUME NEW s \in [Procs -> CallStates], NEW D, NEW lo, NEW hi, Reserved(s, D, lo, hi),
           NEW p \in Procs, NEW st, s[p].do \notin D, st.do \notin D
    PROVE  Reserved([s EXCEPT ![p] = st], D, lo, hi)
  <1> DEFINE t == [s EXCEPT ![p] = st]
  <1>1. \A q \in Procs : IF q = p THEN t[q] = st ELSE t[q] = s[q]
    OBVIOUS
  <1> HIDE DEF t
  <1>2. Reserved(t, D, lo, hi)
    BY <1>1 DEF Reserved
  <1> QED
    BY <1>2 DEF t

LEMMA ReservedStill ==
    ASSUME NEW s \in [Procs -> CallStates], NEW D, NEW lo, NEW hi, Reserved(s, D, lo, hi),
           NEW p \in Procs, NEW st, s[p].do \in D, st.do \in D,
           st.ring = s[p].ring, st.n = s[p].n, st.head = s[p].head
    PROVE  Reserved([s EXCEPT ![p] = st], D, lo, hi)
  <1> DEFINE t == [s EXCEPT ![p] = st]
  <1>1. \A q \in Procs : /\ t[q].do \in D <=> s[q].do \in D
                         /\ s[q].do \in D => t[q].ring = s[q].ring /\ t[q].n = s[q].n /\ t[q].head = s[q].head
    OBVIOUS
  <1> HIDE DEF t
  <1>2. Reserved(t, D, lo, hi)
    BY <1>1 DEF Reserved, Within
  <1> QED
    BY <1>2 DEF t

\* A compare-and-set reserves what follows.
LEMMA ReservedMore ==
    ASSUME NEW s \in [Procs -> CallStates], NEW D \in SUBSET (Pushes \cup Pops),
           NEW lo \in [Rings -> Nat], NEW hi \in [Rings -> Nat],
           \A r \in Rings : lo[r] <= hi[r], Reserved(s, D, lo, hi),
           NEW p \in Procs, NEW st \in CallStates, s[p].do \notin D, st.do \in D, st.head = hi[st.ring]
    PROVE  Reserved([s EXCEPT ![p] = st], D, lo, [hi EXCEPT ![st.ring] = @ + st.n])
  <1> DEFINE t == [s EXCEPT ![p] = st]
             r == st.ring
             up == [hi EXCEPT ![r] = @ + st.n]
  <1>1. /\ \A q \in Procs : IF q = p THEN t[q] = st ELSE t[q] = s[q]
        /\ p \in Procs /\ s[p].do \notin D /\ st.do \in D
    OBVIOUS
  <1>2. D \cap Headless = {}
    BY DEF Pushes, Pops, Headless
  <1>3. /\ r \in Rings /\ st.n \in Nat /\ st.n > 0 /\ st.head \in Nat /\ st.head = hi[r] /\ st.ring = r
        /\ \A q \in Procs : s[q].do \in D =>
              s[q].ring \in Rings /\ s[q].n \in Nat /\ s[q].n > 0 /\ s[q].head \in Nat
    BY <1>2, CallKnows DEF Headless
  <1>4. /\ \A x \in Rings : lo[x] \in Nat /\ hi[x] \in Nat /\ lo[x] <= hi[x]
        /\ \A x \in Rings : up[x] = IF x = r THEN hi[x] + st.n ELSE hi[x]
    BY <1>3
  <1>5. Reserved(s, D, lo, hi)
    OBVIOUS
  <1> HIDE DEF t, up, r
  <1>6. \A q \in Procs : t[q].do \in D => lo[t[q].ring] <= t[q].head /\ t[q].head + t[q].n <= up[t[q].ring]
    BY <1>1, <1>3, <1>4, <1>5 DEF Reserved
  <1>7. ASSUME NEW q \in Procs, NEW u \in Procs, t[q].do \in D, t[u].do \in D, t[q].ring = t[u].ring
        PROVE  q = u \/ t[q].head + t[q].n <= t[u].head \/ t[u].head + t[u].n <= t[q].head
    BY <1>1, <1>3, <1>4, <1>5, <1>7 DEF Reserved
  <1>8. ASSUME NEW x \in Rings, NEW i \in Nat, lo[x] <= i, i < up[x]
        PROVE  \E q \in Procs : t[q].do \in D /\ t[q].ring = x /\ Within(t[q], i)
    <2>1. CASE i < hi[x]
      <3>1. PICK q \in Procs : s[q].do \in D /\ s[q].ring = x /\ Within(s[q], i)
        BY <1>5, <1>8, <2>1 DEF Reserved
      <3> QED
        BY <1>1, <3>1
    <2>2. CASE i >= hi[x]
      <3>1. x = r /\ Within(st, i)
        BY <1>3, <1>4, <1>8, <2>2 DEF Within
      <3> QED
        BY <1>1, <1>3, <3>1
    <2> QED
      BY <1>4, <2>1, <2>2
  <1>9. Reserved(t, D, lo, up)
    BY <1>6, <1>7, <1>8 DEF Reserved
  <1> QED
    BY <1>9 DEF t, up, r

\* Moving the tail gives up what was reserved first.
LEMMA ReservedLess ==
    ASSUME NEW s \in [Procs -> CallStates], NEW D \in SUBSET (Pushes \cup Pops),
           NEW lo \in [Rings -> Nat], NEW hi \in [Rings -> Nat], Reserved(s, D, lo, hi),
           NEW p \in Procs, s[p].do \in D, lo[s[p].ring] = s[p].head, NEW st, st.do \notin D
    PROVE  /\ Reserved([s EXCEPT ![p] = st], D, [lo EXCEPT ![s[p].ring] = @ + s[p].n], hi)
           /\ lo[s[p].ring] + s[p].n <= hi[s[p].ring]
  <1> DEFINE t == [s EXCEPT ![p] = st]
             r == s[p].ring
             low == [lo EXCEPT ![r] = @ + s[p].n]
  <1>1. /\ \A q \in Procs : IF q = p THEN t[q] = st ELSE t[q] = s[q]
        /\ p \in Procs /\ s[p].do \in D /\ st.do \notin D
    OBVIOUS
  <1>2. D \cap Headless = {}
    BY DEF Pushes, Pops, Headless
  <1>3. /\ s[p].ring = r /\ lo[r] = s[p].head
        /\ \A q \in Procs : s[q].do \in D =>
              s[q].ring \in Rings /\ s[q].n \in Nat /\ s[q].n > 0 /\ s[q].head \in Nat
    BY <1>2, CallKnows DEF Headless
  <1>4. /\ \A x \in Rings : lo[x] \in Nat /\ hi[x] \in Nat
        /\ \A x \in Rings : low[x] = IF x = r THEN lo[x] + s[p].n ELSE lo[x]
    BY <1>1, <1>3
  <1>5. Reserved(s, D, lo, hi)
    OBVIOUS
  <1> HIDE DEF t, low, r
  <1>6. ASSUME NEW q \in Procs, t[q].do \in D
        PROVE  low[t[q].ring] <= t[q].head /\ t[q].head + t[q].n <= hi[t[q].ring]
    <2>1. q # p /\ t[q] = s[q] /\ s[q].do \in D
      BY <1>1, <1>6
    <2>2. lo[s[q].ring] <= s[q].head /\ s[q].head + s[q].n <= hi[s[q].ring]
      BY <1>5, <2>1 DEF Reserved
    <2>3. CASE s[q].ring = r
      <3>1. s[p].head + s[p].n <= s[q].head \/ s[q].head + s[q].n <= s[p].head
        BY <1>1, <1>3, <1>5, <2>1, <2>3 DEF Reserved
      <3>2. s[p].head + s[p].n <= s[q].head
        BY <1>1, <1>3, <1>4, <2>1, <2>2, <2>3, <3>1
      <3> QED
        BY <1>1, <1>3, <1>4, <2>1, <2>2, <2>3, <3>2
    <2>4. CASE s[q].ring # r
      BY <1>3, <1>4, <2>1, <2>2, <2>4
    <2> QED
      BY <2>3, <2>4
  <1>7. \A q, u \in Procs : t[q].do \in D /\ t[u].do \in D /\ t[q].ring = t[u].ring =>
          q = u \/ t[q].head + t[q].n <= t[u].head \/ t[u].head + t[u].n <= t[q].head
    BY <1>1, <1>5 DEF Reserved
  <1>8. ASSUME NEW x \in Rings, NEW i \in Nat, low[x] <= i, i < hi[x]
        PROVE  \E q \in Procs : t[q].do \in D /\ t[q].ring = x /\ Within(t[q], i)
    <2>1. lo[x] <= i
      BY <1>1, <1>3, <1>4, <1>8
    <2>2. PICK q \in Procs : s[q].do \in D /\ s[q].ring = x /\ Within(s[q], i)
      BY <1>5, <1>8, <2>1 DEF Reserved
    <2>3. q # p
      <3> SUFFICES ASSUME q = p PROVE FALSE
        OBVIOUS
      <3>1. x = r /\ i < s[p].head + s[p].n
        BY <1>3, <2>2 DEF Within
      <3> QED
        BY <1>1, <1>3, <1>4, <1>8, <3>1
    <2> QED
      BY <1>1, <2>2, <2>3
  <1>9. Reserved(t, D, low, hi)
    BY <1>6, <1>7, <1>8 DEF Reserved
  <1>10. lo[r] + s[p].n <= hi[r]
    BY <1>1, <1>3, <1>5 DEF Reserved
  <1> QED
    BY <1>9, <1>10 DEF t, low, r

\* Nothing moves when only calls that copy nothing go on, and what is written is at no spot.
LEMMA SpotsStay ==
    ASSUME NEW I, NEW J, Once(I), NEW c, NEW p, NEW o, NEW s, NEW own, NEW o2, NEW s2,
           AreHeld(I, c, p, o, s, own), AreHeld(J, c, p, o2, s2, own),
           \A r \in Rings : \A i \in Nat : InRing(c, p, r, i) => o2[r][Place(i)] = o[r][Place(i)],
           \A q \in Procs : \A i \in Nat :
              /\ InCopy(s2[q], i) <=> InCopy(s[q], i)
              /\ InCopy(s[q], i) => o2[s2[q].ring][Place(i)] = o[s[q].ring][Place(i)]
    PROVE  Once(J)
  <1>1. ASSUME NEW l \in DOMAIN J PROVE l \in DOMAIN I /\ J[l] = I[l]
    <2>1. CASE \E r \in Rings : \E i \in Nat : InRing(c, p, r, i) /\ l = Spot("ring", r, i)
      BY <2>1 DEF AreHeld
    <2>2. CASE \E q \in Procs : \E i \in Nat : InCopy(s2[q], i) /\ l = Spot("copy", q, i)
      BY <2>2 DEF AreHeld
    <2>3. CASE \E k \in Hands : \E q \in Procs : \E i \in Nat : i \in DOMAIN own[k][q] /\ l = Spot(k, q, i)
      BY <2>3 DEF AreHeld
    <2> QED
      BY <2>1, <2>2, <2>3 DEF AreHeld
  <1>2. ASSUME NEW l \in DOMAIN I PROVE l \in DOMAIN J
    <2>1. CASE \E r \in Rings : \E i \in Nat : InRing(c, p, r, i) /\ l = Spot("ring", r, i)
      BY <2>1 DEF AreHeld
    <2>2. CASE \E q \in Procs : \E i \in Nat : InCopy(s[q], i) /\ l = Spot("copy", q, i)
      BY <2>2 DEF AreHeld
    <2>3. CASE \E k \in Hands : \E q \in Procs : \E i \in Nat : i \in DOMAIN own[k][q] /\ l = Spot(k, q, i)
      BY <2>3 DEF AreHeld
    <2> QED
      BY <2>1, <2>2, <2>3 DEF AreHeld
  <1> QED
    BY <1>1, <1>2 DEF Once

\* The compare-and-set of a pop takes what is first in the ring.
LEMMA SpotsReserved ==
    ASSUME NEW I, NEW J, Once(I), NEW c, NEW c2, NEW p, NEW o, NEW s, NEW own, NEW s2, NEW w \in Procs,
           AreHeld(I, c, p, o, s, own), AreHeld(J, c2, p, o, s2, own), NEW r \in Rings, NEW n \in Nat,
           c[r] \in Nat, p[r] \in Nat, c[r] + n <= p[r], c2[r] = c[r] + n,
           \A x \in Rings : x # r => c2[x] = c[x],
           s[w].do # "pop_copy", s2[w].do = "pop_copy", s2[w].ring = r, s2[w].n = n, s2[w].head = c[r],
           \A q \in Procs : q # w => s2[q] = s[q]
    PROVE  Once(J)
  <1> DEFINE f(l) == IF l[1] = "copy" /\ l[2] = w THEN Spot("ring", r, l[3]) ELSE l
             g(l) == IF l[1] = "ring" /\ l[2] = r /\ l[3] < c[r] + n THEN Spot("copy", w, l[3]) ELSE l
  <1>1. /\ \A x \in Rings : \A i \in Nat :
              InRing(c, p, x, i) <=> InRing(c2, p, x, i) \/ (x = r /\ InCopy(s2[w], i))
        /\ \A i \in Nat : InRing(c, p, r, i) /\ i < c[r] + n <=> InCopy(s2[w], i)
        /\ \A i \in Nat : InRing(c2, p, r, i) => ~(i < c[r] + n)
        /\ \A q \in Procs : \A i \in Nat : InCopy(s[q], i) <=> q # w /\ InCopy(s2[q], i)
    BY DEF InRing, InCopy, Within
  <1>2. ASSUME NEW l \in DOMAIN J PROVE f(l) \in DOMAIN I /\ J[l] = I[f(l)] /\ g(f(l)) = l
    <2>1. ASSUME NEW x \in Rings, NEW i \in Nat, InRing(c2, p, x, i), l = Spot("ring", x, i)
          PROVE  f(l) = l /\ g(l) = l /\ InRing(c, p, x, i)
      BY <1>1, <2>1, SpotsDiffer
    <2>2. ASSUME NEW q \in Procs, NEW i \in Nat, InCopy(s2[q], i), l = Spot("copy", q, i)
          PROVE  f(l) \in DOMAIN I /\ J[l] = I[f(l)] /\ g(f(l)) = l
      <3>1. l[1] = "copy" /\ l[2] = q /\ l[3] = i
        BY <2>2, SpotsDiffer
      <3>2. CASE q = w
        <4>1. f(l) = Spot("ring", r, i) /\ InRing(c, p, r, i) /\ i < c[r] + n
          BY <1>1, <2>2, <3>1, <3>2
        <4>2. g(f(l)) = Spot("copy", w, i)
          BY <4>1, SpotsDiffer
        <4> QED
          BY <2>2, <3>2, <4>1, <4>2 DEF AreHeld
      <3>3. CASE q # w
        <4>1. f(l) = l /\ g(l) = l /\ InCopy(s[q], i)
          BY <1>1, <2>2, <3>1, <3>3
        <4> QED
          BY <2>2, <3>3, <4>1 DEF AreHeld
      <3> QED
        BY <3>2, <3>3
    <2>3. ASSUME NEW k \in Hands, NEW q \in Procs, NEW i \in Nat, i \in DOMAIN own[k][q], l = Spot(k, q, i)
          PROVE  f(l) = l /\ g(l) = l
      BY <2>3, SpotsDiffer DEF Hands
    <2> HIDE DEF f, g
    <2>4. CASE \E x \in Rings : \E i \in Nat : InRing(c2, p, x, i) /\ l = Spot("ring", x, i)
      BY <2>1, <2>4 DEF AreHeld
    <2>5. CASE \E q \in Procs : \E i \in Nat : InCopy(s2[q], i) /\ l = Spot("copy", q, i)
      BY <2>2, <2>5
    <2>6. CASE \E k \in Hands : \E q \in Procs : \E i \in Nat : i \in DOMAIN own[k][q] /\ l = Spot(k, q, i)
      BY <2>3, <2>6 DEF AreHeld
    <2> QED
      BY <2>4, <2>5, <2>6 DEF AreHeld
  <1>3. ASSUME NEW l \in DOMAIN I PROVE g(l) \in DOMAIN J /\ f(g(l)) = l
    <2>1. ASSUME NEW x \in Rings, NEW i \in Nat, InRing(c, p, x, i), l = Spot("ring", x, i)
          PROVE  g(l) \in DOMAIN J /\ f(g(l)) = l
      <3>1. l[1] = "ring" /\ l[2] = x /\ l[3] = i
        BY <2>1, SpotsDiffer
      <3>2. CASE x = r /\ i < c[r] + n
        <4>1. g(l) = Spot("copy", w, i) /\ InCopy(s2[w], i)
          BY <1>1, <2>1, <3>1, <3>2
        <4>2. f(g(l)) = Spot("ring", r, i)
          BY <4>1, SpotsDiffer
        <4> QED
          BY <2>1, <3>2, <4>1, <4>2 DEF AreHeld
      <3>3. CASE ~(x = r /\ i < c[r] + n)
        <4>1. g(l) = l /\ f(l) = l /\ InRing(c2, p, x, i)
          BY <1>1, <2>1, <3>1, <3>3
        <4> QED
          BY <2>1, <4>1 DEF AreHeld
      <3> QED
        BY <3>2, <3>3
    <2>2. ASSUME NEW q \in Procs, NEW i \in Nat, InCopy(s[q], i), l = Spot("copy", q, i)
          PROVE  f(l) = l /\ g(l) = l /\ InCopy(s2[q], i)
      BY <1>1, <2>2, SpotsDiffer
    <2>3. ASSUME NEW k \in Hands, NEW q \in Procs, NEW i \in Nat, i \in DOMAIN own[k][q], l = Spot(k, q, i)
          PROVE  f(l) = l /\ g(l) = l
      BY <2>3, SpotsDiffer DEF Hands
    <2> HIDE DEF f, g
    <2>4. CASE \E x \in Rings : \E i \in Nat : InRing(c, p, x, i) /\ l = Spot("ring", x, i)
      BY <2>1, <2>4
    <2>5. CASE \E q \in Procs : \E i \in Nat : InCopy(s[q], i) /\ l = Spot("copy", q, i)
      BY <2>2, <2>5 DEF AreHeld
    <2>6. CASE \E k \in Hands : \E q \in Procs : \E i \in Nat : i \in DOMAIN own[k][q] /\ l = Spot(k, q, i)
      BY <2>3, <2>6 DEF AreHeld
    <2> QED
      BY <2>4, <2>5, <2>6 DEF AreHeld
  <1> DEFINE F == [l \in DOMAIN J |-> f(l)]
             G == [l \in DOMAIN I |-> g(l)]
  <1> HIDE DEF f, g
  <1>4. /\ F \in [DOMAIN J -> DOMAIN I] /\ G \in [DOMAIN I -> DOMAIN J]
        /\ \A l \in DOMAIN J : G[F[l]] = l /\ J[l] = I[F[l]]
        /\ \A l \in DOMAIN I : F[G[l]] = l
    BY <1>2, <1>3
  <1> HIDE DEF F, G
  <1> QED
    BY <1>4, SpotsChange

\* What a pop copies is in a hand then, behind what was there.
Popped(o, s, s2, own, own2, w, h, n, a, m) ==
    /\ s[w].do = "pop_copy" /\ s[w].n = n /\ s[w].head = a /\ s2[w].do # "pop_copy"
    /\ \A q \in Procs : q # w => s2[q] = s[q]
    /\ DOMAIN own[h][w] = 1..m /\ DOMAIN own2[h][w] = 1..(m + n)
    /\ \A i \in 1..m : own2[h][w][i] = own[h][w][i]
    /\ \A i \in 1..n : own2[h][w][m + i] = o[s[w].ring][Place(a + i - 1)]
    /\ \A k \in Hands : \A q \in Procs : k # h \/ q # w => own2[k][q] = own[k][q]

LEMMA SpotsPopped ==
    ASSUME NEW I, NEW J, Once(I), NEW c, NEW p, NEW o, NEW s, NEW own, NEW s2, NEW own2, NEW w \in Procs,
           AreHeld(I, c, p, o, s, own), AreHeld(J, c, p, o, s2, own2), NEW h \in Hands,
           NEW n \in Nat, NEW a \in Nat, NEW m \in Nat, Popped(o, s, s2, own, own2, w, h, n, a, m)
    PROVE  Once(J)
  <1> USE DEF Popped
  <1> DEFINE f(l) == IF l[1] = h /\ l[2] = w /\ l[3] > m THEN Spot("copy", w, a + l[3] - m - 1) ELSE l
             g(l) == IF l[1] = "copy" /\ l[2] = w THEN Spot(h, w, m + l[3] - a + 1) ELSE l
             A == own[h][w]
             B == own2[h][w]
             R == o[s[w].ring]
  <1>1. /\ \A i \in Nat : InCopy(s[w], i) <=> a <= i /\ i < a + n
        /\ \A q \in Procs : \A i \in Nat : InCopy(s2[q], i) <=> q # w /\ InCopy(s[q], i)
        /\ \A i \in Nat : i \in DOMAIN A <=> 1 <= i /\ i <= m
        /\ \A i \in Nat : i \in DOMAIN B <=> 1 <= i /\ i <= m + n
        /\ h # "ring" /\ h # "copy"
    BY DEF InCopy, Within, Hands
  <1>2. ASSUME NEW l \in DOMAIN J PROVE f(l) \in DOMAIN I /\ J[l] = I[f(l)] /\ g(f(l)) = l
    <2>1. ASSUME NEW x \in Rings, NEW i \in Nat, InRing(c, p, x, i), l = Spot("ring", x, i)
          PROVE  f(l) = l /\ g(l) = l
      BY <1>1, <2>1, SpotsDiffer
    <2>2. ASSUME NEW q \in Procs, NEW i \in Nat, InCopy(s2[q], i), l = Spot("copy", q, i)
          PROVE  f(l) = l /\ g(l) = l /\ InCopy(s[q], i) /\ s2[q] = s[q]
      BY <1>1, <2>2, SpotsDiffer
    <2>3. ASSUME NEW k \in Hands, NEW q \in Procs, NEW i \in Nat, i \in DOMAIN own2[k][q], l = Spot(k, q, i)
          PROVE  f(l) \in DOMAIN I /\ J[l] = I[f(l)] /\ g(f(l)) = l
      <3>1. l[1] = k /\ l[2] = q /\ l[3] = i /\ J[l] = own2[k][q][i] /\ k # "copy"
        BY <2>3, SpotsDiffer DEF AreHeld, Hands
      <3>2. CASE k = h /\ q = w /\ i > m
        <4>1. \E j \in Nat : j = i - m /\ j \in 1..n /\ i = m + j
          BY <1>1, <2>3, <3>2
        <4>2. PICK j \in Nat : j = i - m /\ j \in 1..n /\ i = m + j
          BY <4>1
        <4>3. a + i - m - 1 = a + j - 1 /\ a + j - 1 \in Nat /\ InCopy(s[w], a + j - 1)
          BY <1>1, <4>2
        <4>4. f(l) = Spot("copy", w, a + j - 1)
          BY <3>1, <3>2, <4>3
        <4>5. m + (a + j - 1) - a + 1 = i
          BY <4>2
        <4>6. g(f(l)) = Spot(h, w, i)
          <5>1. g(Spot("copy", w, a + j - 1)) = Spot(h, w, m + (a + j - 1) - a + 1)
            BY SpotsDiffer
          <5> QED
            BY <4>4, <4>5, <5>1
        <4>7. J[l] = R[Place(a + j - 1)]
          BY <3>1, <3>2, <4>2
        <4> QED
          BY <2>3, <3>2, <4>3, <4>4, <4>6, <4>7 DEF AreHeld
      <3>3. CASE ~(k = h /\ q = w /\ i > m)
        <4>1. f(l) = l /\ g(l) = l
          BY <3>1, <3>3
        <4>2. i \in DOMAIN own[k][q] /\ own[k][q][i] = own2[k][q][i]
          BY <1>1, <2>3, <3>3
        <4> QED
          BY <2>3, <3>1, <4>1, <4>2 DEF AreHeld
      <3> QED
        BY <3>2, <3>3
    <2> HIDE DEF f, g, A, B, R
    <2>4. CASE \E x \in Rings : \E i \in Nat : InRing(c, p, x, i) /\ l = Spot("ring", x, i)
      BY <2>1, <2>4 DEF AreHeld
    <2>5. CASE \E q \in Procs : \E i \in Nat : InCopy(s2[q], i) /\ l = Spot("copy", q, i)
      BY SMTT(40), <2>2, <2>5 DEF AreHeld
    <2>6. CASE \E k \in Hands : \E q \in Procs : \E i \in Nat : i \in DOMAIN own2[k][q] /\ l = Spot(k, q, i)
      BY <2>3, <2>6
    <2> QED
      BY <2>4, <2>5, <2>6 DEF AreHeld
  <1>3. ASSUME NEW l \in DOMAIN I PROVE g(l) \in DOMAIN J /\ f(g(l)) = l
    <2>1. ASSUME NEW x \in Rings, NEW i \in Nat, InRing(c, p, x, i), l = Spot("ring", x, i)
          PROVE  f(l) = l /\ g(l) = l
      BY <1>1, <2>1, SpotsDiffer
    <2>2. ASSUME NEW q \in Procs, NEW i \in Nat, InCopy(s[q], i), l = Spot("copy", q, i)
          PROVE  g(l) \in DOMAIN J /\ f(g(l)) = l
      <3>1. l[1] = "copy" /\ l[2] = q /\ l[3] = i
        BY <2>2, SpotsDiffer
      <3>2. CASE q = w
        <4>1. \E j \in Nat : j = m + i - a + 1 /\ j \in 1..(m + n) /\ j > m /\ a + j - m - 1 = i
          BY <1>1, <2>2, <3>2
        <4>2. PICK j \in Nat : j = m + i - a + 1 /\ j \in 1..(m + n) /\ j > m /\ a + j - m - 1 = i
          BY <4>1
        <4>3. g(l) = Spot(h, w, j) /\ j \in DOMAIN B
          BY <1>1, <3>1, <3>2, <4>2
        <4>4. f(g(l)) = Spot("copy", w, i)
          BY <4>2, <4>3, SpotsDiffer
        <4> QED
          BY <2>2, <3>2, <4>3, <4>4 DEF AreHeld
      <3>3. CASE q # w
        <4>1. g(l) = l /\ f(l) = l /\ InCopy(s2[q], i)
          BY <1>1, <2>2, <3>1, <3>3
        <4> QED
          BY <2>2, <4>1 DEF AreHeld
      <3> QED
        BY <3>2, <3>3
    <2>3. ASSUME NEW k \in Hands, NEW q \in Procs, NEW i \in Nat, i \in DOMAIN own[k][q], l = Spot(k, q, i)
          PROVE  f(l) = l /\ g(l) = l /\ i \in DOMAIN own2[k][q]
      <3>1. l[1] = k /\ l[2] = q /\ l[3] = i /\ k # "copy"
        BY <2>3, SpotsDiffer DEF Hands
      <3> QED
        BY <1>1, <2>3, <3>1
    <2> HIDE DEF f, g, A, B, R
    <2>4. CASE \E x \in Rings : \E i \in Nat : InRing(c, p, x, i) /\ l = Spot("ring", x, i)
      BY <2>1, <2>4 DEF AreHeld
    <2>5. CASE \E q \in Procs : \E i \in Nat : InCopy(s[q], i) /\ l = Spot("copy", q, i)
      BY <2>2, <2>5
    <2>6. CASE \E k \in Hands : \E q \in Procs : \E i \in Nat : i \in DOMAIN own[k][q] /\ l = Spot(k, q, i)
      BY <2>3, <2>6 DEF AreHeld
    <2> QED
      BY <2>4, <2>5, <2>6 DEF AreHeld
  <1> DEFINE F == [l \in DOMAIN J |-> f(l)]
             G == [l \in DOMAIN I |-> g(l)]
  <1> HIDE DEF f, g
  <1>4. /\ F \in [DOMAIN J -> DOMAIN I] /\ G \in [DOMAIN I -> DOMAIN J]
        /\ \A l \in DOMAIN J : G[F[l]] = l /\ J[l] = I[F[l]]
        /\ \A l \in DOMAIN I : F[G[l]] = l
    BY <1>2, <1>3
  <1> HIDE DEF F, G
  <1> QED
    BY <1>4, SpotsChange

\* The tail of a push brings into the ring what was first in the hand.
Sent(c, p, p2, o, s, s2, own, own2, w, h, r, n, a, m) ==
    /\ c[r] \in Nat /\ p[r] = a /\ c[r] <= a /\ p2[r] = a + n /\ \A x \in Rings : x # r => p2[x] = p[x]
    /\ \A q \in Procs : \A i \in Nat :
          (InCopy(s2[q], i) <=> InCopy(s[q], i)) /\ (InCopy(s[q], i) => s2[q].ring = s[q].ring)
    /\ DOMAIN own[h][w] = 1..m /\ DOMAIN own2[h][w] = 1..(m - n)
    /\ \A i \in 1..(m - n) : own2[h][w][i] = own[h][w][n + i]
    /\ \A i \in 1..n : o[r][Place(a + i - 1)] = own[h][w][i]
    /\ \A k \in Hands : \A q \in Procs : k # h \/ q # w => own2[k][q] = own[k][q]

LEMMA SpotsPushed ==
    ASSUME NEW I, NEW J, Once(I), NEW c, NEW p, NEW p2, NEW o, NEW s, NEW own, NEW s2, NEW own2,
           NEW w \in Procs,
           AreHeld(I, c, p, o, s, own), AreHeld(J, c, p2, o, s2, own2), NEW h \in Hands, NEW r \in Rings,
           NEW n \in Nat, NEW a \in Nat, NEW m \in Nat, n <= m,
           Sent(c, p, p2, o, s, s2, own, own2, w, h, r, n, a, m)
    PROVE  Once(J)
  <1> USE DEF Sent
  <1> DEFINE f(l) == IF l[1] = "ring" /\ l[2] = r /\ l[3] >= a THEN Spot(h, w, l[3] - a + 1)
                     ELSE IF l[1] = h /\ l[2] = w THEN Spot(h, w, l[3] + n) ELSE l
             g(l) == IF l[1] = h /\ l[2] = w
                     THEN IF l[3] <= n THEN Spot("ring", r, a + l[3] - 1) ELSE Spot(h, w, l[3] - n)
                     ELSE l
             A == own[h][w]
             B == own2[h][w]
  <1>1. /\ \A i \in Nat : InRing(c, p, r, i) <=> c[r] <= i /\ i < a
        /\ \A i \in Nat : InRing(c, p2, r, i) <=> c[r] <= i /\ i < a + n
        /\ \A x \in Rings : \A i \in Nat : x # r => (InRing(c, p2, x, i) <=> InRing(c, p, x, i))
        /\ \A i \in Nat : i \in DOMAIN A <=> 1 <= i /\ i <= m
        /\ \A i \in Nat : i \in DOMAIN B <=> 1 <= i /\ i <= m - n
        /\ h # "ring" /\ h # "copy"
    BY DEF InRing, Hands
  <1>2. ASSUME NEW l \in DOMAIN J PROVE f(l) \in DOMAIN I /\ J[l] = I[f(l)] /\ g(f(l)) = l
    <2>1. ASSUME NEW x \in Rings, NEW i \in Nat, InRing(c, p2, x, i), l = Spot("ring", x, i)
          PROVE  f(l) \in DOMAIN I /\ J[l] = I[f(l)] /\ g(f(l)) = l
      <3>1. l[1] = "ring" /\ l[2] = x /\ l[3] = i /\ J[l] = o[x][Place(i)]
        BY <2>1, SpotsDiffer DEF AreHeld
      <3>2. CASE x = r /\ i >= a
        <4>0. InRing(c, p2, r, i) /\ i < a + n /\ i >= a
          BY <1>1, <2>1, <3>2
        <4>1. \E j \in Nat : j = i - a + 1 /\ j \in 1..n /\ a + j - 1 = i
          <5>1. i - a + 1 \in Nat /\ i - a + 1 \in 1..n /\ a + (i - a + 1) - 1 = i
            BY <4>0
          <5> QED
            BY <5>1
        <4>2. PICK j \in Nat : j = i - a + 1 /\ j \in 1..n /\ a + j - 1 = i
          BY <4>1
        <4>3. f(l) = Spot(h, w, j) /\ j \in DOMAIN A /\ j <= n
          BY <1>1, <3>1, <3>2, <4>2
        <4>4. g(f(l)) = Spot("ring", r, i)
          BY <4>2, <4>3, SpotsDiffer
        <4>5. J[l] = A[j]
          BY <3>1, <3>2, <4>2
        <4> QED
          BY <2>1, <3>2, <4>3, <4>4, <4>5 DEF AreHeld
      <3>3. CASE ~(x = r /\ i >= a)
        <4>1. f(l) = l /\ g(l) = l /\ InRing(c, p, x, i)
          BY <1>1, <2>1, <3>1, <3>3
        <4> QED
          BY <2>1, <3>1, <4>1 DEF AreHeld
      <3> QED
        BY <3>2, <3>3
    <2>2. ASSUME NEW q \in Procs, NEW i \in Nat, InCopy(s2[q], i), l = Spot("copy", q, i)
          PROVE  f(l) = l /\ g(l) = l /\ l \in DOMAIN I /\ J[l] = I[l]
      <3>1. l[1] = "copy" /\ l[2] = q /\ l[3] = i
        BY <2>2, SpotsDiffer
      <3>2. InCopy(s[q], i) /\ s2[q].ring = s[q].ring
        BY <2>2
      <3>3. J[l] = o[s2[q].ring][Place(i)]
        BY <2>2 DEF AreHeld
      <3>4. l \in DOMAIN I /\ I[l] = o[s[q].ring][Place(i)]
        BY <2>2, <3>2 DEF AreHeld
      <3> QED
        BY <1>1, <3>1, <3>2, <3>3, <3>4
    <2>3. ASSUME NEW k \in Hands, NEW q \in Procs, NEW i \in Nat, i \in DOMAIN own2[k][q], l = Spot(k, q, i)
          PROVE  f(l) \in DOMAIN I /\ J[l] = I[f(l)] /\ g(f(l)) = l
      <3>1. l[1] = k /\ l[2] = q /\ l[3] = i /\ J[l] = own2[k][q][i] /\ k # "ring"
        BY <2>3, SpotsDiffer DEF AreHeld, Hands
      <3>2. CASE k = h /\ q = w
        <4>1. f(l) = Spot(h, w, i + n) /\ i + n \in Nat /\ i + n \in DOMAIN A /\ ~(i + n <= n) /\ (i + n) - n = i
          BY <1>1, <2>3, <3>1, <3>2
        <4>2. g(f(l)) = Spot(h, w, i)
          BY <4>1, SpotsDiffer
        <4>3. J[l] = A[i + n]
          BY <1>1, <2>3, <3>1, <3>2
        <4>4. Spot(h, w, i + n) \in DOMAIN I /\ I[Spot(h, w, i + n)] = A[i + n]
          <5> DEFINE j == i + n
          <5>1. j \in Nat /\ j \in DOMAIN own[h][w]
            BY <4>1
          <5> HIDE DEF j
          <5>2. Spot(h, w, j) \in DOMAIN I /\ I[Spot(h, w, j)] = A[j]
            BY <5>1 DEF AreHeld
          <5> QED
            BY <5>2 DEF j
        <4>5. l = Spot(h, w, i)
          BY <2>3, <3>2
        <4> HIDE DEF f, g, A
        <4> QED
          BY <4>1, <4>2, <4>3, <4>4, <4>5
      <3>3. CASE ~(k = h /\ q = w)
        <4>1. f(l) = l /\ g(l) = l
          BY <3>1, <3>3
        <4>2. own2[k][q] = own[k][q]
          BY <3>3
        <4>3. l \in DOMAIN I /\ I[l] = own[k][q][i]
          <5> HIDE DEF Sent, f, g
          <5> QED
            BY <2>3, <4>2 DEF AreHeld
        <4> HIDE DEF Sent, f, g
        <4> QED
          BY <3>1, <4>1, <4>2, <4>3
      <3> QED
        BY <3>2, <3>3
    <2> HIDE DEF f, g, A, B
    <2>4. CASE \E x \in Rings : \E i \in Nat : InRing(c, p2, x, i) /\ l = Spot("ring", x, i)
      BY <2>1, <2>4
    <2>5. CASE \E q \in Procs : \E i \in Nat : InCopy(s2[q], i) /\ l = Spot("copy", q, i)
      BY <2>2, <2>5
    <2>6. CASE \E k \in Hands : \E q \in Procs : \E i \in Nat : i \in DOMAIN own2[k][q] /\ l = Spot(k, q, i)
      BY <2>3, <2>6
    <2> QED
      BY <2>4, <2>5, <2>6 DEF AreHeld
  <1>3. ASSUME NEW l \in DOMAIN I PROVE g(l) \in DOMAIN J /\ f(g(l)) = l
    <2>1. ASSUME NEW x \in Rings, NEW i \in Nat, InRing(c, p, x, i), l = Spot("ring", x, i)
          PROVE  f(l) = l /\ g(l) = l /\ InRing(c, p2, x, i)
      <3>1. l[1] = "ring" /\ l[2] = x /\ l[3] = i
        BY <2>1, SpotsDiffer
      <3> QED
        BY <1>1, <2>1, <3>1
    <2>2. ASSUME NEW q \in Procs, NEW i \in Nat, InCopy(s[q], i), l = Spot("copy", q, i)
          PROVE  f(l) = l /\ g(l) = l /\ InCopy(s2[q], i)
      <3>1. l[1] = "copy" /\ l[2] = q /\ l[3] = i
        BY <2>2, SpotsDiffer
      <3> QED
        BY <1>1, <2>2, <3>1
    <2>3. ASSUME NEW k \in Hands, NEW q \in Procs, NEW i \in Nat, i \in DOMAIN own[k][q], l = Spot(k, q, i)
          PROVE  g(l) \in DOMAIN J /\ f(g(l)) = l
      <3>1. l[1] = k /\ l[2] = q /\ l[3] = i /\ k # "ring"
        BY <2>3, SpotsDiffer DEF Hands
      <3>2. CASE k = h /\ q = w /\ i <= n
        <4>1. /\ g(l) = Spot("ring", r, a + i - 1) /\ a + i - 1 \in Nat /\ InRing(c, p2, r, a + i - 1)
              /\ a + i - 1 >= a /\ (a + i - 1) - a + 1 = i
          BY <1>1, <2>3, <3>1, <3>2
        <4>2. f(g(l)) = Spot(h, w, i)
          BY <4>1, SpotsDiffer
        <4> QED
          BY <2>3, <3>2, <4>1, <4>2 DEF AreHeld
      <3>3. CASE k = h /\ q = w /\ ~(i <= n)
        <4>1. /\ g(l) = Spot(h, w, i - n) /\ i - n \in Nat /\ i - n \in DOMAIN B /\ (i - n) + n = i
          BY <1>1, <2>3, <3>1, <3>3
        <4>2. f(g(l)) = Spot(h, w, i)
          <5>1. f(Spot(h, w, i - n)) = Spot(h, w, (i - n) + n)
            BY <1>1, SpotsDiffer
          <5> QED
            BY <4>1, <5>1
        <4> QED
          BY <2>3, <3>3, <4>1, <4>2 DEF AreHeld
      <3>4. CASE ~(k = h /\ q = w)
        <4>1. f(l) = l /\ g(l) = l
          BY <3>1, <3>4
        <4> QED
          BY <2>3, <3>1, <3>4, <4>1 DEF AreHeld
      <3> QED
        BY <3>2, <3>3, <3>4
    <2> HIDE DEF f, g, A, B
    <2>4. CASE \E x \in Rings : \E i \in Nat : InRing(c, p, x, i) /\ l = Spot("ring", x, i)
      BY <2>1, <2>4 DEF AreHeld
    <2>5. CASE \E q \in Procs : \E i \in Nat : InCopy(s[q], i) /\ l = Spot("copy", q, i)
      BY <2>2, <2>5 DEF AreHeld
    <2>6. CASE \E k \in Hands : \E q \in Procs : \E i \in Nat : i \in DOMAIN own[k][q] /\ l = Spot(k, q, i)
      BY <2>3, <2>6
    <2> QED
      BY <2>4, <2>5, <2>6 DEF AreHeld
  <1> DEFINE F == [l \in DOMAIN J |-> f(l)]
             G == [l \in DOMAIN I |-> g(l)]
  <1> HIDE DEF f, g
  <1>4. /\ F \in [DOMAIN J -> DOMAIN I] /\ G \in [DOMAIN I -> DOMAIN J]
        /\ \A l \in DOMAIN J : G[F[l]] = l /\ J[l] = I[F[l]]
        /\ \A l \in DOMAIN I : F[G[l]] = l
    BY <1>2, <1>3
  <1> HIDE DEF F, G
  <1> QED
    BY <1>4, SpotsChange

\* The heads and tails of a ring are in order, and its places suffice.
RingOrder ==
    \A r \in Rings : ct[r] <= ch[r] /\ ch[r] <= pt[r] /\ pt[r] <= ph[r] /\ ph[r] <= ct[r] + Cap

Offers == {"push_head", "push_room", "push_cas", "push_copy", "push_tail"}

\* What a call counts on: mine is the hand it pushes from, got what it filled, and u, v, x are
\* the head and the tail of the producers and the tail of the consumers of its ring.
CallOk(st, u, v, x, o, mine, got) ==
    /\ st.do # "no" /\ st.ring = "slot" => st.n = 1
    /\ st.do \in Offers => st.n <= Len(mine)
    /\ st.do \in {"push_room", "push_cas"} => st.head <= u
    /\ st.do = "push_cas" => st.head + st.n <= Cap + x
    /\ st.do = "push_tail" => \A k \in 1..st.n : o[Place(st.head + k - 1)] = mine[k]
    /\ st.do = "pop_cas" => st.head + st.n <= v
    /\ st.do = "pop_tail" /\ st.ring = "slot" => got # <<>>

OwnOf(q, r) == Own(filled, taken)[From(r)][q]

CallsOk ==
    \A q \in Procs :
        LET r == shm[q].ring
        IN  CallOk(shm[q], ph[r], pt[r], ct[r], off[r], OwnOf(q, r), filled[q])

HeldNow == Held(ch, pt, off, shm, Own(filled, taken))

ShmInv ==
    /\ ShmTypes
    /\ RingOrder
    /\ CallsOk
    /\ Reserved(shm, Pushes, pt, ph)
    /\ Reserved(shm, Pops, ct, ch)
    /\ Once(HeldNow)

LEMMA OwnIs ==
    ASSUME NEW f, NEW t
    PROVE  /\ Own(f, t)["filled"] = f /\ Own(f, t)["taken"] = t
           /\ \A r : From(r) \in Hands /\ Into(r) \in Hands
  BY DEF Own, Hands, From, Into

LEMMA NowHeld == AreHeld(HeldNow, ch, pt, off, shm, Own(filled, taken))
  BY HeldAre DEF HeldNow

LEMMA ThenHeld == AreHeld(HeldNow', ch', pt', off', shm', Own(filled', taken'))
  <1>1. AreHeld(Held(ch', pt', off', shm', Own(filled', taken')), ch', pt', off', shm', Own(filled', taken'))
    BY HeldAre
  <1>2. HeldNow' = Held(ch', pt', off', shm', Own(filled', taken'))
    BY DEF HeldNow, Own
  <1> QED
    BY <1>1, <1>2, Zenon

\* A call goes on that has nothing reserved, or is counting, and nothing else changes.
LEMMA AsideKeeps ==
    ASSUME ShmInv, NEW p \in Procs, NEW st \in CallStates,
           shm[p].do \notin Pushes \cup Pops, st.do \notin Pushes \cup Pops,
           shm' = [shm EXCEPT ![p] = st], UNCHANGED <<ph, pt, ch, ct, off, filled, taken>>,
           LET r == st.ring IN CallOk(st, ph[r], pt[r], ct[r], off[r], OwnOf(p, r), filled[p])
    PROVE  ShmInv'
  <1>0. shm \in [Procs -> CallStates]
    BY DEF ShmInv, ShmTypes
  <1>1. ShmTypes'
    BY DEF ShmInv, ShmTypes
  <1>2. RingOrder'
    BY DEF ShmInv, RingOrder
  <1>3. CallsOk'
    <2> SUFFICES ASSUME NEW q \in Procs
                 PROVE  LET r == shm'[q].ring
                        IN  CallOk(shm'[q], ph[r], pt[r], ct[r], off[r], OwnOf(q, r), filled[q])
      BY DEF CallsOk, OwnOf, Own
    <2>1. CASE q = p
      BY <1>0, <2>1
    <2>2. CASE q # p
      <3>1. shm'[q] = shm[q]
        BY <1>0, <2>2
      <3> QED
        BY <3>1 DEF ShmInv, CallsOk
    <2> QED
      BY <2>1, <2>2
  <1>4. Reserved(shm, Pushes, pt, ph)' /\ Reserved(shm, Pops, ct, ch)'
    <2>1. Reserved([shm EXCEPT ![p] = st], Pushes, pt, ph) /\ Reserved([shm EXCEPT ![p] = st], Pops, ct, ch)
      BY <1>0, ReservedAside DEF ShmInv
    <2> QED
      BY <2>1
  <1>5. \A q \in Procs : \A i \in Nat :
          /\ InCopy(shm'[q], i) <=> InCopy(shm[q], i)
          /\ InCopy(shm[q], i) => shm'[q] = shm[q]
    BY <1>0 DEF InCopy, Pops
  <1>6. Once(HeldNow')
    <2> DEFINE I == HeldNow
               J == HeldNow'
               s == shm'
               own == Own(filled, taken)
    <2>1. AreHeld(J, ch, pt, off, s, own)
      BY ThenHeld
    <2>2. Once(I) /\ AreHeld(I, ch, pt, off, shm, own)
      BY NowHeld DEF ShmInv
    <2>3. /\ \A r \in Rings : \A i \in Nat : InRing(ch, pt, r, i) => off[r][Place(i)] = off[r][Place(i)]
          /\ \A q \in Procs : \A i \in Nat :
                /\ InCopy(s[q], i) <=> InCopy(shm[q], i)
                /\ InCopy(shm[q], i) => off[s[q].ring][Place(i)] = off[shm[q].ring][Place(i)]
      BY <1>5
    <2> HIDE DEF I, J, s, own
    <2>4. Once(J)
      BY <2>1, <2>2, <2>3, SpotsStay
    <2> QED
      BY <2>4 DEF J
  <1> QED
    BY <1>1, <1>2, <1>3, <1>4, <1>6 DEF ShmInv, Once

LEMMA StartKeeps ==
    ASSUME ShmInv, NEW p \in Procs,
           \/ \E size \in CallSizes : SlotAlloc(p, size)
           \/ SlotDealloc(p)
           \/ \E n \in 1 .. MaxBatch : ShmQueueMpush(p, n) \/ ShmQueueMpop(p, n)
    PROVE  ShmInv'
  <1>0. filled[p] \in Seq(QBlocks) /\ taken[p] \in Seq(QBlocks) /\ 1 \in QBlocks
        /\ Own(filled, taken)["filled"] = filled /\ Own(filled, taken)["taken"] = taken
    BY CapFacts, OwnIs DEF ShmInv, ShmTypes, QBlocks
  <1>1. ASSUME NEW r \in Rings, NEW do \in {"push_head", "pop_head"}, NEW n \in QBlocks,
               Call(p, r, do, n), UNCHANGED <<ringVars, filled, taken>>,
               r = "slot" => n = 1, do = "push_head" => n <= Len(OwnOf(p, r))
        PROVE  ShmInv'
    <2> DEFINE st == [do |-> do, ring |-> r, n |-> n]
    <2>1. st \in CallStates /\ st.do \notin Pushes \cup Pops
      BY DEF CallStates, Pushes, Pops
    <2>2. shm[p].do \notin Pushes \cup Pops /\ shm' = [shm EXCEPT ![p] = st]
      BY <1>1 DEF Call, NoCall, Pushes, Pops
    <2>3. CallOk(st, ph[r], pt[r], ct[r], off[r], OwnOf(p, r), filled[p])
      BY <1>1 DEF CallOk, Offers
    <2> QED
      BY <1>1, <2>1, <2>2, <2>3, AsideKeeps DEF ringVars
  <1>2. ASSUME NEW size \in CallSizes, SlotAlloc(p, size) PROVE ShmInv'
    BY <1>0, <1>1, <1>2 DEF SlotAlloc, Rings
  <1>3. ASSUME SlotDealloc(p) PROVE ShmInv'
    <2>1. 1 <= Len(OwnOf(p, "slot"))
      BY <1>0, <1>3 DEF SlotDealloc, OwnOf, From
    <2> QED
      BY <1>0, <1>1, <1>3, <2>1 DEF SlotDealloc, Rings
  <1>4. ASSUME NEW n \in 1..MaxBatch, ShmQueueMpush(p, n) PROVE ShmInv'
    <2>1. n \in QBlocks /\ OwnOf(p, "queue") = filled[p]
      BY <1>0, CapFacts DEF QBlocks, OwnOf, From
    <2> QED
      BY <1>1, <1>4, <2>1 DEF ShmQueueMpush, Rings
  <1>5. ASSUME NEW n \in 1..MaxBatch, ShmQueueMpop(p, n) PROVE ShmInv'
    <2>1. n \in QBlocks
      BY CapFacts DEF QBlocks
    <2> QED
      BY <1>1, <1>5, <2>1 DEF ShmQueueMpop, Rings
  <1> QED
    BY <1>2, <1>3, <1>4, <1>5

\* Numbers of 0..k that have each its own of 1..n are no more than those.
LEMMA NoMoreThan ==
    ASSUME NEW n \in Nat, NEW k \in Nat, NEW f \in [0..k -> 1..n],
           \A i, j \in 0..k : f[i] = f[j] => i = j
    PROVE  k < n
  <1>1. /\ IsFiniteSet(1..n) /\ Cardinality(1..n) = IF 1 > n THEN 0 ELSE n - 1 + 1
        /\ IsFiniteSet(0..k) /\ Cardinality(0..k) = IF 0 > k THEN 0 ELSE k - 0 + 1
    BY FS_Interval
  <1>2. Cardinality(1..n) = n /\ Cardinality(0..k) = k + 1
    BY <1>1
  <1> DEFINE A == 0..k
             B == 1..n
  <1> SUFFICES ASSUME n < k + 1 PROVE FALSE
    OBVIOUS
  <1>3. IsFiniteSet(A) /\ IsFiniteSet(B) /\ Cardinality(B) < Cardinality(A) /\ f \in [A -> B]
    BY <1>1, <1>2
  <1>4. \A i, j \in A : f[i] = f[j] => i = j
    OBVIOUS
  <1> HIDE DEF A, B
  <1>5. \E i, j \in A : i # j /\ f[i] = f[j]
    BY <1>3, FS_PigeonHole
  <1> QED
    BY <1>4, <1>5

\* The block of each index between the tail of the consumers and the head of the producers
\* of the pool is at a spot of its own.
SpotOf(i, l, s, f) ==
    \/ l = Spot("ring", "slot", i)
    \/ \E q \in Procs : /\ s[q].do \in Pushes /\ s[q].ring = "slot" /\ s[q].head = i
                        /\ l = Spot("taken", q, 1)
    \/ \E q \in Procs : /\ s[q].do = "pop_copy" /\ s[q].ring = "slot" /\ s[q].head = i
                        /\ l = Spot("copy", q, i)
    \/ \E q \in Procs : /\ s[q].do = "pop_tail" /\ s[q].ring = "slot" /\ s[q].head = i
                        /\ l = Spot("filled", q, Len(f[q]))

LEMMA SpotsOwn ==
    ASSUME NEW i, NEW j, NEW l, NEW s, NEW f, SpotOf(i, l, s, f), SpotOf(j, l, s, f)
    PROVE  i = j
  BY SpotsDiffer DEF SpotOf

LEMMA SpotThere ==
    ASSUME ShmInv, NEW i \in Nat, ct["slot"] <= i, i < ph["slot"]
    PROVE  \E l \in DOMAIN HeldNow : SpotOf(i, l, shm, filled)
  <1>1. "slot" \in Rings /\ AreHeld(HeldNow, ch, pt, off, shm, Own(filled, taken))
    BY NowHeld DEF Rings
  <1>2. ct["slot"] \in Nat /\ ch["slot"] \in Nat /\ pt["slot"] \in Nat /\ ph["slot"] \in Nat
    BY <1>1 DEF ShmInv, ShmTypes
  <1>3. \A q \in Procs : shm[q].do \in Pushes \cup Pops /\ shm[q].ring = "slot" =>
                            shm[q].n = 1 /\ shm[q].head \in Nat
    <2> SUFFICES ASSUME NEW q \in Procs, shm[q].do \in Pushes \cup Pops, shm[q].ring = "slot"
                 PROVE  shm[q].n = 1 /\ shm[q].head \in Nat
      OBVIOUS
    <2>1. shm[q] \in CallStates /\ shm[q].do \notin Headless
      BY DEF ShmInv, ShmTypes, Pushes, Pops, Headless
    <2> QED
      BY <2>1, CallKnows DEF ShmInv, CallsOk, CallOk, Headless
  <1>4. \A q \in Procs : filled[q] \in Seq(QBlocks) /\ taken[q] \in Seq(QBlocks)
    BY DEF ShmInv, ShmTypes
  <1>5. CASE ch["slot"] <= i /\ i < pt["slot"]
    <2>1. Spot("ring", "slot", i) \in DOMAIN HeldNow
      BY <1>1, <1>5 DEF AreHeld, InRing
    <2> QED
      BY <2>1 DEF SpotOf
  <1>6. CASE pt["slot"] <= i
    <2>1. PICK q \in Procs : shm[q].do \in Pushes /\ shm[q].ring = "slot" /\ Within(shm[q], i)
      BY <1>1, <1>6 DEF ShmInv, Reserved
    <2>2. shm[q].head = i
      BY <1>3, <2>1 DEF Within
    <2>3. 1 <= Len(taken[q])
      <3>1. shm[q].n <= Len(OwnOf(q, "slot")) /\ OwnOf(q, "slot") = taken[q]
        BY <2>1, OwnIs DEF ShmInv, CallsOk, CallOk, Offers, Pushes, OwnOf, From
      <3> QED
        BY <1>3, <2>1, <3>1
    <2>4. 1 \in DOMAIN taken[q] /\ 1 \in Nat
      BY <1>4, <2>3
    <2>5. Spot("taken", q, 1) \in DOMAIN HeldNow
      BY <1>1, <2>4, OwnIs DEF AreHeld, Hands
    <2> QED
      BY <2>1, <2>2, <2>5 DEF SpotOf
  <1>7. CASE i < ch["slot"]
    <2>1. PICK q \in Procs : shm[q].do \in Pops /\ shm[q].ring = "slot" /\ Within(shm[q], i)
      BY <1>1, <1>7 DEF ShmInv, Reserved
    <2>2. shm[q].head = i
      BY <1>3, <2>1 DEF Within
    <2>3. CASE shm[q].do = "pop_copy"
      <3>1. Spot("copy", q, i) \in DOMAIN HeldNow
        BY <1>1, <2>1, <2>3 DEF AreHeld, InCopy
      <3> QED
        BY <2>1, <2>2, <2>3, <3>1 DEF SpotOf
    <2>4. CASE shm[q].do = "pop_tail"
      <3>1. filled[q] # <<>>
        BY <2>1, <2>4 DEF ShmInv, CallsOk, CallOk
      <3>2. Len(filled[q]) \in Nat /\ Len(filled[q]) \in DOMAIN filled[q]
        BY <1>4, <3>1
      <3>3. Spot("filled", q, Len(filled[q])) \in DOMAIN HeldNow
        BY <1>1, <3>2, OwnIs DEF AreHeld, Hands
      <3> QED
        BY <2>1, <2>2, <2>4, <3>3 DEF SpotOf
    <2> QED
      BY <2>1, <2>3, <2>4 DEF Pops
  <1> QED
    BY <1>2, <1>5, <1>6, <1>7

\* The pool has room for a block that is given back.
LEMMA RoomInPool ==
    ASSUME ShmInv, NEW p \in Procs, shm[p].do = "push_room", shm[p].ring = "slot"
    PROVE  shm[p].n + shm[p].head <= Cap + ct["slot"]
  <1> DEFINE I == HeldNow
             a == ct["slot"]
             u == ph["slot"]
             s == shm
             mine == Spot("taken", p, 1)
  <1>1. /\ a \in Nat /\ u \in Nat /\ s[p].head \in Nat /\ s[p].n = 1 /\ s[p].head <= u /\ u <= a + Cap
        /\ 1 <= Len(taken[p]) /\ taken[p] \in Seq(QBlocks)
    <2>1. "slot" \in Rings /\ s[p] \in CallStates /\ s[p].do \notin Headless
      BY DEF Rings, ShmInv, ShmTypes, Headless
    <2>2. s[p].n = 1 /\ s[p].head <= u /\ s[p].n <= Len(OwnOf(p, "slot")) /\ OwnOf(p, "slot") = taken[p]
      BY <2>1, CallKnows, OwnIs DEF ShmInv, CallsOk, CallOk, Offers, OwnOf, From, Headless
    <2> QED
      BY <2>1, <2>2, CallKnows DEF ShmInv, ShmTypes, RingOrder, Headless
  <1>2. Cap \in Nat /\ NumBlocks \in Nat /\ Cap >= NumBlocks
    BY CapFacts
  <1>3. mine \in DOMAIN I
    <2>1. 1 \in DOMAIN taken[p] /\ 1 \in Nat
      BY <1>1
    <2> QED
      BY <2>1, NowHeld, OwnIs DEF AreHeld, Hands
  <1>4. \A i \in Nat : ~SpotOf(i, mine, s, filled)
    BY SpotsDiffer DEF SpotOf, Pushes
  <1>5. Once(I) /\ \A i \in Nat : a <= i /\ i < u => \E l \in DOMAIN I : SpotOf(i, l, s, filled)
    BY SpotThere DEF ShmInv
  <1> SUFFICES ASSUME u = a + Cap PROVE FALSE
    BY <1>1, <1>2
  <1> HIDE DEF I, a, u, mine, s
  <1> DEFINE Sp(j) == IF j = NumBlocks THEN mine ELSE CHOOSE l \in DOMAIN I : SpotOf(a + j, l, s, filled)
             f == [j \in 0..NumBlocks |-> I[Sp(j)]]
  <1>6. ASSUME NEW j \in 0..NumBlocks
        PROVE  /\ Sp(j) \in DOMAIN I
               /\ j # NumBlocks => SpotOf(a + j, Sp(j), s, filled) /\ a + j \in Nat
    <2>1. CASE j = NumBlocks
      BY <1>3, <2>1
    <2>2. CASE j # NumBlocks
      <3>1. a + j \in Nat /\ a <= a + j /\ a + j < u
        BY <1>1, <1>2, <2>2
      <3>2. \E l \in DOMAIN I : SpotOf(a + j, l, s, filled)
        BY <1>5, <3>1
      <3> QED
        BY <2>2, <3>1, <3>2
    <2> QED
      BY <2>1, <2>2
  <1>7. ASSUME NEW i \in 0..NumBlocks, NEW j \in 0..NumBlocks, Sp(i) = Sp(j) PROVE i = j
    <2>1. CASE i = NumBlocks /\ j = NumBlocks
      BY <2>1
    <2>2. CASE i # NumBlocks /\ j # NumBlocks
      <3>1. SpotOf(a + i, Sp(i), s, filled) /\ SpotOf(a + j, Sp(i), s, filled)
        BY <1>6, <1>7, <2>2
      <3>2. a + i = a + j
        BY <3>1, SpotsOwn
      <3> QED
        BY <1>1, <1>2, <3>2
    <2>3. CASE i = NumBlocks /\ j # NumBlocks
      BY <1>4, <1>6, <1>7, <2>3
    <2>4. CASE i # NumBlocks /\ j = NumBlocks
      BY <1>4, <1>6, <1>7, <2>4
    <2> QED
      BY <2>1, <2>2, <2>3, <2>4
  <1> HIDE DEF Sp
  <1>8. f \in [0..NumBlocks -> 1..NumBlocks]
    BY <1>5, <1>6 DEF Once, QBlocks
  <1>9. \A i, j \in 0..NumBlocks : f[i] = f[j] => i = j
    BY <1>5, <1>6, <1>7 DEF Once
  <1> HIDE DEF f
  <1>10. NumBlocks < NumBlocks
    BY <1>2, <1>8, <1>9, NoMoreThan
  <1> QED
    BY <1>2, <1>10

\* Where a call is, what is known of it.
LEMMA CallIs ==
    ASSUME ShmInv, NEW p \in Procs, shm[p].do # "no"
    PROVE  LET r == shm[p].ring
           IN  /\ shm[p] \in CallStates /\ r \in Rings /\ shm[p].n \in QBlocks /\ shm[p].n \in Nat /\ shm[p].n > 0
               /\ ph[r] \in Nat /\ pt[r] \in Nat /\ ch[r] \in Nat /\ ct[r] \in Nat
               /\ ct[r] <= ch[r] /\ ch[r] <= pt[r] /\ pt[r] <= ph[r] /\ ph[r] <= ct[r] + Cap
               /\ shm[p].do \notin Headless => shm[p].head \in Nat
               /\ CallOk(shm[p], ph[r], pt[r], ct[r], off[r], OwnOf(p, r), filled[p])
  <1>1. shm[p] \in CallStates
    BY DEF ShmInv, ShmTypes
  <1>2. shm[p].ring \in Rings /\ shm[p].n \in QBlocks /\ shm[p].n \in Nat /\ shm[p].n > 0
        /\ (shm[p].do \notin Headless => shm[p].head \in Nat)
    BY <1>1, CallKnows
  <1> QED
    BY <1>1, <1>2 DEF ShmInv, ShmTypes, RingOrder, CallsOk

LEMMA ControlKeeps ==
    ASSUME ShmInv, NEW p \in Procs,
           PushHead(p) \/ PushRoom(p) \/ PushNum(p) \/ PopHead(p) \/ PopData(p) \/ PopNum(p)
    PROVE  ShmInv'
  <1> DEFINE r == shm[p].ring
             Ok(st) == CallOk(st, ph[r], pt[r], ct[r], off[r], OwnOf(p, r), filled[p])
             K == /\ shm[p] \in CallStates /\ r \in Rings /\ shm[p].n \in QBlocks /\ shm[p].n \in Nat
                  /\ shm[p].n > 0
                  /\ ph[r] \in Nat /\ pt[r] \in Nat /\ ch[r] \in Nat /\ ct[r] \in Nat
                  /\ ct[r] <= ch[r] /\ ch[r] <= pt[r] /\ pt[r] <= ph[r] /\ ph[r] <= ct[r] + Cap
                  /\ shm[p].do \notin Headless => shm[p].head \in Nat
                  /\ Ok(shm[p])
  <1>1. shm[p].do # "no" => K
    BY CallIs
  <1>2. shm \in [Procs -> CallStates]
    BY DEF ShmInv, ShmTypes
  <1>3. NoCall \in CallStates /\ NoCall.do = "no" /\ \A u, v, x, o, mine, got : CallOk(NoCall, u, v, x, o, mine, got)
    BY DEF CallStates, NoCall, CallOk, Offers
  <1>4. ASSUME shm[p].do \in {"push_room", "push_num", "pop_data", "pop_num"},
               shm' = [shm EXCEPT ![p] = NoCall], UNCHANGED <<ph, pt, ch, ct, off, filled, taken>>
        PROVE  ShmInv'
    <2>1. shm[p].do \notin Pushes \cup Pops /\ NoCall.do \notin Pushes \cup Pops
      BY <1>3, <1>4 DEF Pushes, Pops
    <2> QED
      BY <1>3, <1>4, <2>1, AsideKeeps
  <1>5. CASE PushNum(p) \/ PopNum(p)
    BY <1>4, <1>5 DEF PushNum, PopNum, At
  <1>6. CASE PushHead(p)
    <2> DEFINE st == [do |-> "push_room", ring |-> r, n |-> shm[p].n, head |-> ph[r]]
    <2>1. K /\ shm[p].do = "push_head"
      BY <1>1, <1>6 DEF PushHead, At
    <2>2. shm' = [shm EXCEPT ![p] = st]
      BY <1>2, <1>6 DEF PushHead
    <2>3. st \in CallStates /\ st.do \notin Pushes \cup Pops /\ shm[p].do \notin Pushes \cup Pops /\ st.ring = r
      BY <2>1 DEF CallStates, Doings, Pushes, Pops
    <2>4. Ok(st)
      BY <2>1 DEF CallOk, Offers
    <2> HIDE DEF st
    <2> QED
      BY <1>6, <2>2, <2>3, <2>4, AsideKeeps DEF PushHead, ringVars
  <1>7. CASE PopHead(p)
    <2> DEFINE st == [do |-> "pop_data", ring |-> r, n |-> shm[p].n, head |-> ch[r]]
    <2>1. K /\ shm[p].do = "pop_head"
      BY <1>1, <1>7 DEF PopHead, At
    <2>2. shm' = [shm EXCEPT ![p] = st]
      BY <1>2, <1>7 DEF PopHead
    <2>3. st \in CallStates /\ st.do \notin Pushes \cup Pops /\ shm[p].do \notin Pushes \cup Pops /\ st.ring = r
      BY <2>1 DEF CallStates, Doings, Pushes, Pops
    <2>4. Ok(st)
      BY <2>1 DEF CallOk, Offers
    <2> HIDE DEF st
    <2> QED
      BY <1>7, <2>2, <2>3, <2>4, AsideKeeps DEF PopHead, ringVars
  <1>8. CASE PushRoom(p)
    <2>1. K /\ shm[p].do = "push_room" /\ shm[p].head \in Nat
      BY <1>1, <1>8 DEF PushRoom, At, Headless
    <2>2. CASE shm[p].n + shm[p].head > Cap + ct[r]
      <3>1. r # "slot"
        <4> SUFFICES ASSUME r = "slot" PROVE FALSE
          OBVIOUS
        <4>1. shm[p].n + shm[p].head <= Cap + ct["slot"]
          BY <2>1, RoomInPool
        <4>2. Cap \in Nat /\ ct[r] = ct["slot"]
          BY CapFacts
        <4> QED
          BY <2>1, <2>2, <4>1, <4>2
      <3>2. shm' = [shm EXCEPT ![p] = NoCall]
        BY <1>2, <1>8, <2>2, <3>1 DEF PushRoom
      <3> QED
        BY <1>4, <1>8, <2>1, <3>2 DEF PushRoom, ringVars
    <2>3. CASE ~(shm[p].n + shm[p].head > Cap + ct[r])
      <3> DEFINE st == [shm[p] EXCEPT !.do = "push_cas"]
      <3>1. shm' = [shm EXCEPT ![p] = st]
        BY <1>2, <1>8, <2>3 DEF PushRoom, To
      <3>2. st \in CallStates /\ st.do = "push_cas" /\ st.ring = r /\ st.n = shm[p].n /\ st.head = shm[p].head
        BY <2>1, CallGoesOn DEF Doings, Headless
      <3> HIDE DEF st
      <3>3. Ok(st)
        BY SMTT(40), <2>1, <2>3, <3>2, CapFacts DEF CallOk, Offers
      <3>4. st.do \notin Pushes \cup Pops /\ shm[p].do \notin Pushes \cup Pops
        BY <2>1, <3>2 DEF Pushes, Pops
      <3> QED
        BY <1>8, <3>1, <3>2, <3>3, <3>4, AsideKeeps DEF PushRoom, ringVars
    <2> QED
      BY <2>2, <2>3
  <1>9. CASE PopData(p)
    <2>1. K /\ shm[p].do = "pop_data" /\ shm[p].head \in Nat
      BY <1>1, <1>9 DEF PopData, At, Headless
    <2>2. CASE shm[p].n > pt[r] - shm[p].head
      <3>1. shm' = [shm EXCEPT ![p] = NoCall]
        BY <1>2, <1>9, <2>2 DEF PopData
      <3> QED
        BY <1>4, <1>9, <2>1, <3>1 DEF PopData, ringVars
    <2>3. CASE ~(shm[p].n > pt[r] - shm[p].head)
      <3> DEFINE st == [shm[p] EXCEPT !.do = "pop_cas"]
      <3>1. shm' = [shm EXCEPT ![p] = st]
        BY <1>2, <1>9, <2>3 DEF PopData, To
      <3>2. st \in CallStates /\ st.do = "pop_cas" /\ st.ring = r /\ st.n = shm[p].n /\ st.head = shm[p].head
        BY <2>1, CallGoesOn DEF Doings, Headless
      <3> HIDE DEF st
      <3>3. Ok(st)
        BY <2>1, <2>3, <3>2 DEF CallOk, Offers
      <3>4. st.do \notin Pushes \cup Pops /\ shm[p].do \notin Pushes \cup Pops
        BY <2>1, <3>2 DEF Pushes, Pops
      <3> QED
        BY <1>9, <3>1, <3>2, <3>3, <3>4, AsideKeeps DEF PopData, ringVars
    <2> QED
      BY <2>2, <2>3
  <1> QED
    BY <1>5, <1>6, <1>7, <1>8, <1>9

\* A compare-and-set that fails starts again.
LEMMA CasFailsKeeps ==
    ASSUME ShmInv, NEW p \in Procs,
           \/ PushCas(p) /\ ph[shm[p].ring] # shm[p].head
           \/ PopCas(p) /\ ch[shm[p].ring] # shm[p].head
    PROVE  ShmInv'
  <1> DEFINE r == shm[p].ring
             do == IF PushCas(p) THEN "push_head" ELSE "pop_head"
             st == [shm[p] EXCEPT !.do = do]
             Ok(x) == CallOk(x, ph[r], pt[r], ct[r], off[r], OwnOf(p, r), filled[p])
  <1>1. shm[p].do = IF PushCas(p) THEN "push_cas" ELSE "pop_cas"
    BY DEF PushCas, PopCas, At
  <1>2. /\ shm[p] \in CallStates /\ r \in Rings /\ shm[p].n \in Nat /\ Ok(shm[p]) /\ shm[p].head \in Nat
        /\ shm[p].do \notin Headless
    BY <1>1, CallIs DEF Headless
  <1>3. shm \in [Procs -> CallStates]
    BY DEF ShmInv, ShmTypes
  <1>4. shm' = [shm EXCEPT ![p] = st] /\ UNCHANGED <<ph, pt, ch, ct, off, filled, taken>>
    BY <1>1, <1>3 DEF PushCas, PopCas, To, At
  <1>5. st \in CallStates /\ st.do = do /\ st.ring = r /\ st.n = shm[p].n
    <2>1. do \in Doings
      BY DEF Doings
    <2> HIDE DEF do
    <2> QED
      BY <1>2, <2>1, CallGoesOn
  <1> HIDE DEF st
  <1>6. Ok(st)
    BY <1>1, <1>2, <1>5 DEF CallOk, Offers
  <1>7. st.do \notin Pushes \cup Pops /\ shm[p].do \notin Pushes \cup Pops
    BY <1>1, <1>5 DEF Pushes, Pops
  <1> QED
    BY <1>4, <1>5, <1>6, <1>7, AsideKeeps

LEMMA OkStays ==
    ASSUME NEW st \in CallStates, NEW u \in Nat, NEW v \in Nat, NEW x \in Nat, NEW o, NEW mine, NEW got,
           CallOk(st, u, v, x, o, mine, got),
           NEW u2 \in Nat, NEW v2 \in Nat, NEW x2 \in Nat, NEW o2, u <= u2, v <= v2, x <= x2,
           st.do = "push_tail" =>
              \A k \in 1..st.n : o2[Place(st.head + k - 1)] = o[Place(st.head + k - 1)]
    PROVE  CallOk(st, u2, v2, x2, o2, mine, got)
  <1>1. st.do # "no" => st.n \in Nat /\ (st.do \notin Headless => st.head \in Nat)
    BY CallKnows
  <1>2. Cap \in Nat
    BY CapFacts
  <1>3. st.do \in {"push_room", "push_cas"} => st.head <= u2
    BY <1>1 DEF CallOk, Headless
  <1>4. st.do = "push_cas" => st.head + st.n <= Cap + x2
    BY <1>1, <1>2 DEF CallOk, Headless
  <1>5. st.do = "pop_cas" => st.head + st.n <= v2
    BY <1>1 DEF CallOk, Headless
  <1> QED
    BY <1>3, <1>4, <1>5 DEF CallOk

\* What the other calls count on stays when heads and tails only grow and nobody writes
\* where they have written.
LEMMA OthersOk ==
    ASSUME ShmInv, ShmTypes', NEW p \in Procs,
           \A q \in Procs \ {p} : shm'[q] = shm[q] /\ filled'[q] = filled[q] /\ taken'[q] = taken[q],
           \A r \in Rings : ph[r] <= ph'[r] /\ pt[r] <= pt'[r] /\ ct[r] <= ct'[r],
           \A q \in Procs \ {p} : shm[q].do = "push_tail" =>
              \A k \in 1..shm[q].n : off'[shm[q].ring][Place(shm[q].head + k - 1)]
                                       = off[shm[q].ring][Place(shm[q].head + k - 1)],
           NEW r \in Rings, shm'[p].ring = r,
           CallOk(shm'[p], ph'[r], pt'[r], ct'[r], off'[r], Own(filled', taken')[From(r)][p], filled'[p])
    PROVE  CallsOk'
  <1> SUFFICES ASSUME NEW q \in Procs
               PROVE  LET x == shm'[q].ring
                      IN  CallOk(shm'[q], ph'[x], pt'[x], ct'[x], off'[x], Own(filled', taken')[From(x)][q],
                                 filled'[q])
    BY DEF CallsOk, OwnOf, Own
  <1>1. CASE q = p
    BY <1>1
  <1>2. CASE q # p /\ shm[q].do = "no"
    BY <1>2 DEF CallOk, Offers
  <1>3. CASE q # p /\ shm[q].do # "no"
    <2> DEFINE x == shm[q].ring
               st == shm[q]
    <2>1. /\ st \in CallStates /\ x \in Rings /\ ph[x] \in Nat /\ pt[x] \in Nat /\ ct[x] \in Nat
          /\ CallOk(st, ph[x], pt[x], ct[x], off[x], OwnOf(q, x), filled[q])
      BY <1>3, CallIs
    <2>2. ph'[x] \in Nat /\ pt'[x] \in Nat /\ ct'[x] \in Nat
      BY <2>1 DEF ShmTypes
    <2>3. Own(filled', taken')[From(x)][q] = OwnOf(q, x)
      <3>1. Own(filled', taken')[From(x)] \in {filled', taken'} /\ Own(filled, taken)[From(x)] \in {filled, taken}
        BY DEF Own, From, Hands
      <3> QED
        BY <1>3 DEF OwnOf, Own, From, Hands
    <2>4. shm'[q] = st /\ filled'[q] = filled[q]
      BY <1>3
    <2>5. /\ ph[x] <= ph'[x] /\ pt[x] <= pt'[x] /\ ct[x] <= ct'[x]
          /\ st.do = "push_tail" =>
              \A k \in 1..st.n : off'[x][Place(st.head + k - 1)] = off[x][Place(st.head + k - 1)]
      BY <1>3, <2>1
    <2> HIDE DEF x, st
    <2>6. CallOk(st, ph'[x], pt'[x], ct'[x], off'[x], OwnOf(q, x), filled[q])
      BY SMTT(40), <2>1, <2>2, <2>5, OkStays
    <2> QED
      BY <2>3, <2>4, <2>6 DEF x, st
  <1> QED
    BY <1>1, <1>2, <1>3

\* What goes on after a step of p.
LEMMA Going ==
    ASSUME ShmInv, NEW p \in Procs, shm[p].do \notin Headless, NEW do \in Doings, To(p, do)
    PROVE  LET r == shm[p].ring
               st == [shm[p] EXCEPT !.do = do]
           IN  /\ shm' = [shm EXCEPT ![p] = st] /\ shm' \in [Procs -> CallStates] /\ shm'[p] = st
               /\ st \in CallStates /\ st.do = do /\ st.ring = r /\ st.n = shm[p].n /\ st.head = shm[p].head
               /\ \A q \in Procs \ {p} : shm'[q] = shm[q]
  <1>1. shm \in [Procs -> CallStates]
    BY DEF ShmInv, ShmTypes
  <1> DEFINE st == [shm[p] EXCEPT !.do = do]
  <1>2. shm' = [shm EXCEPT ![p] = st]
    BY <1>1 DEF To
  <1>3. st \in CallStates /\ st.do = do /\ st.ring = shm[p].ring /\ st.n = shm[p].n /\ st.head = shm[p].head
    BY <1>1, CallGoesOn
  <1> HIDE DEF st
  <1>4. shm' \in [Procs -> CallStates] /\ shm'[p] = st /\ \A q \in Procs \ {p} : shm'[q] = shm[q]
    BY <1>1, <1>2, <1>3
  <1> QED
    BY <1>2, <1>3, <1>4 DEF st

\* The spots are the same after a step that is no copy and writes where no spot is.
LEMMA HeldKeeps ==
    ASSUME ShmInv, UNCHANGED <<ch, pt, filled, taken>>,
           \A r \in Rings : \A i \in Nat : InRing(ch, pt, r, i) => off'[r][Place(i)] = off[r][Place(i)],
           \A q \in Procs : \A i \in Nat :
              /\ InCopy(shm'[q], i) <=> InCopy(shm[q], i)
              /\ InCopy(shm[q], i) => off'[shm'[q].ring][Place(i)] = off[shm[q].ring][Place(i)]
    PROVE  Once(HeldNow)'
  <1> DEFINE I == HeldNow
             J == HeldNow'
             s == shm'
             o == off'
             own == Own(filled, taken)
  <1>1. AreHeld(J, ch, pt, o, s, own)
    BY ThenHeld
  <1>2. Once(I) /\ AreHeld(I, ch, pt, off, shm, own)
    BY NowHeld DEF ShmInv
  <1>3. /\ \A r \in Rings : \A i \in Nat : InRing(ch, pt, r, i) => o[r][Place(i)] = off[r][Place(i)]
        /\ \A q \in Procs : \A i \in Nat :
              /\ InCopy(s[q], i) <=> InCopy(shm[q], i)
              /\ InCopy(shm[q], i) => o[s[q].ring][Place(i)] = off[shm[q].ring][Place(i)]
    OBVIOUS
  <1> HIDE DEF I, J, s, o, own
  <1>4. Once(J)
    BY <1>1, <1>2, <1>3, SpotsStay
  <1> QED
    BY <1>4 DEF J, Once

LEMMA PushCasKeeps ==
    ASSUME ShmInv, NEW p \in Procs, PushCas(p), ph[shm[p].ring] = shm[p].head PROVE ShmInv'
  <1> DEFINE r == shm[p].ring
             n == shm[p].n
             st == [shm[p] EXCEPT !.do = "push_copy"]
  <1>1. shm[p].do = "push_cas" /\ To(p, "push_copy") /\ ph' = [ph EXCEPT ![r] = @ + n]
        /\ UNCHANGED <<pt, ch, ct, off, filled, taken>>
    BY DEF PushCas, At
  <1>2. /\ r \in Rings /\ n \in Nat /\ shm[p].head \in Nat
        /\ shm[p].head + n <= Cap + ct[r] /\ n <= Len(OwnOf(p, r)) /\ (r = "slot" => n = 1)
    BY <1>1, CallIs DEF Headless, CallOk, Offers
  <1>3. /\ shm' = [shm EXCEPT ![p] = st] /\ shm' \in [Procs -> CallStates] /\ shm'[p] = st /\ st \in CallStates
        /\ st.do = "push_copy" /\ st.ring = r /\ st.n = n /\ st.head = shm[p].head
        /\ \A q \in Procs \ {p} : shm'[q] = shm[q]
    BY ZenonT(60), <1>1, Going DEF Headless, Doings
  <1> HIDE DEF st, n
  <1>4. /\ ph \in [Rings -> Nat] /\ pt \in [Rings -> Nat] /\ ct \in [Rings -> Nat] /\ ch \in [Rings -> Nat]
        /\ shm \in [Procs -> CallStates]
    BY DEF ShmInv, ShmTypes
  <1>5. ShmTypes'
    BY <1>1, <1>2, <1>3, <1>4 DEF ShmInv, ShmTypes
  <1>6. \A x \in Rings : ph[x] <= ph'[x] /\ ph'[x] = IF x = r THEN ph[r] + n ELSE ph[x]
    BY <1>1, <1>2, <1>4
  <1>7. RingOrder'
    <2> SUFFICES ASSUME NEW x \in Rings
                 PROVE  ct[x] <= ch[x] /\ ch[x] <= pt[x] /\ pt[x] <= ph'[x] /\ ph'[x] <= ct[x] + Cap
      BY <1>1 DEF RingOrder
    <2>1. ct[x] <= ch[x] /\ ch[x] <= pt[x] /\ pt[x] <= ph[x] /\ ph[x] <= ct[x] + Cap
      BY DEF ShmInv, RingOrder
    <2>2. Cap \in Nat /\ ch[x] \in Nat /\ ct[x] \in Nat /\ pt[x] \in Nat /\ ph[x] \in Nat
      BY <1>4, CapFacts
    <2>3. ph[r] + n <= ct[r] + Cap
      BY <1>2, <1>4, <2>2
    <2>4. CASE x = r
      BY <1>2, <1>6, <2>1, <2>2, <2>3, <2>4
    <2>5. CASE x # r
      BY <1>6, <2>1, <2>5
    <2> QED
      BY <2>4, <2>5
  <1>8. CallsOk'
    <2>1. CallOk(st, ph'[r], pt[r], ct[r], off[r], OwnOf(p, r), filled[p])
      BY <1>2, <1>3 DEF CallOk, Offers
    <2>2. \A x \in Rings : pt[x] <= pt'[x] /\ ct[x] <= ct'[x]
      BY <1>1, <1>4
    <2> QED
      BY <1>1, <1>2, <1>3, <1>5, <1>6, <2>1, <2>2, OthersOk DEF OwnOf
  <1>9. Reserved(shm, Pushes, pt, ph)' /\ Reserved(shm, Pops, ct, ch)'
    <2>1. Reserved([shm EXCEPT ![p] = st], Pops, ct, ch)
      <3>1. shm[p].do \notin Pops /\ st.do \notin Pops
        BY <1>1, <1>3 DEF Pops
      <3> QED
        BY <1>4, <3>1, ReservedAside DEF ShmInv
    <2>2. Reserved([shm EXCEPT ![p] = st], Pushes, pt, [ph EXCEPT ![st.ring] = @ + st.n])
      <3>1. /\ Pushes \in SUBSET (Pushes \cup Pops) /\ shm[p].do \notin Pushes /\ st.do \in Pushes
            /\ st.head = ph[st.ring] /\ \A x \in Rings : pt[x] <= ph[x]
        BY <1>1, <1>3 DEF Pushes, ShmInv, RingOrder
      <3>2. Reserved(shm, Pushes, pt, ph)
        BY DEF ShmInv
      <3> QED
        BY <1>3, <1>4, <3>1, <3>2, ReservedMore
    <2>3. [ph EXCEPT ![st.ring] = @ + st.n] = ph'
      BY <1>1, <1>3
    <2> QED
      BY <1>1, <1>3, <2>1, <2>2, <2>3
  <1>10. Once(HeldNow)'
    <2>1. \A q \in Procs : \A i \in Nat : /\ InCopy(shm'[q], i) <=> InCopy(shm[q], i)
                                          /\ InCopy(shm[q], i) => shm'[q].ring = shm[q].ring
      BY <1>1, <1>3 DEF InCopy
    <2> QED
      BY <1>1, <2>1, HeldKeeps
  <1> QED
    BY <1>5, <1>7, <1>8, <1>9, <1>10 DEF ShmInv, Once

LEMMA PopCasKeeps ==
    ASSUME ShmInv, NEW p \in Procs, PopCas(p), ch[shm[p].ring] = shm[p].head PROVE ShmInv'
  <1> DEFINE r == shm[p].ring
             n == shm[p].n
             st == [shm[p] EXCEPT !.do = "pop_copy"]
  <1>1. shm[p].do = "pop_cas" /\ To(p, "pop_copy") /\ ch' = [ch EXCEPT ![r] = @ + n]
        /\ UNCHANGED <<ph, pt, ct, off, filled, taken>>
    BY DEF PopCas, At
  <1>2. /\ r \in Rings /\ n \in Nat /\ shm[p].head \in Nat
        /\ shm[p].head + n <= pt[r] /\ (r = "slot" => n = 1)
    BY <1>1, CallIs DEF Headless, CallOk, Offers
  <1>3. /\ shm' = [shm EXCEPT ![p] = st] /\ shm' \in [Procs -> CallStates] /\ shm'[p] = st /\ st \in CallStates
        /\ st.do = "pop_copy" /\ st.ring = r /\ st.n = n /\ st.head = shm[p].head
        /\ \A q \in Procs \ {p} : shm'[q] = shm[q]
    BY <1>1, Going DEF Headless, Doings
  <1> HIDE DEF st, n
  <1>4. /\ ph \in [Rings -> Nat] /\ pt \in [Rings -> Nat] /\ ct \in [Rings -> Nat] /\ ch \in [Rings -> Nat]
        /\ shm \in [Procs -> CallStates]
    BY DEF ShmInv, ShmTypes
  <1>5. ShmTypes'
    BY <1>1, <1>2, <1>3, <1>4 DEF ShmInv, ShmTypes
  <1>6. \A x \in Rings : ch[x] <= ch'[x] /\ ch'[x] = IF x = r THEN ch[r] + n ELSE ch[x]
    BY <1>1, <1>2, <1>4
  <1>7. RingOrder'
    <2> SUFFICES ASSUME NEW x \in Rings
                 PROVE  ct[x] <= ch'[x] /\ ch'[x] <= pt[x] /\ pt[x] <= ph[x] /\ ph[x] <= ct[x] + Cap
      BY <1>1 DEF RingOrder
    <2>1. ct[x] <= ch[x] /\ ch[x] <= pt[x] /\ pt[x] <= ph[x] /\ ph[x] <= ct[x] + Cap
      BY DEF ShmInv, RingOrder
    <2>2. ch[x] \in Nat /\ ct[x] \in Nat /\ pt[x] \in Nat
      BY <1>4
    <2>3. ch[r] + n <= pt[r]
      BY <1>2
    <2>4. CASE x = r
      BY <1>2, <1>6, <2>1, <2>2, <2>3, <2>4
    <2>5. CASE x # r
      BY <1>6, <2>1, <2>5
    <2> QED
      BY <2>4, <2>5
  <1>8. CallsOk'
    <2>1. CallOk(st, ph[r], pt[r], ct[r], off[r], OwnOf(p, r), filled[p])
      BY <1>2, <1>3 DEF CallOk, Offers
    <2>2. \A x \in Rings : ph[x] <= ph'[x] /\ pt[x] <= pt'[x] /\ ct[x] <= ct'[x]
      BY <1>1, <1>4
    <2> QED
      BY <1>1, <1>2, <1>3, <1>5, <2>1, <2>2, OthersOk DEF OwnOf
  <1>9. Reserved(shm, Pushes, pt, ph)' /\ Reserved(shm, Pops, ct, ch)'
    <2>1. Reserved([shm EXCEPT ![p] = st], Pushes, pt, ph)
      <3>1. shm[p].do \notin Pushes /\ st.do \notin Pushes
        BY <1>1, <1>3 DEF Pushes
      <3> QED
        BY <1>4, <3>1, ReservedAside DEF ShmInv
    <2>2. Reserved([shm EXCEPT ![p] = st], Pops, ct, [ch EXCEPT ![st.ring] = @ + st.n])
      <3>1. /\ Pops \in SUBSET (Pushes \cup Pops) /\ shm[p].do \notin Pops /\ st.do \in Pops
            /\ st.head = ch[st.ring] /\ \A x \in Rings : ct[x] <= ch[x]
        BY <1>1, <1>3 DEF Pops, ShmInv, RingOrder
      <3>2. Reserved(shm, Pops, ct, ch)
        BY DEF ShmInv
      <3> QED
        BY <1>3, <1>4, <3>1, <3>2, ReservedMore
    <2>3. [ch EXCEPT ![st.ring] = @ + st.n] = ch'
      BY <1>1, <1>3
    <2> QED
      BY <1>1, <1>3, <2>1, <2>2, <2>3
  <1>10. Once(HeldNow)'
    <2> DEFINE I == HeldNow
               J == HeldNow'
               s2 == shm'
               c2 == ch'
               own == Own(filled, taken)
               a == ch[r]
    <2>1. AreHeld(J, c2, pt, off, s2, own)
      BY <1>1, ThenHeld
    <2>2. Once(I) /\ AreHeld(I, ch, pt, off, shm, own)
      BY NowHeld DEF ShmInv
    <2>3. /\ r \in Rings /\ n \in Nat /\ a \in Nat /\ pt[r] \in Nat /\ a + n <= pt[r]
          /\ c2[r] = a + n /\ \A x \in Rings : x # r => c2[x] = ch[x]
      BY <1>2, <1>4, <1>6
    <2>4. /\ shm[p].do # "pop_copy" /\ s2[p].do = "pop_copy" /\ s2[p].ring = r /\ s2[p].n = n /\ s2[p].head = a
          /\ \A q \in Procs : q # p => s2[q] = shm[q]
      BY <1>1, <1>3
    <2> HIDE DEF I, J, s2, c2, own, r
    <2>5. Once(J)
      BY <2>1, <2>2, <2>3, <2>4, SpotsReserved
    <2> QED
      BY <2>5 DEF J, Once
  <1> QED
    BY <1>5, <1>7, <1>8, <1>9, <1>10 DEF ShmInv, Once

LEMMA PopTailKeeps == ASSUME ShmInv, NEW p \in Procs, PopTail(p) PROVE ShmInv'
  <1> DEFINE r == shm[p].ring
             n == shm[p].n
             st == [shm[p] EXCEPT !.do = "pop_num"]
  <1>1. shm[p].do = "pop_tail" /\ To(p, "pop_num") /\ ct[r] = shm[p].head /\ ct' = [ct EXCEPT ![r] = @ + n]
        /\ UNCHANGED <<ph, pt, ch, off, filled, taken>>
    BY DEF PopTail, At
  <1>2. r \in Rings /\ n \in Nat /\ shm[p].head \in Nat /\ (r = "slot" => n = 1)
    BY <1>1, CallIs DEF Headless, CallOk, Offers
  <1>3. /\ shm' = [shm EXCEPT ![p] = st] /\ shm' \in [Procs -> CallStates] /\ shm'[p] = st /\ st \in CallStates
        /\ st.do = "pop_num" /\ st.ring = r /\ st.n = n /\ st.head = shm[p].head
        /\ \A q \in Procs \ {p} : shm'[q] = shm[q]
    BY <1>1, Going DEF Headless, Doings
  <1> HIDE DEF st
  <1>4. /\ ph \in [Rings -> Nat] /\ pt \in [Rings -> Nat] /\ ct \in [Rings -> Nat] /\ ch \in [Rings -> Nat]
        /\ shm \in [Procs -> CallStates]
    BY DEF ShmInv, ShmTypes
  <1>5. Reserved([shm EXCEPT ![p] = st], Pops, [ct EXCEPT ![r] = @ + n], ch) /\ ct[r] + n <= ch[r]
    <2>1. /\ Pops \in SUBSET (Pushes \cup Pops) /\ shm[p].do \in Pops /\ st.do \notin Pops
          /\ Reserved(shm, Pops, ct, ch)
      BY <1>1, <1>3 DEF Pops, ShmInv
    <2> QED
      BY <1>1, <1>4, <2>1, ReservedLess
  <1> HIDE DEF n
  <1>6. ShmTypes'
    BY <1>1, <1>2, <1>3, <1>4 DEF ShmInv, ShmTypes
  <1>7. \A x \in Rings : ct[x] <= ct'[x] /\ ct'[x] = IF x = r THEN ct[r] + n ELSE ct[x]
    BY <1>1, <1>2, <1>4
  <1>8. RingOrder'
    <2> SUFFICES ASSUME NEW x \in Rings
                 PROVE  ct'[x] <= ch[x] /\ ch[x] <= pt[x] /\ pt[x] <= ph[x] /\ ph[x] <= ct'[x] + Cap
      BY <1>1 DEF RingOrder
    <2>1. ct[x] <= ch[x] /\ ch[x] <= pt[x] /\ pt[x] <= ph[x] /\ ph[x] <= ct[x] + Cap
      BY DEF ShmInv, RingOrder
    <2>2. ch[x] \in Nat /\ ct[x] \in Nat /\ ph[x] \in Nat /\ Cap \in Nat
      BY <1>4, CapFacts
    <2>4. CASE x = r
      BY <1>2, <1>5, <1>7, <2>1, <2>2, <2>4
    <2>5. CASE x # r
      BY <1>7, <2>1, <2>5
    <2> QED
      BY <2>4, <2>5
  <1>9. CallsOk'
    <2>1. CallOk(st, ph[r], pt[r], ct'[r], off[r], OwnOf(p, r), filled[p])
      BY <1>2, <1>3 DEF CallOk, Offers
    <2>2. \A x \in Rings : ph[x] <= ph'[x] /\ pt[x] <= pt'[x]
      BY <1>1, <1>4
    <2> QED
      BY <1>1, <1>2, <1>3, <1>6, <1>7, <2>1, <2>2, OthersOk DEF OwnOf
  <1>10. Reserved(shm, Pushes, pt, ph)' /\ Reserved(shm, Pops, ct, ch)'
    <2>1. Reserved([shm EXCEPT ![p] = st], Pushes, pt, ph)
      <3>1. shm[p].do \notin Pushes /\ st.do \notin Pushes
        BY <1>1, <1>3 DEF Pushes
      <3> QED
        BY <1>4, <3>1, ReservedAside DEF ShmInv
    <2> QED
      BY <1>1, <1>3, <1>5, <2>1
  <1>11. Once(HeldNow)'
    <2>1. \A q \in Procs : \A i \in Nat : /\ InCopy(shm'[q], i) <=> InCopy(shm[q], i)
                                          /\ InCopy(shm[q], i) => shm'[q].ring = shm[q].ring
      BY <1>1, <1>3 DEF InCopy
    <2> QED
      BY <1>1, <2>1, HeldKeeps
  <1> QED
    BY <1>6, <1>8, <1>9, <1>10, <1>11 DEF ShmInv, Once

\* What is written at the places of a reservation, and only there.
CopyIn(o, t, h, n) ==
    [i \in DOMAIN o |-> IF \E k \in 1..n : i = Place(h + k - 1)
                        THEN t[CHOOSE k \in 1..n : i = Place(h + k - 1)] ELSE o[i]]

WellCopied(o2, o, t, h, n, a) ==
    /\ o2 \in [0..Cap - 1 -> Nat]
    /\ \A k \in 1..n : o2[Place(h + k - 1)] = t[k]
    /\ \A j \in Nat : a <= j /\ j < a + Cap /\ (j < h \/ h + n <= j) => o2[Place(j)] = o[Place(j)]

LEMMA CopiedIn ==
    ASSUME NEW o \in [0..Cap - 1 -> Nat], NEW a \in Nat, NEW h \in Nat, NEW n \in Nat,
           a <= h, h + n <= a + Cap, NEW t \in Seq(QBlocks), n <= Len(t)
    PROVE  WellCopied(CopyIn(o, t, h, n), o, t, h, n, a)
  <1>1. Cap \in Nat /\ Cap > 0
    BY CapFacts
  <1> DEFINE Hit(i, k) == i = Place(h + k - 1)
             o2 == CopyIn(o, t, h, n)
  <1>2. /\ Len(t) \in Nat /\ \A k \in 1..n : k \in Nat /\ h + k - 1 \in Nat /\ k \in 1..Len(t)
        /\ \A k \in 1..Len(t) : t[k] \in QBlocks /\ t[k] \in Nat
    <2>1. Len(t) \in Nat /\ \A k \in 1..Len(t) : t[k] \in QBlocks
      BY SeqFacts
    <2>2. \A b \in QBlocks : b \in Nat
      BY CapFacts DEF QBlocks
    <2> QED
      BY <2>1, <2>2
  <1>3. \A k \in 1..n : Place(h + k - 1) \in 0..Cap - 1
    BY <1>2, PlaceDiv
  <1>4. \A j, k \in Nat : j # k /\ a <= j /\ j < a + Cap /\ a <= k /\ k < a + Cap => Place(j) # Place(k)
    <2> SUFFICES ASSUME NEW j \in Nat, NEW k \in Nat, j # k, a <= j, j < a + Cap, a <= k, k < a + Cap
                 PROVE  Place(j) # Place(k)
      OBVIOUS
    <2>1. CASE j < k
      BY <1>1, <2>1, PlacesApart
    <2>2. CASE k < j
      BY <1>1, <2>2, PlacesApart
    <2> QED
      BY <2>1, <2>2
  <1>5. \A k \in 1..n : a <= h + k - 1 /\ h + k - 1 < a + Cap /\ h <= h + k - 1 /\ h + k - 1 < h + n
    BY <1>1, <1>2
  <1>6. ASSUME NEW j \in 1..n, NEW k \in 1..n, Place(h + j - 1) = Place(h + k - 1) PROVE j = k
    <2>1. h + j - 1 = h + k - 1
      BY <1>2, <1>4, <1>5, <1>6
    <2> QED
      BY <1>2, <2>1
  <1>7. o2 = [i \in 0..Cap - 1 |-> IF \E k \in 1..n : Hit(i, k)
                                   THEN t[CHOOSE k \in 1..n : Hit(i, k)] ELSE o[i]]
    BY DEF CopyIn
  <1> HIDE DEF o2
  <1>8. ASSUME NEW k \in 1..n PROVE o2[Place(h + k - 1)] = t[k]
    <2> DEFINE i == Place(h + k - 1)
               c == CHOOSE m \in 1..n : Hit(i, m)
    <2>1. Hit(i, k)
      OBVIOUS
    <2>2. c \in 1..n /\ Hit(i, c)
      BY <2>1
    <2>3. c = k
      BY <1>6, <2>2
    <2>4. i \in 0..Cap - 1
      BY <1>3
    <2>5. o2[i] = t[c]
      BY <1>7, <2>1, <2>4
    <2> QED
      BY <2>3, <2>5
  <1>9. ASSUME NEW j \in Nat, a <= j, j < a + Cap, j < h \/ h + n <= j PROVE o2[Place(j)] = o[Place(j)]
    <2>1. \A k \in 1..n : ~Hit(Place(j), k)
      <3> SUFFICES ASSUME NEW k \in 1..n PROVE Place(j) # Place(h + k - 1)
        OBVIOUS
      <3>1. j # h + k - 1
        BY <1>2, <1>5, <1>9
      <3> QED
        BY <1>2, <1>4, <1>5, <1>9, <3>1
    <2>2. Place(j) \in 0..Cap - 1
      BY PlaceDiv
    <2> QED
      BY <1>7, <2>1, <2>2
  <1>10. o2 \in [0..Cap - 1 -> Nat]
    <2> SUFFICES ASSUME NEW i \in 0..Cap - 1
                 PROVE  (IF \E k \in 1..n : Hit(i, k) THEN t[CHOOSE k \in 1..n : Hit(i, k)] ELSE o[i]) \in Nat
      BY <1>7
    <2>1. CASE \E k \in 1..n : Hit(i, k)
      <3> DEFINE c == CHOOSE k \in 1..n : Hit(i, k)
      <3>1. c \in 1..n
        BY <2>1
      <3> QED
        BY <1>2, <2>1, <3>1
    <2> QED
      BY <2>1
  <1> QED
    BY <1>8, <1>9, <1>10 DEF o2, WellCopied

LEMMA PushedIs ==
    ASSUME ShmInv, NEW p \in Procs, shm[p].do # "no"
    PROVE  /\ Pushed(p) = OwnOf(p, shm[p].ring) /\ Pushed(p) \in Seq(QBlocks)
           /\ Pushed(p) = IF shm[p].ring = "queue" THEN filled[p] ELSE taken[p]
  BY OwnIs DEF Pushed, OwnOf, From, ShmInv, ShmTypes

LEMMA PushCopyKeeps == ASSUME ShmInv, NEW p \in Procs, PushCopy(p) PROVE ShmInv'
  <1> DEFINE r == shm[p].ring
             n == shm[p].n
             h == shm[p].head
             t == Pushed(p)
             st == [shm[p] EXCEPT !.do = "push_tail"]
             o2 == CopyIn(off[r], t, h, n)
  <1>1. shm[p].do = "push_copy" /\ To(p, "push_tail") /\ UNCHANGED <<ph, pt, ch, ct, filled, taken>>
    BY DEF PushCopy, At
  <1>2. /\ r \in Rings /\ n \in Nat /\ h \in Nat /\ n <= Len(OwnOf(p, r)) /\ (r = "slot" => n = 1)
        /\ t = OwnOf(p, r) /\ t \in Seq(QBlocks)
    BY <1>1, CallIs, PushedIs DEF Headless, CallOk, Offers
  <1>3. /\ shm' = [shm EXCEPT ![p] = st] /\ shm' \in [Procs -> CallStates] /\ shm'[p] = st /\ st \in CallStates
        /\ st.do = "push_tail" /\ st.ring = r /\ st.n = n /\ st.head = h
        /\ \A q \in Procs \ {p} : shm'[q] = shm[q]
    BY <1>1, Going DEF Headless, Doings
  <1>4. /\ ph \in [Rings -> Nat] /\ pt \in [Rings -> Nat] /\ ct \in [Rings -> Nat] /\ ch \in [Rings -> Nat]
        /\ off \in [Rings -> [0..Cap - 1 -> Nat]] /\ shm \in [Procs -> CallStates]
    BY DEF ShmInv, ShmTypes
  <1>5. off' = [off EXCEPT ![r] = o2]
    BY <1>1, <1>2, <1>4 DEF PushCopy, CopyIn
  <1>6. pt[r] <= h /\ h + n <= ph[r] /\ ct[r] <= ch[r] /\ ch[r] <= pt[r] /\ ph[r] <= ct[r] + Cap
    BY <1>1, <1>2 DEF ShmInv, RingOrder, Reserved, Pushes
  <1>7. /\ o2 \in [0..Cap - 1 -> Nat]
        /\ \A k \in 1..n : o2[Place(h + k - 1)] = t[k]
        /\ \A j \in Nat : ct[r] <= j /\ j < ct[r] + Cap /\ (j < h \/ h + n <= j) => o2[Place(j)] = off[r][Place(j)]
    <2> DEFINE o == off[r]
               a == ct[r]
    <2>1. o \in [0..Cap - 1 -> Nat] /\ a \in Nat /\ a <= h /\ h + n <= a + Cap /\ n <= Len(t)
      <3>1. ph[r] \in Nat /\ pt[r] \in Nat /\ ct[r] \in Nat /\ ch[r] \in Nat /\ Cap \in Nat
        BY <1>2, <1>4, CapFacts
      <3> QED
        BY SMTT(40), <1>2, <1>4, <1>6, <3>1
    <2>2. o2 = CopyIn(o, t, h, n)
      OBVIOUS
    <2>3. t \in Seq(QBlocks) /\ h \in Nat /\ n \in Nat
      BY <1>2
    <2> DEFINE u == CopyIn(o, t, h, n)
    <2> HIDE DEF o, a, h, n, t
    <2>4. WellCopied(u, o, t, h, n, a)
      BY <2>1, <2>3, CopiedIn
    <2> HIDE DEF u
    <2>5. o2 = u
      BY <2>2 DEF u
    <2> HIDE DEF o2
    <2> QED
      BY <2>4, <2>5 DEF o, a, WellCopied
  <1> HIDE DEF st, n, t, h, o2
  <1>8. off'[r] = o2 /\ \A x \in Rings : x # r => off'[x] = off[x]
    BY <1>2, <1>4, <1>5
  <1>9. ShmTypes'
    BY <1>1, <1>2, <1>3, <1>4, <1>5, <1>7 DEF ShmInv, ShmTypes
  <1>10. RingOrder'
    BY <1>1 DEF ShmInv, RingOrder
  <1>11. CallsOk'
    <2>1. CallOk(st, ph[r], pt[r], ct[r], off'[r], OwnOf(p, r), filled[p])
      BY <1>2, <1>3, <1>7, <1>8 DEF CallOk, Offers
    <2>2. \A x \in Rings : ph[x] <= ph'[x] /\ pt[x] <= pt'[x] /\ ct[x] <= ct'[x]
      BY <1>1, <1>4
    <2>3. ASSUME NEW q \in Procs \ {p}, shm[q].do = "push_tail", NEW k \in 1..shm[q].n
          PROVE  off'[shm[q].ring][Place(shm[q].head + k - 1)] = off[shm[q].ring][Place(shm[q].head + k - 1)]
      <3> DEFINE j == shm[q].head + k - 1
      <3>1. /\ shm[q].ring \in Rings /\ shm[q].head \in Nat /\ shm[q].n \in Nat
        BY <2>3, CallIs DEF Headless
      <3>2. j \in Nat /\ shm[q].head <= j /\ j < shm[q].head + shm[q].n
        BY <3>1
      <3>3. CASE shm[q].ring # r
        BY <1>8, <3>1, <3>3
      <3>4. CASE shm[q].ring = r
        <4>1. /\ pt[r] <= shm[q].head /\ shm[q].head + shm[q].n <= ph[r]
              /\ shm[q].head + shm[q].n <= h \/ h + n <= shm[q].head
          BY <1>1, <2>3, <3>4 DEF ShmInv, Reserved, Pushes, h, n
        <4>2. ph[r] \in Nat /\ pt[r] \in Nat /\ ct[r] \in Nat /\ ch[r] \in Nat /\ Cap \in Nat
          BY <1>2, <1>4, CapFacts
        <4>a. ct[r] <= ch[r] /\ ch[r] <= pt[r] /\ ph[r] <= ct[r] + Cap /\ h \in Nat /\ n \in Nat
          BY <1>2, <1>6
        <4> DEFINE b == shm[q].head
                   m == shm[q].n
        <4>b. b \in Nat /\ m \in Nat /\ j \in Nat /\ b <= j /\ j < b + m
          BY <3>1, <3>2
        <4>c. pt[r] <= b /\ b + m <= ph[r] /\ (b + m <= h \/ h + n <= b)
          BY <4>1
        <4> HIDE DEF j, b, m
        <4>3. ct[r] <= j /\ j < ct[r] + Cap /\ (j < h \/ h + n <= j)
          BY <4>2, <4>a, <4>b, <4>c
        <4>4. o2[Place(j)] = off[r][Place(j)]
          BY <1>7, <3>2, <4>3
        <4> QED
          BY <1>8, <3>4, <4>4 DEF j
      <3> QED
        BY <3>3, <3>4
    <2> QED
      BY <1>1, <1>2, <1>3, <1>9, <2>1, <2>2, <2>3, OthersOk DEF OwnOf
  <1>12. Reserved(shm, Pushes, pt, ph)' /\ Reserved(shm, Pops, ct, ch)'
    <2>1. Reserved([shm EXCEPT ![p] = st], Pops, ct, ch)
      <3>1. shm[p].do \notin Pops /\ st.do \notin Pops
        BY <1>1, <1>3 DEF Pops
      <3> QED
        BY <1>4, <3>1, ReservedAside DEF ShmInv
    <2>2. Reserved([shm EXCEPT ![p] = st], Pushes, pt, ph)
      <3>1. shm[p].do \in Pushes /\ st.do \in Pushes /\ st.ring = shm[p].ring /\ st.n = shm[p].n
            /\ st.head = shm[p].head /\ Reserved(shm, Pushes, pt, ph)
        BY <1>1, <1>3 DEF Pushes, n, h, ShmInv
      <3> QED
        BY <1>4, <3>1, ReservedStill
    <2> QED
      BY <1>1, <1>3, <2>1, <2>2
  <1>13. Once(HeldNow)'
    <2>0. \A x \in Rings : ph[x] \in Nat /\ pt[x] \in Nat /\ ct[x] \in Nat /\ ch[x] \in Nat /\ Cap \in Nat
      BY <1>4, CapFacts
    <2>1. ASSUME NEW x \in Rings, NEW i \in Nat, ct[x] <= i, i < pt[x]
          PROVE  off'[x][Place(i)] = off[x][Place(i)]
      <3>1. CASE x = r
        <4>1. ct[r] <= i /\ i < ct[r] + Cap /\ i < h
          BY SMTT(40), <1>2, <1>6, <2>0, <2>1, <3>1
        <4> QED
          BY <1>7, <1>8, <3>1, <4>1
      <3>2. CASE x # r
        BY <1>8, <3>2
      <3> QED
        BY <3>1, <3>2
    <2>2. \A x \in Rings : \A i \in Nat : InRing(ch, pt, x, i) => off'[x][Place(i)] = off[x][Place(i)]
      <3> SUFFICES ASSUME NEW x \in Rings, NEW i \in Nat, InRing(ch, pt, x, i)
                   PROVE  off'[x][Place(i)] = off[x][Place(i)]
        OBVIOUS
      <3>1. ct[x] <= ch[x] /\ ch[x] <= i /\ i < pt[x]
        BY DEF InRing, ShmInv, RingOrder
      <3> QED
        BY <2>0, <2>1, <3>1
    <2>3. ASSUME NEW q \in Procs, NEW i \in Nat
          PROVE  /\ InCopy(shm'[q], i) <=> InCopy(shm[q], i)
                 /\ InCopy(shm[q], i) => off'[shm'[q].ring][Place(i)] = off[shm[q].ring][Place(i)]
      <3>1. CASE q = p
        BY <1>1, <1>3, <3>1 DEF InCopy
      <3>2. CASE q # p
        <4>1. shm'[q] = shm[q]
          BY <1>3, <3>2
        <4>2. ASSUME InCopy(shm[q], i)
              PROVE  off'[shm[q].ring][Place(i)] = off[shm[q].ring][Place(i)]
          <5> DEFINE x == shm[q].ring
          <5>1. x \in Rings /\ shm[q].head \in Nat /\ shm[q].n \in Nat
            BY <4>2, CallIs DEF InCopy, Headless
          <5>2. ct[x] <= shm[q].head /\ shm[q].head + shm[q].n <= ch[x] /\ ch[x] <= pt[x]
            BY <4>2, <5>1 DEF ShmInv, Reserved, Pops, InCopy, RingOrder
          <5>3. shm[q].head <= i /\ i < shm[q].head + shm[q].n
            BY <4>2 DEF InCopy, Within
          <5> HIDE DEF x
          <5>4. ct[x] <= i /\ i < pt[x]
            BY <2>0, <5>1, <5>2, <5>3
          <5> QED
            BY <2>1, <5>1, <5>4 DEF x
        <4> QED
          BY <4>1, <4>2
      <3> QED
        BY <3>1, <3>2
    <2> QED
      BY <1>1, <2>2, <2>3, HeldKeeps
  <1> QED
    BY <1>9, <1>10, <1>11, <1>12, <1>13 DEF ShmInv, Once

LEMMA AsSequence ==
    ASSUME NEW S, NEW n \in Nat, NEW f \in [1..n -> S] PROVE f \in Seq(S) /\ Len(f) = n
  OBVIOUS

LEMMA PopCopyKeeps == ASSUME ShmInv, NEW p \in Procs, PopCopy(p) PROVE ShmInv'
  <1> DEFINE r == shm[p].ring
             n == shm[p].n
             a == shm[p].head
             h == Into(r)
             got == [k \in 1..n |-> off[r][Place(a + k - 1)]]
             mine == IF r = "slot" THEN filled[p] ELSE taken[p]
             st == [shm[p] EXCEPT !.do = "pop_tail"]
             m == Len(mine)
             new == mine \o got
  <1>1. shm[p].do = "pop_copy" /\ To(p, "pop_tail") /\ UNCHANGED <<ph, pt, ch, ct, off>>
    BY DEF PopCopy, At, ringVars
  <1>2. r \in Rings /\ n \in Nat /\ n > 0 /\ a \in Nat /\ (r = "slot" => n = 1)
    BY <1>1, CallIs DEF Headless, CallOk
  <1>3. /\ shm' = [shm EXCEPT ![p] = st] /\ shm' \in [Procs -> CallStates] /\ shm'[p] = st /\ st \in CallStates
        /\ st.do = "pop_tail" /\ st.ring = r /\ st.n = n /\ st.head = a
        /\ \A q \in Procs \ {p} : shm'[q] = shm[q]
    BY <1>1, Going DEF Headless, Doings
  <1>4. /\ ph \in [Rings -> Nat] /\ pt \in [Rings -> Nat] /\ ct \in [Rings -> Nat] /\ ch \in [Rings -> Nat]
        /\ off \in [Rings -> [0..Cap - 1 -> Nat]] /\ shm \in [Procs -> CallStates]
        /\ filled \in [Procs -> Seq(QBlocks)] /\ taken \in [Procs -> Seq(QBlocks)]
    BY DEF ShmInv, ShmTypes
  <1>5. IF r = "slot" THEN filled' = [filled EXCEPT ![p] = new] /\ taken' = taken
        ELSE taken' = [taken EXCEPT ![p] = new] /\ filled' = filled
    BY <1>4 DEF PopCopy
  <1>6. got \in [1..n -> QBlocks]
    <2> SUFFICES ASSUME NEW k \in 1..n PROVE off[r][Place(a + k - 1)] \in QBlocks
      OBVIOUS
    <2> DEFINE i == a + k - 1
    <2>1. i \in Nat /\ a <= i /\ i < a + n
      BY <1>2
    <2>2. InCopy(shm[p], i)
      BY <1>1, <2>1 DEF InCopy, Within
    <2> HIDE DEF i
    <2>3. Spot("copy", p, i) \in DOMAIN HeldNow /\ HeldNow[Spot("copy", p, i)] = off[r][Place(i)]
      BY <2>1, <2>2, NowHeld DEF AreHeld
    <2>4. off[r][Place(i)] \in QBlocks
      BY <2>3 DEF ShmInv, Once
    <2> QED
      BY <2>4 DEF i
  <1>7. got \in Seq(QBlocks) /\ Len(got) = n /\ \A k \in 1..n : got[k] = off[r][Place(a + k - 1)]
    <2>1. \A k \in 1..n : got[k] = off[r][Place(a + k - 1)]
      OBVIOUS
    <2> HIDE DEF got
    <2> QED
      BY <1>2, <1>6, <2>1, AsSequence
  <1>8. mine \in Seq(QBlocks)
    BY <1>4
  <1> HIDE DEF got, mine
  <1>9. /\ new \in Seq(QBlocks) /\ Len(new) = m + n /\ m \in Nat
        /\ \A i \in 1..m : new[i] = mine[i]
        /\ \A i \in 1..n : new[m + i] = off[r][Place(a + i - 1)]
    <2>1. Len(mine) \in Nat
      BY <1>8, SeqFacts
    <2> QED
      BY <1>7, <1>8, <2>1, Join
  <1>10. DOMAIN mine = 1..m /\ DOMAIN new = 1..(m + n)
    BY <1>8, <1>9, SeqFacts
  <1> HIDE DEF new, m
  <1>11. filled' \in [Procs -> Seq(QBlocks)] /\ taken' \in [Procs -> Seq(QBlocks)]
    BY <1>4, <1>5, <1>9
  <1> DEFINE own == Own(filled, taken)
             own2 == Own(filled', taken')
  <1>12. /\ h \in Hands /\ own[h][p] = mine /\ own2[h][p] = new
         /\ \A k \in Hands : \A q \in Procs : k # h \/ q # p => own2[k][q] = own[k][q]
    <2>1. own["filled"] = filled /\ own["taken"] = taken /\ own2["filled"] = filled' /\ own2["taken"] = taken'
      BY OwnIs
    <2> HIDE DEF own, own2
    <2>2. h = (IF r = "slot" THEN "filled" ELSE "taken") /\ Hands = {"filled", "taken"}
      BY DEF Into, Hands
    <2>3. CASE r = "slot"
      BY <1>4, <1>5, <2>1, <2>2, <2>3 DEF mine
    <2>4. CASE r # "slot"
      BY <1>4, <1>5, <2>1, <2>2, <2>4 DEF mine
    <2> QED
      BY <2>3, <2>4
  <1>13. \A q \in Procs \ {p} : filled'[q] = filled[q] /\ taken'[q] = taken[q]
    BY <1>4, <1>5
  <1>14. r = "slot" => filled'[p] # <<>>
    <2> SUFFICES ASSUME r = "slot" PROVE filled'[p] # <<>>
      OBVIOUS
    <2>1. filled'[p] = new
      BY <1>4, <1>5
    <2>2. Len(new) # 0
      BY <1>2, <1>9
    <2> QED
      BY <1>9, <2>1, <2>2, SeqFacts
  <1> HIDE DEF st, n, a, h, own, own2
  <1>15. ShmTypes'
    BY <1>1, <1>3, <1>4, <1>11 DEF ShmTypes
  <1>16. RingOrder'
    BY <1>1 DEF ShmInv, RingOrder
  <1>17. CallsOk'
    <2>1. CallOk(st, ph[r], pt[r], ct[r], off[r], Own(filled', taken')[From(r)][p], filled'[p])
      BY <1>2, <1>3, <1>14 DEF CallOk, Offers
    <2>2. \A x \in Rings : ph[x] <= ph'[x] /\ pt[x] <= pt'[x] /\ ct[x] <= ct'[x]
      BY <1>1, <1>4
    <2>3. \A q \in Procs \ {p} : shm'[q] = shm[q] /\ filled'[q] = filled[q] /\ taken'[q] = taken[q]
      BY <1>3, <1>13
    <2> QED
      BY <1>1, <1>2, <1>3, <1>15, <2>1, <2>2, <2>3, OthersOk
  <1>18. Reserved(shm, Pushes, pt, ph)' /\ Reserved(shm, Pops, ct, ch)'
    <2>1. Reserved([shm EXCEPT ![p] = st], Pushes, pt, ph)
      <3>1. shm[p].do \notin Pushes /\ st.do \notin Pushes
        BY <1>1, <1>3 DEF Pushes
      <3> QED
        BY <1>4, <3>1, ReservedAside DEF ShmInv
    <2>2. Reserved([shm EXCEPT ![p] = st], Pops, ct, ch)
      <3>1. shm[p].do \in Pops /\ st.do \in Pops /\ st.ring = shm[p].ring /\ st.n = shm[p].n
            /\ st.head = shm[p].head /\ Reserved(shm, Pops, ct, ch)
        BY <1>1, <1>3 DEF Pops, n, a, ShmInv
      <3> QED
        BY <1>4, <3>1, ReservedStill
    <2> QED
      BY <1>1, <1>3, <2>1, <2>2
  <1>19. Once(HeldNow)'
    <2> DEFINE I == HeldNow
               J == HeldNow'
               s == shm
               s2 == shm'
    <2>1. Once(I) /\ AreHeld(I, ch, pt, off, s, own)
      BY NowHeld DEF ShmInv, own
    <2>2. AreHeld(J, ch, pt, off, s2, own2)
      BY <1>1, ThenHeld DEF own2
    <2>3. s[p].do = "pop_copy" /\ s[p].n = n /\ s[p].head = a /\ s[p].ring = r
      BY <1>1 DEF n, a
    <2>4. s2[p].do # "pop_copy" /\ \A q \in Procs : q # p => s2[q] = s[q]
      BY <1>3
    <2>5. DOMAIN own[h][p] = 1..m /\ DOMAIN own2[h][p] = 1..(m + n)
      BY <1>10, <1>12
    <2>6. /\ \A i \in 1..m : own2[h][p][i] = own[h][p][i]
          /\ \A i \in 1..n : own2[h][p][m + i] = off[s[p].ring][Place(a + i - 1)]
      BY <1>9, <1>12
    <2>7. h \in Hands /\ \A k \in Hands : \A q \in Procs : k # h \/ q # p => own2[k][q] = own[k][q]
      BY <1>12
    <2>8. n \in Nat /\ a \in Nat /\ m \in Nat
      BY <1>2, <1>9
    <2> HIDE DEF I, J, s, s2, r
    <2>9. Popped(off, s, s2, own, own2, p, h, n, a, m)
      BY <2>3, <2>4, <2>5, <2>6, <2>7 DEF Popped
    <2>10. Once(J)
      BY <2>1, <2>2, <2>7, <2>8, <2>9, SpotsPopped
    <2> QED
      BY <2>10 DEF J, Once
  <1> QED
    BY <1>15, <1>16, <1>17, <1>18, <1>19 DEF ShmInv, Once

LEMMA PushTailKeeps == ASSUME ShmInv, NEW p \in Procs, PushTail(p) PROVE ShmInv'
  <1> DEFINE r == shm[p].ring
             n == shm[p].n
             a == shm[p].head
             h == From(r)
             mine == IF r = "queue" THEN filled[p] ELSE taken[p]
             new == IF r = "queue" THEN SubSeq(mine, n + 1, Len(mine)) ELSE Tail(mine)
             st == [shm[p] EXCEPT !.do = "push_num"]
             m == Len(mine)
  <1>1. shm[p].do = "push_tail" /\ To(p, "push_num") /\ pt[r] = a /\ pt' = [pt EXCEPT ![r] = @ + n]
        /\ UNCHANGED <<ph, ch, ct, off>>
    BY DEF PushTail, At
  <1>2. /\ r \in Rings /\ n \in Nat /\ n > 0 /\ a \in Nat /\ (r = "slot" => n = 1) /\ n <= Len(OwnOf(p, r))
        /\ \A k \in 1..n : off[r][Place(a + k - 1)] = OwnOf(p, r)[k]
    BY <1>1, CallIs DEF Headless, CallOk, Offers
  <1>3. /\ shm' = [shm EXCEPT ![p] = st] /\ shm' \in [Procs -> CallStates] /\ shm'[p] = st /\ st \in CallStates
        /\ st.do = "push_num" /\ st.ring = r /\ st.n = n /\ st.head = a
        /\ \A q \in Procs \ {p} : shm'[q] = shm[q]
    BY <1>1, Going DEF Headless, Doings
  <1>4. /\ ph \in [Rings -> Nat] /\ pt \in [Rings -> Nat] /\ ct \in [Rings -> Nat] /\ ch \in [Rings -> Nat]
        /\ off \in [Rings -> [0..Cap - 1 -> Nat]] /\ shm \in [Procs -> CallStates]
        /\ filled \in [Procs -> Seq(QBlocks)] /\ taken \in [Procs -> Seq(QBlocks)]
    BY DEF ShmInv, ShmTypes
  <1>5. IF r = "queue" THEN filled' = [filled EXCEPT ![p] = new] /\ taken' = taken
        ELSE taken' = [taken EXCEPT ![p] = new] /\ filled' = filled
    BY <1>4 DEF PushTail
  <1>6. mine \in Seq(QBlocks) /\ mine = OwnOf(p, r) /\ mine = Own(filled, taken)[h][p]
    BY <1>4, OwnIs DEF OwnOf, From
  <1>7. Reserved([shm EXCEPT ![p] = st], Pushes, [pt EXCEPT ![r] = @ + n], ph) /\ pt[r] + n <= ph[r]
    <2>1. /\ Pushes \in SUBSET (Pushes \cup Pops) /\ shm[p].do \in Pushes /\ st.do \notin Pushes
          /\ Reserved(shm, Pushes, pt, ph)
      BY <1>1, <1>3 DEF Pushes, ShmInv
    <2> QED
      BY <1>1, <1>4, <2>1, ReservedLess
  <1> HIDE DEF mine, n, a, st
  <1>8. /\ new \in Seq(QBlocks) /\ Len(new) = m - n /\ m \in Nat /\ n <= m
        /\ \A i \in 1..(m - n) : new[i] = mine[n + i]
    <2>1. Len(mine) \in Nat /\ n <= Len(mine)
      BY <1>2, <1>6, SeqFacts
    <2>2. CASE r = "queue"
      <3>1. n \in 0..Len(mine)
        BY <1>2, <2>1
      <3> QED
        BY <1>6, <2>1, <2>2, <3>1, Cut
    <2>3. CASE r # "queue"
      <3>1. n = 1 /\ new = Tail(mine)
        BY <1>2, <2>3 DEF Rings
      <3>2. mine # <<>>
        BY <1>6, <2>1, <3>1, SeqFacts
      <3>3. \A i \in 1..(Len(mine) - 1) : i + 1 = 1 + i
        BY <2>1
      <3>4. Tail(mine) \in Seq(QBlocks) /\ Len(Tail(mine)) = Len(mine) - 1
            /\ \A i \in 1..Len(Tail(mine)) : Tail(mine)[i] = mine[i + 1]
        BY <1>6, <3>2, Shorter
      <3> QED
        BY <2>1, <3>1, <3>3, <3>4
    <2> QED
      BY <2>2, <2>3
  <1>9. DOMAIN mine = 1..m /\ DOMAIN new = 1..(m - n)
    BY <1>6, <1>8, SeqFacts
  <1> HIDE DEF new, m
  <1>10. filled' \in [Procs -> Seq(QBlocks)] /\ taken' \in [Procs -> Seq(QBlocks)]
    BY <1>4, <1>5, <1>8
  <1> DEFINE own == Own(filled, taken)
             own2 == Own(filled', taken')
  <1>11. /\ h \in Hands /\ own[h][p] = mine /\ own2[h][p] = new
         /\ \A k \in Hands : \A q \in Procs : k # h \/ q # p => own2[k][q] = own[k][q]
    <2>1. own["filled"] = filled /\ own["taken"] = taken /\ own2["filled"] = filled' /\ own2["taken"] = taken'
      BY OwnIs
    <2>a. own[h][p] = mine
      BY <1>6
    <2> HIDE DEF own, own2
    <2>2. h = (IF r = "queue" THEN "filled" ELSE "taken") /\ Hands = {"filled", "taken"}
      BY DEF From, Hands
    <2>3. CASE r = "queue"
      BY <1>4, <1>5, <2>1, <2>a, <2>2, <2>3
    <2>4. CASE r # "queue"
      BY <1>4, <1>5, <2>1, <2>a, <2>2, <2>4
    <2> QED
      BY <2>3, <2>4
  <1>12. \A q \in Procs \ {p} : filled'[q] = filled[q] /\ taken'[q] = taken[q]
    BY <1>4, <1>5
  <1> HIDE DEF h, own, own2
  <1>13. \A x \in Rings : pt[x] <= pt'[x] /\ pt'[x] = IF x = r THEN pt[r] + n ELSE pt[x]
    BY <1>1, <1>2, <1>4
  <1>14. ShmTypes'
    BY SMTT(40), <1>1, <1>2, <1>3, <1>4, <1>10 DEF ShmTypes
  <1>15. RingOrder'
    <2> SUFFICES ASSUME NEW x \in Rings
                 PROVE  ct[x] <= ch[x] /\ ch[x] <= pt'[x] /\ pt'[x] <= ph[x] /\ ph[x] <= ct[x] + Cap
      BY <1>1 DEF RingOrder
    <2>1. ct[x] <= ch[x] /\ ch[x] <= pt[x] /\ pt[x] <= ph[x] /\ ph[x] <= ct[x] + Cap
      BY DEF ShmInv, RingOrder
    <2>2. ch[x] \in Nat /\ ct[x] \in Nat /\ ph[x] \in Nat /\ pt[x] \in Nat /\ Cap \in Nat
      BY <1>4, CapFacts
    <2>4. CASE x = r
      BY <1>2, <1>7, <1>13, <2>1, <2>2, <2>4
    <2>5. CASE x # r
      BY <1>13, <2>1, <2>5
    <2> QED
      BY <2>4, <2>5
  <1>16. CallsOk'
    <2>1. CallOk(st, ph[r], pt'[r], ct[r], off[r], Own(filled', taken')[From(r)][p], filled'[p])
      BY <1>2, <1>3 DEF CallOk, Offers
    <2>2. \A x \in Rings : ph[x] <= ph'[x] /\ pt[x] <= pt'[x] /\ ct[x] <= ct'[x]
      BY <1>1, <1>4, <1>13
    <2>3. \A q \in Procs \ {p} : shm'[q] = shm[q] /\ filled'[q] = filled[q] /\ taken'[q] = taken[q]
      BY <1>3, <1>12
    <2> QED
      BY <1>1, <1>2, <1>3, <1>14, <2>1, <2>2, <2>3, OthersOk
  <1>17. Reserved(shm, Pushes, pt, ph)' /\ Reserved(shm, Pops, ct, ch)'
    <2>1. Reserved([shm EXCEPT ![p] = st], Pops, ct, ch)
      <3>1. shm[p].do \notin Pops /\ st.do \notin Pops
        BY <1>1, <1>3 DEF Pops
      <3> QED
        BY <1>4, <3>1, ReservedAside DEF ShmInv
    <2> QED
      BY <1>1, <1>3, <1>7, <2>1
  <1>18. Once(HeldNow)'
    <2> DEFINE I == HeldNow
               J == HeldNow'
               s == shm
               s2 == shm'
               p2 == pt'
    <2>1. Once(I) /\ AreHeld(I, ch, pt, off, s, own)
      BY NowHeld DEF ShmInv, own
    <2>2. AreHeld(J, ch, p2, off, s2, own2)
      BY <1>1, ThenHeld DEF own2
    <2>3. ch[r] \in Nat /\ pt[r] = a /\ ch[r] <= a
      BY <1>1, <1>2, <1>4 DEF ShmInv, RingOrder
    <2>4. p2[r] = a + n /\ \A x \in Rings : x # r => p2[x] = pt[x]
      BY <1>1, <1>2, <1>13
    <2>5. \A q \in Procs : \A i \in Nat :
            (InCopy(s2[q], i) <=> InCopy(s[q], i)) /\ (InCopy(s[q], i) => s2[q].ring = s[q].ring)
      BY <1>1, <1>3 DEF InCopy
    <2>6. DOMAIN own[h][p] = 1..m /\ DOMAIN own2[h][p] = 1..(m - n)
      BY <1>9, <1>11
    <2>7. /\ \A i \in 1..(m - n) : own2[h][p][i] = own[h][p][n + i]
          /\ \A i \in 1..n : off[r][Place(a + i - 1)] = own[h][p][i]
      BY <1>2, <1>6, <1>8, <1>11
    <2>8. h \in Hands /\ \A k \in Hands : \A q \in Procs : k # h \/ q # p => own2[k][q] = own[k][q]
      BY <1>11
    <2>9. n \in Nat /\ a \in Nat /\ m \in Nat /\ n <= m /\ r \in Rings
      BY <1>2, <1>8
    <2> HIDE DEF I, J, s, s2, p2, r
    <2>10. Sent(ch, pt, p2, off, s, s2, own, own2, p, h, r, n, a, m)
      BY <2>3, <2>4, <2>5, <2>6, <2>7, <2>8 DEF Sent
    <2>11. Once(J)
      BY <2>1, <2>2, <2>8, <2>9, <2>10, SpotsPushed
    <2> QED
      BY <2>11 DEF J, Once
  <1> QED
    BY <1>14, <1>15, <1>16, <1>17, <1>18 DEF ShmInv, Once

LEMMA ShmInitially == ASSUME ShmQueueInit PROVE ShmInv
  <1>1. Cap \in Nat /\ NumBlocks \in Nat /\ NumBlocks <= Cap /\ NumBlocks > 0 /\ Rings = {"queue", "slot"}
    BY CapFacts DEF Rings
  <1>2. /\ ph \in [Rings -> Nat] /\ pt \in [Rings -> Nat] /\ ct \in [Rings -> Nat] /\ ch \in [Rings -> Nat]
        /\ \A r \in Rings : ch[r] = 0 /\ ct[r] = 0 /\ pt[r] = ph[r]
        /\ ph["queue"] = 0 /\ ph["slot"] = NumBlocks
    BY <1>1 DEF ShmQueueInit
  <1>3. off \in [Rings -> [0..Cap - 1 -> Nat]] /\ \A b \in QBlocks : off["slot"][Place(b - 1)] = b
    <2>1. \A i \in 0..Cap - 1 : i + 1 \in Nat /\ 0 \in Nat
      BY <1>1
    <2>2. off \in [Rings -> [0..Cap - 1 -> Nat]]
      BY <2>1 DEF ShmQueueInit
    <2> QED
      BY <2>2 DEF ShmQueueInit, SlotInit
  <1>4. /\ shm \in [Procs -> CallStates] /\ \A p \in Procs : shm[p] = NoCall /\ shm[p].do = "no"
    BY DEF ShmQueueInit, CallStates, NoCall
  <1>5. /\ filled \in [Procs -> Seq(QBlocks)] /\ taken \in [Procs -> Seq(QBlocks)]
        /\ \A p \in Procs : DOMAIN filled[p] = {} /\ DOMAIN taken[p] = {}
    BY DEF ShmQueueInit
  <1>6. ShmTypes
    BY <1>2, <1>3, <1>4, <1>5 DEF ShmTypes
  <1>7. RingOrder
    BY <1>1, <1>2 DEF RingOrder
  <1>8. CallsOk
    BY <1>4 DEF CallsOk, CallOk, Offers
  <1>9. Reserved(shm, Pushes, pt, ph) /\ Reserved(shm, Pops, ct, ch)
    <2>1. \A p \in Procs : shm[p].do \notin Pushes /\ shm[p].do \notin Pops
      BY <1>4 DEF Pushes, Pops
    <2>2. \A r \in Rings : \A i \in Nat : ~(pt[r] <= i /\ i < ph[r]) /\ ~(ct[r] <= i /\ i < ch[r])
      BY <1>1, <1>2
    <2> QED
      BY <2>1, <2>2 DEF Reserved
  <1>10. Once(HeldNow)
    <2> DEFINE I == HeldNow
               own == Own(filled, taken)
    <2>1. AreHeld(I, ch, pt, off, shm, own)
      BY NowHeld
    <2>2. /\ \A k \in Hands : \A q \in Procs : \A i \in Nat : i \notin DOMAIN own[k][q]
          /\ \A q \in Procs : \A i \in Nat : ~InCopy(shm[q], i)
          /\ \A r \in Rings : \A i \in Nat : InRing(ch, pt, r, i) <=> r = "slot" /\ i < NumBlocks
      <3>1. \A k \in Hands : \A q \in Procs : \A i \in Nat : i \notin DOMAIN own[k][q]
        BY <1>5, OwnIs DEF Hands
      <3>2. \A q \in Procs : \A i \in Nat : ~InCopy(shm[q], i)
        BY <1>4 DEF InCopy
      <3>3. \A r \in Rings : \A i \in Nat : InRing(ch, pt, r, i) <=> r = "slot" /\ i < NumBlocks
        BY <1>1, <1>2 DEF InRing
      <3> QED
        BY <3>1, <3>2, <3>3
    <2> HIDE DEF I, own
    <2>3. /\ \A l \in DOMAIN I : \E i \in Nat : i < NumBlocks /\ l = Spot("ring", "slot", i)
          /\ \A i \in Nat : i < NumBlocks => Spot("ring", "slot", i) \in DOMAIN I
                                             /\ I[Spot("ring", "slot", i)] = off["slot"][Place(i)]
      BY <1>1, <2>1, <2>2 DEF AreHeld
    <2>4. ASSUME NEW i \in Nat, i < NumBlocks
          PROVE  /\ Spot("ring", "slot", i) \in DOMAIN I /\ I[Spot("ring", "slot", i)] = i + 1
                 /\ i + 1 \in QBlocks
      <3>1. i + 1 \in QBlocks /\ (i + 1) - 1 = i
        BY <1>1, <2>4 DEF QBlocks
      <3>2. off["slot"][Place(i)] = i + 1
        BY <1>3, <3>1
      <3> QED
        BY <2>3, <2>4, <3>1, <3>2
    <2>5. ASSUME NEW k \in DOMAIN I, NEW l \in DOMAIN I, I[k] = I[l] PROVE k = l
      <3>1. PICK i \in Nat : i < NumBlocks /\ k = Spot("ring", "slot", i)
        BY <2>3
      <3>2. PICK j \in Nat : j < NumBlocks /\ l = Spot("ring", "slot", j)
        BY <2>3
      <3>3. i + 1 = j + 1
        BY <2>4, <2>5, <3>1, <3>2
      <3>4. i = j
        BY <3>3
      <3> QED
        BY <3>1, <3>2, <3>4
    <2>6. ASSUME NEW b \in QBlocks PROVE \E l \in DOMAIN I : I[l] = b
      <3>1. \E i \in Nat : i < NumBlocks /\ i + 1 = b
        <4>1. b - 1 \in Nat /\ b - 1 < NumBlocks /\ (b - 1) + 1 = b
          BY <1>1 DEF QBlocks
        <4> QED
          BY <4>1
      <3> QED
        BY <2>4, <3>1
    <2>7. \A l \in DOMAIN I : I[l] \in QBlocks
      BY <2>3, <2>4
    <2> QED
      BY <2>5, <2>6, <2>7 DEF Once, I
  <1> QED
    BY <1>6, <1>7, <1>8, <1>9, <1>10 DEF ShmInv

LEMMA ShmKeeps == ASSUME ShmInv, ShmQueueNext \/ UNCHANGED shmVars PROVE ShmInv'
  <1>1. CASE ShmQueueNext
    <2>1. PICK p \in Procs : \/ RingStep(p)
                             \/ SlotDealloc(p)
                             \/ \E size \in CallSizes : SlotAlloc(p, size)
                             \/ \E n \in 1 .. MaxBatch : ShmQueueMpush(p, n) \/ ShmQueueMpop(p, n)
      BY <1>1 DEF ShmQueueNext
    <2>2. CASE RingStep(p)
      <3>1. CASE PushHead(p) \/ PushRoom(p) \/ PushNum(p) \/ PopHead(p) \/ PopData(p) \/ PopNum(p)
        BY <3>1, ControlKeeps
      <3>2. CASE PushCas(p)
        BY <3>2, PushCasKeeps, CasFailsKeeps
      <3>3. CASE PopCas(p)
        BY <3>3, PopCasKeeps, CasFailsKeeps
      <3>4. CASE PushCopy(p)
        BY <3>4, PushCopyKeeps
      <3>5. CASE PushTail(p)
        BY <3>5, PushTailKeeps
      <3>6. CASE PopCopy(p)
        BY <3>6, PopCopyKeeps
      <3>7. CASE PopTail(p)
        BY <3>7, PopTailKeeps
      <3> QED
        BY <2>2, <3>1, <3>2, <3>3, <3>4, <3>5, <3>6, <3>7 DEF RingStep
    <2>3. CASE ~RingStep(p)
      BY <2>1, <2>3, StartKeeps
    <2> QED
      BY <2>2, <2>3
  <1>2. CASE UNCHANGED shmVars
    <2>1. UNCHANGED <<ph, pt, ch, ct, off, shm, filled, taken>>
      BY <1>2 DEF shmVars, ringVars
    <2>2. Once(HeldNow)'
      BY <2>1, HeldKeeps
    <2>3. ShmTypes' /\ RingOrder'
      BY <2>1 DEF ShmInv, ShmTypes, RingOrder
    <2>4. CallsOk'
      BY <2>1 DEF ShmInv, CallsOk, OwnOf, Own
    <2>5. Reserved(shm, Pushes, pt, ph)' /\ Reserved(shm, Pops, ct, ch)'
      BY <2>1 DEF ShmInv
    <2> QED
      BY <2>2, <2>3, <2>4, <2>5 DEF ShmInv, Once
  <1> QED
    BY <1>1, <1>2

-----------------------------------------------------------------------------
(* The counts of the rings. *)

Counts == {"push_num", "pop_num"}

\* The blocks of the calls that have moved a tail and not counted them yet.
Owed(s, r, do) == {x \in Procs \X QBlocks : s[x[1]].do = do /\ s[x[1]].ring = r /\ x[2] <= s[x[1]].n}

\* The count of a ring, with what is owed to it, is that of the blocks between its tails, but
\* for the times it came round.
CountOf(k, v, x, s, r) ==
    \E times \in Int : k + Cardinality(Owed(s, r, "push_num")) + x
                         = v + Cardinality(Owed(s, r, "pop_num")) + 65536 * times

ShmCount ==
    /\ num \in [Rings -> Nat]
    /\ \A r \in Rings : num[r] < Word16 /\ CountOf(num[r], pt[r], ct[r], shm, r)

LEMMA OwedFinite ==
    ASSUME NEW s, NEW r, NEW do
    PROVE  IsFiniteSet(Owed(s, r, do)) /\ Cardinality(Owed(s, r, do)) \in Nat
  <1>1. IsFiniteSet(QBlocks)
    BY CapFacts, FS_Interval DEF QBlocks
  <1>2. IsFiniteSet(Procs \X QBlocks)
    BY <1>1, ShmQueueAssumption, FS_Product
  <1>3. Owed(s, r, do) \in SUBSET (Procs \X QBlocks)
    BY DEF Owed
  <1> QED
    BY <1>2, <1>3, FS_Subset, FS_CardinalityType

LEMMA OwedSame ==
    ASSUME NEW s, NEW t, NEW r, NEW do,
           \A q \in Procs : /\ s[q].do = do <=> t[q].do = do
                            /\ s[q].do = do => s[q].ring = t[q].ring /\ s[q].n = t[q].n
    PROVE  Owed(s, r, do) = Owed(t, r, do)
  <1>1. \A x \in Procs \X QBlocks : x[1] \in Procs
    OBVIOUS
  <1> QED
    BY <1>1 DEF Owed

\* A process that has moved a tail owes its number to the count of that ring.
LEMMA OwedMore ==
    ASSUME NEW s, NEW t, NEW do, NEW p \in Procs, NEW r, NEW n \in QBlocks,
           \A q \in Procs : q # p => t[q] = s[q],
           s[p].do # do, t[p].do = do, t[p].ring = r, t[p].n = n
    PROVE  /\ Cardinality(Owed(t, r, do)) = Cardinality(Owed(s, r, do)) + n
           /\ \A x : x # r => Owed(t, x, do) = Owed(s, x, do)
  <1> DEFINE A == Owed(s, r, do)
             B == {p} \X (1..n)
  <1>1. n \in Nat /\ n > 0 /\ 1..n \subseteq QBlocks /\ \A i \in QBlocks : i <= n <=> i \in 1..n
    BY CapFacts DEF QBlocks
  <1>2. Owed(t, r, do) = A \cup B
    <2>1. \A x \in Procs \X QBlocks : x \in Owed(t, r, do) <=> x \in A \/ x \in B
      <3> SUFFICES ASSUME NEW q \in Procs, NEW i \in QBlocks
                   PROVE  <<q, i>> \in Owed(t, r, do) <=> <<q, i>> \in A \/ <<q, i>> \in B
        OBVIOUS
      <3>1. /\ <<q, i>> \in Owed(t, r, do) <=> t[q].do = do /\ t[q].ring = r /\ i <= t[q].n
            /\ <<q, i>> \in A <=> s[q].do = do /\ s[q].ring = r /\ i <= s[q].n
            /\ <<q, i>> \in B <=> q = p /\ i \in 1..n
        BY DEF Owed
      <3> QED
        BY <1>1, <3>1
    <2>2. Owed(t, r, do) \subseteq Procs \X QBlocks /\ A \subseteq Procs \X QBlocks
      BY DEF Owed
    <2>3. B \subseteq Procs \X QBlocks
      BY <1>1
    <2> QED
      BY <2>1, <2>2, <2>3
  <1>3. A \cap B = {}
    BY DEF Owed
  <1>4. IsFiniteSet({p}) /\ Cardinality({p}) = 1 /\ IsFiniteSet(1..n) /\ Cardinality(1..n) = n
    <2>1. IsFiniteSet(1..n) /\ Cardinality(1..n) = IF 1 > n THEN 0 ELSE n - 1 + 1
      BY <1>1, FS_Interval
    <2>2. Cardinality(1..n) = n
      BY <1>1, <2>1
    <2>3. IsFiniteSet({p}) /\ Cardinality({p}) = 1
      BY FS_Singleton
    <2> QED
      BY <2>1, <2>2, <2>3
  <1>5. IsFiniteSet(B) /\ Cardinality(B) = n
    <2>1. IsFiniteSet({p} \X (1..n)) /\ Cardinality({p} \X (1..n)) = Cardinality({p}) * Cardinality(1..n)
      BY <1>4, FS_Product
    <2> QED
      BY <1>1, <1>4, <2>1
  <1>6. IsFiniteSet(A) /\ Cardinality(A) \in Nat
    BY OwedFinite
  <1> HIDE DEF A, B
  <1>7. Cardinality(A \cup B) = Cardinality(A) + Cardinality(B) - Cardinality(A \cap B)
    BY <1>5, <1>6, FS_Union
  <1>8. Cardinality(A \cup B) = Cardinality(A) + n
    <2>1. Cardinality(A \cap B) = 0
      BY <1>3, FS_EmptySet
    <2> QED
      BY <1>1, <1>5, <1>6, <1>7, <2>1
  <1>9. ASSUME NEW x, x # r PROVE Owed(t, x, do) = Owed(s, x, do)
    BY <1>9 DEF Owed
  <1> QED
    BY <1>2, <1>8, <1>9 DEF A

LEMMA CountMoves ==
    ASSUME ShmCount, NEW r \in Rings, NEW k \in Nat, k < Word16, CountOf(k, pt'[r], ct'[r], shm', r),
           num' = [num EXCEPT ![r] = k],
           \A y \in Rings : y # r => /\ pt'[y] = pt[y] /\ ct'[y] = ct[y]
                                     /\ \A do \in Counts : Owed(shm', y, do) = Owed(shm, y, do)
    PROVE  ShmCount'
  <1>1. num' \in [Rings -> Nat] /\ \A y \in Rings : num'[y] = IF y = r THEN k ELSE num[y]
    BY DEF ShmCount
  <1>2. ASSUME NEW y \in Rings PROVE num'[y] < Word16 /\ CountOf(num'[y], pt'[y], ct'[y], shm', y)
    <2>1. CASE y = r
      BY <1>1, <2>1
    <2>2. CASE y # r
      <3>1. num[y] < Word16 /\ CountOf(num[y], pt[y], ct[y], shm, y)
        BY DEF ShmCount
      <3> QED
        BY <1>1, <2>2, <3>1 DEF CountOf, Counts
    <2> QED
      BY <2>1, <2>2
  <1> QED
    BY <1>1, <1>2 DEF ShmCount, CountOf

\* Nothing is counted and nothing owed anew.
LEMMA CountAside ==
    ASSUME ShmCount, UNCHANGED <<pt, ct, num>>,
           \A q \in Procs : \A do \in Counts :
              /\ shm[q].do = do <=> shm'[q].do = do
              /\ shm[q].do = do => shm[q].ring = shm'[q].ring /\ shm[q].n = shm'[q].n
    PROVE  ShmCount'
  <1>1. \A r \in Rings : \A do \in Counts : Owed(shm', r, do) = Owed(shm, r, do)
    BY OwedSame
  <1>2. ASSUME NEW r \in Rings PROVE num[r] < Word16 /\ CountOf(num[r], pt[r], ct[r], shm', r)
    <2>1. num[r] < Word16 /\ CountOf(num[r], pt[r], ct[r], shm, r)
      BY DEF ShmCount
    <2> QED
      BY <1>1, <2>1 DEF CountOf, Counts
  <1>3. num' \in [Rings -> Nat]
    BY DEF ShmCount
  <1> QED
    BY <1>2, <1>3 DEF ShmCount, CountOf

LEMMA CountTurns ==
    ASSUME NEW k \in Nat
    PROVE  /\ k % Word16 \in Nat /\ k % Word16 < Word16
           /\ \E j \in Nat : k % Word16 = k - 65536 * j
  <1>1. k % 65536 \in Nat /\ k % 65536 < 65536 /\ k = 65536 * (k \div 65536) + (k % 65536) /\ k \div 65536 \in Nat
    OBVIOUS
  <1>2. Word16 = 65536
    BY CapFacts
  <1>3. k % 65536 = k - 65536 * (k \div 65536)
    BY <1>1
  <1> QED
    BY <1>1, <1>2, <1>3

LEMMA TailsOwe ==
    ASSUME ShmInv, ShmCount, NEW p \in Procs, PushTail(p) \/ PopTail(p) PROVE ShmCount'
  <1> DEFINE r == shm[p].ring
             n == shm[p].n
             do == IF PushTail(p) THEN "push_num" ELSE "pop_num"
             else == IF PushTail(p) THEN "pop_num" ELSE "push_num"
             s == shm
             t == shm'
             k == num[r]
  <1>1. /\ shm[p].do \in {"push_tail", "pop_tail"} /\ To(p, do) /\ do \in Doings /\ num' = num
        /\ PushTail(p) => pt' = [pt EXCEPT ![r] = @ + n] /\ ct' = ct
        /\ ~PushTail(p) => ct' = [ct EXCEPT ![r] = @ + n] /\ pt' = pt
    BY DEF PushTail, PopTail, At, Doings
  <1>2. r \in Rings /\ n \in Nat /\ n \in QBlocks /\ pt[r] \in Nat /\ ct[r] \in Nat
    BY <1>1, CallIs DEF Headless
  <1>3. t[p].do = do /\ t[p].ring = r /\ t[p].n = n /\ \A q \in Procs : q # p => t[q] = s[q]
    <2>0. shm[p].do \notin Headless /\ "push_num" \in Doings /\ "pop_num" \in Doings
      BY <1>1 DEF Headless, Doings
    <2>1. CASE PushTail(p)
      <3>1. To(p, "push_num") /\ do = "push_num"
        BY <1>1, <2>1
      <3> HIDE DEF do, else
      <3> DEFINE st == [shm[p] EXCEPT !.do = "push_num"]
      <3>2. /\ shm'[p] = st /\ st.do = "push_num" /\ st.ring = r /\ st.n = n
            /\ \A q \in Procs \ {p} : shm'[q] = shm[q]
        BY <2>0, <3>1, Going
      <3> HIDE DEF st
      <3> QED
        BY <3>1, <3>2
    <2>2. CASE ~PushTail(p)
      <3>1. To(p, "pop_num") /\ do = "pop_num"
        BY <1>1, <2>2
      <3> HIDE DEF do, else
      <3> DEFINE st == [shm[p] EXCEPT !.do = "pop_num"]
      <3>2. /\ shm'[p] = st /\ st.do = "pop_num" /\ st.ring = r /\ st.n = n
            /\ \A q \in Procs \ {p} : shm'[q] = shm[q]
        BY <2>0, <3>1, Going
      <3> HIDE DEF st
      <3> QED
        BY <3>1, <3>2
    <2> QED
      BY <2>1, <2>2
  <1>4. do \in Counts /\ else \in Counts /\ do # else /\ s[p].do \notin Counts
    BY <1>1 DEF Counts
  <1>5. /\ Cardinality(Owed(t, r, do)) = Cardinality(Owed(s, r, do)) + n
        /\ \A x : x # r => Owed(t, x, do) = Owed(s, x, do)
    <2> HIDE DEF r, n, do, s, t
    <2> QED
      BY <1>2, <1>3, <1>4, OwedMore
  <1>6. \A x : Owed(t, x, else) = Owed(s, x, else)
    <2> HIDE DEF r, n, do, else, s, t
    <2>1. \A q \in Procs : /\ s[q].do = else <=> t[q].do = else
                           /\ s[q].do = else => s[q].ring = t[q].ring /\ s[q].n = t[q].n
      BY <1>3, <1>4
    <2> QED
      BY <2>1, OwedSame
  <1>7. k \in Nat /\ k < Word16 /\ CountOf(k, pt[r], ct[r], s, r) /\ num' = [num EXCEPT ![r] = k]
    BY <1>1, <1>2 DEF ShmCount
  <1>8. /\ pt'[r] = IF do = "push_num" THEN pt[r] + n ELSE pt[r]
        /\ ct'[r] = IF do = "push_num" THEN ct[r] ELSE ct[r] + n
        /\ \A y \in Rings : y # r => pt'[y] = pt[y] /\ ct'[y] = ct[y]
    BY <1>1, <1>2 DEF ShmInv, ShmTypes
  <1>9. do \in Counts /\ else = IF do = "push_num" THEN "pop_num" ELSE "push_num"
    BY <1>4
  <1> DEFINE v == pt'[r]
             x == ct'[r]
  <1> HIDE DEF n, do, else, s, t, k
  <1>10. CountOf(k, v, x, t, r)
    <2> DEFINE a == Cardinality(Owed(s, r, "push_num"))
               b == Cardinality(Owed(s, r, "pop_num"))
               u == Cardinality(Owed(t, r, "push_num"))
               w == Cardinality(Owed(t, r, "pop_num"))
    <2>1. a \in Nat /\ b \in Nat /\ u \in Nat /\ w \in Nat
      BY OwedFinite
    <2>2. PICK times \in Int : k + a + ct[r] = pt[r] + b + 65536 * times
      BY <1>7 DEF CountOf
    <2>3. \/ do = "push_num" /\ u = a + n /\ w = b /\ v = pt[r] + n /\ x = ct[r]
          \/ do # "push_num" /\ u = a /\ w = b + n /\ v = pt[r] /\ x = ct[r] + n
      BY <1>5, <1>6, <1>8, <1>9 DEF Counts
    <2>4. k \in Nat /\ n \in Nat /\ pt[r] \in Nat /\ ct[r] \in Nat
      BY <1>2, <1>7
    <2> HIDE DEF a, b, u, w, v, x
    <2>5. k + u + x = v + w + 65536 * times
      BY <2>1, <2>2, <2>3, <2>4
    <2> QED
      BY <2>5 DEF CountOf, u, w
  <1>11. \A y \in Rings : y # r => \A d \in Counts : Owed(t, y, d) = Owed(s, y, d)
    BY <1>5, <1>6, <1>9 DEF Counts
  <1> QED
    BY <1>2, <1>7, <1>8, <1>10, <1>11, CountMoves DEF s, t

\* Counting pays what is owed.
LEMMA NumsPay ==
    ASSUME ShmInv, ShmCount, NEW p \in Procs, PushNum(p) \/ PopNum(p) PROVE ShmCount'
  <1> DEFINE r == shm[p].ring
             n == shm[p].n
             do == shm[p].do
             else == IF do = "push_num" THEN "pop_num" ELSE "push_num"
             s == shm
             t == shm'
             v == pt[r]
             x == ct[r]
             sum == IF do = "push_num" THEN num[r] + n ELSE num[r] + (65536 - n)
             k == sum % Word16
  <1>0. Word16 = 65536
    BY CapFacts
  <1>1. /\ do \in Counts /\ UNCHANGED <<pt, ct>> /\ shm' = [shm EXCEPT ![p] = NoCall]
        /\ num' = [num EXCEPT ![r] = k]
    <2>1. num \in [Rings -> Nat] /\ r \in Rings
      <3>1. shm[p].do # "no"
        BY DEF PushNum, PopNum, At
      <3> QED
        BY <3>1, CallIs DEF ShmCount
    <2>2. CASE PushNum(p)
      BY <1>0, <2>1, <2>2 DEF PushNum, At, Counts
    <2>3. CASE PopNum(p)
      BY <1>0, <2>1, <2>3 DEF PopNum, At, Counts
    <2> QED
      BY <2>2, <2>3
  <1>2. r \in Rings /\ n \in Nat /\ n \in QBlocks /\ v \in Nat /\ x \in Nat
    BY <1>1, CallIs DEF Counts
  <1>3. t[p].do \notin Counts /\ \A q \in Procs : q # p => t[q] = s[q]
    BY <1>1 DEF ShmInv, ShmTypes, NoCall, Counts
  <1>4. else \in Counts /\ do # else /\ do \in Counts
    BY <1>1 DEF Counts
  <1>5. /\ Cardinality(Owed(s, r, do)) = Cardinality(Owed(t, r, do)) + n
        /\ \A y : y # r => Owed(s, y, do) = Owed(t, y, do)
    <2>1. /\ \A q \in Procs : q # p => s[q] = t[q]
          /\ t[p].do # do /\ s[p].do = do /\ s[p].ring = r /\ s[p].n = n
      BY <1>3, <1>4
    <2> HIDE DEF r, n, do, s, t
    <2> QED
      BY <1>2, <2>1, OwedMore
  <1>6. \A y : Owed(t, y, else) = Owed(s, y, else)
    <2>1. s[p].do # else /\ t[p].do # else /\ \A q \in Procs : q # p => t[q] = s[q]
      BY <1>3, <1>4
    <2> HIDE DEF r, n, do, else, s, t
    <2>2. \A q \in Procs : /\ s[q].do = else <=> t[q].do = else
                           /\ s[q].do = else => s[q].ring = t[q].ring /\ s[q].n = t[q].n
      BY <2>1
    <2> QED
      BY <2>2, OwedSame
  <1>7. num[r] \in Nat /\ CountOf(num[r], v, x, s, r)
    BY <1>2 DEF ShmCount
  <1>8. sum \in Nat
    <2>1. n <= 65536
      <3>1. n <= NumBlocks /\ NumBlocks <= Cap /\ Cap < 65536 /\ NumBlocks \in Nat /\ Cap \in Nat
        BY <1>0, <1>2, CapFacts DEF QBlocks
      <3> QED
        BY <1>2, <3>1
    <2> HIDE DEF n
    <2> QED
      BY <1>2, <1>7, <2>1
  <1>9. k \in Nat /\ k < Word16 /\ \E j \in Nat : k = sum - 65536 * j
    <2> HIDE DEF sum
    <2> QED
      BY <1>8, CountTurns
  <1>10. CountOf(k, v, x, t, r)
    <2> DEFINE a == Cardinality(Owed(s, r, "push_num"))
               b == Cardinality(Owed(s, r, "pop_num"))
               u == Cardinality(Owed(t, r, "push_num"))
               w == Cardinality(Owed(t, r, "pop_num"))
               c == num[r]
    <2>1. a \in Nat /\ b \in Nat /\ u \in Nat /\ w \in Nat
      BY OwedFinite
    <2>2. PICK times \in Int : c + a + x = v + b + 65536 * times
      BY <1>7 DEF CountOf
    <2>3. PICK j \in Nat : k = sum - 65536 * j
      BY <1>9
    <2>4. \/ do = "push_num" /\ a = u + n /\ w = b /\ sum = c + n
          \/ do # "push_num" /\ a = u /\ b = w + n /\ sum = c + (65536 - n)
      <3> HIDE DEF r, n, s, t
      <3> QED
        BY <1>4, <1>5, <1>6 DEF Counts
    <2>5. c \in Nat /\ n \in Nat /\ v \in Nat /\ x \in Nat /\ k \in Nat
      BY <1>2, <1>7, <1>9
    <2> HIDE DEF a, b, c, u, w, v, x, k, n, sum
    <2>6. k + u + x = v + w + 65536 * (times - j) \/ k + u + x = v + w + 65536 * ((times + 1) - j)
      BY <2>1, <2>2, <2>3, <2>4, <2>5
    <2>7. (times - j) \in Int /\ ((times + 1) - j) \in Int
      OBVIOUS
    <2>8. \E z \in Int : k + u + x = v + w + 65536 * z
      <3>1. CASE k + u + x = v + w + 65536 * (times - j)
        <4> DEFINE z == (times - j)
        <4>1. z \in Int /\ k + u + x = v + w + 65536 * z
          BY <2>7, <3>1
        <4> HIDE DEF z
        <4> QED
          BY <4>1
      <3>2. CASE k + u + x = v + w + 65536 * ((times + 1) - j)
        <4> DEFINE z == ((times + 1) - j)
        <4>1. z \in Int /\ k + u + x = v + w + 65536 * z
          BY <2>7, <3>2
        <4> HIDE DEF z
        <4> QED
          BY <4>1
      <3> QED
        BY <2>6, <3>1, <3>2
    <2> QED
      BY <2>8 DEF CountOf, u, w
  <1>11. \A y \in Rings : y # r => \A d \in Counts : Owed(t, y, d) = Owed(s, y, d)
    <2> HIDE DEF r, s, t
    <2> QED
      BY <1>4, <1>5, <1>6 DEF Counts
  <1>12. pt'[r] = v /\ ct'[r] = x /\ \A y \in Rings : pt'[y] = pt[y] /\ ct'[y] = ct[y]
    BY <1>1
  <1> HIDE DEF k, v, x
  <1>13. CountOf(k, pt'[r], ct'[r], shm', r)
    BY <1>10, <1>12
  <1>14. \A y \in Rings : y # r => /\ pt'[y] = pt[y] /\ ct'[y] = ct[y]
                                   /\ \A d \in Counts : Owed(shm', y, d) = Owed(shm, y, d)
    BY <1>11, <1>12
  <1>15. k \in Nat /\ k < Word16 /\ num' = [num EXCEPT ![r] = k] /\ r \in Rings
    BY <1>1, <1>2, <1>9
  <1> HIDE DEF r
  <1> QED
    BY <1>13, <1>14, <1>15, CountMoves

LEMMA CallDoes == ASSUME NEW st \in CallStates, NEW d PROVE [st EXCEPT !.do = d].do = d
  <1>1. CASE st = NoCall
    BY <1>1 DEF NoCall
  <1>2. CASE st \in [do : {"push_head", "pop_head"}, ring : Rings, n : QBlocks]
    BY <1>2
  <1>3. CASE st \in [do : Doings, ring : Rings, n : QBlocks, head : Nat]
    BY <1>3
  <1> QED
    BY <1>1, <1>2, <1>3 DEF CallStates

LEMMA CountStays ==
    ASSUME ShmInv, ShmCount, NEW p \in Procs, shm[p].do \notin Counts, NEW st, st.do \notin Counts,
           shm' = [shm EXCEPT ![p] = st], UNCHANGED <<pt, ct, num>>
    PROVE  ShmCount'
  <1>1. shm \in [Procs -> CallStates]
    BY DEF ShmInv, ShmTypes
  <1>2. \A q \in Procs : shm'[q] = IF q = p THEN st ELSE shm[q]
    BY <1>1
  <1>3. \A q \in Procs : \A do \in Counts :
           /\ shm[q].do = do <=> shm'[q].do = do
           /\ shm[q].do = do => shm[q].ring = shm'[q].ring /\ shm[q].n = shm'[q].n
    BY <1>2
  <1> QED
    BY <1>3, CountAside

LEMMA CountKeeps == ASSUME ShmInv, ShmCount, ShmQueueNext \/ UNCHANGED shmVars PROVE ShmCount'
  <1>1. CASE ShmQueueNext
    <2>1. PICK p \in Procs : \/ RingStep(p)
                             \/ SlotDealloc(p)
                             \/ \E size \in CallSizes : SlotAlloc(p, size)
                             \/ \E n \in 1 .. MaxBatch : ShmQueueMpush(p, n) \/ ShmQueueMpop(p, n)
      BY <1>1 DEF ShmQueueNext
    <2>2. shm[p] \in CallStates
      BY DEF ShmInv, ShmTypes
    <2>3. ASSUME NEW r, NEW do, NEW n, Call(p, r, do, n), do \notin Counts, UNCHANGED ringVars
          PROVE  ShmCount'
      <3> DEFINE st == [do |-> do, ring |-> r, n |-> n]
      <3>1. st.do = do /\ shm' = [shm EXCEPT ![p] = st] /\ shm[p].do \notin Counts
        BY <2>3 DEF Call, NoCall, Counts
      <3>2. UNCHANGED <<pt, ct, num>>
        BY <2>3 DEF ringVars
      <3> HIDE DEF st
      <3> QED
        BY <2>3, <3>1, <3>2, CountStays
    <2>4. CASE ~RingStep(p)
      <3>1. "push_head" \notin Counts /\ "pop_head" \notin Counts
        BY DEF Counts
      <3>2. CASE SlotDealloc(p)
        BY <2>3, <3>1, <3>2 DEF SlotDealloc
      <3>3. CASE \E size \in CallSizes : SlotAlloc(p, size)
        BY <2>3, <3>1, <3>3 DEF SlotAlloc
      <3>4. ASSUME NEW n \in 1 .. MaxBatch, ShmQueueMpush(p, n) \/ ShmQueueMpop(p, n) PROVE ShmCount'
        BY <2>3, <3>1, <3>4 DEF ShmQueueMpush, ShmQueueMpop
      <3> QED
        BY <2>1, <2>4, <3>2, <3>3, <3>4
    <2>5. ASSUME NEW d, d \notin Counts, To(p, d), shm[p].do \notin Counts, UNCHANGED <<pt, ct, num>>
          PROVE  ShmCount'
      <3> DEFINE st == [shm[p] EXCEPT !.do = d]
      <3>1. shm' = [shm EXCEPT ![p] = st] /\ st.do = d
        BY <2>2, <2>5, CallDoes DEF To
      <3> HIDE DEF st
      <3> QED
        BY <2>5, <3>1, CountStays
    <2>6. CASE PushHead(p) \/ PopHead(p)
      <3> DEFINE do == IF PushHead(p) THEN "push_room" ELSE "pop_data"
                 h == IF PushHead(p) THEN ph[shm[p].ring] ELSE ch[shm[p].ring]
                 st == [do |-> do, ring |-> shm[p].ring, n |-> shm[p].n, head |-> h]
      <3>1. shm' = [shm EXCEPT ![p] = st] /\ UNCHANGED <<pt, ct, num>> /\ shm[p].do \notin Counts
        BY <2>6 DEF PushHead, PopHead, At, ringVars, Counts
      <3>2. st.do \notin Counts
        BY DEF Counts
      <3> HIDE DEF st
      <3> QED
        BY <3>1, <3>2, CountStays
    <2>7. CASE PushRoom(p) \/ PopData(p)
      <3>1. shm[p].do \notin Counts /\ UNCHANGED <<pt, ct, num>>
        BY <2>7 DEF PushRoom, PopData, At, ringVars, Counts
      <3>2. \E d : d \notin Counts /\ (To(p, d) \/ (d = "no" /\ shm' = [shm EXCEPT ![p] = NoCall]))
        <4>1. "push_cas" \notin Counts /\ "pop_cas" \notin Counts /\ "abort" \notin Counts /\ "no" \notin Counts
          BY DEF Counts
        <4>2. CASE PopData(p)
          BY <2>7, <4>1, <4>2 DEF PopData, To
        <4>3. CASE PushRoom(p)
          <5>1. \/ shm' = [shm EXCEPT ![p] = [@ EXCEPT !.do = "abort"]]
                \/ shm' = [shm EXCEPT ![p] = NoCall]
                \/ To(p, "push_cas")
            BY <4>3 DEF PushRoom
          <5> QED
            BY <4>1, <5>1 DEF To
        <4> QED
          BY <2>7, <4>2, <4>3
      <3>3. NoCall.do \notin Counts
        BY DEF NoCall, Counts
      <3> QED
        BY <2>5, <3>1, <3>2, <3>3, CountStays
    <2>8. CASE PushCas(p) \/ PopCas(p) \/ PushCopy(p) \/ PopCopy(p)
      <3>1. shm[p].do \notin Counts /\ UNCHANGED <<pt, ct, num>>
        BY <2>8 DEF PushCas, PopCas, PushCopy, PopCopy, At, ringVars, Counts
      <3>2. \E d : d \notin Counts /\ To(p, d)
        <4>1. \A d \in {"push_head", "pop_head", "push_copy", "pop_copy", "push_tail", "pop_tail"} : d \notin Counts
          BY DEF Counts
        <4> QED
          BY <2>8, <4>1 DEF PushCas, PopCas, PushCopy, PopCopy
      <3> QED
        BY <2>5, <3>1, <3>2
    <2> QED
      BY <2>1, <2>4, <2>6, <2>7, <2>8, TailsOwe, NumsPay DEF RingStep
  <1>2. CASE UNCHANGED shmVars
    <2>1. UNCHANGED <<pt, ct, num, shm>>
      BY <1>2 DEF shmVars, ringVars
    <2> QED
      BY <2>1, CountAside
  <1> QED
    BY <1>1, <1>2

LEMMA CountInitially == ASSUME ShmQueueInit PROVE ShmCount
  <1>1. NumBlocks \in Nat /\ NumBlocks < Word16 /\ Word16 > 0
    <2>1. NumBlocks \in Nat /\ Cap \in Nat /\ NumBlocks <= Cap /\ Cap < Word16 /\ Word16 = 65536
      BY CapFacts
    <2> QED
      BY <2>1
  <1>2. /\ num \in [Rings -> Nat]
        /\ \A r \in Rings : num[r] = pt[r] /\ ct[r] = 0 /\ num[r] \in Nat /\ num[r] < Word16
    BY <1>1 DEF ShmQueueInit
  <1>3. \A r : \A do \in Counts : Owed(shm, r, do) = {}
    BY DEF ShmQueueInit, NoCall, Counts, Owed
  <1>4. ASSUME NEW r \in Rings PROVE CountOf(num[r], pt[r], ct[r], shm, r)
    <2>1. Cardinality(Owed(shm, r, "push_num")) = 0 /\ Cardinality(Owed(shm, r, "pop_num")) = 0
      BY <1>3, FS_EmptySet DEF Counts
    <2>2. 0 \in Int /\ num[r] + 0 + ct[r] = pt[r] + 0 + 65536 * 0
      BY <1>2
    <2> QED
      BY <2>1, <2>2 DEF CountOf
  <1> QED
    BY <1>2, <1>4 DEF ShmCount

-----------------------------------------------------------------------------
(* What the queue between processes promises. *)

LEMMA PlacesAre ==
    ASSUME ShmInv, NEW b
    PROVE  \A l : l \in PlacesOf(b) <=> l \in DOMAIN HeldNow /\ HeldNow[l] = b
  <1> DEFINE I == HeldNow
             own == Own(filled, taken)
             InIt(l) == \E r \in Rings : \E i \in Nat :
                           InRing(ch, pt, r, i) /\ off[r][Place(i)] = b /\ l = Spot("ring", r, i)
             InPop(l) == \E q \in Procs : \E i \in Nat :
                            InCopy(shm[q], i) /\ off[shm[q].ring][Place(i)] = b /\ l = Spot("copy", q, i)
             AtHand(k, l) == \E q \in Procs : \E i \in Nat :
                                i \in DOMAIN own[k][q] /\ own[k][q][i] = b /\ l = Spot(k, q, i)
  <1>1. AreHeld(I, ch, pt, off, shm, own)
    BY NowHeld
  <1>2. own["filled"] = filled /\ own["taken"] = taken /\ Hands = {"filled", "taken"}
    BY OwnIs DEF Hands
  <1> HIDE DEF I, own
  <1>3. \A l : l \in DOMAIN I /\ I[l] = b <=> InIt(l) \/ InPop(l) \/ AtHand("filled", l) \/ AtHand("taken", l)
    <2> SUFFICES ASSUME NEW l
                 PROVE  l \in DOMAIN I /\ I[l] = b
                          <=> InIt(l) \/ InPop(l) \/ AtHand("filled", l) \/ AtHand("taken", l)
      OBVIOUS
    <2>1. InIt(l) => l \in DOMAIN I /\ I[l] = b
      BY <1>1 DEF AreHeld
    <2>2. InPop(l) => l \in DOMAIN I /\ I[l] = b
      BY <1>1 DEF AreHeld
    <2>3. AtHand("filled", l) \/ AtHand("taken", l) => l \in DOMAIN I /\ I[l] = b
      BY <1>1, <1>2 DEF AreHeld
    <2>4. ASSUME l \in DOMAIN I, I[l] = b
          PROVE  InIt(l) \/ InPop(l) \/ AtHand("filled", l) \/ AtHand("taken", l)
      <3>1. CASE \E r \in Rings : \E i \in Nat : InRing(ch, pt, r, i) /\ l = Spot("ring", r, i)
        BY <1>1, <2>4, <3>1 DEF AreHeld
      <3>2. CASE \E q \in Procs : \E i \in Nat : InCopy(shm[q], i) /\ l = Spot("copy", q, i)
        BY <1>1, <2>4, <3>2 DEF AreHeld
      <3>3. CASE \E k \in Hands : \E q \in Procs : \E i \in Nat : i \in DOMAIN own[k][q] /\ l = Spot(k, q, i)
        BY <1>1, <1>2, <2>4, <3>3 DEF AreHeld
      <3> QED
        BY <1>1, <2>4, <3>1, <3>2, <3>3 DEF AreHeld
    <2> QED
      BY <2>1, <2>2, <2>3, <2>4
  <1> DEFINE A == UNION {BlockAt(b, "ring", r, ch[r] .. pt[r] - 1, RingBlocks(r)) : r \in Rings}
             B == UNION {BlockAt(b, "copy", p, Copying(p), RingBlocks(shm[p].ring)) : p \in Procs}
             C == UNION {BlockAt(b, "filled", p, DOMAIN filled[p], filled[p]) : p \in Procs}
             D == UNION {BlockAt(b, "taken", p, DOMAIN taken[p], taken[p]) : p \in Procs}
  <1>4. \A l : l \in PlacesOf(b) <=> l \in A \/ l \in B \/ l \in C \/ l \in D
    BY DEF PlacesOf
  <1>5. /\ ph \in [Rings -> Nat] /\ pt \in [Rings -> Nat] /\ ct \in [Rings -> Nat] /\ ch \in [Rings -> Nat]
        /\ filled \in [Procs -> Seq(QBlocks)] /\ taken \in [Procs -> Seq(QBlocks)]
    BY DEF ShmInv, ShmTypes
  <1>6. \A l : l \in A <=> InIt(l)
    <2>1. ASSUME NEW r \in Rings
          PROVE  \A i : i \in ch[r] .. pt[r] - 1 <=> i \in Nat /\ InRing(ch, pt, r, i)
      BY <1>5 DEF InRing
    <2>2. ASSUME NEW r \in Rings, NEW i \in ch[r] .. pt[r] - 1 PROVE RingBlocks(r)[i] = off[r][Place(i)]
      <3>1. i \in 0 .. ph[r]
        BY <1>5 DEF ShmInv, RingOrder
      <3> QED
        BY <3>1 DEF RingBlocks
    <2> QED
      BY <2>1, <2>2 DEF Spot, BlockAt
  <1>7. \A l : l \in B <=> InPop(l)
    <2>1. ASSUME NEW p \in Procs
          PROVE  \A i : i \in Copying(p) <=> i \in Nat /\ InCopy(shm[p], i)
      <3>1. CASE shm[p].do = "pop_copy"
        <4>1. shm[p].head \in Nat /\ shm[p].n \in Nat
          BY <3>1, CallIs DEF Headless
        <4> QED
          BY <3>1, <4>1 DEF InCopy, Within, At, Copying
      <3>2. CASE shm[p].do # "pop_copy"
        BY <3>2 DEF InCopy, At, Copying
      <3> QED
        BY <3>1, <3>2
    <2>2. ASSUME NEW p \in Procs, NEW i \in Copying(p)
          PROVE  RingBlocks(shm[p].ring)[i] = off[shm[p].ring][Place(i)]
      <3> DEFINE r == shm[p].ring
      <3>1. shm[p].do = "pop_copy"
        BY DEF At, Copying
      <3>2. r \in Rings /\ shm[p].head \in Nat /\ shm[p].n \in Nat
        BY <3>1, CallIs DEF Headless
      <3>3. shm[p].head + shm[p].n <= ch[r] /\ ch[r] <= pt[r] /\ pt[r] <= ph[r]
        BY <3>1, <3>2 DEF ShmInv, RingOrder, Reserved, Pops
      <3>4. i \in Nat /\ i < shm[p].head + shm[p].n
        BY <3>1, <3>2 DEF At, Copying
      <3>5. i \in 0 .. ph[r]
        BY <1>5, <3>2, <3>3, <3>4
      <3> QED
        BY <3>5 DEF RingBlocks
    <2> QED
      BY <2>1, <2>2 DEF Spot, BlockAt
  <1>8. ASSUME NEW f \in [Procs -> Seq(QBlocks)], NEW p \in Procs, NEW i \in DOMAIN f[p] PROVE i \in Nat
    BY <1>8, SeqFacts
  <1>9. \A l : l \in C <=> AtHand("filled", l)
    BY <1>2, <1>5, <1>8 DEF Spot, BlockAt
  <1>10. \A l : l \in D <=> AtHand("taken", l)
    BY <1>2, <1>5, <1>8 DEF Spot, BlockAt
  <1> HIDE DEF A, B, C, D, InIt, InPop, AtHand
  <1> QED
    BY <1>3, <1>4, <1>6, <1>7, <1>9, <1>10 DEF I

LEMMA ShmGives == ASSUME ShmInv, ShmCount PROVE ShmQueueExact
  <1>1. ASSUME NEW b \in QBlocks PROVE Cardinality(PlacesOf(b)) = 1
    <2>1. PICK l \in DOMAIN HeldNow : HeldNow[l] = b
      BY DEF ShmInv, Once
    <2>2. \A k \in DOMAIN HeldNow : HeldNow[k] = b => k = l
      BY <2>1 DEF ShmInv, Once
    <2>3. PlacesOf(b) = {l}
      BY <2>1, <2>2, PlacesAre
    <2> QED
      BY <2>3, FS_Singleton
  <1>2. ASSUME NEW p \in Procs PROVE ~At(p, "abort")
    <2>1. shm[p].do \in Doings \cup {"no"}
      BY CallKnows DEF ShmInv, ShmTypes
    <2> QED
      BY <2>1 DEF At, Doings
  <1>3. ASSUME \A p \in Procs : shm[p] = NoCall, NEW r \in Rings
        PROVE  num[r] = pt[r] - ct[r] /\ ph[r] = pt[r] /\ ch[r] = ct[r]
    <2>1. \A p \in Procs : shm[p].do = "no"
      BY <1>3 DEF NoCall
    <2>2. /\ ph[r] \in Nat /\ pt[r] \in Nat /\ ct[r] \in Nat /\ ch[r] \in Nat /\ num[r] \in Nat /\ num[r] < Word16
          /\ ct[r] <= ch[r] /\ ch[r] <= pt[r] /\ pt[r] <= ph[r] /\ ph[r] <= ct[r] + Cap
          /\ CountOf(num[r], pt[r], ct[r], shm, r)
      BY DEF ShmInv, ShmTypes, RingOrder, ShmCount
    <2>3. \A p \in Procs : shm[p].do \notin Pushes /\ shm[p].do \notin Pops /\ shm[p].do \notin Counts
      BY <2>1 DEF Pushes, Pops, Counts
    <2>4. ph[r] = pt[r]
      <3>1. ~(pt[r] < ph[r])
        BY <2>2, <2>3 DEF ShmInv, Reserved
      <3> QED
        BY <2>2, <3>1
    <2>5. ch[r] = ct[r]
      <3>1. ~(ct[r] < ch[r])
        BY <2>2, <2>3 DEF ShmInv, Reserved
      <3> QED
        BY <2>2, <3>1
    <2>6. Cardinality(Owed(shm, r, "push_num")) = 0 /\ Cardinality(Owed(shm, r, "pop_num")) = 0
      <3>1. Owed(shm, r, "push_num") = {} /\ Owed(shm, r, "pop_num") = {}
        BY <2>3 DEF Owed, Counts
      <3> QED
        BY <3>1, FS_EmptySet
    <2>7. PICK times \in Int : num[r] + 0 + ct[r] = pt[r] + 0 + 65536 * times
      BY <2>2, <2>6 DEF CountOf
    <2>8. Cap \in Nat /\ Cap < 65536 /\ Word16 = 65536
      BY CapFacts
    <2> DEFINE k == num[r]
               v == pt[r]
               x == ct[r]
    <2>9. k \in Nat /\ k < 65536 /\ v \in Nat /\ x \in Nat /\ x <= v /\ v <= x + Cap /\ k + x = v + 65536 * times
      BY <2>2, <2>4, <2>5, <2>7, <2>8
    <2> HIDE DEF k, v, x
    <2>10. k = v - x
      <3>1. times < 1 /\ times > -1
        BY <2>8, <2>9
      <3>2. times = 0
        BY <3>1
      <3> QED
        BY <2>9, <3>2
    <2> QED
      BY <2>4, <2>5, <2>10 DEF k, v, x
  <1> QED
    BY <1>1, <1>2, <1>3 DEF ShmQueueExact

\* Only the queue itself moves what it has.
LEMMA ShmApart == ASSUME [Next]_vars PROVE ShmQueueNext \/ UNCHANGED shmVars
  BY DEF Next, vars, SubStep, SdtpStep, AccessStep, PoolAloneStep, ProxyStep, SdtpWorkStep,
         ShmQueueStep, ShmStep, LogStep

\* Whatever processes push to the queue in shared memory, pop from it, take blocks from its pool
\* and give them back, without a lock: a block is in exactly one place, the pool never lacks
\* room for a block that is given back, and when no call is under way the count of each ring is
\* that of its blocks (shm_queue.c, shm_ring.c, shm_slot.c).  The part of QueuesExact about it.
THEOREM ShmQueueKept == Spec => []ShmQueueExact
  <1>1. Init => ShmInv /\ ShmCount
    BY ShmInitially, CountInitially DEF Init
  <1>2. (ShmInv /\ ShmCount) /\ [Next]_vars => (ShmInv /\ ShmCount)'
    BY ShmApart, ShmKeeps, CountKeeps
  <1>3. ShmInv /\ ShmCount => ShmQueueExact
    BY ShmGives
  <1> QED
    BY <1>1, <1>2, <1>3, PTL DEF Spec

\* For any number of threads and processes, of messages, blocks and lines: no message of the
\* proxy or of the sdtp sender is handled twice or lost between its queues, no block of the
\* queue in shared memory is in two places or in none, and no line logged is twice in the
\* files.  A line may be lost, with a sync of the log that failed or was cut short, and what
\* follows a dump wide enough to overrun the buffer is left open.
THEOREM QueuesKept == Spec => []QueuesExact
  <1>1. (unit = "proxy" => WorkExact) /\ (unit = "sdtp_work" => SdtpWorkExact)
        /\ ShmQueueExact /\ LogExact => QueuesExact
    BY DEF QueuesExact
  <1> QED
    BY <1>1, ProxyWorkersExact, SdtpWorkersExact, ShmQueueKept, LogLinesExact, PTL

-----------------------------------------------------------------------------
(* The messages of a queue for one connection. *)

\* A set of numbers that is not empty has a least one.
LEMMA LeastOf ==
    ASSUME NEW S \in SUBSET Nat, S # {}
    PROVE  \E x \in S : \A y \in S : x <= y
  <1>1. PICK x \in S : \A y \in S : <<y, x>> \notin OpToRel(<, Nat)
    BY WFMin, NatLessThanWellFounded
  <1>2. \A y \in S : x <= y
    <2> SUFFICES ASSUME NEW y \in S PROVE x <= y
      OBVIOUS
    <2>1. ~(y < x)
      BY <1>1 DEF OpToRel
    <2> QED
      BY <2>1
  <1> QED
    BY <1>2

\* The messages for c among the first k of a queue, for each k.
AreMesgsFor(g, c, q) ==
    /\ g[0] = <<>>
    /\ \A k \in 1..Len(q) : g[k] = IF q[k][1] = c THEN Append(g[k - 1], q[k]) ELSE g[k - 1]

LEMMA MesgsForSteps ==
    ASSUME NEW c, NEW S, NEW q \in Seq(S)
    PROVE  \E g : AreMesgsFor(g, c, q) /\ MesgsFor(c, q) = g[Len(q)]
  <1> DEFINE L == Len(q)
             Next1(x, k) == IF q[k][1] = c THEN Append(x, q[k]) ELSE x
             Body(g, n) == [k \in 0..n |-> IF k = 0 THEN <<>>
                                           ELSE IF q[k][1] = c THEN Append(g[k - 1], q[k]) ELSE g[k - 1]]
             Runs(n) == \E g : g = Body(g, n)
             Bad == {n \in 0..L : ~Runs(n)}
  <1>1. L \in Nat
    BY SeqFacts
  <1> HIDE DEF L
  <1>2. Bad = {}
    <2> SUFFICES ASSUME Bad # {} PROVE FALSE
      OBVIOUS
    <2> HIDE DEF Runs
    <2>1. PICK n \in Bad : \A m \in Bad : n <= m
      <3>1. Bad \in SUBSET Nat
        BY <1>1
      <3> HIDE DEF Bad
      <3> QED
        BY <3>1, LeastOf
    <2>2. n \in Nat /\ n <= L /\ ~Runs(n)
      BY <1>1, <2>1
    <2>3. Runs(0)
      <3> DEFINE g == [k \in 0..0 |-> <<>>]
      <3>1. g = Body(g, 0)
        OBVIOUS
      <3> QED
        BY <3>1 DEF Runs
    <2>4. n # 0
      BY <2>2, <2>3
    <2>5. n - 1 \in 0..L /\ n - 1 \notin Bad
      BY <1>1, <2>1, <2>2, <2>4
    <2>6. PICK g : g = Body(g, n - 1)
      BY <1>1, <2>2, <2>5 DEF Runs
    <2> DEFINE h == [k \in 0..n |-> IF k = n THEN Next1(g[n - 1], n) ELSE g[k]]
    <2>7. \A k \in 0..n : k = n \/ k \in 0..(n - 1)
      BY <2>2
    <2>8. n - 1 \in 0..n /\ n - 1 # n
      BY <2>2, <2>4
    <2>9. \A k \in 0..n : h[k] = IF k = 0 THEN <<>>
                                 ELSE IF q[k][1] = c THEN Append(h[k - 1], q[k]) ELSE h[k - 1]
      <3> SUFFICES ASSUME NEW k \in 0..n
                   PROVE  h[k] = IF k = 0 THEN <<>>
                                 ELSE IF q[k][1] = c THEN Append(h[k - 1], q[k]) ELSE h[k - 1]
        OBVIOUS
      <3>1. CASE k = n
        BY <2>4, <2>8, <3>1
      <3>2. CASE k # n
        <4>1. k \in 0..(n - 1)
          BY <2>7, <3>2
        <4>2. h[k] = g[k]
          BY <3>2
        <4>3. g[k] = IF k = 0 THEN <<>>
                     ELSE IF q[k][1] = c THEN Append(g[k - 1], q[k]) ELSE g[k - 1]
          BY <2>6, <4>1
        <4>4. k # 0 => k - 1 \in 0..n /\ k - 1 # n
          BY <2>2, <4>1
        <4> QED
          BY <4>2, <4>3, <4>4
      <3> QED
        BY <3>1, <3>2
    <2>10. h = Body(h, n)
      <3> HIDE DEF h
      <3>1. DOMAIN h = 0..n /\ h = [k \in DOMAIN h |-> h[k]]
        BY DEF h
      <3> QED
        BY <2>9, <3>1
    <2> QED
      BY <2>2, <2>10 DEF Runs
  <1>3. L \in 0..L
    BY <1>1
  <1>4. PICK g : g = Body(g, L)
    <2> HIDE DEF Body
    <2> QED
      BY <1>2, <1>3
  <1> DEFINE got == CHOOSE f : f = Body(f, L)
  <1>5. got = Body(got, L)
    BY <1>4
  <1>6. MesgsFor(c, q) = got[L]
    BY DEF MesgsFor, L
  <1> HIDE DEF got
  <1>7. AreMesgsFor(got, c, q)
    <2>1. 0 \in 0..L /\ \A k \in 1..L : k \in 0..L /\ k # 0
      BY <1>1
    <2> QED
      BY <1>5, <2>1 DEF AreMesgsFor, L
  <1> QED
    BY <1>6, <1>7 DEF L

\* There is one such list for each k.
LEMMA MesgsForOne ==
    ASSUME NEW c, NEW q, NEW p, NEW g, NEW h, NEW n \in Nat, n <= Len(q), n <= Len(p),
           Len(q) \in Nat, Len(p) \in Nat, \A k \in 1..n : p[k] = q[k],
           AreMesgsFor(g, c, q), AreMesgsFor(h, c, p)
    PROVE  g[n] = h[n]
  <1> DEFINE Bad == {k \in 0..n : g[k] # h[k]}
  <1> SUFFICES ASSUME Bad # {} PROVE FALSE
    OBVIOUS
  <1>1. PICK k \in Bad : \A m \in Bad : k <= m
    <2>1. Bad \in SUBSET Nat
      OBVIOUS
    <2> HIDE DEF Bad
    <2> QED
      BY <2>1, LeastOf
  <1>2. k # 0
    BY <1>1 DEF AreMesgsFor
  <1>3. k - 1 \in 0..n /\ k - 1 \notin Bad /\ k \in 1..n /\ k \in 1..Len(q) /\ k \in 1..Len(p)
    BY <1>1, <1>2
  <1> QED
    BY <1>1, <1>3 DEF AreMesgsFor

LEMMA MesgsForNone == \A c : MesgsFor(c, <<>>) = <<>>
  <1> SUFFICES ASSUME NEW c PROVE MesgsFor(c, <<>>) = <<>>
    OBVIOUS
  <1>1. <<>> \in Seq({}) /\ Len(<<>>) = 0
    OBVIOUS
  <1>2. PICK g : AreMesgsFor(g, c, <<>>) /\ MesgsFor(c, <<>>) = g[Len(<<>>)]
    BY <1>1, MesgsForSteps
  <1>3. g[0] = <<>>
    BY <1>2 DEF AreMesgsFor
  <1> QED
    BY <1>1, <1>2, <1>3

LEMMA MesgsForAppend ==
    ASSUME NEW c, NEW S, NEW q \in Seq(S), NEW m \in S
    PROVE  MesgsFor(c, Append(q, m))
             = IF m[1] = c THEN Append(MesgsFor(c, q), m) ELSE MesgsFor(c, q)
  <1> DEFINE p == Append(q, m)
  <1>1. /\ p \in Seq(S) /\ Len(q) \in Nat /\ Len(p) = Len(q) + 1
        /\ p[Len(q) + 1] = m /\ \A k \in 1..Len(q) : p[k] = q[k]
    BY SeqFacts, Longer
  <1> HIDE DEF p
  <1>2. PICK g : AreMesgsFor(g, c, q) /\ MesgsFor(c, q) = g[Len(q)]
    BY MesgsForSteps
  <1>3. PICK h : AreMesgsFor(h, c, p) /\ MesgsFor(c, p) = h[Len(p)]
    BY <1>1, MesgsForSteps
  <1>4. g[Len(q)] = h[Len(q)]
    <2> DEFINE n == Len(q)
    <2>1. /\ n \in Nat /\ n <= Len(q) /\ n <= Len(p) /\ Len(q) \in Nat /\ Len(p) \in Nat
          /\ \A k \in 1..n : p[k] = q[k]
      BY <1>1
    <2>2. AreMesgsFor(g, c, q) /\ AreMesgsFor(h, c, p)
      BY <1>2, <1>3
    <2> HIDE DEF n
    <2>3. g[n] = h[n]
      BY <2>1, <2>2, MesgsForOne
    <2> QED
      BY <2>3 DEF n
  <1>5. Len(p) \in 1..Len(p) /\ Len(p) - 1 = Len(q)
    BY <1>1
  <1>6. h[Len(p)] = IF m[1] = c THEN Append(h[Len(q)], m) ELSE h[Len(q)]
    BY <1>1, <1>3, <1>5 DEF AreMesgsFor
  <1> QED
    BY <1>2, <1>3, <1>4, <1>6 DEF p

LEMMA MesgsForTyped ==
    ASSUME NEW c, NEW S, NEW q \in Seq(S)
    PROVE  MesgsFor(c, q) \in Seq(S)
  <1>1. PICK g : AreMesgsFor(g, c, q) /\ MesgsFor(c, q) = g[Len(q)]
    BY MesgsForSteps
  <1>2. Len(q) \in Nat /\ \A k \in 1..Len(q) : q[k] \in S
    BY SeqFacts
  <1> DEFINE Bad == {k \in 0..Len(q) : g[k] \notin Seq(S)}
  <1>3. Bad = {}
    <2> SUFFICES ASSUME Bad # {} PROVE FALSE
      OBVIOUS
    <2>1. PICK k \in Bad : \A m \in Bad : k <= m
      <3>1. Bad \in SUBSET Nat
        BY <1>2
      <3> HIDE DEF Bad
      <3> QED
        BY <3>1, LeastOf
    <2>2. <<>> \in Seq(S)
      OBVIOUS
    <2>3. k # 0
      BY <1>1, <2>1, <2>2 DEF AreMesgsFor
    <2>4. k - 1 \in 0..Len(q) /\ k - 1 \notin Bad /\ k \in 1..Len(q)
      BY <1>2, <2>1, <2>3
    <2>5. g[k - 1] \in Seq(S) /\ q[k] \in S
      BY <1>2, <2>4
    <2>6. Append(g[k - 1], q[k]) \in Seq(S)
      BY <2>5, Longer
    <2> QED
      BY <1>1, <2>1, <2>4, <2>5, <2>6 DEF AreMesgsFor
  <1> QED
    BY <1>1, <1>2, <1>3

-----------------------------------------------------------------------------
(* The access layer: its invariant. *)

AccMesgs == Cids \X Nat
AccUnits == AccMesgs \X {1, 2}
Stages == {"none", "accepted", "queued", "open", "closed"}
AccEvents == [src : 0..MaxAccept, ev : SUBSET {"IN", "OUT"}]
Sockets == [st : Stages, list : Seq(AccMesgs), cur : Seq(AccUnits), watch : SUBSET {"IN", "OUT"},
            ready : SUBSET {"IN", "OUT"}, input : Nat, pushed : Nat, wire : Seq(AccUnits)]

AccTypes ==
    /\ cids \in 0..MaxAccept
    /\ lsn \in [Lsvrs -> [do : {"select", "push", "tell"}, cid : 0..MaxAccept]]
    /\ connq \in [Rids -> Seq(Cids)]
    /\ sendq \in [Rids -> Seq(AccMesgs)]
    /\ kickq \in [Rids -> Seq(Cids)] /\ kicked \in [Rids -> Seq(Cids)]
    /\ pipe \in [Rids -> Seq({"ADD_SCK", "DIST_DATA", "KICK_CONN"})]
    /\ app \in [Apps -> [do : {"idle", "send", "kick", "DIST_DATA", "KICK_CONN"}, cid : 0..MaxAccept]]
    /\ \A a \in Apps : app[a].do # "idle" => app[a].cid \in Cids
    /\ now \in [Rids -> AccEvents] /\ batch \in [Rids -> SUBSET AccEvents]
    /\ sck \in [Cids -> Sockets] /\ wild \subseteq Cids

\* A connection is with the listener that accepted it, then in a queue, then open.
Conns ==
    /\ \A c \in Cids : c > cids => sck[c].st = "none"
    /\ \A l \in Lsvrs : lsn[l].do = "push" => lsn[l].cid \in Cids /\ sck[lsn[l].cid].st = "accepted"
    /\ \A l, m \in Lsvrs : lsn[l].do = "push" /\ lsn[m].do = "push" /\ lsn[l].cid = lsn[m].cid => l = m
    /\ \A r \in Rids : \A k \in DOMAIN connq[r] : Rid(connq[r][k]) = r /\ sck[connq[r][k]].st = "queued"

\* The units of a connection in the order of their messages.
UnitNr(c, k) == <<<<c, (k + 1) \div 2>>, IF k % 2 = 1 THEN 1 ELSE 2>>

\* The messages of a connection follow each other: those it has begun to write, those of
\* its list, those of the ring that are for it.
InLine(s, c, ms) ==
    \E w \in Nat :
        /\ Len(s.cur) <= 1 /\ Len(s.wire) + Len(s.cur) = 2 * w
        /\ \A k \in 1..Len(s.wire) : s.wire[k] = UnitNr(c, k)
        /\ s.cur # <<>> => s.cur[1] = UnitNr(c, 2 * w)
        /\ \A j \in 1..Len(s.list) : s.list[j] = <<c, w + j>>
        /\ \A j \in 1..Len(ms) : ms[j] = <<c, w + Len(s.list) + j>>
        /\ s.pushed = w + Len(s.list) + Len(ms)

AccLines ==
    \A c \in Cids : IF sck[c].st = "closed" THEN sck[c] = Socket("closed")
                    ELSE InLine(sck[c], c, MesgsFor(c, sendq[Rid(c)]))

\* The application knows only connections that were opened.
Known ==
    /\ \A a \in Apps : app[a].do # "idle" => sck[app[a].cid].st \in {"open", "closed"}
    /\ \A c \in Cids : sck[c].st \notin {"open", "closed"} => MesgsFor(c, sendq[Rid(c)]) = <<>>

\* Who is treated is open; the events of a batch are of different sources, that are open or
\* were kicked.
Fresh ==
    /\ \A r \in Rids : Elements(kickq[r]) \subseteq Elements(kicked[r])
    /\ \A r \in Rids : now[r].src # 0 => /\ now[r].src \in Open(r)
                                         /\ \A e \in batch[r] : e.src # now[r].src
    /\ \A r \in Rids : \A e, f \in batch[r] : e.src = f.src => e = f
    /\ \A r \in Rids : \A e \in batch[r] : e.src # 0 =>
          Rid(e.src) = r /\ (e.src \in Open(r) \/ e.src \in Elements(kicked[r]))
    /\ EventsFresh

AccInv == AccTypes /\ Conns /\ AccLines /\ Known /\ Fresh

LEMMA AccBounds ==
    /\ RsvrNum \in Nat \ {0} /\ MaxAccept \in Nat
    /\ \A c \in Cids : c \in Nat \ {0} /\ Rid(c) \in Rids /\ c \in 0..MaxAccept
    /\ \A r \in Rids : \A c \in Open(r) : c \in Cids /\ Rid(c) = r /\ sck[c].st = "open"
  <1>1. RsvrNum \in Nat \ {0} /\ MaxAccept \in Nat
    BY AccessAssumption
  <1>2. \A c \in Cids : c \in Nat \ {0} /\ c \in 0..MaxAccept
    BY <1>1 DEF Cids
  <1>3. \A c \in Nat : c % RsvrNum \in 0..RsvrNum - 1
    BY <1>1
  <1> QED
    BY <1>1, <1>2, <1>3 DEF Rid, Rids, Open

LEMMA SocketIs ==
    /\ \A w \in Stages : Socket(w) \in Sockets
    /\ \A w : /\ Socket(w).st = w /\ Socket(w).list = <<>> /\ Socket(w).cur = <<>>
              /\ Socket(w).wire = <<>> /\ Socket(w).pushed = 0
  <1>1. <<>> \in Seq(AccMesgs) /\ <<>> \in Seq(AccUnits)
    OBVIOUS
  <1> QED
    BY <1>1 DEF Socket, Sockets

LEMMA StartsInLine == ASSUME NEW w, NEW c PROVE InLine(Socket(w), c, <<>>)
  <1>1. Len(<<>>) = 0 /\ 0 \in Nat /\ 0 + 0 = 2 * 0 /\ 0 + 0 + 0 = 0 /\ 1..0 = {} /\ 0 <= 1
    OBVIOUS
  <1> QED
    BY <1>1, SocketIs DEF InLine

LEMMA AccInitially == AccessInit => AccInv
  <1> SUFFICES ASSUME AccessInit PROVE AccInv
    OBVIOUS
  <1>0. \A c \in Cids : sck[c] = Socket("none")
    BY DEF AccessInit
  <1>1. AccTypes
    <2>1. sck \in [Cids -> Sockets]
      BY SocketIs DEF AccessInit, Stages
    <2>2. Waiting \in AccEvents
      BY AccBounds DEF Waiting, AccEvents
    <2>3. <<>> \in Seq(Cids) /\ <<>> \in Seq(AccMesgs) /\ <<>> \in Seq({"ADD_SCK", "DIST_DATA", "KICK_CONN"})
      OBVIOUS
    <2>4. 0 \in 0..MaxAccept
      BY AccBounds
    <2> QED
      BY <2>1, <2>2, <2>3, <2>4 DEF AccessInit, AccTypes
  <1>2. Conns
    BY <1>0, SocketIs DEF AccessInit, Conns
  <1>3. AccLines
    <2> SUFFICES ASSUME NEW c \in Cids PROVE InLine(sck[c], c, MesgsFor(c, sendq[Rid(c)]))
      BY <1>0, SocketIs DEF AccLines
    <2>1. sendq[Rid(c)] = <<>>
      BY AccBounds DEF AccessInit
    <2> QED
      BY <1>0, <2>1, MesgsForNone, StartsInLine
  <1>4. Fresh
    BY DEF AccessInit, Fresh, EventsFresh, Elements, Waiting
  <1>5. Known
    BY AccBounds, MesgsForNone DEF AccessInit, Known
  <1> QED
    BY <1>1, <1>2, <1>3, <1>4, <1>5 DEF AccInv

-----------------------------------------------------------------------------
(* What most steps do. *)

\* A socket that keeps its messages, or is closed.
SocketTurns(s, s2) ==
    \/ s2 = Socket("closed")
    \/ s2 = s
    \/ /\ s.st # "closed" /\ s2.st # "closed"
       /\ s2.list = s.list /\ s2.cur = s.cur /\ s2.wire = s.wire /\ s2.pushed = s.pushed

LEMMA LinesTurn ==
    ASSUME AccLines, sendq' = sendq, \A c \in Cids : SocketTurns(sck[c], sck'[c])
    PROVE  AccLines'
  <1> SUFFICES ASSUME NEW c \in Cids
               PROVE  IF sck'[c].st = "closed" THEN sck'[c] = Socket("closed")
                      ELSE InLine(sck'[c], c, MesgsFor(c, sendq[Rid(c)]))
    BY DEF AccLines
  <1>1. CASE sck'[c] = Socket("closed")
    BY <1>1, SocketIs
  <1>2. CASE sck'[c] = sck[c]
    BY <1>2 DEF AccLines
  <1>3. CASE /\ sck[c].st # "closed" /\ sck'[c].st # "closed"
             /\ sck'[c].list = sck[c].list /\ sck'[c].cur = sck[c].cur
             /\ sck'[c].wire = sck[c].wire /\ sck'[c].pushed = sck[c].pushed
    <2>1. InLine(sck[c], c, MesgsFor(c, sendq[Rid(c)]))
      BY <1>3 DEF AccLines
    <2> QED
      BY <1>3, <2>1 DEF InLine
  <1> QED
    BY <1>1, <1>2, <1>3 DEF SocketTurns

\* Only open connections are closed, and nothing else happens to where they are.
LEMMA ConnsStay ==
    ASSUME Conns, UNCHANGED <<cids, lsn, connq>>, AccTypes,
           \A c \in Cids : sck'[c].st = sck[c].st \/ (sck[c].st = "open" /\ sck'[c].st = "closed")
    PROVE  Conns'
  <1>1. \A r \in Rids : \A k \in DOMAIN connq[r] : connq[r][k] \in Cids
    BY DEF AccTypes
  <1>2. \A c \in Cids : sck[c].st # "open" => sck'[c].st = sck[c].st
    OBVIOUS
  <1> QED
    BY <1>1, <1>2 DEF Conns

LEMMA KnownStays ==
    ASSUME AccTypes, Known, UNCHANGED sendq,
           \A a \in Apps : app'[a] = app[a] \/ app'[a].do = "idle",
           \A c \in Cids : sck[c].st \in {"open", "closed"} => sck'[c].st \in {"open", "closed"}
    PROVE  Known'
  BY DEF Known, AccTypes

LEMMA FreshStays ==
    ASSUME Fresh, UNCHANGED <<kickq, kicked, now, batch, wild>>,
           \A c \in Cids : sck[c].st = "open" => sck'[c].st = "open"
    PROVE  Fresh'
  <1>1. \A r \in Rids : \A c : c \in Open(r) => c \in Open(r)'
    BY DEF Open
  <1> QED
    BY <1>1 DEF Fresh, EventsFresh, Elements

\* A record of a socket, part by part.
LEMMA SocketParts ==
    ASSUME NEW s \in Sockets
    PROVE  /\ s.st \in Stages /\ s.list \in Seq(AccMesgs) /\ s.cur \in Seq(AccUnits)
           /\ s.watch \subseteq {"IN", "OUT"} /\ s.ready \subseteq {"IN", "OUT"}
           /\ s.input \in Nat /\ s.pushed \in Nat /\ s.wire \in Seq(AccUnits)
  BY DEF Sockets

-----------------------------------------------------------------------------
(* The listeners and the application. *)

LEMMA AcceptKeeps ==
    ASSUME AccInv, NEW l \in Lsvrs, Accept(l)
    PROVE  AccInv'
  <1> DEFINE c == cids + 1
             s == [sck[c] EXCEPT !.st = "accepted"]
  <1>1. /\ c \in Cids /\ cids' = c /\ lsn' = [lsn EXCEPT ![l] = [do |-> "push", cid |-> c]]
        /\ sck' = [sck EXCEPT ![c] = s] /\ sck[c].st = "none" /\ sck \in [Cids -> Sockets]
        /\ c \in 0..MaxAccept
    <2>1. cids \in Nat /\ cids + 1 <= MaxAccept /\ MaxAccept \in Nat
      BY AccBounds DEF AccInv, AccTypes, Accept
    <2>2. c \in Cids /\ c > cids /\ c \in 0..MaxAccept
      BY <2>1 DEF Cids
    <2> QED
      BY <2>2 DEF AccInv, AccTypes, Conns, Accept
  <1>2. s \in Sockets /\ s.st = "accepted" /\ s.list = sck[c].list /\ s.cur = sck[c].cur
        /\ s.wire = sck[c].wire /\ s.pushed = sck[c].pushed
    BY <1>1 DEF Sockets, Stages
  <1> HIDE DEF s
  <1>3. UNCHANGED <<connq, sendq, kickq, kicked, pipe, app, now, batch, wild>>
    BY DEF Accept, queueVars
  <1>4. /\ sck'[c] = s /\ \A d \in Cids : d # c => sck'[d] = sck[d]
        /\ sck' \in [Cids -> Sockets]
    BY <1>1, <1>2
  <1> HIDE DEF c
  <1>5. AccTypes'
    BY <1>1, <1>3, <1>4 DEF AccInv, AccTypes
  <1>6. Conns'
    <2>1. \A d \in Cids : d > cids' => sck'[d].st = "none"
      <3>1. \A d \in Cids : d > c => d > cids /\ d # c
        BY AccBounds DEF c, AccInv, AccTypes
      <3> QED
        BY <1>1, <1>4, <3>1 DEF AccInv, Conns
    <2>2. \A m \in Lsvrs : m # l => lsn'[m] = lsn[m] /\ (lsn[m].do = "push" => lsn[m].cid # c)
      BY <1>1 DEF AccInv, Conns, AccTypes
    <2>3. lsn'[l] = [do |-> "push", cid |-> c]
      BY <1>1 DEF AccInv, AccTypes
    <2>4. \A m \in Lsvrs : lsn'[m].do = "push" => lsn'[m].cid \in Cids /\ sck'[lsn'[m].cid].st = "accepted"
      BY <1>1, <1>2, <1>4, <2>2, <2>3 DEF AccInv, Conns
    <2>5. \A k, m \in Lsvrs : lsn'[k].do = "push" /\ lsn'[m].do = "push" /\ lsn'[k].cid = lsn'[m].cid => k = m
      BY <2>2, <2>3 DEF AccInv, Conns
    <2>6. \A r \in Rids : \A k \in DOMAIN connq[r] : connq[r][k] \in Cids /\ connq[r][k] # c
      BY <1>1 DEF AccInv, Conns, AccTypes
    <2> QED
      BY <1>3, <1>4, <2>1, <2>4, <2>5, <2>6 DEF AccInv, Conns
  <1>7. AccLines'
    <2>1. \A d \in Cids : SocketTurns(sck[d], sck'[d])
      BY <1>1, <1>2, <1>4 DEF SocketTurns
    <2> QED
      BY <1>3, <2>1, LinesTurn DEF AccInv
  <1>8. Fresh'
    BY <1>1, <1>3, <1>4, FreshStays DEF AccInv
  <1>9. Known'
    BY <1>1, <1>3, <1>4, KnownStays DEF AccInv
  <1> QED
    BY <1>5, <1>6, <1>7, <1>8, <1>9 DEF AccInv

LEMMA PushConnKeeps ==
    ASSUME AccInv, NEW l \in Lsvrs, PushConn(l)
    PROVE  AccInv'
  <1> DEFINE c == lsn[l].cid
             full == Len(connq[Rid(c)]) = ConnMax
             s == IF full THEN Socket("closed") ELSE [sck[c] EXCEPT !.st = "queued"]
             q == IF full THEN connq[Rid(c)] ELSE Append(connq[Rid(c)], c)
             do == IF full THEN "select" ELSE "tell"
  <1>1. /\ c \in Cids /\ sck[c].st = "accepted" /\ lsn[l].do = "push" /\ Rid(c) \in Rids
        /\ sck[c] \in Sockets
    BY AccBounds DEF PushConn, AccInv, Conns, AccTypes
  <1>2. /\ s \in Sockets /\ s.st \in {"closed", "queued"} /\ SocketTurns(sck[c], s)
        /\ ~full => s.st = "queued"
    BY <1>1, SocketIs DEF Sockets, Stages, SocketTurns
  <1>3. /\ connq' = [connq EXCEPT ![Rid(c)] = q] /\ sck' = [sck EXCEPT ![c] = s]
        /\ lsn' = [lsn EXCEPT ![l].do = do]
    BY DEF PushConn
  <1>4. /\ q \in Seq(Cids)
        /\ \A k \in DOMAIN q : (k \in DOMAIN connq[Rid(c)] /\ q[k] = connq[Rid(c)][k])
                               \/ (~full /\ q[k] = c)
    <2>1. connq[Rid(c)] \in Seq(Cids)
      BY <1>1 DEF AccInv, AccTypes
    <2>2. CASE full
      BY <2>1, <2>2
    <2>3. CASE ~full
      <3>1. q = Append(connq[Rid(c)], c)
        BY <2>3
      <3> HIDE DEF q
      <3>2. /\ q \in Seq(Cids) /\ DOMAIN q = 1..Len(connq[Rid(c)]) + 1 /\ q[Len(connq[Rid(c)]) + 1] = c
            /\ \A k \in 1..Len(connq[Rid(c)]) : q[k] = connq[Rid(c)][k]
            /\ Len(connq[Rid(c)]) \in Nat /\ DOMAIN connq[Rid(c)] = 1..Len(connq[Rid(c)])
        BY <1>1, <2>1, <3>1, Longer, SeqFacts
      <3>3. \A k \in DOMAIN q : k \in 1..Len(connq[Rid(c)]) \/ k = Len(connq[Rid(c)]) + 1
        BY <3>2
      <3> QED
        BY <2>3, <3>2, <3>3
    <2> QED
      BY <2>2, <2>3
  <1> HIDE DEF s, q, full
  <1>5. UNCHANGED <<cids, sendq, kickq, kicked, pipe, app, now, batch, wild>>
    BY DEF PushConn
  <1>6. /\ sck'[c] = s /\ \A d \in Cids : d # c => sck'[d] = sck[d]
        /\ sck' \in [Cids -> Sockets]
    BY <1>1, <1>2, <1>3 DEF AccInv, AccTypes
  <1>7. /\ lsn'[l] = [do |-> do, cid |-> c] /\ \A m \in Lsvrs : m # l => lsn'[m] = lsn[m]
        /\ lsn' \in [Lsvrs -> [do : {"select", "push", "tell"}, cid : 0..MaxAccept]]
    BY <1>3 DEF AccInv, AccTypes
  <1> HIDE DEF c
  <1>8. AccTypes'
    BY <1>1, <1>3, <1>4, <1>5, <1>6, <1>7 DEF AccInv, AccTypes
  <1>9. Conns'
    <2>1. \A d \in Cids : d > cids' => sck'[d].st = "none"
      BY <1>1, <1>5, <1>6 DEF AccInv, Conns
    <2>2. lsn'[l].do # "push"
      BY <1>7
    <2>3. \A m \in Lsvrs : lsn'[m].do = "push" => lsn'[m] = lsn[m] /\ lsn[m].cid # c
      BY <1>1, <1>7, <2>2 DEF AccInv, Conns, c
    <2>4. \A r \in Rids : \A k \in DOMAIN connq'[r] :
                              Rid(connq'[r][k]) = r /\ sck'[connq'[r][k]].st = "queued"
      <3> SUFFICES ASSUME NEW r \in Rids, NEW k \in DOMAIN connq'[r]
                   PROVE  Rid(connq'[r][k]) = r /\ sck'[connq'[r][k]].st = "queued"
        OBVIOUS
      <3>1. \A j \in DOMAIN connq[r] : connq[r][j] \in Cids /\ sck[connq[r][j]].st = "queued"
                                        /\ connq[r][j] # c /\ Rid(connq[r][j]) = r
        BY <1>1 DEF AccInv, AccTypes, Conns
      <3>2. connq' \in [Rids -> Seq(Cids)] /\ connq'[r] = IF r = Rid(c) THEN q ELSE connq[r]
        BY <1>1, <1>3, <1>8 DEF AccInv, AccTypes
      <3>3. CASE r = Rid(c)
        BY <1>2, <1>4, <1>6, <3>1, <3>2, <3>3
      <3>4. CASE r # Rid(c)
        BY <1>6, <3>1, <3>2, <3>4
      <3> QED
        BY <3>3, <3>4
    <2> QED
      BY <1>6, <2>1, <2>3, <2>4 DEF AccInv, Conns
  <1>10. AccLines'
    <2>1. \A d \in Cids : SocketTurns(sck[d], sck'[d])
      BY <1>2, <1>6 DEF SocketTurns
    <2> QED
      BY <1>5, <2>1, LinesTurn DEF AccInv
  <1>11. Fresh'
    BY <1>1, <1>5, <1>6, FreshStays DEF AccInv
  <1>12. Known'
    BY <1>1, <1>5, <1>6, KnownStays DEF AccInv
  <1> QED
    BY <1>8, <1>9, <1>10, <1>11, <1>12 DEF AccInv

\* A command that is told leaves the pipe a list of commands.
LEMMA TellTyped ==
    ASSUME AccTypes, NEW r \in Rids, NEW cmd \in {"ADD_SCK", "DIST_DATA", "KICK_CONN"}, Tell(r, cmd)
    PROVE  pipe' \in [Rids -> Seq({"ADD_SCK", "DIST_DATA", "KICK_CONN"})]
  <1>1. pipe[r] \in Seq({"ADD_SCK", "DIST_DATA", "KICK_CONN"})
    BY DEF AccTypes
  <1>2. Append(pipe[r], cmd) \in Seq({"ADD_SCK", "DIST_DATA", "KICK_CONN"})
    BY <1>1
  <1> QED
    BY <1>2 DEF Tell, AccTypes

\* Nothing but the pipe changes, and who stands where.
LEMMA QuietKeeps ==
    ASSUME AccInv, UNCHANGED <<cids, connq, sendq, kickq, kicked, now, batch, wild, sck>>,
           pipe' \in [Rids -> Seq({"ADD_SCK", "DIST_DATA", "KICK_CONN"})],
           app' \in [Apps -> [do : {"idle", "send", "kick", "DIST_DATA", "KICK_CONN"}, cid : 0..MaxAccept]],
           \A a \in Apps : app'[a].do # "idle" =>
               app'[a].cid \in Cids /\ sck[app'[a].cid].st \in {"open", "closed"},
           \/ lsn' = lsn
           \/ \E l \in Lsvrs : lsn[l].do # "push" /\ lsn' = [lsn EXCEPT ![l].do = "select"]
    PROVE  AccInv'
  <1>1. lsn' \in [Lsvrs -> [do : {"select", "push", "tell"}, cid : 0..MaxAccept]]
        /\ \A m \in Lsvrs : lsn'[m].do = "push" => lsn'[m] = lsn[m]
    <2>1. lsn \in [Lsvrs -> [do : {"select", "push", "tell"}, cid : 0..MaxAccept]]
      BY DEF AccInv, AccTypes
    <2>2. CASE lsn' = lsn
      BY <2>1, <2>2
    <2>3. ASSUME NEW l \in Lsvrs, lsn' = [lsn EXCEPT ![l].do = "select"]
          PROVE  lsn' \in [Lsvrs -> [do : {"select", "push", "tell"}, cid : 0..MaxAccept]]
                 /\ \A m \in Lsvrs : lsn'[m].do = "push" => lsn'[m] = lsn[m]
      <3>1. lsn'[l].do = "select" /\ \A m \in Lsvrs : m # l => lsn'[m] = lsn[m]
        BY <2>1, <2>3
      <3>2. lsn' \in [Lsvrs -> [do : {"select", "push", "tell"}, cid : 0..MaxAccept]]
        BY <2>1, <2>3
      <3> QED
        BY <3>1, <3>2
    <2> QED
      BY <2>2, <2>3
  <1>2. AccTypes'
    BY <1>1 DEF AccInv, AccTypes
  <1>3. Conns'
    BY <1>1 DEF AccInv, Conns
  <1>4. AccLines'
    BY LinesTurn DEF AccInv, SocketTurns
  <1>5. Fresh'
    BY FreshStays DEF AccInv
  <1>6. Known'
    BY DEF AccInv, Known
  <1> QED
    BY <1>2, <1>3, <1>4, <1>5, <1>6 DEF AccInv

LEMMA TellAddKeeps ==
    ASSUME AccInv, NEW l \in Lsvrs, TellAdd(l)
    PROVE  AccInv'
  <1>1. Rid(lsn[l].cid) \in Rids
    <2>1. lsn[l].cid \in Nat
      BY AccBounds DEF AccInv, AccTypes
    <2> QED
      BY <2>1, AccBounds DEF Rid, Rids
  <1> QED
    BY <1>1, TellTyped, QuietKeeps DEF TellAdd, AccInv, AccTypes, Known

LEMMA LsvrTimeoutKeeps ==
    ASSUME AccInv, NEW l \in Lsvrs, NEW r \in Rids, LsvrTimeout(l, r)
    PROVE  AccInv'
  BY TellTyped, QuietKeeps DEF LsvrTimeout, AccInv, AccTypes, Known, threadVars

LEMMA AppCallKeeps ==
    ASSUME AccInv, NEW a \in Apps, AppCall(a)
    PROVE  AccInv'
  <1>1. PICK c \in Cids, do \in {"send", "kick"} :
          sck[c].st = "open" /\ app' = [app EXCEPT ![a] = [do |-> do, cid |-> c]]
    BY DEF AppCall
  <1>2. c \in 0..MaxAccept
    BY AccBounds
  <1> QED
    BY <1>1, <1>2, QuietKeeps DEF AppCall, AccInv, AccTypes, Known, queueVars

LEMMA AppTellKeeps ==
    ASSUME AccInv, NEW a \in Apps, AppTell(a)
    PROVE  AccInv'
  <1>1. app[a].cid \in Cids /\ Rid(app[a].cid) \in Rids
    BY AccBounds DEF AccInv, AccTypes, AppTell
  <1>2. pipe' \in [Rids -> Seq({"ADD_SCK", "DIST_DATA", "KICK_CONN"})]
    BY <1>1, TellTyped DEF AppTell, AccInv
  <1>3. app' = [app EXCEPT ![a].do = "idle"]
    BY DEF AppTell
  <1>4. /\ app' \in [Apps -> [do : {"idle", "send", "kick", "DIST_DATA", "KICK_CONN"}, cid : 0..MaxAccept]]
        /\ \A b \in Apps : app'[b].do # "idle" =>
              app'[b].cid \in Cids /\ sck[app'[b].cid].st \in {"open", "closed"}
    BY <1>3 DEF AccInv, AccTypes, Known
  <1> QED
    BY <1>2, <1>4, QuietKeeps DEF AppTell

LEMMA AppSendKeeps ==
    ASSUME AccInv, NEW a \in Apps, AppSend(a)
    PROVE  AccInv'
  <1> DEFINE c == app[a].cid
             r == Rid(c)
             full == Len(sendq[r]) = SendMax
             nr == sck[c].pushed + 1
             s == [sck[c] EXCEPT !.pushed = IF full \/ sck[c].st = "closed" THEN @ ELSE nr]
             q == IF full THEN sendq[r] ELSE Append(sendq[r], <<c, nr>>)
             do == IF full THEN "idle" ELSE "DIST_DATA"
  <1>1. c \in Cids /\ r \in Rids /\ sck[c] \in Sockets /\ sendq[r] \in Seq(AccMesgs)
    BY AccBounds DEF AppSend, AccInv, AccTypes
  <1>2. nr \in Nat /\ <<c, nr>> \in AccMesgs
    BY <1>1, SocketParts DEF AccMesgs
  <1>3. /\ sendq' = [sendq EXCEPT ![r] = q] /\ sck' = [sck EXCEPT ![c] = s]
        /\ app' = [app EXCEPT ![a].do = do]
    BY DEF AppSend
  <1>4. UNCHANGED <<cids, connq, kickq, kicked, pipe, lsn, now, batch, wild>>
    BY DEF AppSend
  <1>5. q \in Seq(AccMesgs)
    BY <1>1, <1>2, Longer
  <1>6. /\ s \in Sockets /\ s.st = sck[c].st /\ s.list = sck[c].list /\ s.cur = sck[c].cur
        /\ s.wire = sck[c].wire /\ (full \/ sck[c].st = "closed" => s = sck[c])
        /\ ~full /\ sck[c].st # "closed" => s.pushed = nr
    BY <1>1, <1>2 DEF Sockets
  <1>7. q = IF full THEN sendq[r] ELSE Append(sendq[r], <<c, nr>>)
    OBVIOUS
  <1> HIDE DEF s, q, full
  <1>8. /\ sck'[c] = s /\ \A d \in Cids : d # c => sck'[d] = sck[d]
        /\ sck' \in [Cids -> Sockets]
    BY <1>1, <1>3, <1>6 DEF AccInv, AccTypes
  <1>9. /\ sendq'[r] = q /\ \A t \in Rids : t # r => sendq'[t] = sendq[t]
        /\ sendq' \in [Rids -> Seq(AccMesgs)]
    BY <1>1, <1>3, <1>5 DEF AccInv, AccTypes
  <1>10. /\ app' \in [Apps -> [do : {"idle", "send", "kick", "DIST_DATA", "KICK_CONN"}, cid : 0..MaxAccept]]
         /\ \A b \in Apps : app'[b].do # "idle" => app'[b].cid \in Cids
    BY <1>1, <1>3 DEF AccInv, AccTypes
  <1>11. AccTypes'
    BY <1>4, <1>8, <1>9, <1>10 DEF AccInv, AccTypes
  <1>12. \A d \in Cids : sck'[d].st = sck[d].st
    BY <1>6, <1>8
  <1>13. Conns'
    BY <1>4, <1>12, ConnsStay DEF AccInv
  <1>14. Fresh'
    BY <1>4, <1>12, FreshStays DEF AccInv
  <1>15. AccLines'
    <2> SUFFICES ASSUME NEW d \in Cids
                 PROVE  IF sck'[d].st = "closed" THEN sck'[d] = Socket("closed")
                        ELSE InLine(sck'[d], d, MesgsFor(d, sendq'[Rid(d)]))
      BY DEF AccLines
    <2>0. IF sck[d].st = "closed" THEN sck[d] = Socket("closed")
          ELSE InLine(sck[d], d, MesgsFor(d, sendq[Rid(d)]))
      BY DEF AccInv, AccLines
    <2>1. CASE sck[d].st = "closed"
      BY <1>6, <1>8, <2>0, <2>1
    <2>2. CASE sck[d].st # "closed" /\ (full \/ d # c)
      <3>1. sck'[d] = sck[d]
        BY <1>6, <1>8, <2>2
      <3>2. MesgsFor(d, sendq'[Rid(d)]) = MesgsFor(d, sendq[Rid(d)])
        <4>1. CASE Rid(d) = r /\ ~full
          <5>1. d # c /\ <<c, nr>>[1] = c
            BY <2>2, <4>1
          <5>2. q = Append(sendq[r], <<c, nr>>) /\ sendq'[Rid(d)] = q /\ sendq[Rid(d)] = sendq[r]
            BY <1>7, <1>9, <4>1
          <5> DEFINE m == <<c, nr>>
          <5>3. m[1] # d /\ m \in AccMesgs
            BY <1>2, <5>1
          <5>4. q = Append(sendq[r], m)
            BY <5>2
          <5> HIDE DEF m
          <5>5. MesgsFor(d, Append(sendq[r], m)) = MesgsFor(d, sendq[r])
            BY <1>1, <5>3, MesgsForAppend
          <5> QED
            BY <5>2, <5>4, <5>5
        <4>2. CASE Rid(d) # r \/ full
          BY <1>7, <1>9, <4>2, AccBounds
        <4> QED
          BY <4>1, <4>2
      <3> QED
        BY <2>0, <2>2, <3>1, <3>2
    <2>3. CASE sck[d].st # "closed" /\ ~full /\ d = c
      <3> DEFINE ms == MesgsFor(c, sendq[r])
                 ns == Append(ms, <<c, nr>>)
                 u == sck[c]
      <3>1. MesgsFor(c, sendq'[r]) = ns
        <4>1. q = Append(sendq[r], <<c, nr>>) /\ sendq'[r] = q
          BY <1>7, <1>9, <2>3, ZenonT(30)
        <4> DEFINE m == <<c, nr>>
        <4>2. m[1] = c /\ m \in AccMesgs
          BY <1>2
        <4> HIDE DEF m
        <4>3. MesgsFor(c, Append(sendq[r], m)) = Append(MesgsFor(c, sendq[r]), m)
          BY <1>1, <4>2, MesgsForAppend
        <4>4. sendq'[r] = Append(sendq[r], m) /\ ns = Append(ms, m)
          BY <4>1 DEF m
        <4> QED
          BY <4>3, <4>4
      <3>2. InLine(u, c, ms)
        BY <2>0, <2>3
      <3>3. ms \in Seq(AccMesgs)
        BY <1>1, MesgsForTyped
      <3>4. /\ Len(ns) = Len(ms) + 1 /\ Len(ms) \in Nat
            /\ \A j \in 1..Len(ms) : ns[j] = ms[j]
            /\ ns[Len(ms) + 1] = <<c, nr>>
        BY <1>2, <3>3, Longer, SeqFacts
      <3> HIDE DEF ms, ns
      <3>5. PICK w \in Nat :
              /\ Len(u.cur) <= 1 /\ Len(u.wire) + Len(u.cur) = 2 * w
              /\ \A k \in 1..Len(u.wire) : u.wire[k] = UnitNr(c, k)
              /\ u.cur # <<>> => u.cur[1] = UnitNr(c, 2 * w)
              /\ \A j \in 1..Len(u.list) : u.list[j] = <<c, w + j>>
              /\ \A j \in 1..Len(ms) : ms[j] = <<c, w + Len(u.list) + j>>
              /\ u.pushed = w + Len(u.list) + Len(ms)
        BY <3>2 DEF InLine
      <3>6. Len(u.list) \in Nat
        BY <1>1, SocketParts, SeqFacts
      <3>7. nr = w + Len(u.list) + Len(ns)
        <4>1. \A x, y \in Nat : (w + x + y) + 1 = w + x + (y + 1)
          OBVIOUS
        <4> QED
          BY <3>4, <3>5, <3>6, <4>1
      <3>8. \A j \in 1..Len(ns) : ns[j] = <<c, w + Len(u.list) + j>>
        <4>1. \A j \in 1..Len(ns) : j \in 1..Len(ms) \/ j = Len(ms) + 1
          BY <3>4
        <4> QED
          BY <3>4, <3>5, <3>7, <4>1
      <3>9. InLine(s, c, ns)
        BY <1>6, <2>3, <3>5, <3>7, <3>8 DEF InLine
      <3> QED
        BY <1>6, <1>8, <2>3, <3>1, <3>9
    <2> QED
      BY <2>1, <2>2, <2>3
  <1>16. Known'
    <2>1. sck[c].st \in {"open", "closed"}
      BY DEF AppSend, AccInv, Known
    <2>2. \A b \in Apps : app'[b].do # "idle" => app'[b].cid = app[b].cid /\ app[b].do # "idle"
      BY <1>3 DEF AppSend, AccInv, AccTypes
    <2>3. ASSUME NEW d \in Cids, d # c PROVE MesgsFor(d, sendq'[Rid(d)]) = MesgsFor(d, sendq[Rid(d)])
      <3>1. <<c, nr>>[1] # d
        BY <2>3
      <3>2. CASE Rid(d) = r /\ ~full
        <4>1. q = Append(sendq[r], <<c, nr>>) /\ sendq'[Rid(d)] = q /\ sendq[Rid(d)] = sendq[r]
          BY <1>7, <1>9, <3>2
        <4> QED
          BY <1>1, <1>2, <3>1, <4>1, MesgsForAppend
      <3>3. CASE Rid(d) # r \/ full
        BY <1>7, <1>9, <3>3, AccBounds
      <3> QED
        BY <3>2, <3>3
    <2> QED
      BY <1>12, <2>1, <2>2, <2>3 DEF AccInv, AccTypes, Known
  <1> QED
    BY <1>11, <1>13, <1>14, <1>15, <1>16 DEF AccInv

LEMMA AppKickKeeps ==
    ASSUME AccInv, NEW a \in Apps, AppKick(a)
    PROVE  AccInv'
  <1> DEFINE c == app[a].cid
             r == Rid(c)
             full == Len(kicked[r]) = ConnMax
             do == IF full THEN "idle" ELSE "KICK_CONN"
             p == IF full THEN kickq[r] ELSE Append(kickq[r], c)
             q == IF full THEN kicked[r] ELSE Append(kicked[r], c)
  <1>1. c \in Cids /\ r \in Rids /\ kickq[r] \in Seq(Cids) /\ kicked[r] \in Seq(Cids)
    BY AccBounds DEF AppKick, AccInv, AccTypes
  <1>2. /\ kickq' = [kickq EXCEPT ![r] = p] /\ kicked' = [kicked EXCEPT ![r] = q]
        /\ app' = [app EXCEPT ![a].do = do]
    BY DEF AppKick
  <1>3. UNCHANGED <<cids, connq, sendq, pipe, lsn, now, batch, wild, sck>>
    BY DEF AppKick
  <1>4. p \in Seq(Cids) /\ q \in Seq(Cids)
    BY <1>1, Longer
  <1>5. Elements(p) \subseteq Elements(q) /\ Elements(kicked[r]) \subseteq Elements(q)
    <2>1. Elements(kickq[r]) \subseteq Elements(kicked[r])
      BY <1>1 DEF AccInv, Fresh
    <2>2. \A z \in Seq(Cids) : Elements(Append(z, c)) = Elements(z) \cup {c}
      <3> SUFFICES ASSUME NEW z \in Seq(Cids) PROVE Elements(Append(z, c)) = Elements(z) \cup {c}
        OBVIOUS
      <3>1. /\ DOMAIN z = 1..Len(z) /\ DOMAIN Append(z, c) = 1..Len(z) + 1 /\ Len(z) \in Nat
            /\ \A i \in 1..Len(z) : Append(z, c)[i] = z[i]
            /\ Append(z, c)[Len(z) + 1] = c
        BY <1>1
      <3>2. \A i \in 1..Len(z) + 1 : i \in 1..Len(z) \/ i = Len(z) + 1
        BY <3>1
      <3>3. \A i \in 1..Len(z) : i \in 1..Len(z) + 1
        BY <3>1
      <3>4. Len(z) + 1 \in 1..Len(z) + 1
        BY <3>1
      <3> QED
        BY <3>1, <3>2, <3>3, <3>4 DEF Elements
    <2> QED
      BY <1>1, <2>1, <2>2
  <1> HIDE DEF p, q, full
  <1>6. /\ app' \in [Apps -> [do : {"idle", "send", "kick", "DIST_DATA", "KICK_CONN"}, cid : 0..MaxAccept]]
        /\ \A b \in Apps : app'[b].do # "idle" => app'[b].cid \in Cids
    <2>1. app \in [Apps -> [do : {"idle", "send", "kick", "DIST_DATA", "KICK_CONN"}, cid : 0..MaxAccept]]
          /\ \A b \in Apps : app[b].do # "idle" => app[b].cid \in Cids
      BY DEF AccInv, AccTypes
    <2>2. do \in {"idle", "send", "kick", "DIST_DATA", "KICK_CONN"}
      OBVIOUS
    <2> HIDE DEF do
    <2>3. /\ app' \in [Apps -> [do : {"idle", "send", "kick", "DIST_DATA", "KICK_CONN"}, cid : 0..MaxAccept]]
          /\ app'[a].cid = app[a].cid /\ \A b \in Apps : b # a => app'[b] = app[b]
      BY <1>2, <2>1, <2>2
    <2> QED
      BY <1>1, <2>1, <2>3
  <1>7. AccTypes'
    BY <1>1, <1>2, <1>3, <1>4, <1>6 DEF AccInv, AccTypes
  <1>8. Conns'
    BY <1>3, ConnsStay DEF AccInv
  <1>9. AccLines'
    BY <1>3, LinesTurn DEF AccInv, SocketTurns
  <1>10. Fresh'
    <2>1. /\ kickq'[r] = p /\ kicked'[r] = q
          /\ \A t \in Rids : t # r => kickq'[t] = kickq[t] /\ kicked'[t] = kicked[t]
      BY <1>1, <1>2 DEF AccInv, AccTypes
    <2>2. \A t \in Rids : Elements(kicked[t]) \subseteq Elements(kicked'[t])
      BY <1>5, <2>1
    <2>3. \A t \in Rids : Elements(kickq'[t]) \subseteq Elements(kicked'[t])
      BY <1>5, <2>1 DEF AccInv, Fresh
    <2>4. \A t \in Rids : Open(t)' = Open(t)
      BY <1>3 DEF Open
    <2>5. \A d \in wild : d \in Elements(kicked'[Rid(d)])
      BY <2>2, AccBounds DEF AccInv, AccTypes, Fresh, EventsFresh
    <2> QED
      BY <1>3, <2>2, <2>3, <2>4, <2>5 DEF AccInv, Fresh, EventsFresh
  <1>11. Known'
    <2>1. \A b \in Apps : app'[b].do # "idle" => app'[b].cid = app[b].cid /\ app[b].do # "idle"
      BY <1>2 DEF AppKick, AccInv, AccTypes
    <2> QED
      BY <1>3, <2>1 DEF AccInv, Known
  <1> QED
    BY <1>7, <1>8, <1>9, <1>10, <1>11 DEF AccInv

\* A step of one socket that changes neither where it is nor its messages.
LEMMA SocketStepKeeps ==
    ASSUME AccInv, NEW c \in Cids, NEW s \in Sockets, sck' = [sck EXCEPT ![c] = s],
           s.st = sck[c].st, s.list = sck[c].list, s.cur = sck[c].cur, s.wire = sck[c].wire,
           s.pushed = sck[c].pushed, sck[c].st # "closed",
           UNCHANGED <<cids, queueVars, threadVars>>
    PROVE  AccInv'
  <1>1. /\ sck'[c] = s /\ \A d \in Cids : d # c => sck'[d] = sck[d]
        /\ sck' \in [Cids -> Sockets]
    BY DEF AccInv, AccTypes
  <1>2. UNCHANGED <<cids, connq, sendq, kickq, kicked, pipe, lsn, app, now, batch, wild>>
    BY DEF queueVars, threadVars
  <1>3. AccTypes'
    BY <1>1, <1>2 DEF AccInv, AccTypes
  <1>4. \A d \in Cids : sck'[d].st = sck[d].st
    BY <1>1
  <1>5. Conns' /\ Fresh'
    BY <1>2, <1>4, ConnsStay, FreshStays DEF AccInv
  <1>6. \A d \in Cids : SocketTurns(sck[d], sck'[d])
    BY <1>1 DEF SocketTurns
  <1>7. Known'
    BY <1>2, <1>4, KnownStays DEF AccInv
  <1> QED
    BY <1>2, <1>3, <1>5, <1>6, <1>7, LinesTurn DEF AccInv

LEMMA ClientSendKeeps ==
    ASSUME AccInv, NEW c \in Cids, ClientSend(c)
    PROVE  AccInv'
  <1> DEFINE s == [sck[c] EXCEPT !.input = @ + 1, !.ready = @ \cup {"IN"}]
  <1>1. sck[c] \in Sockets /\ sck \in [Cids -> Sockets] /\ sck[c].st # "closed"
    BY DEF AccInv, AccTypes, ClientSend
  <1>2. /\ s \in Sockets /\ s.st = sck[c].st /\ s.list = sck[c].list /\ s.cur = sck[c].cur
        /\ s.wire = sck[c].wire /\ s.pushed = sck[c].pushed
    <2>1. sck[c].input + 1 \in Nat /\ sck[c].ready \cup {"IN"} \subseteq {"IN", "OUT"}
      BY <1>1, SocketParts
    <2> QED
      BY <1>1, <2>1 DEF Sockets
  <1>3. sck' = [sck EXCEPT ![c] = s]
    BY <1>1 DEF ClientSend
  <1> HIDE DEF s
  <1> QED
    BY <1>1, <1>2, <1>3, SocketStepKeeps DEF ClientSend

LEMMA WritableKeeps ==
    ASSUME AccInv, NEW c \in Cids, Writable(c)
    PROVE  AccInv'
  <1> DEFINE s == [sck[c] EXCEPT !.ready = @ \cup {"OUT"}]
  <1>1. sck[c] \in Sockets /\ sck[c].st # "closed"
    BY DEF AccInv, AccTypes, Writable
  <1>2. /\ s \in Sockets /\ s.st = sck[c].st /\ s.list = sck[c].list /\ s.cur = sck[c].cur
        /\ s.wire = sck[c].wire /\ s.pushed = sck[c].pushed
    BY <1>1 DEF Sockets
  <1>3. sck' = [sck EXCEPT ![c] = s]
    BY DEF Writable
  <1> HIDE DEF s
  <1> QED
    BY <1>1, <1>2, <1>3, SocketStepKeeps DEF Writable

-----------------------------------------------------------------------------
(* The events of a thread. *)

\* An event names open connections of the thread, each once.
LEMMA EventsAre ==
    ASSUME AccTypes, NEW r \in Rids
    PROVE  /\ Events(r) \subseteq AccEvents
           /\ \A e \in Events(r) : e.src = 0 \/ (e.src \in Open(r) /\ e.src \in Cids)
           /\ \A e, f \in Events(r) : e.src = f.src => e = f
  <1> DEFINE E == {[src |-> c, ev |-> sck[c].watch \cap sck[c].ready] : c \in Open(r)}
             P == [src |-> 0, ev |-> {"IN"}]
  <1>1. \A e \in Events(r) : e \in E \/ e = P
    BY DEF Events
  <1>2. \A e \in E : \E c \in Open(r) : e = [src |-> c, ev |-> sck[c].watch \cap sck[c].ready]
    OBVIOUS
  <1>3. \A c \in Open(r) : /\ c \in Cids /\ c \in 0..MaxAccept /\ c # 0
                           /\ sck[c].watch \cap sck[c].ready \subseteq {"IN", "OUT"}
    BY AccBounds, SocketParts DEF AccTypes
  <1>4. P \in AccEvents
    BY AccBounds DEF AccEvents
  <1>5. \A e \in E : e \in AccEvents /\ e.src \in Open(r) /\ e.src \in Cids /\ e.src # 0
                     /\ e = [src |-> e.src, ev |-> sck[e.src].watch \cap sck[e.src].ready]
    BY <1>2, <1>3 DEF AccEvents
  <1>7. P.src = 0
    OBVIOUS
  <1> HIDE DEF E, P
  <1>6. \A e, f \in Events(r) : e.src = f.src => e = f
    <2> SUFFICES ASSUME NEW e \in Events(r), NEW f \in Events(r), e.src = f.src PROVE e = f
      OBVIOUS
    <2>1. CASE e = P \/ f = P
      BY <1>1, <1>5, <1>7, <2>1
    <2>2. CASE e \in E /\ f \in E
      <3>1. /\ e = [src |-> e.src, ev |-> sck[e.src].watch \cap sck[e.src].ready]
            /\ f = [src |-> e.src, ev |-> sck[e.src].watch \cap sck[e.src].ready]
        BY <1>5, <2>2
      <3> QED
        BY <3>1
    <2> QED
      BY <1>1, <2>1, <2>2
  <1>8. Events(r) \subseteq AccEvents
    BY <1>1, <1>4, <1>5
  <1>9. \A e \in Events(r) : e.src = 0 \/ (e.src \in Open(r) /\ e.src \in Cids)
    BY <1>1, <1>5, <1>7
  <1> QED
    BY <1>6, <1>8, <1>9

LEMMA EpollWaitKeeps ==
    ASSUME AccInv, NEW r \in Rids, EpollWait(r)
    PROVE  AccInv'
  <1>1. UNCHANGED <<cids, connq, sendq, kickq, kicked, pipe, lsn, app, now, wild>>
    BY DEF EpollWait, queueVars
  <1>2. batch' = [batch EXCEPT ![r] = Events(r)] /\ now[r] = Waiting
    BY DEF EpollWait
  <1>3. sck' = [c \in Cids |-> IF c \in Open(r) THEN [sck[c] EXCEPT !.ready = @ \ sck[c].watch]
                              ELSE sck[c]]
    BY DEF EpollWait
  <1>4. \A c \in Cids : /\ sck'[c] \in Sockets /\ sck'[c].st = sck[c].st
                        /\ SocketTurns(sck[c], sck'[c])
    <2> SUFFICES ASSUME NEW c \in Cids
                 PROVE  sck'[c] \in Sockets /\ sck'[c].st = sck[c].st /\ SocketTurns(sck[c], sck'[c])
      OBVIOUS
    <2> DEFINE s == [sck[c] EXCEPT !.ready = @ \ sck[c].watch]
    <2>1. sck[c] \in Sockets
      BY DEF AccInv, AccTypes
    <2>2. s \in Sockets /\ s.st = sck[c].st /\ s.list = sck[c].list /\ s.cur = sck[c].cur
          /\ s.wire = sck[c].wire /\ s.pushed = sck[c].pushed
      BY <2>1 DEF Sockets
    <2>3. sck'[c] = IF c \in Open(r) THEN s ELSE sck[c]
      BY <1>3
    <2> HIDE DEF s
    <2>4. c \in Open(r) => sck[c].st = "open"
      BY AccBounds
    <2> QED
      BY <2>1, <2>2, <2>3, <2>4 DEF SocketTurns
  <1>5. AccTypes'
    <2>1. sck' \in [Cids -> Sockets]
      BY <1>3, <1>4
    <2>2. batch' \in [Rids -> SUBSET AccEvents]
      BY <1>2, EventsAre DEF AccInv, AccTypes
    <2> QED
      BY <1>1, <2>1, <2>2 DEF AccInv, AccTypes
  <1>6. Conns'
    BY <1>1, <1>4, ConnsStay DEF AccInv
  <1>7. AccLines'
    BY <1>1, <1>4, LinesTurn DEF AccInv
  <1>8. Fresh'
    <2>1. \A t \in Rids : Open(t)' = Open(t)
      BY <1>4 DEF Open
    <2>2. batch'[r] = Events(r) /\ \A t \in Rids : t # r => batch'[t] = batch[t]
      BY <1>2 DEF AccInv, AccTypes
    <2>3. \A e \in Events(r) : e.src # 0 => Rid(e.src) = r /\ e.src \in Open(r)
      BY EventsAre, AccBounds DEF AccInv
    <2>4. \A e, f \in Events(r) : e.src = f.src => e = f
      BY EventsAre DEF AccInv
    <2>5. now[r].src = 0
      BY <1>2 DEF Waiting
    <2> QED
      BY <1>1, <2>1, <2>2, <2>3, <2>4, <2>5 DEF AccInv, Fresh, EventsFresh
  <1>9. Known'
    BY <1>1, <1>4, KnownStays DEF AccInv
  <1> QED
    BY <1>5, <1>6, <1>7, <1>8, <1>9 DEF AccInv

LEMMA NextEventKeeps ==
    ASSUME AccInv, NEW r \in Rids, NextEvent(r)
    PROVE  AccInv'
  <1>1. UNCHANGED <<cids, connq, sendq, kickq, kicked, pipe, lsn, app, sck>>
    BY DEF NextEvent, queueVars
  <1>2. PICK e \in batch[r] :
          /\ batch' = [batch EXCEPT ![r] = @ \ {e}]
          /\ IF e.src = 0 \/ e.src \in Open(r)
             THEN now' = [now EXCEPT ![r] = e] /\ UNCHANGED wild
             ELSE wild' = wild \cup {e.src} /\ UNCHANGED now
    BY DEF NextEvent
  <1>3. e \in AccEvents /\ (e.src # 0 => e.src \in Cids)
    <2>1. e \in AccEvents
      BY DEF AccInv, AccTypes
    <2> QED
      BY <2>1, AccBounds DEF AccEvents, Cids
  <1>4. now' \in [Rids -> AccEvents] /\ batch' \in [Rids -> SUBSET AccEvents] /\ wild' \subseteq Cids
    BY <1>2, <1>3 DEF AccInv, AccTypes
  <1>5. AccTypes'
    BY <1>1, <1>4 DEF AccInv, AccTypes
  <1>6. Conns' /\ AccLines'
    BY <1>1, ConnsStay, LinesTurn DEF AccInv, SocketTurns
  <1>7. Fresh'
    <2>1. \A t \in Rids : Open(t)' = Open(t)
      BY <1>1 DEF Open
    <2>2. batch'[r] = batch[r] \ {e} /\ \A t \in Rids : t # r => batch'[t] = batch[t]
      BY <1>2 DEF AccInv, AccTypes
    <2>3. \A f \in batch[r] : f.src = e.src => f = e
      BY DEF AccInv, Fresh
    <2>4. \A t \in Rids : now'[t].src # 0 => now'[t].src \in Open(t)
                                             /\ \A f \in batch'[t] : f.src # now'[t].src
      <3> SUFFICES ASSUME NEW t \in Rids, now'[t].src # 0
                   PROVE  now'[t].src \in Open(t) /\ \A f \in batch'[t] : f.src # now'[t].src
        OBVIOUS
      <3>1. CASE now'[t] = now[t]
        BY <2>2, <3>1 DEF AccInv, Fresh
      <3>2. CASE t = r /\ now'[r] = e /\ (e.src = 0 \/ e.src \in Open(r))
        BY <2>2, <2>3, <3>2
      <3> QED
        BY <1>2, <3>1, <3>2 DEF AccInv, AccTypes
    <2>5. \A d \in wild' : d \in Elements(kicked[Rid(d)])
      BY <1>2 DEF AccInv, Fresh, EventsFresh
    <2>6. \A t \in Rids : batch'[t] \subseteq batch[t]
      BY <2>2
    <2>7. \A t \in Rids : \A f \in batch'[t] : f.src # 0 =>
            Rid(f.src) = t /\ (f.src \in Open(t)' \/ f.src \in Elements(kicked[t]))
      BY <2>1, <2>6 DEF AccInv, Fresh
    <2>8. \A t \in Rids : \A f, g \in batch'[t] : f.src = g.src => f = g
      BY <2>6 DEF AccInv, Fresh
    <2>9. \A t \in Rids : Elements(kickq[t]) \subseteq Elements(kicked[t])
      BY DEF AccInv, Fresh
    <2> QED
      BY <1>1, <2>1, <2>4, <2>5, <2>7, <2>8, <2>9 DEF Fresh, EventsFresh
  <1>8. Known'
    BY <1>1, KnownStays DEF AccInv
  <1> QED
    BY <1>5, <1>6, <1>7, <1>8 DEF AccInv

\* Open connections are closed that no event of a batch names and nobody treats, unless they
\* were kicked.
LEMMA DeleteKeeps ==
    ASSUME AccInv, NEW r \in Rids, NEW cs \in SUBSET Open(r), Delete(cs),
           UNCHANGED <<cids, connq, sendq, kicked, lsn, app, batch, wild>>,
           pipe' \in [Rids -> Seq({"ADD_SCK", "DIST_DATA", "KICK_CONN"})],
           now' \in [Rids -> AccEvents], now'[r].src = 0, \A t \in Rids : t # r => now'[t] = now[t],
           kickq' \in [Rids -> Seq(Cids)], \A t \in Rids : Elements(kickq'[t]) \subseteq Elements(kickq[t]),
           \A e \in batch[r] : e.src \notin cs \/ e.src \in Elements(kicked[r])
    PROVE  AccInv'
  <1>1. sck' = [c \in Cids |-> IF c \in cs THEN Socket("closed") ELSE sck[c]]
    BY DEF Delete
  <1>2. \A c \in Cids : /\ sck'[c] \in Sockets /\ SocketTurns(sck[c], sck'[c])
                        /\ IF c \in cs THEN sck[c].st = "open" /\ sck'[c].st = "closed" /\ Rid(c) = r
                           ELSE sck'[c] = sck[c]
    BY <1>1, SocketIs, AccBounds DEF SocketTurns, Stages, AccInv, AccTypes
  <1>3. AccTypes'
    BY <1>1, <1>2 DEF AccInv, AccTypes
  <1>4. Conns'
    BY <1>2, ConnsStay DEF AccInv
  <1>5. AccLines'
    BY <1>2, LinesTurn DEF AccInv
  <1>6. Fresh'
    <2>1. \A t \in Rids : \A c \in Open(t) : c \in Open(t)' \/ (t = r /\ c \in cs)
      BY <1>2, AccBounds DEF Open
    <2>2. \A t \in Rids : \A e \in batch[t] : e.src # 0 =>
            Rid(e.src) = t /\ (e.src \in Open(t)' \/ e.src \in Elements(kicked[t]))
      BY <2>1 DEF AccInv, Fresh
    <2>3. \A t \in Rids : now'[t].src # 0 => now'[t].src \in Open(t)'
                                             /\ \A e \in batch[t] : e.src # now'[t].src
      BY <2>1 DEF AccInv, Fresh
    <2>4. \A t \in Rids : Elements(kickq'[t]) \subseteq Elements(kicked[t])
      BY DEF AccInv, Fresh
    <2> QED
      BY <2>2, <2>3, <2>4 DEF AccInv, Fresh, EventsFresh
  <1>7. Known'
    BY <1>2, KnownStays DEF AccInv
  <1> QED
    BY <1>3, <1>4, <1>5, <1>6, <1>7 DEF AccInv

LEMMA ConnTimeoutKeeps ==
    ASSUME AccInv, NEW r \in Rids, ConnTimeout(r)
    PROVE  AccInv'
  <1>1. PICK cs \in SUBSET Open(r) : Delete(cs)
    BY DEF ConnTimeout
  <1>2. UNCHANGED <<cids, connq, sendq, kickq, kicked, pipe, lsn, app, now, batch, wild>>
    BY DEF ConnTimeout, queueVars, threadVars
  <1>3. now[r].src = 0 /\ batch[r] = {}
    BY DEF ConnTimeout, Waiting
  <1>4. now' \in [Rids -> AccEvents] /\ kickq' \in [Rids -> Seq(Cids)]
        /\ pipe' \in [Rids -> Seq({"ADD_SCK", "DIST_DATA", "KICK_CONN"})]
    BY <1>2 DEF AccInv, AccTypes
  <1>5. /\ \A e \in batch[r] : e.src \notin cs
        /\ \A t \in Rids : Elements(kickq'[t]) \subseteq Elements(kickq[t])
    BY <1>2, <1>3
  <1> QED
    BY <1>1, <1>2, <1>3, <1>4, <1>5, DeleteKeeps

\* The thread goes on to another event, or to the rest of this one.
LEMMA TreatedFresh ==
    ASSUME Fresh, NEW r \in Rids, now' = [now EXCEPT ![r] = now'[r]], AccTypes,
           now'[r].src \in {0, now[r].src}, UNCHANGED <<kickq, kicked, batch, wild>>,
           \A c \in Cids : sck[c].st = "open" => sck'[c].st = "open"
    PROVE  Fresh'
  <1>1. \A t \in Rids : \A c : c \in Open(t) => c \in Open(t)'
    BY DEF Open
  <1>2. \A t \in Rids : now'[t].src = 0 \/ now'[t].src = now[t].src
    BY DEF AccTypes
  <1> QED
    BY <1>1, <1>2 DEF Fresh, EventsFresh

LEMMA AccRecvDataKeeps ==
    ASSUME AccInv, NEW r \in Rids, AccRecvData(r)
    PROVE  AccInv'
  <1> DEFINE c == now[r].src
             s == Drained(sck[c])
             rest == IF "OUT" \in now[r].ev THEN [now[r] EXCEPT !.ev = {"OUT"}] ELSE Waiting
  <1>1. UNCHANGED <<cids, connq, sendq, kickq, kicked, pipe, lsn, app, batch, wild>>
    BY DEF AccRecvData, queueVars
  <1>2. c \in Open(r) /\ c \in Cids /\ sck[c].st = "open" /\ \A e \in batch[r] : e.src # c
    BY AccBounds DEF AccRecvData, AccInv, Fresh
  <1>3. Waiting \in AccEvents /\ Waiting.src = 0 /\ now[r] \in AccEvents
    BY AccBounds DEF Waiting, AccEvents, AccInv, AccTypes
  <1>4. CASE sck' = [sck EXCEPT ![c] = s] /\ now' = [now EXCEPT ![r] = rest]
    <2>1. rest \in AccEvents /\ rest.src \in {0, c}
      BY <1>3 DEF AccEvents
    <2>2. /\ s \in Sockets /\ s.st = sck[c].st /\ s.list = sck[c].list /\ s.cur = sck[c].cur
          /\ s.wire = sck[c].wire /\ s.pushed = sck[c].pushed
      <3>1. sck[c] \in Sockets
        BY <1>2 DEF AccInv, AccTypes
      <3> QED
        BY <3>1 DEF Sockets, Drained
    <2> HIDE DEF s, rest
    <2>3. /\ sck' \in [Cids -> Sockets] /\ now' \in [Rids -> AccEvents] /\ now'[r] = rest
          /\ sck'[c] = s /\ \A d \in Cids : d # c => sck'[d] = sck[d]
      BY <1>2, <1>4, <2>1, <2>2 DEF AccInv, AccTypes
    <2>4. AccTypes'
      BY <1>1, <2>3 DEF AccInv, AccTypes
    <2>5. Conns'
      BY <1>1, <2>2, <2>3, ConnsStay DEF AccInv
    <2>6. AccLines'
      <3>1. \A d \in Cids : SocketTurns(sck[d], sck'[d])
        BY <1>2, <2>2, <2>3 DEF SocketTurns
      <3> QED
        BY <1>1, <3>1, LinesTurn DEF AccInv
    <2>7. Fresh'
      BY <1>1, <1>4, <2>1, <2>2, <2>3, TreatedFresh DEF AccInv
    <2>8. Known'
      BY <1>1, <2>2, <2>3, KnownStays DEF AccInv
    <2> QED
      BY <2>4, <2>5, <2>6, <2>7, <2>8 DEF AccInv
  <1>5. CASE Delete({c}) /\ now' = [now EXCEPT ![r] = Waiting]
    <2>1. /\ now' \in [Rids -> AccEvents] /\ now'[r].src = 0 /\ \A t \in Rids : t # r => now'[t] = now[t]
          /\ kickq' \in [Rids -> Seq(Cids)]
          /\ pipe' \in [Rids -> Seq({"ADD_SCK", "DIST_DATA", "KICK_CONN"})]
      BY <1>1, <1>3, <1>5 DEF AccInv, AccTypes
    <2>2. {c} \in SUBSET Open(r)
      BY <1>2
    <2>3. /\ \A e \in batch[r] : e.src \notin {c}
          /\ \A t \in Rids : Elements(kickq'[t]) \subseteq Elements(kickq[t])
      BY <1>1, <1>2
    <2> HIDE DEF c
    <2> QED
      BY <1>1, <1>5, <2>1, <2>2, <2>3, DeleteKeeps
  <1> QED
    BY <1>4, <1>5 DEF AccRecvData

-----------------------------------------------------------------------------
(* What a thread writes. *)

\* The numbers of the units of a message.
LEMMA UnitNrs ==
    ASSUME NEW c, NEW w \in Nat, NEW n \in Nat, n = 2 * w
    PROVE  /\ UnitNr(c, n + 1) = <<<<c, w + 1>>, 1>> /\ UnitNr(c, n + 2) = <<<<c, w + 1>>, 2>>
  <1>1. ((2 * w + 1) + 1) \div 2 = w + 1 /\ (2 * w + 1) % 2 = 1
    OBVIOUS
  <1>2. ((2 * w + 2) + 1) \div 2 = w + 1 /\ (2 * w + 2) % 2 = 0
    OBVIOUS
  <1> QED
    BY <1>1, <1>2 DEF UnitNr

\* What is to be written of the first message, and the messages after it.
Taken(s, left, list) ==
    IF s.cur # <<>> THEN left = s.cur /\ list = s.list
    ELSE s.list # <<>> /\ left = Whole(Head(s.list)) /\ list = Tail(s.list)

\* What is left of a message continues the wire.
Follows(s, c, ms, left, list) ==
    /\ left \in Seq(AccUnits) /\ Len(left) \in 1..2 /\ list \in Seq(AccMesgs)
    /\ \A i \in 1..Len(left) : left[i] = UnitNr(c, Len(s.wire) + i)
    /\ \E w \in Nat : /\ Len(s.wire) + Len(left) = 2 * w
                      /\ \A j \in 1..Len(list) : list[j] = <<c, w + j>>
                      /\ \A j \in 1..Len(ms) : ms[j] = <<c, w + Len(list) + j>>
                      /\ s.pushed = w + Len(list) + Len(ms)

LEMMA LeftFits ==
    ASSUME NEW s \in Sockets, NEW c \in Cids, NEW ms \in Seq(AccMesgs), InLine(s, c, ms),
           NEW left, NEW list, Taken(s, left, list)
    PROVE  Follows(s, c, ms, left, list)
  <1> USE DEF Follows
  <1>1. /\ s.list \in Seq(AccMesgs) /\ s.cur \in Seq(AccUnits) /\ s.wire \in Seq(AccUnits)
        /\ Len(s.list) \in Nat /\ Len(s.cur) \in Nat /\ Len(s.wire) \in Nat /\ Len(ms) \in Nat
    BY SocketParts, SeqFacts
  <1>2. PICK w \in Nat :
          /\ Len(s.cur) <= 1 /\ Len(s.wire) + Len(s.cur) = 2 * w
          /\ s.cur # <<>> => s.cur[1] = UnitNr(c, 2 * w)
          /\ \A j \in 1..Len(s.list) : s.list[j] = <<c, w + j>>
          /\ \A j \in 1..Len(ms) : ms[j] = <<c, w + Len(s.list) + j>>
          /\ s.pushed = w + Len(s.list) + Len(ms)
    BY DEF InLine
  <1>3. CASE s.cur # <<>>
    <2>1. left = s.cur /\ list = s.list
      BY <1>3 DEF Taken
    <2>2. Len(s.cur) # 0
      BY <1>1, <1>3, SeqFacts
    <2>3. Len(s.cur) = 1
      <3>1. \A x \in Nat : x <= 1 /\ x # 0 => x = 1
        OBVIOUS
      <3>2. Len(s.cur) \in Nat /\ Len(s.cur) <= 1
        BY <1>1, <1>2
      <3> QED
        BY <2>2, <3>1, <3>2
    <2>4. \A i \in 1..1 : i = 1
      OBVIOUS
    <2>5. Len(left) \in 1..2 /\ Len(s.wire) + 1 = 2 * w
      BY <1>2, <2>1, <2>3
    <2>6. \A i \in 1..Len(left) : left[i] = UnitNr(c, Len(s.wire) + i)
      BY <1>2, <1>3, <2>1, <2>3, <2>4, <2>5
    <2> QED
      BY <1>1, <1>2, <2>1, <2>5, <2>6
  <1>4. CASE s.cur = <<>>
    <2> DEFINE m == Head(s.list)
    <2>1. /\ s.list # <<>> /\ left = Whole(m) /\ list = Tail(s.list) /\ Len(s.cur) = 0
          /\ Len(s.wire) = 2 * w
      BY <1>1, <1>2, <1>4, SeqFacts DEF Taken
    <2>2. /\ m \in AccMesgs /\ m = s.list[1] /\ 1 \in 1..Len(s.list)
          /\ list \in Seq(AccMesgs) /\ Len(list) = Len(s.list) - 1
          /\ \A i \in 1..Len(list) : i + 1 \in 1..Len(s.list) /\ list[i] = s.list[i + 1]
      BY <1>1, <2>1, Shorter
    <2>3. m = <<c, w + 1>>
      BY <1>2, <2>2
    <2> HIDE DEF m
    <2>4. /\ Whole(m) = <<<<m, 1>>, <<m, 2>>>> /\ <<m, 1>> \in AccUnits /\ <<m, 2>> \in AccUnits
      BY <2>2 DEF Whole, AccUnits
    <2>5. /\ left \in Seq(AccUnits) /\ Len(left) = 2 /\ left[1] = <<m, 1>> /\ left[2] = <<m, 2>>
      BY <2>1, <2>4
    <2>6. UnitNr(c, Len(s.wire) + 1) = <<m, 1>> /\ UnitNr(c, Len(s.wire) + 2) = <<m, 2>>
      BY <1>1, <2>1, <2>3, UnitNrs
    <2>7. \A i \in 1..Len(left) : i = 1 \/ i = 2
      BY <2>5
    <2>8. w + 1 \in Nat /\ Len(s.wire) + Len(left) = 2 * (w + 1)
      BY <2>1, <2>5
    <2>13. Len(s.list) \in Nat /\ Len(ms) \in Nat /\ Len(list) = Len(s.list) - 1
      BY <1>1, <2>2
    <2>15. \A x, y \in Nat : w + x + y = (w + 1) + (x - 1) + y
      OBVIOUS
    <2>9. \A j \in 1..Len(list) : list[j] = <<c, (w + 1) + j>>
      <3>1. \A j \in 1..Len(list) : w + (j + 1) = (w + 1) + j
        OBVIOUS
      <3> QED
        BY <1>2, <2>2, <3>1
    <2>10. \A j \in 1..Len(ms) : ms[j] = <<c, (w + 1) + Len(list) + j>>
      <3>1. \A j \in 1..Len(ms) : w + Len(s.list) + j = (w + 1) + Len(list) + j
        <4>1. \A j \in 1..Len(ms) : j \in Nat
          BY <2>13
        <4> QED
          BY <2>13, <2>15, <4>1
      <3> QED
        BY <1>2, <3>1
    <2>11. s.pushed = (w + 1) + Len(list) + Len(ms)
      BY <1>2, <2>13, <2>15
    <2>12. \A i \in 1..Len(left) : left[i] = UnitNr(c, Len(s.wire) + i)
      BY <2>5, <2>6, <2>7
    <2>14. Len(left) \in 1..2
      BY <2>5
    <2> QED
      BY <2>2, <2>5, <2>8, <2>9, <2>10, <2>11, <2>12, <2>14
  <1> QED
    BY <1>3, <1>4

\* The socket after a write of k units.
Wrote(s, left, list, k) ==
    [s EXCEPT !.cur = SubSeq(left, k + 1, Len(left)), !.list = list,
              !.wire = @ \o SubSeq(left, 1, k)]

\* A write of k units keeps the order.
LEMMA WriteFits ==
    ASSUME NEW s \in Sockets, NEW c \in Cids, NEW ms \in Seq(AccMesgs), InLine(s, c, ms),
           NEW left, NEW list, Taken(s, left, list),
           NEW k \in 1..Len(left),
           NEW t, t = Wrote(s, left, list, k)
    PROVE  t \in Sockets /\ t.st = s.st /\ InLine(t, c, ms)
  <1> DEFINE a == SubSeq(left, 1, k)
             b == SubSeq(left, k + 1, Len(left))
             v == s.wire \o a
             n == Len(s.wire)
  <1>0. Follows(s, c, ms, left, list)
    BY LeftFits
  <1>1. /\ left \in Seq(AccUnits) /\ Len(left) \in 1..2 /\ list \in Seq(AccMesgs)
        /\ \A i \in 1..Len(left) : left[i] = UnitNr(c, Len(s.wire) + i)
    BY <1>0 DEF Follows
  <1>2. PICK w \in Nat : /\ Len(s.wire) + Len(left) = 2 * w
                         /\ \A j \in 1..Len(list) : list[j] = <<c, w + j>>
                         /\ \A j \in 1..Len(ms) : ms[j] = <<c, w + Len(list) + j>>
                         /\ s.pushed = w + Len(list) + Len(ms)
    BY <1>0 DEF Follows
  <1>3. /\ a \in Seq(AccUnits) /\ Len(a) = k /\ b \in Seq(AccUnits) /\ Len(b) = Len(left) - k
        /\ \A i \in 1..k : i \in 1..Len(left) /\ a[i] = left[i]
        /\ \A i \in 1..(Len(left) - k) : k + i \in 1..Len(left) /\ b[i] = left[k + i]
    <2> HIDE DEF a, b
    <2>1. k \in 0..Len(left)
      BY <1>1
    <2>2. /\ a \in Seq(AccUnits) /\ Len(a) = k
          /\ \A i \in 1..k : i \in 1..Len(left) /\ a[i] = left[i]
      BY <1>1, <2>1, Cut DEF a
    <2>3. /\ b \in Seq(AccUnits) /\ Len(b) = Len(left) - k
          /\ \A i \in 1..(Len(left) - k) : k + i \in 1..Len(left) /\ b[i] = left[k + i]
      BY <1>1, <2>1, Cut DEF b
    <2> QED
      BY <2>2, <2>3
  <1> HIDE DEF a, b
  <1>4. s.wire \in Seq(AccUnits) /\ n \in Nat
    BY SocketParts, SeqFacts
  <1>5. /\ v \in Seq(AccUnits) /\ Len(v) = n + k
        /\ \A i \in 1..n : v[i] = s.wire[i]
        /\ \A i \in 1..k : v[n + i] = a[i]
        /\ \A i \in 1..Len(v) : i \in 1..n \/ \E j \in 1..k : i = n + j
    <2>1. v = s.wire \o a
      OBVIOUS
    <2> HIDE DEF v
    <2>2. /\ v \in Seq(AccUnits) /\ Len(v) = Len(s.wire) + Len(a)
          /\ \A i \in 1..Len(s.wire) : v[i] = s.wire[i]
          /\ \A i \in 1..Len(a) : v[Len(s.wire) + i] = a[i]
      BY <1>3, <1>4, <2>1, Join
    <2>3. \A i \in 1..Len(v) : i \in 1..Len(s.wire) 
                                  \/ \E j \in 1..Len(a) : i = Len(s.wire) + j /\ v[i] = a[j]
      BY <1>3, <1>4, <2>1, Join
    <2> QED
      BY <1>3, <2>2, <2>3
  <1> HIDE DEF v
  <1>6. t = [s EXCEPT !.cur = b, !.list = list, !.wire = v]
    BY DEF a, b, v, Wrote
  <1>7. /\ t \in Sockets /\ t.st = s.st /\ t.cur = b /\ t.list = list /\ t.wire = v
        /\ t.pushed = s.pushed
    BY <1>1, <1>3, <1>5, <1>6 DEF Sockets
  <1>8. Len(b) <= 1 /\ Len(v) + Len(b) = 2 * w
    <2>1. n \in Nat /\ n + Len(left) = 2 * w /\ Len(left) \in 1..2 /\ k \in 1..Len(left)
      BY <1>1, <1>2, <1>4
    <2>2. Len(b) = Len(left) - k /\ Len(v) = n + k
      BY <1>3, <1>5
    <2> HIDE DEF n
    <2>3. \A x \in 1..2 : \A i \in 1..x : \A y \in Nat :
            y + x = 2 * w => x - i <= 1 /\ (y + i) + (x - i) = 2 * w
      OBVIOUS
    <2>4. Len(left) - k <= 1 /\ (n + k) + (Len(left) - k) = 2 * w
      BY <2>1, <2>3
    <2> QED
      BY <2>2, <2>4
  <1>9. \A i \in 1..Len(v) : v[i] = UnitNr(c, i)
    <2>1. \A i \in 1..n : s.wire[i] = UnitNr(c, i)
      BY DEF InLine
    <2>2. \A j \in 1..k : v[n + j] = UnitNr(c, n + j)
      BY <1>1, <1>3, <1>5
    <2>3. \A i \in 1..n : v[i] = UnitNr(c, i)
      BY <1>5, <2>1
    <2> HIDE DEF n
    <2> QED
      BY <1>5, <2>2, <2>3
  <1>10. b # <<>> => b[1] = UnitNr(c, 2 * w)
    <2> SUFFICES ASSUME b # <<>> PROVE b[1] = UnitNr(c, 2 * w)
      OBVIOUS
    <2>1. Len(b) # 0
      BY <1>3, SeqFacts
    <2>2. Len(left) = 2 /\ k = 1 /\ k + 1 = 2 /\ 1 \in 1..(Len(left) - k)
      <3>1. Len(left) \in 1..2 /\ k \in 1..Len(left) /\ Len(left) - k # 0
        BY <1>1, <1>3, <2>1
      <3>2. \A x \in 1..2 : \A i \in 1..x : x - i # 0 => x = 2 /\ i = 1 /\ i + 1 = 2 /\ 1 \in 1..(x - i)
        OBVIOUS
      <3> QED
        BY <3>1, <3>2
    <2>3. b[1] = left[2] /\ left[2] = UnitNr(c, n + 2)
      BY <1>1, <1>3, <2>2
    <2> QED
      BY <1>2, <2>2, <2>3
  <1> QED
    BY <1>2, <1>7, <1>8, <1>9, <1>10 DEF InLine

LEMMA AccSendDataKeeps ==
    ASSUME AccInv, NEW r \in Rids, AccSendData(r)
    PROVE  AccInv'
  <1> DEFINE c == now[r].src
             s == sck[c]
             left == IF s.cur # <<>> THEN s.cur ELSE Whole(Head(s.list))
             list == IF s.cur # <<>> THEN s.list ELSE Tail(s.list)
             Put(k) == Wrote(s, left, list, k)
             ms == MesgsFor(c, sendq[Rid(c)])
  <1>1. UNCHANGED <<cids, connq, sendq, kickq, kicked, pipe, lsn, app, batch, wild>>
    BY DEF AccSendData, queueVars
  <1>2. /\ c \in Open(r) /\ c \in Cids /\ s.st = "open" /\ s \in Sockets
        /\ \A e \in batch[r] : e.src # c
    BY AccBounds DEF AccSendData, AccInv, Fresh, AccTypes
  <1>3. Waiting \in AccEvents /\ Waiting.src = 0 /\ now[r] \in AccEvents
    BY AccBounds DEF Waiting, AccEvents, AccInv, AccTypes
  <1>4. ms \in Seq(AccMesgs) /\ InLine(s, c, ms)
    BY <1>2, AccBounds, MesgsForTyped DEF AccInv, AccTypes, AccLines
  \* The connection stays open, with its messages in line.
  <1>5. ASSUME NEW t \in Sockets, t.st = "open", InLine(t, c, ms), sck' = [sck EXCEPT ![c] = t],
               now' = now \/ now' = [now EXCEPT ![r] = Waiting]
        PROVE  AccInv'
    <2>1. /\ sck' \in [Cids -> Sockets] /\ now' \in [Rids -> AccEvents]
          /\ sck'[c] = t /\ \A d \in Cids : d # c => sck'[d] = sck[d]
          /\ now' = [now EXCEPT ![r] = now'[r]] /\ now'[r].src \in {0, now[r].src}
      <3>1. sck \in [Cids -> Sockets] /\ now \in [Rids -> AccEvents]
        BY DEF AccInv, AccTypes
      <3>2. now' \in [Rids -> AccEvents] /\ (now'[r] = now[r] \/ now'[r] = Waiting)
            /\ now' = [now EXCEPT ![r] = now'[r]]
        BY <1>3, <1>5, <3>1
      <3> HIDE DEF c
      <3>3. /\ sck' \in [Cids -> Sockets] /\ sck'[c] = t
            /\ \A d \in Cids : d # c => sck'[d] = sck[d]
        BY <1>2, <1>5, <3>1
      <3> QED
        BY <1>3, <3>2, <3>3
    <2>2. \A d \in Cids : sck'[d].st = sck[d].st
      BY <1>2, <1>5, <2>1
    <2> HIDE DEF c
    <2>3. AccTypes'
      BY <1>1, <2>1 DEF AccInv, AccTypes
    <2>4. Conns'
      BY <1>1, <2>2, ConnsStay DEF AccInv
    <2>5. AccLines'
      BY <1>1, <1>5, <2>1 DEF AccInv, AccLines
    <2>6. Known'
      BY <1>1, <2>2, KnownStays DEF AccInv
    <2>7. Fresh'
      BY <1>1, <2>1, <2>2, TreatedFresh DEF AccInv
    <2> QED
      BY <2>3, <2>4, <2>5, <2>6, <2>7 DEF AccInv
  <1>6. CASE ~Unwritten(c) /\ now' = [now EXCEPT ![r] = Waiting] /\ UNCHANGED sck
    <2>1. sck' = [sck EXCEPT ![c] = s]
      BY <1>2, <1>6 DEF AccInv, AccTypes
    <2> QED
      BY <1>2, <1>4, <1>5, <1>6, <2>1
  <1>7. CASE Unwritten(c) /\ WriteItem(r, c)
    <2>1. s.cur # <<>> \/ s.list # <<>>
      BY <1>7 DEF Unwritten
    <2>8. Taken(s, left, list)
      BY <2>1 DEF Taken
    <2>2. left \in Seq(AccUnits) /\ Len(left) \in 1..2
      <3> HIDE DEF left, list, s, ms, c
      <3> QED
        BY <1>2, <1>4, <2>8, LeftFits DEF Follows
    <2>3. \A k \in 1..Len(left) : Put(k) \in Sockets /\ Put(k).st = "open" /\ InLine(Put(k), c, ms)
      <3> SUFFICES ASSUME NEW k \in 1..Len(left)
                   PROVE  Put(k) \in Sockets /\ Put(k).st = "open" /\ InLine(Put(k), c, ms)
        OBVIOUS
      <3> DEFINE t == Put(k)
      <3>1. t = Wrote(s, left, list, k)
        OBVIOUS
      <3> HIDE DEF left, list, s, ms, t, c
      <3>2. t \in Sockets /\ t.st = s.st /\ InLine(t, c, ms)
        BY <1>2, <1>4, <2>8, <3>1, WriteFits
      <3> QED
        BY <1>2, <3>2 DEF t
    <2>4. CASE sck' = [sck EXCEPT ![c] = Watched(Put(Len(left)), AfterWrite(Put(Len(left)).list))]
               /\ UNCHANGED now
      <3> DEFINE p == Put(Len(left))
                 t == Watched(p, AfterWrite(p.list))
      <3>1. p \in Sockets /\ p.st = "open" /\ InLine(p, c, ms)
        <4>1. Len(left) \in 1..Len(left)
          <5> HIDE DEF left
          <5> QED
            BY <2>2
        <4> HIDE DEF left, Put
        <4> QED
          BY <2>3, <4>1
      <3> HIDE DEF p
      <3>2. AfterWrite(p.list) \in SUBSET {"IN", "OUT"}
        BY DEF AfterWrite
      <3>3. /\ t \in Sockets /\ t.st = p.st /\ t.list = p.list /\ t.cur = p.cur /\ t.wire = p.wire
            /\ t.pushed = p.pushed
        BY <3>1, <3>2 DEF Watched, Sockets
      <3>4. sck' = [sck EXCEPT ![c] = t]
        BY <2>4 DEF p
      <3> HIDE DEF t
      <3>5. InLine(t, c, ms)
        BY <3>1, <3>3 DEF InLine
      <3> QED
        BY <1>5, <2>4, <3>1, <3>3, <3>4, <3>5
    <2>5. CASE /\ \E k \in 1..Len(left) - 1 : sck' = [sck EXCEPT ![c] = Put(k)]
               /\ now' = [now EXCEPT ![r] = Waiting]
      <3>1. PICK k \in 1..Len(left) - 1 : sck' = [sck EXCEPT ![c] = Put(k)]
        BY <2>5
      <3>2. k \in 1..Len(left)
        BY <2>2
      <3> QED
        BY <1>5, <2>3, <2>5, <3>1, <3>2
    <2>6. CASE Delete({c}) /\ now' = [now EXCEPT ![r] = Waiting]
      <3>1. /\ now' \in [Rids -> AccEvents] /\ now'[r].src = 0
            /\ \A t \in Rids : t # r => now'[t] = now[t]
            /\ kickq' \in [Rids -> Seq(Cids)]
            /\ pipe' \in [Rids -> Seq({"ADD_SCK", "DIST_DATA", "KICK_CONN"})]
        BY <1>1, <1>3, <2>6 DEF AccInv, AccTypes
      <3>2. {c} \in SUBSET Open(r)
        BY <1>2
      <3>3. /\ \A e \in batch[r] : e.src \notin {c}
            /\ \A t \in Rids : Elements(kickq'[t]) \subseteq Elements(kickq[t])
        BY <1>1, <1>2
      <3> HIDE DEF c
      <3> QED
        BY <1>1, <2>6, <3>1, <3>2, <3>3, DeleteKeeps
    <2> DEFINE Became(k) == [s EXCEPT !.cur = SubSeq(left, k + 1, Len(left)),
                                       !.list = IF s.cur # <<>> THEN @ ELSE Tail(@),
                                       !.wire = @ \o SubSeq(left, 1, k)]
    <2>7. \A k : Became(k) = Put(k)
      BY DEF Wrote
    <2>9. \/ /\ sck' = [sck EXCEPT ![c] = Watched(Became(Len(left)), AfterWrite(Became(Len(left)).list))]
             /\ UNCHANGED now
          \/ /\ \E k \in 1..Len(left) - 1 : sck' = [sck EXCEPT ![c] = Became(k)]
             /\ now' = [now EXCEPT ![r] = Waiting]
          \/ Delete({c}) /\ now' = [now EXCEPT ![r] = Waiting]
      BY <1>7 DEF WriteItem
    <2> HIDE DEF Became, Put, left
    <2> QED
      BY <2>4, <2>5, <2>6, <2>7, <2>9
  <1> QED
    BY <1>6, <1>7 DEF AccSendData

-----------------------------------------------------------------------------
(* The commands of a thread, and all of it. *)

LEMMA AddConnKeeps ==
    ASSUME AccInv, NEW r \in Rids, AddConn(r), UNCHANGED <<cids, kicked, lsn, app, now, batch, wild>>,
           pipe' \in [Rids -> Seq({"ADD_SCK", "DIST_DATA", "KICK_CONN"})]
    PROVE  AccInv'
  <1>1. UNCHANGED <<sendq, kickq>> /\ connq' = [connq EXCEPT ![r] = <<>>]
    BY DEF AddConn
  <1>2. sck' = [c \in Cids |-> IF c \in Elements(connq[r])
                              THEN [sck[c] EXCEPT !.st = "open", !.watch = {"IN"}] ELSE sck[c]]
    BY DEF AddConn
  <1>3. \A c \in Elements(connq[r]) : c \in Cids /\ sck[c].st = "queued"
    BY DEF AccInv, AccTypes, Conns, Elements
  <1>4. \A c \in Cids : /\ sck'[c] \in Sockets /\ SocketTurns(sck[c], sck'[c])
                        /\ sck'[c].st = IF c \in Elements(connq[r]) THEN "open" ELSE sck[c].st
    <2> SUFFICES ASSUME NEW c \in Cids
                 PROVE  /\ sck'[c] \in Sockets /\ SocketTurns(sck[c], sck'[c])
                        /\ sck'[c].st = IF c \in Elements(connq[r]) THEN "open" ELSE sck[c].st
      OBVIOUS
    <2> DEFINE s == [sck[c] EXCEPT !.st = "open", !.watch = {"IN"}]
    <2>1. sck[c] \in Sockets
      BY DEF AccInv, AccTypes
    <2>2. s \in Sockets /\ s.st = "open" /\ s.list = sck[c].list /\ s.cur = sck[c].cur
          /\ s.wire = sck[c].wire /\ s.pushed = sck[c].pushed
      BY <2>1 DEF Sockets, Stages
    <2>3. sck'[c] = IF c \in Elements(connq[r]) THEN s ELSE sck[c]
      BY <1>2
    <2> HIDE DEF s
    <2> QED
      BY <1>3, <2>1, <2>2, <2>3 DEF SocketTurns
  <1>5. AccTypes'
    <2>1. sck' \in [Cids -> Sockets]
      <3>1. DOMAIN sck' = Cids /\ sck' = [c \in Cids |-> sck'[c]]
        BY DEF AddConn
      <3> QED
        BY <1>4, <3>1
    <2>2. connq' \in [Rids -> Seq(Cids)]
      <3>1. <<>> \in Seq(Cids)
        OBVIOUS
      <3> QED
        BY <1>1, <3>1 DEF AccInv, AccTypes
    <2> QED
      BY <1>1, <2>1, <2>2 DEF AccInv, AccTypes
  <1>6. Conns'
    <2>1. \A c \in Cids : sck[c].st # "queued" => sck'[c].st = sck[c].st
      BY <1>3, <1>4
    <2>2. \A t \in Rids : \A k \in DOMAIN connq'[t] :
                              Rid(connq'[t][k]) = t /\ sck'[connq'[t][k]].st = "queued"
      <3> SUFFICES ASSUME NEW t \in Rids, NEW k \in DOMAIN connq'[t]
                   PROVE  Rid(connq'[t][k]) = t /\ sck'[connq'[t][k]].st = "queued"
        OBVIOUS
      <3>1. t # r /\ connq'[t] = connq[t]
        BY <1>1 DEF AccInv, AccTypes
      <3> DEFINE c == connq[t][k]
      <3>2. c \in Cids /\ sck[c].st = "queued" /\ Rid(c) = t
        BY <3>1 DEF AccInv, AccTypes, Conns
      <3>3. c \notin Elements(connq[r])
        BY <3>1, <3>2 DEF AccInv, Conns, Elements
      <3> QED
        BY <1>4, <3>1, <3>2, <3>3
    <2> QED
      BY <1>1, <2>1, <2>2 DEF AccInv, Conns
  <1>7. AccLines'
    BY <1>1, <1>4, LinesTurn DEF AccInv
  <1>8. Known'
    BY <1>1, <1>4, KnownStays DEF AccInv
  <1>9. Fresh'
    BY <1>1, <1>4, FreshStays DEF AccInv
  <1> QED
    BY <1>5, <1>6, <1>7, <1>8, <1>9 DEF AccInv

LEMMA DistSendDataKeeps ==
    ASSUME AccInv, NEW r \in Rids, DistSendData(r),
           UNCHANGED <<cids, kicked, lsn, app, now, batch, wild>>,
           pipe' \in [Rids -> Seq({"ADD_SCK", "DIST_DATA", "KICK_CONN"})]
    PROVE  AccInv'
  <1> DEFINE Ms(c) == MesgsFor(c, sendq[r])
  <1>1. UNCHANGED <<connq, kickq>> /\ sendq' = [sendq EXCEPT ![r] = <<>>]
    BY DEF DistSendData
  <1>2. \A c \in Cids : sck'[c] = IF c \in Open(r) /\ Ms(c) # <<>>
                                  THEN [sck[c] EXCEPT !.list = @ \o Ms(c), !.watch = {"OUT"}]
                                  ELSE sck[c]
    BY DEF DistSendData
  <1>3. sendq'[r] = <<>> /\ \A t \in Rids : t # r => sendq'[t] = sendq[t]
    BY <1>1 DEF AccInv, AccTypes
  <1>4. sendq[r] \in Seq(AccMesgs) /\ \A c \in Cids : sck[c] \in Sockets
    BY DEF AccInv, AccTypes
  <1>5. \A c \in Cids : /\ sck'[c] \in Sockets /\ sck'[c].st = sck[c].st
                        /\ IF sck'[c].st = "closed" THEN sck'[c] = Socket("closed")
                           ELSE InLine(sck'[c], c, MesgsFor(c, sendq'[Rid(c)]))
    <2> SUFFICES ASSUME NEW c \in Cids
                 PROVE  /\ sck'[c] \in Sockets /\ sck'[c].st = sck[c].st
                        /\ IF sck'[c].st = "closed" THEN sck'[c] = Socket("closed")
                           ELSE InLine(sck'[c], c, MesgsFor(c, sendq'[Rid(c)]))
      OBVIOUS
    <2>0. IF sck[c].st = "closed" THEN sck[c] = Socket("closed")
          ELSE InLine(sck[c], c, MesgsFor(c, sendq[Rid(c)]))
      BY DEF AccInv, AccLines
    <2>1. CASE sck[c].st = "closed" \/ Rid(c) # r
      <3>1. c \notin Open(r)
        BY <2>1, AccBounds
      <3> QED
        BY <1>2, <1>3, <1>4, <2>0, <2>1, <3>1, AccBounds
    <2>2. CASE sck[c].st # "closed" /\ Rid(c) = r
      <3> DEFINE ms == Ms(c)
                 s == sck[c]
                 t == [s EXCEPT !.list = @ \o ms, !.watch = {"OUT"}]
      <3>1. ms \in Seq(AccMesgs) /\ s \in Sockets /\ InLine(s, c, ms) /\ MesgsFor(c, sendq'[Rid(c)]) = <<>>
        BY <1>3, <1>4, <2>0, <2>2, MesgsForTyped, MesgsForNone
      <3>2. CASE ms = <<>>
        BY <1>2, <2>2, <3>1, <3>2
      <3>3. CASE ms # <<>>
        <4>1. s.st = "open" /\ c \in Open(r)
          BY <2>2, <3>1, <3>3, SocketParts DEF AccInv, Known, Open
        <4>2. sck'[c] = t
          BY <1>2, <3>3, <4>1
        <4> HIDE DEF ms
        <4>3. s.list \in Seq(AccMesgs)
          BY <3>1, SocketParts
        <4> DEFINE v == s.list \o ms
        <4>4. /\ v \in Seq(AccMesgs) /\ Len(v) = Len(s.list) + Len(ms)
              /\ \A i \in 1..Len(s.list) : v[i] = s.list[i]
              /\ \A i \in 1..Len(v) :
                    i \in 1..Len(s.list) \/ \E j \in 1..Len(ms) : i = Len(s.list) + j /\ v[i] = ms[j]
              /\ Len(s.list) \in Nat /\ Len(ms) \in Nat
          <5>1. v = s.list \o ms
            OBVIOUS
          <5>2. Len(s.list) \in Nat /\ Len(ms) \in Nat
            BY <3>1, <4>3, SeqFacts
          <5> HIDE DEF v, s
          <5> QED
            BY <3>1, <4>3, <5>1, <5>2, Join
        <4>5. t = [s EXCEPT !.list = v, !.watch = {"OUT"}]
          OBVIOUS
        <4> HIDE DEF v, t
        <4>6. /\ t \in Sockets /\ t.st = s.st /\ t.list = v /\ t.cur = s.cur /\ t.wire = s.wire
              /\ t.pushed = s.pushed
          BY <3>1, <4>4, <4>5 DEF Sockets
        <4>7. PICK w \in Nat :
                /\ Len(s.cur) <= 1 /\ Len(s.wire) + Len(s.cur) = 2 * w
                /\ \A k \in 1..Len(s.wire) : s.wire[k] = UnitNr(c, k)
                /\ s.cur # <<>> => s.cur[1] = UnitNr(c, 2 * w)
                /\ \A j \in 1..Len(s.list) : s.list[j] = <<c, w + j>>
                /\ \A j \in 1..Len(ms) : ms[j] = <<c, w + Len(s.list) + j>>
                /\ s.pushed = w + Len(s.list) + Len(ms)
          BY <3>1 DEF InLine
        <4>8. \A i \in 1..Len(v) : v[i] = <<c, w + i>>
          <5> SUFFICES ASSUME NEW i \in 1..Len(v) PROVE v[i] = <<c, w + i>>
            OBVIOUS
          <5>1. CASE i \in 1..Len(s.list)
            BY <4>4, <4>7, <5>1
          <5>2. ASSUME NEW j \in 1..Len(ms), i = Len(s.list) + j, v[i] = ms[j] PROVE v[i] = <<c, w + i>>
            <6>1. w + i = w + Len(s.list) + j
              <7>1. \A x, y \in Nat : w + (x + y) = w + x + y
                OBVIOUS
              <7>2. Len(s.list) \in Nat /\ j \in Nat
                BY <4>4
              <7> QED
                BY <5>2, <7>1, <7>2
            <6> QED
              BY <4>7, <5>2, <6>1
          <5> QED
            BY <4>4, <5>1, <5>2
        <4>9. s.pushed = w + Len(v) + 0 /\ Len(<<>>) = 0 /\ 1..0 = {}
          BY <4>4, <4>7
        <4>10. InLine(t, c, <<>>)
          BY <4>6, <4>7, <4>8, <4>9 DEF InLine
        <4> QED
          BY <2>2, <3>1, <4>2, <4>6, <4>10
      <3> QED
        BY <3>2, <3>3
    <2> QED
      BY <2>1, <2>2
  <1>6. AccTypes'
    <2>1. sck' \in [Cids -> Sockets]
      <3>1. DOMAIN sck' = Cids /\ sck' = [c \in Cids |-> sck'[c]]
        BY DEF DistSendData
      <3> QED
        BY <1>5, <3>1
    <2>2. sendq' \in [Rids -> Seq(AccMesgs)]
      <3>1. <<>> \in Seq(AccMesgs)
        OBVIOUS
      <3> QED
        BY <1>1, <3>1 DEF AccInv, AccTypes
    <2> QED
      BY <1>1, <2>1, <2>2 DEF AccInv, AccTypes
  <1>7. Conns'
    BY <1>1, <1>5, ConnsStay DEF AccInv
  <1>8. AccLines'
    BY <1>5 DEF AccLines
  <1>9. Fresh'
    BY <1>1, <1>5, FreshStays DEF AccInv
  <1>10. Known'
    <2>1. \A c \in Cids : sck'[c].st \notin {"open", "closed"} => MesgsFor(c, sendq'[Rid(c)]) = <<>>
      <3> SUFFICES ASSUME NEW c \in Cids, sck'[c].st \notin {"open", "closed"}
                   PROVE  MesgsFor(c, sendq'[Rid(c)]) = <<>>
        OBVIOUS
      <3>1. MesgsFor(c, sendq[Rid(c)]) = <<>>
        BY <1>5 DEF AccInv, Known
      <3>2. sendq'[Rid(c)] = <<>> \/ sendq'[Rid(c)] = sendq[Rid(c)]
        BY <1>3, AccBounds
      <3> QED
        BY <3>1, <3>2, MesgsForNone
    <2>2. \A a \in Apps : app'[a].do # "idle" => sck'[app'[a].cid].st \in {"open", "closed"}
      BY <1>5 DEF AccInv, AccTypes, Known
    <2> QED
      BY <2>1, <2>2 DEF Known
  <1> QED
    BY <1>6, <1>7, <1>8, <1>9, <1>10 DEF AccInv

LEMMA CmdHdlKeeps ==
    ASSUME AccInv, NEW r \in Rids, CmdHdl(r)
    PROVE  AccInv'
  <1>1. UNCHANGED <<cids, kicked, lsn, app, batch, wild>> /\ now[r].src = 0
    BY DEF CmdHdl
  <1>2. CASE pipe[r] = <<>>
    <2>1. now' = [now EXCEPT ![r] = Waiting] /\ UNCHANGED <<connq, sendq, kickq, pipe, sck>>
      BY <1>2 DEF CmdHdl
    <2>2. Waiting \in AccEvents /\ Waiting.src = 0
      BY AccBounds DEF Waiting, AccEvents
    <2>3. AccTypes'
      BY <1>1, <2>1, <2>2 DEF AccInv, AccTypes
    <2>4. Conns' /\ AccLines' /\ Known'
      BY <1>1, <2>1, ConnsStay, LinesTurn, KnownStays DEF AccInv, SocketTurns
    <2>5. Fresh'
      <3>1. now'[r] = Waiting /\ now' = [now EXCEPT ![r] = now'[r]]
        BY <2>1 DEF AccInv, AccTypes
      <3> QED
        BY <1>1, <2>1, <2>2, <3>1, TreatedFresh DEF AccInv
    <2> QED
      BY <2>3, <2>4, <2>5 DEF AccInv
  <1>3. CASE pipe[r] # <<>>
    <2>1. pipe' = [pipe EXCEPT ![r] = Tail(@)] /\ now' = now
      BY <1>3 DEF CmdHdl
    <2>2. /\ Head(pipe[r]) \in {"ADD_SCK", "DIST_DATA", "KICK_CONN"}
          /\ pipe' \in [Rids -> Seq({"ADD_SCK", "DIST_DATA", "KICK_CONN"})]
      <3>1. pipe[r] \in Seq({"ADD_SCK", "DIST_DATA", "KICK_CONN"})
        BY DEF AccInv, AccTypes
      <3>2. /\ Head(pipe[r]) \in {"ADD_SCK", "DIST_DATA", "KICK_CONN"}
            /\ Tail(pipe[r]) \in Seq({"ADD_SCK", "DIST_DATA", "KICK_CONN"})
        BY <1>3, <3>1, Shorter
      <3> QED
        BY <2>1, <3>2 DEF AccInv, AccTypes
    <2>3. CASE Head(pipe[r]) = "ADD_SCK"
      <3>1. AddConn(r)
        BY <1>3, <2>3 DEF CmdHdl
      <3> QED
        BY <1>1, <2>1, <2>2, <3>1, AddConnKeeps
    <2>4. CASE Head(pipe[r]) = "DIST_DATA"
      <3>1. DistSendData(r)
        BY <1>3, <2>4 DEF CmdHdl
      <3> QED
        BY <1>1, <2>1, <2>2, <3>1, DistSendDataKeeps
    <2>5. CASE Head(pipe[r]) = "KICK_CONN"
      <3> DEFINE cs == Open(r) \cap Elements(kickq[r])
      <3>1. KickConn(r)
        BY <1>3, <2>5 DEF CmdHdl
      <3>2. Delete(cs) /\ kickq' = [kickq EXCEPT ![r] = <<>>] /\ UNCHANGED <<connq, sendq>>
        BY <3>1 DEF KickConn
      <3>3. /\ kickq' \in [Rids -> Seq(Cids)]
            /\ \A t \in Rids : kickq'[t] = kickq[t] \/ kickq'[t] = <<>>
        <4>1. <<>> \in Seq(Cids)
          OBVIOUS
        <4> QED
          BY <3>2, <4>1 DEF AccInv, AccTypes
      <3>4. \A t \in Rids : Elements(kickq'[t]) \subseteq Elements(kickq[t])
        <4>1. Elements(<<>>) = {}
          BY DEF Elements
        <4> QED
          BY <3>3, <4>1
      <3>5. cs \in SUBSET Open(r) /\ \A c \in cs : c \in Elements(kicked[r])
        BY DEF AccInv, Fresh
      <3> HIDE DEF cs
      <3>7. \A e \in batch[r] : e.src \notin cs \/ e.src \in Elements(kicked[r])
        BY <3>5
      <3>6. now' \in [Rids -> AccEvents] /\ now'[r].src = 0
        BY <1>1, <2>1 DEF AccInv, AccTypes
      <3> QED
        BY <1>1, <2>1, <2>2, <3>2, <3>3, <3>4, <3>5, <3>6, <3>7, DeleteKeeps
    <2> QED
      BY <2>2, <2>3, <2>4, <2>5
  <1> QED
    BY <1>2, <1>3

LEMMA AccKeeps == AccInv /\ (AccessNext \/ UNCHANGED accVars) => AccInv'
  <1> SUFFICES ASSUME AccInv, AccessNext \/ UNCHANGED accVars PROVE AccInv'
    OBVIOUS
  <1>1. CASE AccessNext
    <2>1. ASSUME NEW l \in Lsvrs, Accept(l) \/ LsvrStep(l) \/ \E r \in Rids : LsvrTimeout(l, r)
          PROVE  AccInv'
      BY <2>1, AcceptKeeps, PushConnKeeps, TellAddKeeps, LsvrTimeoutKeeps DEF LsvrStep
    <2>2. ASSUME NEW a \in Apps, AppCall(a) \/ AppStep(a) PROVE AccInv'
      BY <2>2, AppCallKeeps, AppSendKeeps, AppKickKeeps, AppTellKeeps DEF AppStep
    <2>3. ASSUME NEW c \in Cids, ClientSend(c) \/ Writable(c) PROVE AccInv'
      BY <2>3, ClientSendKeeps, WritableKeeps
    <2>4. ASSUME NEW r \in Rids, RsvrStep(r) \/ ConnTimeout(r) PROVE AccInv'
      BY <2>4, EpollWaitKeeps, NextEventKeeps, CmdHdlKeeps, AccRecvDataKeeps, AccSendDataKeeps,
         ConnTimeoutKeeps DEF RsvrStep
    <2> QED
      BY <1>1, <2>1, <2>2, <2>3, <2>4 DEF AccessNext
  <1>2. CASE UNCHANGED accVars
    <2>1. UNCHANGED <<cids, connq, sendq, kickq, kicked, pipe, lsn, app, now, batch, wild, sck>>
      BY <1>2 DEF accVars, queueVars, threadVars
    <2>2. AccTypes'
      BY <2>1 DEF AccInv, AccTypes
    <2>3. Conns' /\ AccLines' /\ Known' /\ Fresh'
      BY <2>1, ConnsStay, LinesTurn, KnownStays, FreshStays DEF AccInv, SocketTurns
    <2> QED
      BY <2>2, <2>3 DEF AccInv
  <1> QED
    BY <1>1, <1>2

LEMMA AccGives == AccInv => AccessExact
  <1> SUFFICES ASSUME AccInv, NEW c \in Cids, NEW k \in DOMAIN sck[c].wire
               PROVE  /\ k <= 2 * sck[c].pushed
                      /\ sck[c].wire[k]
                           = Whole(<<c, (k + 1) \div 2>>)[IF k % 2 = 1 THEN 1 ELSE 2]
    BY DEF AccessExact, ItemsInOrder, AccInv, Fresh
  <1> DEFINE s == sck[c]
             ms == MesgsFor(c, sendq[Rid(c)])
  <1>1. s \in Sockets /\ ms \in Seq(AccMesgs)
    BY AccBounds, MesgsForTyped DEF AccInv, AccTypes
  <1>2. /\ Len(s.list) \in Nat /\ Len(s.cur) \in Nat /\ Len(s.wire) \in Nat /\ Len(ms) \in Nat
        /\ k \in 1..Len(s.wire)
    BY <1>1, SocketParts, SeqFacts
  <1>3. s.st # "closed"
    BY <1>2, SocketIs DEF AccInv, AccLines
  <1>4. InLine(s, c, ms)
    BY <1>3 DEF AccInv, AccLines
  <1> HIDE DEF ms
  <1>5. PICK w \in Nat : /\ Len(s.wire) + Len(s.cur) = 2 * w
                         /\ \A i \in 1..Len(s.wire) : s.wire[i] = UnitNr(c, i)
                         /\ s.pushed = w + Len(s.list) + Len(ms)
    BY <1>4 DEF InLine
  <1>6. k <= 2 * s.pushed
    <2>1. \A i, x, y, z, n \in Nat : n + x = 2 * w /\ i <= n => i <= 2 * (w + y + z)
      OBVIOUS
    <2>2. k \in Nat /\ k <= Len(s.wire)
      BY <1>2
    <2> QED
      BY <1>2, <1>5, <2>1, <2>2
  <1>7. s.wire[k] = UnitNr(c, k)
    BY <1>2, <1>5
  <1>8. \A m : Whole(m)[1] = <<m, 1>> /\ Whole(m)[2] = <<m, 2>>
    BY DEF Whole
  <1> QED
    BY <1>6, <1>7, <1>8 DEF UnitNr

\* Whatever batches of events, commands, kicks and timeouts come between: what a connection
\* carries are the messages queued for it, whole and in order, and a thread finds a freed
\* socket in a batch only after the application had it kicked (acc_rsvr.c, acc_comm.c).
\* AccessExact, for any number of threads and connections.
THEOREM AccessKept == Spec => []AccessExact
  <1>1. Init => AccInv
    BY AccInitially DEF Init
  <1>2. AccInv /\ [Next]_vars => AccInv'
    BY AccKeeps, StepsApart
  <1> QED
    BY <1>1, <1>2, AccGives, PTL DEF Spec
=============================================================================
