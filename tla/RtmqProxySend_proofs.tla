------------------------ MODULE RtmqProxySend_proofs ------------------------
(***************************************************************************)
(* The sending side of a proxy for every number of callers, senders,       *)
(* subscriptions and blocks: the stream of a connection can be parsed,     *)
(* begins with the authentication and keeps the order of each caller, a    *)
(* keepalive request marked as sent is on its way, and no block leaks or   *)
(* is used twice.                                                          *)
(***************************************************************************)
EXTENDS RtmqProxySend, SequenceTheorems, FiniteSetTheorems, TLAPS

-----------------------------------------------------------------------------
(* Lemmas about the operators. *)

LEMMA Bounds ==
    /\ QueueMax \in Nat \ {0} /\ IOV_MAX \in Nat \ {0} /\ PipeMax \in Nat \ {0}
    /\ MaxSend \in Nat /\ MaxClose \in Nat /\ MaxShort \in Nat
    /\ IovMax \in Nat \ {0}
  BY ProxySendAssumption DEF IovMax

\* A set of numbers that is not empty has a least one.
LEMMA LeastOf ==
    ASSUME NEW S \in SUBSET Nat, S # {}
    PROVE  \E x \in S : \A y \in S : x <= y
  <1>1. PICK x \in S : \A y \in S : <<y, x>> \notin OpToRel(<, Nat)
    BY WFMin, NatLessThanWellFounded
  <1>2. \A y \in S : x <= y
    <2> SUFFICES ASSUME NEW y \in S PROVE x <= y
      OBVIOUS
    <2>1. ~(y < x)
      BY <1>1 DEF OpToRel
    <2>2. QED
      BY <2>1
  <1>3. QED
    BY <1>2

LEMMA Elems ==
    ASSUME NEW S, NEW s \in Seq(S)
    PROVE  /\ Len(s) \in Nat /\ ToSet(s) \subseteq S
           /\ \A x : x \in ToSet(s) <=> \E i \in 1..Len(s) : x = s[i]
           /\ \A i \in 1..Len(s) : s[i] \in ToSet(s) /\ s[i] \in S
           /\ DOMAIN s = 1..Len(s)
           /\ s = <<>> <=> Len(s) = 0
  BY DEF ToSet

LEMMA NoElems == ToSet(<<>>) = {} /\ Len(<<>>) = 0 /\ DOMAIN <<>> = {} /\ \A S : <<>> \in Seq(S)
  BY DEF ToSet

LEMMA HeadTail ==
    ASSUME NEW S, NEW s \in Seq(S), s # <<>>
    PROVE  /\ Head(s) \in S /\ Head(s) = s[1] /\ Tail(s) \in Seq(S) /\ Len(Tail(s)) = Len(s) - 1
           /\ 1 \in 1..Len(s) /\ Head(s) \in ToSet(s)
           /\ \A i \in 1..Len(Tail(s)) : i + 1 \in 1..Len(s) /\ Tail(s)[i] = s[i + 1]
           /\ ToSet(Tail(s)) \subseteq ToSet(s)
  <1> DEFINE t == Tail(s)
  <1>1. /\ t \in Seq(S) /\ Len(t) = Len(s) - 1 /\ 1 \in 1..Len(s)
        /\ \A i \in 1..Len(t) : i + 1 \in 1..Len(s) /\ t[i] = s[i + 1]
        /\ Head(s) = s[1]
    OBVIOUS
  <1> HIDE DEF t
  <1>2. ToSet(t) \subseteq ToSet(s)
    BY <1>1, Elems
  <1>3. s[1] \in ToSet(s) /\ s[1] \in S
    BY <1>1, Elems
  <1>4. QED
    BY <1>1, <1>2, <1>3 DEF t

\* The two parts of a sequence that is cut, and their elements.
LEMMA Cut ==
    ASSUME NEW S, NEW s \in Seq(S), NEW k \in 0..Len(s)
    PROVE  /\ SubSeq(s, 1, k) \in Seq(S) /\ Len(SubSeq(s, 1, k)) = k
           /\ \A i \in 1..k : i \in 1..Len(s) /\ SubSeq(s, 1, k)[i] = s[i]
           /\ SubSeq(s, k + 1, Len(s)) \in Seq(S)
           /\ Len(SubSeq(s, k + 1, Len(s))) = Len(s) - k
           /\ \A i \in 1..(Len(s) - k) : k + i \in 1..Len(s) /\ SubSeq(s, k + 1, Len(s))[i] = s[k + i]
  OBVIOUS

LEMMA CutElems ==
    ASSUME NEW S, NEW s \in Seq(S), NEW k \in 0..Len(s)
    PROVE  ToSet(SubSeq(s, 1, k)) \cup ToSet(SubSeq(s, k + 1, Len(s))) = ToSet(s)
  <1> DEFINE a == SubSeq(s, 1, k)
             b == SubSeq(s, k + 1, Len(s))
  <1>1. /\ a \in Seq(S) /\ Len(a) = k /\ b \in Seq(S) /\ Len(b) = Len(s) - k
        /\ \A i \in 1..k : i \in 1..Len(s) /\ a[i] = s[i]
        /\ \A i \in 1..(Len(s) - k) : k + i \in 1..Len(s) /\ b[i] = s[k + i]
    BY Cut
  <1> HIDE DEF a, b
  <1>2. Len(s) \in Nat
    BY Elems
  <1>3. ToSet(a) \subseteq ToSet(s)
    BY <1>1, Elems
  <1>4. ToSet(b) \subseteq ToSet(s)
    <2>1. \A i \in 1..Len(b) : k + i \in 1..Len(s) /\ b[i] = s[k + i]
      BY <1>1
    <2>2. \A i \in 1..Len(b) : b[i] \in ToSet(s)
      BY <2>1, Elems
    <2>3. QED
      BY <1>1, <2>2, Elems
  <1>5. ASSUME NEW i \in 1..Len(s) PROVE s[i] \in ToSet(a) \cup ToSet(b)
    <2>1. CASE i <= k
      <3>1. i \in 1..Len(a) /\ a[i] = s[i]
        BY <1>1, <1>2, <2>1
      <3>2. QED
        BY <1>1, <3>1, Elems
    <2>2. CASE i > k
      <3>1. i - k \in 1..Len(b) /\ b[i - k] = s[i]
        BY <1>1, <1>2, <2>2
      <3>2. QED
        BY <1>1, <3>1, Elems
    <2>3. QED
      BY <1>2, <2>1, <2>2
  <1>6. ToSet(s) \subseteq ToSet(a) \cup ToSet(b)
    BY <1>5, Elems
  <1>7. QED
    BY <1>3, <1>4, <1>6 DEF a, b

LEMMA Join ==
    ASSUME NEW S, NEW s \in Seq(S), NEW t \in Seq(S)
    PROVE  /\ s \o t \in Seq(S) /\ Len(s \o t) = Len(s) + Len(t)
           /\ \A i \in 1..Len(s) : (s \o t)[i] = s[i]
           /\ \A i \in 1..Len(t) : (s \o t)[Len(s) + i] = t[i]
           /\ \A i \in 1..Len(s \o t) :
                 i \in 1..Len(s) \/ \E j \in 1..Len(t) : i = Len(s) + j /\ (s \o t)[i] = t[j]
  OBVIOUS

LEMMA JoinElems ==
    ASSUME NEW S, NEW s \in Seq(S), NEW t \in Seq(S)
    PROVE  ToSet(s \o t) = ToSet(s) \cup ToSet(t)
  <1> DEFINE u == s \o t
  <1>1. /\ u \in Seq(S) /\ Len(u) = Len(s) + Len(t)
        /\ \A i \in 1..Len(s) : u[i] = s[i]
        /\ \A i \in 1..Len(t) : u[Len(s) + i] = t[i]
    BY Join
  <1>2. \A i \in 1..Len(u) : i \in 1..Len(s) \/ \E j \in 1..Len(t) : i = Len(s) + j /\ u[i] = t[j]
    BY Join
  <1> HIDE DEF u
  <1>3. Len(s) \in Nat /\ Len(t) \in Nat
    BY Elems
  <1>4. ASSUME NEW i \in 1..Len(s) PROVE s[i] \in ToSet(u)
    <2>1. i \in 1..Len(u) /\ u[i] = s[i]
      BY <1>1, <1>3
    <2>2. QED
      BY <1>1, <2>1, Elems
  <1>5. ASSUME NEW i \in 1..Len(t) PROVE t[i] \in ToSet(u)
    <2>1. Len(s) + i \in 1..Len(u) /\ u[Len(s) + i] = t[i]
      BY <1>1, <1>3
    <2>2. QED
      BY <1>1, <2>1, Elems
  <1>6. ASSUME NEW i \in 1..Len(u) PROVE u[i] \in ToSet(s) \cup ToSet(t)
    <2>1. CASE i \in 1..Len(s)
      BY <1>1, <2>1, Elems
    <2>2. CASE \E j \in 1..Len(t) : i = Len(s) + j /\ u[i] = t[j]
      BY <2>2, Elems
    <2>3. QED
      BY <1>2, <2>1, <2>2
  <1>7. ToSet(s) \subseteq ToSet(u) /\ ToSet(t) \subseteq ToSet(u)
    BY <1>4, <1>5, Elems
  <1>8. ToSet(u) \subseteq ToSet(s) \cup ToSet(t)
    BY <1>1, <1>6, Elems
  <1>9. QED
    BY <1>7, <1>8 DEF u

LEMMA AppendElems ==
    ASSUME NEW S, NEW s \in Seq(S), NEW m \in S
    PROVE  /\ Append(s, m) \in Seq(S) /\ Len(Append(s, m)) = Len(s) + 1
           /\ \A i \in 1..Len(s) : Append(s, m)[i] = s[i]
           /\ Append(s, m)[Len(s) + 1] = m
           /\ \A i \in 1..(Len(s) + 1) : i \in 1..Len(s) \/ i = Len(s) + 1
           /\ ToSet(Append(s, m)) = ToSet(s) \cup {m}
  <1> DEFINE t == Append(s, m)
  <1>1. /\ t \in Seq(S) /\ Len(t) = Len(s) + 1 /\ Len(s) \in Nat
        /\ \A i \in 1..Len(s) : t[i] = s[i]
        /\ t[Len(s) + 1] = m
    OBVIOUS
  <1> HIDE DEF t
  <1>2. \A i \in 1..(Len(s) + 1) : i \in 1..Len(s) \/ i = Len(s) + 1
    BY <1>1
  <1>3. \A i \in 1..Len(s) : i \in 1..Len(t)
    BY <1>1
  <1>4. Len(s) + 1 \in 1..Len(t)
    BY <1>1
  <1>5. ToSet(s) \cup {m} \subseteq ToSet(t)
    BY <1>1, <1>3, <1>4, Elems
  <1>6. ToSet(t) \subseteq ToSet(s) \cup {m}
    BY <1>1, <1>2, Elems
  <1>7. QED
    BY <1>1, <1>2, <1>5, <1>6 DEF t

\* A message is two units.
LEMMA Halves ==
    ASSUME NEW x \in Nat
    PROVE  /\ x \div 2 \in Nat /\ x % 2 \in 0..1 /\ x = 2 * (x \div 2) + (x % 2)
           /\ (x + 1) \div 2 = (x \div 2) + (x % 2) /\ (x + 1) % 2 = 1 - (x % 2)
  OBVIOUS

\* The types of write vectors, of what is written, and of what a server gets.
Wiovs == [cnt : Nat, items : Seq(Mesgs), part : 0..1]
Units == Mesgs \X {1, 2}
Wires == [done : Seq(Mesgs), part : Seq(Mesgs), framed : BOOLEAN]

LEMMA UnsentUnits ==
    ASSUME NEW w \in Wiovs, w.part = 1 => w.items # <<>>
    PROVE  /\ Unsent(w) \in Seq(Units) /\ Len(Unsent(w)) = 2 * Len(w.items) - w.part
           /\ \A j \in 1..Len(Unsent(w)) :
                /\ (w.part + j + 1) \div 2 \in 1..Len(w.items)
                /\ Unsent(w)[j] = <<w.items[(w.part + j + 1) \div 2],
                                    IF (w.part + j) % 2 = 1 THEN 1 ELSE 2>>
  <1> DEFINE N == Len(w.items)
             p == w.part
             U(j) == <<w.items[(p + j + 1) \div 2], IF (p + j) % 2 = 1 THEN 1 ELSE 2>>
             L == 2 * N - p
  <1>1. N \in Nat /\ p \in 0..1 /\ (p = 1 => N # 0) /\ w.items \in Seq(Mesgs)
    BY Elems DEF Wiovs
  <1>2. Unsent(w) = [j \in 1..L |-> U(j)]
    BY DEF Unsent
  <1>3. L \in Nat
    BY <1>1
  <1>4. ASSUME NEW j \in 1..L PROVE (p + j + 1) \div 2 \in 1..N
    BY <1>1
  <1>5. ASSUME NEW j \in 1..L PROVE U(j) \in Units
    <2>1. w.items[(p + j + 1) \div 2] \in Mesgs
      BY <1>1, <1>4, Elems
    <2>2. QED
      BY <2>1 DEF Units
  <1> HIDE DEF L, U
  <1>6. [j \in 1..L |-> U(j)] \in Seq(Units) /\ Len([j \in 1..L |-> U(j)]) = L
    BY <1>3, <1>5
  <1>7. QED
    BY <1>2, <1>4, <1>6 DEF U, L

\* The first n units of a vector, and what is left of it.
LEMMA WrittenUnits ==
    ASSUME NEW w \in Wiovs, w.part = 1 => w.items # <<>>, NEW n \in 1..Len(Unsent(w))
    PROVE  /\ n \in Nat /\ (w.part + n) \div 2 \in 0..Len(w.items)
           /\ SubSeq(Unsent(w), 1, n) \in Seq(Units) /\ Len(SubSeq(Unsent(w), 1, n)) = n
           /\ \A j \in 1..n :
                /\ (w.part + j + 1) \div 2 \in 1..Len(w.items)
                /\ SubSeq(Unsent(w), 1, n)[j] = <<w.items[(w.part + j + 1) \div 2],
                                                  IF (w.part + j) % 2 = 1 THEN 1 ELSE 2>>
           /\ Adjust(w, n) \in Wiovs
           /\ Adjust(w, n).part = 1 => Adjust(w, n).items # <<>>
           /\ Adjust(w, n).items = SubSeq(w.items, (w.part + n) \div 2 + 1, Len(w.items))
           /\ Adjust(w, n).part = (w.part + n) % 2
           /\ Adjust(w, n).cnt \in {0, w.cnt}
  <1> DEFINE N == Len(w.items)
             p == w.part
             k == (p + n) \div 2
             s == w.items
             u == Unsent(w)
             rest == SubSeq(s, k + 1, N)
  <1>1. N \in Nat /\ p \in 0..1 /\ (p = 1 => N # 0) /\ s \in Seq(Mesgs) /\ w.cnt \in Nat
    BY Elems DEF Wiovs
  <1>2. u \in Seq(Units) /\ Len(u) = 2 * N - p
    BY UnsentUnits
  <1>3. n \in Nat /\ n \in 0..Len(u) /\ p + n \in Nat /\ p + n <= 2 * N
    BY <1>1, <1>2
  <1>4. k \in 0..N /\ (k = N => (p + n) % 2 = 0) /\ (p + n) % 2 \in 0..1
    BY <1>1, <1>3
  <1>5. /\ SubSeq(u, 1, n) \in Seq(Units) /\ Len(SubSeq(u, 1, n)) = n
        /\ \A j \in 1..n : j \in 1..Len(u) /\ SubSeq(u, 1, n)[j] = u[j]
    BY <1>2, <1>3, Cut
  <1>6. rest \in Seq(Mesgs) /\ Len(rest) = N - k
    BY <1>1, <1>4, Cut
  <1>6a. \A j \in 1..n : /\ (p + j + 1) \div 2 \in 1..N
                        /\ SubSeq(u, 1, n)[j] = <<s[(p + j + 1) \div 2],
                                                 IF (p + j) % 2 = 1 THEN 1 ELSE 2>>
    BY <1>5, UnsentUnits
  <1> HIDE DEF k
  <1>7. CASE k = N
    <2>1. rest = <<>>
      <3>1. Len(rest) = 0
        BY <1>1, <1>6, <1>7
      <3> HIDE DEF rest
      <3>2. QED
        BY <1>6, <3>1, Elems
    <2>2. Adjust(w, n) = EmptyWiov
      BY <1>7 DEF Adjust, k
    <2>3. EmptyWiov \in Wiovs
      BY NoElems DEF EmptyWiov, Wiovs
    <2>4. /\ Adjust(w, n) \in Wiovs /\ Adjust(w, n).items = rest
          /\ Adjust(w, n).part = (p + n) % 2 /\ Adjust(w, n).cnt = 0
      <3>1. (p + n) % 2 = 0
        BY <1>4, <1>7
      <3>2. EmptyWiov.items = <<>> /\ EmptyWiov.part = 0 /\ EmptyWiov.cnt = 0
        BY DEF EmptyWiov
      <3> HIDE DEF rest
      <3>3. QED
        BY <2>1, <2>2, <2>3, <3>1, <3>2
    <2>5. Adjust(w, n).part = 1 => Adjust(w, n).items # <<>>
      BY <1>4, <1>7, <2>4
    <2> HIDE DEF u
    <2>6. QED
      BY <1>3, <1>4, <1>5, <1>6a, <2>4, <2>5 DEF k, u
  <1>8. CASE k # N
    <2>1. Adjust(w, n) = [w EXCEPT !.items = rest, !.part = (p + n) % 2]
      BY <1>8 DEF Adjust, k
    <2>2. rest # <<>>
      <3>1. Len(rest) # 0
        BY <1>1, <1>4, <1>6, <1>8
      <3>2. QED
        BY <3>1, NoElems
    <2>3. /\ Adjust(w, n) \in Wiovs /\ Adjust(w, n).items = rest
          /\ Adjust(w, n).part = (p + n) % 2 /\ Adjust(w, n).cnt = w.cnt
      BY <1>4, <1>6, <2>1 DEF Wiovs
    <2>4. QED
      BY <1>3, <1>4, <1>5, <1>6a, <2>2, <2>3 DEF k
  <1>9. QED
    BY <1>7, <1>8

\* A server takes the units one after the other.
LEMMA TakeSteps ==
    ASSUME NEW w, NEW units \in Seq(Units)
    PROVE  \E got : /\ got[0] = w /\ got[Len(units)] = Take(w, units)
                    /\ \A k \in 1..Len(units) : got[k] = Receive(got[k - 1], units[k])
  <1> DEFINE Body(g, n) == [k \in 0..n |-> IF k = 0 THEN w ELSE Receive(g[k - 1], units[k])]
             Runs(n) == \E g : g = Body(g, n)
             L == Len(units)
  <1>1. L \in Nat
    BY Elems
  <1> HIDE DEF L
  <1>2. \A n \in 0..L : Runs(n)
    <2> DEFINE Bad == {n \in 0..L : ~Runs(n)}
    <2> SUFFICES ASSUME Bad # {} PROVE FALSE
      OBVIOUS
    <2> HIDE DEF Runs
    <2>1. PICK n \in Bad : \A m \in Bad : n <= m
      <3>1. Bad \in SUBSET Nat
        BY <1>1
      <3> HIDE DEF Bad
      <3>2. QED
        BY <3>1, LeastOf
    <2>2. n \in Nat /\ n <= L /\ ~Runs(n)
      BY <1>1, <2>1
    <2>3. Runs(0)
      <3> DEFINE g == [k \in 0..0 |-> w]
      <3>1. g = Body(g, 0)
        OBVIOUS
      <3>2. QED
        BY <3>1 DEF Runs
    <2>4. n - 1 \in 0..L /\ n - 1 \notin Bad
      BY <1>1, <2>1, <2>2, <2>3
    <2>5. PICK g : g = Body(g, n - 1)
      BY <1>1, <2>2, <2>4 DEF Runs
    <2> DEFINE h == [k \in 0..n |-> IF k = n THEN Receive(g[n - 1], units[n]) ELSE g[k]]
    <2>6. \A k \in 0..n : k = n \/ k \in 0..(n - 1)
      BY <2>2
    <2>7. n # 0 /\ n - 1 \in 0..n /\ n - 1 # n
      <3>1. n # 0
        BY <2>2, <2>3
      <3>2. QED
        BY <2>2, <3>1
    <2>8. \A k \in 0..n : h[k] = IF k = 0 THEN w ELSE Receive(h[k - 1], units[k])
      <3> SUFFICES ASSUME NEW k \in 0..n PROVE h[k] = IF k = 0 THEN w ELSE Receive(h[k - 1], units[k])
        OBVIOUS
      <3>1. CASE k = n
        BY <2>7, <3>1
      <3>2. CASE k # n
        <4>1. k \in 0..(n - 1)
          BY <2>6, <3>2
        <4>2. h[k] = g[k]
          BY <3>2
        <4>3. g[k] = IF k = 0 THEN w ELSE Receive(g[k - 1], units[k])
          BY <2>5, <4>1
        <4>4. k # 0 => k - 1 \in 0..n /\ k - 1 # n
          BY <2>2, <4>1
        <4>5. QED
          BY <4>2, <4>3, <4>4
      <3>3. QED
        BY <3>1, <3>2
    <2>9. h = Body(h, n)
      <3> HIDE DEF h
      <3>1. DOMAIN h = 0..n /\ h = [k \in DOMAIN h |-> h[k]]
        BY DEF h
      <3>2. QED
        BY <2>8, <3>1
    <2>10. QED
      BY <2>2, <2>9 DEF Runs
  <1>3. PICK g : g = Body(g, L)
    BY SMTT(40), <1>1, <1>2
  <1> DEFINE got == CHOOSE f : f = Body(f, L)
  <1>4. got = Body(got, L)
    BY <1>3
  <1>5. Take(w, units) = got[L]
    BY DEF Take, L
  <1> HIDE DEF got
  <1>6. got[0] = w /\ \A k \in 1..L : got[k] = Receive(got[k - 1], units[k])
    <2>1. 0 \in 0..L /\ \A k \in 1..L : k \in 0..L /\ k # 0
      BY <1>1
    <2>2. QED
      BY <1>4, <2>1
  <1>7. QED
    BY <1>5, <1>6 DEF L

LEMMA Kinds ==
    /\ AuthReq \in Mesgs /\ KpReq \in Mesgs /\ Exps \subseteq Mesgs
    /\ \A y \in Types : SubReq(y) \in Mesgs
    /\ AuthReq.kind = "auth" /\ KpReq.kind = "kp" /\ \A y : SubReq(y).kind = "sub"
    /\ AuthReq # KpReq /\ \A m \in Exps : m.kind = "exp" /\ m # AuthReq /\ m # KpReq
    /\ \A m \in Mesgs : m.kind = "exp" <=> m \in Exps
  <1>1. /\ AuthReq \in Mesgs /\ KpReq \in Mesgs /\ Exps \subseteq Mesgs
        /\ \A y \in Types : SubReq(y) \in Mesgs
    BY DEF Mesgs
  <1>2. AuthReq.kind = "auth" /\ KpReq.kind = "kp" /\ \A y : SubReq(y).kind = "sub"
    BY DEF AuthReq, KpReq, SubReq
  <1>3. \A m \in Exps : m.kind = "exp"
    BY DEF Exps
  <1>4. \A m \in Mesgs : m \in Exps \/ m = AuthReq \/ m = KpReq \/ \E y \in Types : m = SubReq(y)
    BY DEF Mesgs
  <1>5. QED
    BY <1>1, <1>2, <1>3, <1>4

\* The requests a connection begins with.
LEMMA SubReqsAre ==
    /\ SubReqs \in Seq(Mesgs)
    /\ \A i \in 1..Len(SubReqs) : SubReqs[i].kind = "sub"
  <1> DEFINE n == Cardinality(Types)
             f == SetToSeq(Types)
  <1>1. n \in Nat /\ ExistsBijection(1..n, Types)
    BY ProxySendAssumption, FS_CardinalityType
  <1>2. \E g \in [1..n -> Types] : IsInjective(g)
    BY <1>1 DEF ExistsBijection, Bijection, Injection, IsInjective
  <1>3. f \in [1..n -> Types]
    BY <1>2 DEF SetToSeq
  <1> HIDE DEF n, f
  <1>4. f \in Seq(Types) /\ Len(f) = n
    BY <1>1, <1>3
  <1>5. SubReqs = [k \in 1..n |-> SubReq(f[k])]
    BY <1>4 DEF SubReqs, f
  <1>6. \A k \in 1..n : SubReq(f[k]) \in Mesgs /\ SubReq(f[k]).kind = "sub"
    BY <1>3, Kinds
  <1>7. SubReqs \in Seq(Mesgs) /\ Len(SubReqs) = n
    BY <1>1, <1>5, <1>6
  <1>8. QED
    BY <1>5, <1>6, <1>7

LEMMA FirstRequests ==
    /\ <<AuthReq>> \o SubReqs \in Seq(Mesgs)
    /\ Len(<<AuthReq>> \o SubReqs) = Len(SubReqs) + 1
    /\ (<<AuthReq>> \o SubReqs)[1] = AuthReq
    /\ \A i \in 1..Len(<<AuthReq>> \o SubReqs) : i # 1 => (<<AuthReq>> \o SubReqs)[i].kind = "sub"
  <1> DEFINE a == <<AuthReq>>
             t == a \o SubReqs
  <1>1. a \in Seq(Mesgs) /\ Len(a) = 1 /\ a[1] = AuthReq
    BY Kinds
  <1>2. /\ t \in Seq(Mesgs) /\ Len(t) = 1 + Len(SubReqs) /\ t[1] = AuthReq
        /\ \A i \in 1..Len(t) : i = 1 \/ \E j \in 1..Len(SubReqs) : t[i] = SubReqs[j]
    <2>1. /\ t \in Seq(Mesgs) /\ Len(t) = 1 + Len(SubReqs)
          /\ \A i \in 1..Len(a) : t[i] = a[i]
          /\ \A i \in 1..Len(t) :
                i \in 1..Len(a) \/ \E j \in 1..Len(SubReqs) : i = Len(a) + j /\ t[i] = SubReqs[j]
      BY <1>1, Join, SubReqsAre
    <2> HIDE DEF a, t
    <2>2. QED
      BY <1>1, <2>1
  <1> HIDE DEF t
  <1>3. \A i \in 1..Len(t) : i # 1 => t[i].kind = "sub"
    BY <1>2, SubReqsAre
  <1>4. Len(SubReqs) \in Nat
    BY SubReqsAre, Elems
  <1>5. QED
    BY <1>2, <1>3, <1>4 DEF t

LEMMA TakeTyped ==
    ASSUME NEW w \in Wires, NEW units \in Seq(Units)
    PROVE  Take(w, units) \in Wires
  <1>1. PICK got : /\ got[0] = w /\ got[Len(units)] = Take(w, units)
                   /\ \A k \in 1..Len(units) : got[k] = Receive(got[k - 1], units[k])
    BY TakeSteps
  <1>2. ASSUME NEW v \in Wires, NEW u \in Units PROVE Receive(v, u) \in Wires
    <2>1. u[1] \in Mesgs /\ <<u[1]>> \in Seq(Mesgs) /\ <<>> \in Seq(Mesgs)
      BY DEF Units
    <2>2. Append(v.done, u[1]) \in Seq(Mesgs)
      BY <2>1 DEF Wires
    <2>3. QED
      BY <2>1, <2>2 DEF Receive, Wires
  <1>3. Len(units) \in Nat /\ \A k \in 1..Len(units) : units[k] \in Units
    BY Elems
  <1> DEFINE Bad == {k \in 0..Len(units) : got[k] \notin Wires}
  <1>4. Bad = {}
    <2> SUFFICES ASSUME Bad # {} PROVE FALSE
      OBVIOUS
    <2>1. Bad \in SUBSET Nat
      BY <1>3
    <2>2. PICK k \in Bad : \A j \in Bad : k <= j
      <3> HIDE DEF Bad
      <3>1. QED
        BY <2>1, LeastOf
    <2>3. k \in 1..Len(units)
      BY <1>1, <1>3, <2>2
    <2>4. k - 1 \in 0..Len(units) /\ k - 1 \notin Bad
      BY <1>3, <2>2, <2>3
    <2>5. QED
      BY <1>1, <1>2, <1>3, <2>2, <2>3, <2>4
  <1>5. QED
    BY <1>1, <1>3, <1>4

-----------------------------------------------------------------------------
(* Types, and where a thread stands. *)

\* That no block is given back twice, so that free does not exceed QueueMax, is a
\* consequence of more (see SlotInv).
Typed ==
    /\ made \in [Callers -> 0..MaxSend]
    /\ cpc \in [Callers -> {"idle", "push", "notify"}]
    /\ free \in Nat /\ pipe \in 0..PipeMax
    /\ sendq \in Seq(Exps) /\ Len(sendq) <= QueueMax
    /\ sent \subseteq Exps /\ lost \subseteq Exps
    /\ TsvrsOK /\ LinksOK

\* The socket reports once; with no connection it reports nothing.
NoSck(b) == \A i \in 1..Len(b) : b[i].src = "cmd"
Single(b) == \A i, j \in 1..Len(b) : b[i].src = "sck" /\ b[j].src = "sck" => i = j

CallerStands(c) == cpc[c] = "push" => made[c] \in 1..MaxSend

TsvrStands(t) ==
    /\ pc[t] = "wait" <=> batch[t] = <<>>
    /\ Single(batch[t])
    /\ ~fd[t] => pc[t] \in {"wait", "next"} /\ wiov[t] = EmptyWiov /\ NoSck(batch[t])
    /\ pc[t] \in {"used", "reread", "mpop", "writev"} => batch[t][1].src = "sck"
    /\ pc[t] = "mpop" => num[t] # 0
    /\ pc[t] \in {"used", "reread", "mpop"} => mesg_list[t] = <<>> \/ wiov[t].cnt >= IovMax
    /\ wiov[t].part = 1 => wiov[t].items # <<>>

Stands == (\A c \in Callers : CallerStands(c)) /\ (\A t \in Tsvr : TsvrStands(t))

PInv == Typed /\ Stands

\* The events after the first.
LEMMA BatchTail ==
    ASSUME NEW b \in Seq(Events), b # <<>>, Single(b)
    PROVE  /\ Tail(b) \in Seq(Events) /\ Single(Tail(b)) /\ Head(b) = b[1] /\ Head(b) \in Events
           /\ b[1].src = "sck" => NoSck(Tail(b))
           /\ NoSck(b) => NoSck(Tail(b))
  <1> DEFINE t == Tail(b)
  <1>1. /\ t \in Seq(Events) /\ Len(t) = Len(b) - 1 /\ Len(b) \in Nat /\ 1 \in 1..Len(b)
        /\ \A i \in 1..Len(t) : i + 1 \in 1..Len(b) /\ t[i] = b[i + 1]
        /\ Head(b) = b[1] /\ Head(b) \in Events
    BY HeadTail, Elems
  <1> HIDE DEF t
  <1>2. \A i \in 1..Len(t) : t[i] \in Events
    BY <1>1, Elems
  <1>3. Single(t)
    <2> SUFFICES ASSUME NEW i \in 1..Len(t), NEW j \in 1..Len(t), t[i].src = "sck", t[j].src = "sck"
                 PROVE  i = j
      BY DEF Single
    <2>1. i + 1 = j + 1
      BY <1>1 DEF Single
    <2>2. QED
      BY <1>1, <2>1
  <1>4. ASSUME b[1].src = "sck" PROVE NoSck(t)
    <2> SUFFICES ASSUME NEW i \in 1..Len(t) PROVE t[i].src = "cmd"
      BY DEF NoSck
    <2>1. i + 1 # 1
      BY <1>1
    <2>2. b[i + 1].src # "sck"
      BY <1>1, <1>4, <2>1 DEF Single
    <2>3. QED
      BY <1>1, <1>2, <2>2 DEF Events
  <1>5. NoSck(b) => NoSck(t)
    BY <1>1 DEF NoSck
  <1>6. QED
    BY <1>1, <1>3, <1>4, <1>5 DEF t

\* What a write vector holds of the application.
LEMMA HeldBlocks ==
    ASSUME NEW items \in Seq(Mesgs)
    PROVE  /\ ExpIn(items) = {m \in ToSet(items) : m \in Exps} /\ ExpIn(items) \subseteq Exps
           /\ Blocks(items) \in Nat
  <1>1. ToSet(items) \subseteq Mesgs
    BY Elems
  <1>2. ExpIn(items) = {m \in ToSet(items) : m \in Exps}
    BY <1>1, Kinds DEF ExpIn
  <1>3. Blocks(items) \in Nat
    <2> DEFINE D == {i \in DOMAIN items : items[i].kind = "exp"}
    <2>1. D \subseteq 1..Len(items) /\ Len(items) \in Nat
      BY Elems
    <2>2. IsFiniteSet(D)
      BY <2>1, FS_Interval, FS_Subset
    <2>3. QED
      BY <2>2, FS_CardinalityType DEF Blocks
  <1>4. QED
    BY <1>2, <1>3

LEMMA GoesOn ==
    ASSUME TsvrsOK, NEW t \in Tsvr, NEW b \in Seq(Events), GoOn(t, b)
    PROVE  /\ pc' \in [Tsvr -> {"wait", "next", "used", "reread", "mpop", "writev"}]
           /\ batch' \in [Tsvr -> Seq(Events)]
           /\ batch'[t] = b /\ pc'[t] = IF b = <<>> THEN "wait" ELSE "next"
  BY DEF TsvrsOK, GoOn

LEMMA Disconnects ==
    ASSUME Typed, NEW t \in Tsvr, DelConn(t)
    PROVE  /\ fd' \in [Tsvr -> BOOLEAN] /\ ~fd'[t]
           /\ wiov' \in [Tsvr -> [cnt : Nat, items : Seq(Mesgs), part : 0..1]]
           /\ wiov'[t] = EmptyWiov
           /\ free' \in Nat /\ lost' \subseteq Exps
           /\ \A f \in {armed', cmdev', blocked', closed'} : f \in [Tsvr -> BOOLEAN]
           /\ \A f \in {inbox', asked'} : f \in [Tsvr -> SUBSET {"auth", "kp"}]
           /\ closes' \in 0..MaxClose /\ shorts' \in 0..MaxShort
  <1>1. EmptyWiov \in [cnt : Nat, items : Seq(Mesgs), part : 0..1]
    BY DEF EmptyWiov
  <1>2. wiov[t].items \in Seq(Mesgs)
    BY DEF Typed, TsvrsOK
  <1>3. Blocks(wiov[t].items) \in Nat /\ ExpIn(wiov[t].items) \subseteq Exps
    BY <1>2, HeldBlocks
  <1>4. /\ fd' \in [Tsvr -> BOOLEAN] /\ ~fd'[t]
        /\ wiov' \in [Tsvr -> [cnt : Nat, items : Seq(Mesgs), part : 0..1]]
        /\ wiov'[t] = EmptyWiov
    BY <1>1 DEF Typed, TsvrsOK, DelConn
  <1>5. free' \in Nat /\ lost' \subseteq Exps
    BY <1>3 DEF Typed, DelConn
  <1>6. /\ \A f \in {armed', cmdev', blocked', closed'} : f \in [Tsvr -> BOOLEAN]
        /\ \A f \in {inbox', asked'} : f \in [Tsvr -> SUBSET {"auth", "kp"}]
        /\ closes' \in 0..MaxClose /\ shorts' \in 0..MaxShort
    BY DEF Typed, LinksOK, DelConn
  <1>7. QED
    BY <1>4, <1>5, <1>6

\* The two kinds of steps that leave the threads' own variables to their owner:
\* nothing of another connection changes.
Apart(t) ==
    \A u \in Tsvr \ {t} :
        /\ pc'[u] = pc[u] /\ batch'[u] = batch[u] /\ fd'[u] = fd[u]
        /\ mesg_list'[u] = mesg_list[u] /\ wiov'[u] = wiov[u] /\ num'[u] = num[u]
        /\ kpalive'[u] = kpalive[u] /\ closed'[u] = closed[u] /\ wire'[u] = wire[u]
        /\ inbox'[u] = inbox[u] /\ asked'[u] = asked[u]

LEMMA StepsApart ==
    ASSUME Typed, NEW t \in Tsvr, TsvrStep(t) \/ Environment(t)
    PROVE  Apart(t)
  <1> SUFFICES ASSUME NEW u \in Tsvr \ {t}
               PROVE  /\ pc'[u] = pc[u] /\ batch'[u] = batch[u] /\ fd'[u] = fd[u]
                      /\ mesg_list'[u] = mesg_list[u] /\ wiov'[u] = wiov[u] /\ num'[u] = num[u]
                      /\ kpalive'[u] = kpalive[u] /\ closed'[u] = closed[u] /\ wire'[u] = wire[u]
                      /\ inbox'[u] = inbox[u] /\ asked'[u] = asked[u]
    BY DEF Apart
  <1> USE DEF kvars, cvars
  <1>0. TsvrsOK /\ LinksOK
    BY DEF Typed
  <1>1. CASE Reconn(t)
    BY <1>0, <1>1 DEF Reconn, TsvrsOK, LinksOK
  <1>2. CASE EpollWait(t)
    BY <1>0, <1>2 DEF EpollWait, GoOn, TsvrsOK, LinksOK
  <1>3. CASE Keepalive(t)
    BY SMTT(40), <1>0, <1>3 DEF Keepalive, DelConn, TsvrsOK, LinksOK
  <1>4. CASE RecvCmd(t)
    BY <1>0, <1>4 DEF RecvCmd, GoOn, TsvrsOK, LinksOK
  <1>5. CASE RecvProc(t)
    BY SMTT(40), <1>0, <1>5 DEF RecvProc, DelConn, GoOn, TsvrsOK, LinksOK
  <1>6. CASE SkipOut(t)
    BY <1>0, <1>6 DEF SkipOut, GoOn, TsvrsOK, LinksOK
  <1>7. CASE SendData(t)
    BY <1>0, <1>7 DEF SendData, TsvrsOK, LinksOK
  <1>8. CASE ReadUsed(t)
    BY SMTT(40), <1>0, <1>8 DEF ReadUsed, Filled, GoOn, TsvrsOK, LinksOK
  <1>9. CASE RereadUsed(t)
    BY <1>0, <1>9 DEF RereadUsed, Filled, GoOn, TsvrsOK, LinksOK
  <1>10. CASE Mpop(t)
    BY <1>0, <1>10 DEF Mpop, TsvrsOK, LinksOK
  <1>11. CASE Writev(t)
    <2>1. PICK n : /\ wiov' = [wiov EXCEPT ![t] = Adjust(wiov[t], n)]
                   /\ \/ UNCHANGED <<wire, asked>>
                      \/ /\ wire' = [wire EXCEPT ![t] = Take(@, SubSeq(Unsent(wiov[t]), 1, n))]
                         /\ asked' = [asked EXCEPT ![t] = @ \cup
                                Requests(SubSeq(wiov[t].items, 1, (wiov[t].part + n) \div 2))]
      BY <1>11 DEF Writev
    <2>2. wiov'[u] = wiov[u] /\ wire'[u] = wire[u] /\ asked'[u] = asked[u]
      BY <1>0, <2>1 DEF TsvrsOK, LinksOK
    <2>3. pc'[u] = pc[u] /\ batch'[u] = batch[u]
      BY <1>0, <1>11 DEF Writev, GoOn, TsvrsOK
    <2>4. UNCHANGED <<fd, mesg_list, num, kpalive, closed, inbox>>
      BY <1>11 DEF Writev
    <2>5. QED
      BY <2>2, <2>3, <2>4
  <1>12. CASE WritevFails(t)
    BY <1>0, <1>12 DEF WritevFails, DelConn, GoOn, TsvrsOK, LinksOK
  <1>13. CASE Environment(t)
    BY <1>0, <1>13 DEF Environment, BufferDrains, ServerAnswers, ServerCloses, TsvrsOK, LinksOK
  <1>14. QED
    BY <1>1, <1>2, <1>3, <1>4, <1>5, <1>6, <1>7, <1>8, <1>9, <1>10, <1>11, <1>12, <1>13 DEF TsvrStep

\* What epoll_wait returns: at least one event, at most one of them the socket's.
LEMMA Reported ==
    ASSUME Typed, NEW t \in Tsvr, Ready(t) # {}, NEW b \in SetToSeqs(Ready(t))
    PROVE  b \in Seq(Events) /\ b # <<>> /\ Single(b)
  <1> DEFINE R == Ready(t)
             n == Cardinality(R)
  <1>1. SckEvent(t) \in Events /\ CmdEvent \in Events /\ CmdEvent.src = "cmd"
    BY DEF SckEvent, CmdEvent, Events, Typed, LinksOK
  <1>2. R \subseteq {SckEvent(t), CmdEvent}
    BY DEF Ready
  <1>3. IsFiniteSet({SckEvent(t), CmdEvent})
    <2>1. IsFiniteSet({SckEvent(t)})
      BY FS_Singleton
    <2>2. IsFiniteSet({SckEvent(t)} \cup {CmdEvent})
      BY <2>1, FS_AddElement
    <2>3. {SckEvent(t), CmdEvent} = {SckEvent(t)} \cup {CmdEvent}
      OBVIOUS
    <2>4. QED
      BY <2>2, <2>3
  <1>4. IsFiniteSet(R) /\ n \in Nat /\ n # 0
    BY <1>2, <1>3, FS_Subset, FS_CardinalityType, FS_EmptySet
  <1>5. b \in [1..n -> R] /\ \A i, j \in 1..n : b[i] = b[j] => i = j
    BY DEF SetToSeqs, IsInjective
  <1> HIDE DEF n
  <1>6. b \in Seq(R) /\ Len(b) = n
    BY <1>4, <1>5
  <1>7. b \in Seq(Events)
    BY <1>1, <1>2, <1>6
  <1>8. b # <<>>
    BY <1>4, <1>6, NoElems
  <1>9. Single(b)
    BY <1>1, <1>2, <1>5, <1>6 DEF Single
  <1>10. QED
    BY <1>7, <1>8, <1>9

\* What holds of a thread between two steps, by its parts.
LEMMA ThreadFacts ==
    ASSUME PInv, NEW t \in Tsvr
    PROVE  /\ Typed /\ TsvrsOK /\ LinksOK /\ TsvrStands(t)
           /\ batch[t] \in Seq(Events) /\ Single(batch[t])
           /\ mesg_list[t] \in Seq(Mesgs) /\ wiov[t] \in Wiovs /\ wiov[t].items \in Seq(Mesgs)
           /\ wiov[t].cnt \in Nat /\ wire[t] \in Wires
           /\ pc[t] # "wait" => /\ batch[t] # <<>> /\ Head(batch[t]) = batch[t][1]
                                /\ Head(batch[t]) \in Events /\ Tail(batch[t]) \in Seq(Events)
                                /\ Single(Tail(batch[t]))
                                /\ batch[t][1].src = "sck" => NoSck(Tail(batch[t]))
                                /\ NoSck(batch[t]) => NoSck(Tail(batch[t]))
  <1>1. Typed /\ TsvrsOK /\ LinksOK /\ TsvrStands(t)
    BY DEF PInv, Typed, Stands
  <1>2. /\ batch[t] \in Seq(Events) /\ Single(batch[t])
        /\ mesg_list[t] \in Seq(Mesgs) /\ wiov[t] \in Wiovs /\ wiov[t].items \in Seq(Mesgs)
        /\ wiov[t].cnt \in Nat
    BY <1>1 DEF TsvrsOK, TsvrStands, Wiovs
  <1>3. wire[t] \in Wires
    BY <1>1 DEF LinksOK, Wires
  <1>4. ASSUME pc[t] # "wait"
        PROVE  /\ batch[t] # <<>> /\ Head(batch[t]) = batch[t][1]
               /\ Head(batch[t]) \in Events /\ Tail(batch[t]) \in Seq(Events)
               /\ Single(Tail(batch[t]))
               /\ batch[t][1].src = "sck" => NoSck(Tail(batch[t]))
               /\ NoSck(batch[t]) => NoSck(Tail(batch[t]))
    <2>1. batch[t] # <<>>
      BY <1>1, <1>4 DEF TsvrStands
    <2>2. QED
      BY <1>2, <2>1, BatchTail
  <1>5. QED
    BY <1>1, <1>2, <1>3, <1>4

LEMMA ReconnStands ==
    ASSUME PInv, NEW t \in Tsvr, Reconn(t)
    PROVE  Typed' /\ TsvrStands(t)'
  <1> USE ThreadFacts
  <1>1. <<AuthReq>> \o SubReqs \in Seq(Mesgs)
    BY FirstRequests
  <1>2. EmptyWire \in [done : Seq(Mesgs), part : Seq(Mesgs), framed : BOOLEAN]
    BY DEF EmptyWire
  <1>3. TsvrsOK'
    BY <1>1 DEF Reconn, TsvrsOK
  <1>4. LinksOK'
    BY <1>2 DEF Reconn, LinksOK
  <1>5. Typed'
    BY <1>3, <1>4 DEF Reconn, Typed, cvars
  <1>6. fd'[t] /\ pc'[t] = "wait" /\ wiov'[t] = wiov[t] /\ batch'[t] = batch[t] /\ pc[t] = "wait"
    BY DEF Reconn, TsvrsOK
  <1>7. TsvrStands(t)'
    BY <1>6 DEF TsvrStands
  <1>8. QED
    BY <1>5, <1>7

LEMMA EpollWaitStands ==
    ASSUME PInv, NEW t \in Tsvr, EpollWait(t)
    PROVE  Typed' /\ TsvrStands(t)'
  <1> USE ThreadFacts
  <1>1. PICK b \in SetToSeqs(Ready(t)) : GoOn(t, b)
    BY DEF EpollWait
  <1>2. b \in Seq(Events) /\ b # <<>> /\ Single(b)
    BY <1>1, Reported DEF EpollWait
  <1>3. /\ pc' \in [Tsvr -> {"wait", "next", "used", "reread", "mpop", "writev"}]
        /\ batch' \in [Tsvr -> Seq(Events)]
        /\ batch'[t] = b /\ pc'[t] = "next"
    BY <1>1, <1>2, GoesOn
  <1>4. TsvrsOK'
    BY <1>3 DEF EpollWait, TsvrsOK
  <1>5. LinksOK'
    BY DEF EpollWait, LinksOK, SckReady
  <1>6. Typed'
    BY <1>4, <1>5 DEF EpollWait, Typed, cvars
  <1>7. fd'[t] /\ wiov'[t] = wiov[t]
    BY DEF EpollWait
  <1>8. TsvrStands(t)'
    BY <1>2, <1>3, <1>7 DEF TsvrStands
  <1>9. QED
    BY <1>6, <1>8

LEMMA KeepaliveStands ==
    ASSUME PInv, NEW t \in Tsvr, Keepalive(t)
    PROVE  Typed' /\ TsvrStands(t)'
  <1> USE ThreadFacts
  <1>1. pc[t] = "wait" /\ batch[t] = <<>> /\ pc' = pc /\ batch' = batch
    BY DEF Keepalive, TsvrStands
  <1>2. CASE kpalive[t] = "sent"
    <2>1. DelConn(t) /\ UNCHANGED <<mesg_list, kpalive>>
      BY <1>2 DEF Keepalive
    <2>2. /\ fd' \in [Tsvr -> BOOLEAN] /\ ~fd'[t]
          /\ wiov' \in [Tsvr -> [cnt : Nat, items : Seq(Mesgs), part : 0..1]]
          /\ wiov'[t] = EmptyWiov
          /\ free' \in Nat /\ lost' \subseteq Exps
          /\ \A f \in {armed', cmdev', blocked', closed'} : f \in [Tsvr -> BOOLEAN]
          /\ \A f \in {inbox', asked'} : f \in [Tsvr -> SUBSET {"auth", "kp"}]
          /\ closes' \in 0..MaxClose /\ shorts' \in 0..MaxShort
      BY <2>1, Disconnects
    <2>3. TsvrsOK'
      BY <2>1, <2>2 DEF Keepalive, TsvrsOK
    <2>4. LinksOK'
      BY <2>2 DEF Keepalive, LinksOK
    <2>5. Typed'
      BY <2>2, <2>3, <2>4 DEF Keepalive, Typed, cvars
    <2>6. TsvrStands(t)'
      BY <1>1, <2>2 DEF TsvrStands, NoSck, EmptyWiov
    <2>7. QED
      BY <2>5, <2>6
  <1>3. CASE kpalive[t] # "sent"
    <2>1. /\ mesg_list' = [mesg_list EXCEPT ![t] = Append(@, KpReq)]
          /\ kpalive' = [kpalive EXCEPT ![t] = "sent"]
          /\ armed' = [armed EXCEPT ![t] = TRUE]
          /\ UNCHANGED <<free, fd, wiov, lost, cmdev, blocked, inbox, closed, asked, closes, shorts>>
      BY <1>3 DEF Keepalive
    <2>2. Append(mesg_list[t], KpReq) \in Seq(Mesgs)
      BY Kinds
    <2>3. TsvrsOK'
      BY <1>1, <2>1, <2>2 DEF Keepalive, TsvrsOK
    <2>4. LinksOK'
      BY <2>1 DEF Keepalive, LinksOK
    <2>5. Typed'
      BY <2>1, <2>3, <2>4 DEF Keepalive, Typed, cvars
    <2>6. TsvrStands(t)'
      BY <1>1, <2>1 DEF TsvrStands
    <2>7. QED
      BY <2>5, <2>6
  <1>4. QED
    BY <1>2, <1>3

LEMMA RecvCmdStands ==
    ASSUME PInv, NEW t \in Tsvr, RecvCmd(t)
    PROVE  Typed' /\ TsvrStands(t)'
  <1> USE ThreadFacts
  <1>1. /\ pc[t] = "next" /\ batch[t] # <<>> /\ batch[t][1].src = "cmd"
        /\ fd'[t] = fd[t] /\ wiov'[t] = wiov[t]
    BY DEF RecvCmd
  <1>2. LinksOK'
    <2>1. armed' \in [Tsvr -> BOOLEAN]
      BY DEF RecvCmd, LinksOK, TsvrsOK
    <2>2. UNCHANGED <<cmdev, blocked, inbox, closed, asked, closes, shorts, wire>>
      BY DEF RecvCmd
    <2>3. QED
      BY <2>1, <2>2 DEF LinksOK
  <1>3. CASE pipe > 0
    <2>1. TsvrsOK' /\ pipe' \in 0..PipeMax /\ pc' = pc /\ batch' = batch
      BY SMTT(40), <1>3, Bounds DEF RecvCmd, TsvrsOK, Typed
    <2>2. Typed'
      BY <1>2, <2>1 DEF RecvCmd, Typed, cvars
    <2>3. TsvrStands(t)'
      BY <1>1, <2>1 DEF TsvrStands
    <2>4. QED
      BY <2>2, <2>3
  <1>4. CASE ~(pipe > 0)
    <2>1. GoOn(t, Tail(batch[t])) /\ pipe' = pipe
      BY <1>4 DEF RecvCmd
    <2>2. /\ pc' \in [Tsvr -> {"wait", "next", "used", "reread", "mpop", "writev"}]
          /\ batch' \in [Tsvr -> Seq(Events)]
          /\ batch'[t] = Tail(batch[t])
          /\ pc'[t] = IF Tail(batch[t]) = <<>> THEN "wait" ELSE "next"
      BY <1>1, <2>1, GoesOn
    <2>3. TsvrsOK'
      BY <2>2 DEF RecvCmd, TsvrsOK
    <2>4. Typed'
      BY <1>2, <2>1, <2>3 DEF RecvCmd, Typed, cvars
    <2>5. TsvrStands(t)'
      BY <1>1, <2>2 DEF TsvrStands
    <2>6. QED
      BY <2>4, <2>5
  <1>5. QED
    BY <1>3, <1>4

LEMMA RecvProcStands ==
    ASSUME PInv, NEW t \in Tsvr, RecvProc(t)
    PROVE  Typed' /\ TsvrStands(t)'
  <1> USE ThreadFacts
  <1>1. pc[t] = "next" /\ batch[t] # <<>> /\ batch[t][1].src = "sck"
    BY DEF RecvProc
  <1>2. kpalive' \in [Tsvr -> {"unknown", "sent", "succ"}]
    BY DEF RecvProc, TsvrsOK
  <1>3. CASE closed[t]
    <2>1. DelConn(t) /\ GoOn(t, Tail(batch[t]))
      BY <1>3 DEF RecvProc
    <2>2. /\ pc' \in [Tsvr -> {"wait", "next", "used", "reread", "mpop", "writev"}]
          /\ batch' \in [Tsvr -> Seq(Events)]
          /\ batch'[t] = Tail(batch[t])
          /\ pc'[t] = IF Tail(batch[t]) = <<>> THEN "wait" ELSE "next"
      BY <1>1, <2>1, GoesOn
    <2>3. /\ fd' \in [Tsvr -> BOOLEAN] /\ ~fd'[t]
          /\ wiov' \in [Tsvr -> [cnt : Nat, items : Seq(Mesgs), part : 0..1]]
          /\ wiov'[t] = EmptyWiov
          /\ free' \in Nat /\ lost' \subseteq Exps
          /\ \A f \in {armed', cmdev', blocked', closed'} : f \in [Tsvr -> BOOLEAN]
          /\ \A f \in {inbox', asked'} : f \in [Tsvr -> SUBSET {"auth", "kp"}]
          /\ closes' \in 0..MaxClose /\ shorts' \in 0..MaxShort
      BY <2>1, Disconnects
    <2>4. TsvrsOK'
      BY <1>2, <2>2, <2>3 DEF RecvProc, TsvrsOK
    <2>5. LinksOK'
      BY <2>3 DEF RecvProc, LinksOK
    <2>6. Typed'
      BY <2>3, <2>4, <2>5 DEF RecvProc, Typed, cvars
    <2>7. TsvrStands(t)'
      BY SMTT(40), <1>1, <2>2, <2>3 DEF TsvrStands, EmptyWiov
    <2>8. QED
      BY <2>6, <2>7
  <1>4. CASE ~closed[t]
    <2> DEFINE e == [batch[t][1] EXCEPT !.in = FALSE]
               r == Tail(batch[t])
               b == <<e>> \o r
    <2>1. /\ inbox' = [inbox EXCEPT ![t] = {}]
          /\ batch' = [batch EXCEPT ![t] = b]
          /\ UNCHANGED <<pc, free, fd, wiov, lost, armed, cmdev, blocked, closed, asked, closes, shorts>>
      BY <1>1, <1>4 DEF RecvProc
    <2>2. /\ batch[t][1] \in Events /\ r \in Seq(Events) /\ NoSck(r)
      BY <1>1
    <2>3. e \in Events /\ e.src = "sck"
      BY <1>1, <2>2 DEF Events
    <2> HIDE DEF e, r
    <2>4. /\ b \in Seq(Events) /\ b[1] = e /\ b # <<>> /\ Len(b) \in Nat
          /\ \A i \in 1..Len(b) : i = 1 \/ \E j \in 1..Len(r) : b[i] = r[j]
      <3>1. /\ <<e>> \in Seq(Events) /\ Len(<<e>>) = 1 /\ <<e>>[1] = e
        BY <2>3
      <3>2. /\ b \in Seq(Events) /\ Len(b) = Len(<<e>>) + Len(r)
            /\ \A i \in 1..Len(<<e>>) : b[i] = <<e>>[i]
            /\ \A i \in 1..Len(b) : i \in 1..Len(<<e>>) \/ \E j \in 1..Len(r) : i = Len(<<e>>) + j /\ b[i] = r[j]
        BY <2>2, <3>1, Join
      <3>3. Len(r) \in Nat
        BY <2>2, Elems
      <3> HIDE DEF b
      <3>4. Len(b) # 0 /\ Len(b) \in Nat /\ b[1] = e
        BY <3>1, <3>2, <3>3
      <3>5. b # <<>>
        BY <3>4, NoElems
      <3>6. QED
        BY <3>1, <3>2, <3>4, <3>5
    <2> HIDE DEF b
    <2>5. Single(b)
      <3>1. \A i \in 1..Len(b) : b[i].src = "sck" => i = 1
        BY <2>2, <2>4 DEF NoSck
      <3>2. QED
        BY <3>1 DEF Single
    <2>6. TsvrsOK'
      BY <1>2, <2>1, <2>4 DEF RecvProc, TsvrsOK
    <2>7. LinksOK'
      BY <2>1 DEF RecvProc, LinksOK
    <2>8. Typed'
      BY <2>1, <2>6, <2>7 DEF RecvProc, Typed, cvars
    <2>9. batch'[t] = b /\ pc'[t] = "next" /\ fd'[t] = fd[t] /\ wiov'[t] = wiov[t]
      BY <1>1, <2>1 DEF TsvrsOK
    <2>10. fd[t]
      <3>1. 1 \in 1..Len(batch[t])
        BY <1>1, HeadTail
      <3>2. QED
        BY <1>1, <3>1 DEF TsvrStands, NoSck
    <2>11. TsvrStands(t)'
      BY <2>3, <2>4, <2>5, <2>9, <2>10 DEF TsvrStands
    <2>12. QED
      BY <2>8, <2>11
  <1>5. QED
    BY <1>3, <1>4

LEMMA SkipOutStands ==
    ASSUME PInv, NEW t \in Tsvr, SkipOut(t)
    PROVE  Typed' /\ TsvrStands(t)'
  <1> USE ThreadFacts
  <1>1. pc[t] = "next" /\ GoOn(t, Tail(batch[t])) /\ fd'[t] = fd[t] /\ wiov'[t] = wiov[t]
    BY DEF SkipOut
  <1>2. /\ pc' \in [Tsvr -> {"wait", "next", "used", "reread", "mpop", "writev"}]
        /\ batch' \in [Tsvr -> Seq(Events)]
        /\ batch'[t] = Tail(batch[t])
        /\ pc'[t] = IF Tail(batch[t]) = <<>> THEN "wait" ELSE "next"
    BY <1>1, GoesOn
  <1>3. TsvrsOK' /\ LinksOK'
    BY <1>2 DEF SkipOut, TsvrsOK, LinksOK, kvars
  <1>4. Typed'
    BY <1>3 DEF SkipOut, Typed, cvars
  <1>5. TsvrStands(t)'
    BY <1>1, <1>2 DEF TsvrStands
  <1>6. QED
    BY <1>4, <1>5

\* Only with an event of the socket does a thread send, and then it has one.
LEMMA SckHasFd ==
    ASSUME PInv, NEW t \in Tsvr, pc[t] # "wait", batch[t][1].src = "sck"
    PROVE  fd[t]
  <1>1. batch[t] \in Seq(Events) /\ batch[t] # <<>> /\ TsvrStands(t)
    BY ThreadFacts
  <1>2. 1 \in 1..Len(batch[t])
    BY <1>1, HeadTail
  <1>3. QED
    BY <1>1, <1>2 DEF TsvrStands, NoSck

\* Entries put into a write vector.
LEMMA PutTyped ==
    ASSUME NEW w \in Wiovs, w.part = 1 => w.items # <<>>, NEW s \in Seq(Mesgs)
    PROVE  /\ Put(w, s) \in Wiovs /\ Put(w, s).cnt = w.cnt + Len(s)
           /\ Put(w, s).items = w.items \o s /\ Put(w, s).part = w.part
           /\ Put(w, s).part = 1 => Put(w, s).items # <<>>
  <1> DEFINE u == w.items \o s
  <1>1. /\ u \in Seq(Mesgs) /\ Len(u) = Len(w.items) + Len(s)
        /\ Len(s) \in Nat /\ Len(w.items) \in Nat /\ w.items \in Seq(Mesgs)
    BY Join, Elems DEF Wiovs
  <1>2. Put(w, s) = [w EXCEPT !.cnt = w.cnt + Len(s), !.items = u]
    BY DEF Put
  <1> HIDE DEF u
  <1>3. /\ Put(w, s) \in Wiovs /\ Put(w, s).cnt = w.cnt + Len(s)
        /\ Put(w, s).items = u /\ Put(w, s).part = w.part
    <2> DEFINE n == w.cnt + Len(s)
    <2>1. n \in Nat /\ Put(w, s) = [w EXCEPT !.cnt = n, !.items = u]
      BY <1>1, <1>2 DEF Wiovs
    <2> HIDE DEF n
    <2>2. /\ Put(w, s) \in Wiovs /\ Put(w, s).cnt = n
          /\ Put(w, s).items = u /\ Put(w, s).part = w.part
      BY <1>1, <2>1 DEF Wiovs
    <2>3. QED
      BY <2>2 DEF n
  <1>4. ASSUME w.part = 1 PROVE u # <<>>
    <2>1. Len(w.items) # 0
      BY <1>1, <1>4, Elems
    <2>2. Len(u) # 0
      BY <1>1, <2>1
    <2>3. QED
      BY <2>2, NoElems
  <1>5. QED
    BY <1>3, <1>4 DEF u

\* How SendData cuts the message list.
Taken(t) == IF Left(t) < Len(mesg_list[t]) THEN Left(t) ELSE Len(mesg_list[t])

LEMMA TakenList ==
    ASSUME PInv, NEW t \in Tsvr, wiov[t].cnt <= IovMax
    PROVE  /\ Taken(t) \in 0..Len(mesg_list[t])
           /\ Left(t) \in Nat
           /\ Left(t) = 0 => Taken(t) = 0
           /\ Taken(t) = Len(mesg_list[t]) \/ wiov[t].cnt + Taken(t) = IovMax
           /\ wiov[t].cnt + Taken(t) <= IovMax
  <1>1. wiov[t].cnt \in Nat /\ mesg_list[t] \in Seq(Mesgs)
    BY ThreadFacts
  <1>2. Len(mesg_list[t]) \in Nat
    BY <1>1, Elems
  <1>3. QED
    BY <1>1, <1>2, Bounds DEF Taken, Left

LEMMA SendDataStands ==
    ASSUME PInv, NEW t \in Tsvr, wiov[t].cnt <= IovMax, SendData(t)
    PROVE  Typed' /\ TsvrStands(t)'
  <1> USE ThreadFacts
  <1> DEFINE list == mesg_list[t]
             k == Taken(t)
             a == SubSeq(list, 1, k)
             b == SubSeq(list, k + 1, Len(list))
  <1>1. wiov' = [wiov EXCEPT ![t] = Put(@, a)] /\ mesg_list' = [mesg_list EXCEPT ![t] = b]
    BY DEF SendData, Taken
  <1>2. /\ k \in 0..Len(list) /\ (Left(t) = 0 => k = 0)
        /\ k = Len(list) \/ wiov[t].cnt + k = IovMax
    BY TakenList
  <1>3. a \in Seq(Mesgs) /\ Len(a) = k /\ b \in Seq(Mesgs) /\ Len(b) = Len(list) - k
    BY SMTT(40), <1>2, Cut
  <1> HIDE DEF a, b, k
  <1>4. /\ Put(wiov[t], a) \in Wiovs /\ Put(wiov[t], a).cnt = wiov[t].cnt + k
        /\ Put(wiov[t], a).part = 1 => Put(wiov[t], a).items # <<>>
    BY <1>3, PutTyped DEF TsvrStands
  <1>5. pc' = [pc EXCEPT ![t] = IF Left(t) = 0 THEN "writev" ELSE "used"]
    BY DEF SendData
  <1>6. TsvrsOK'
    <2>1. wiov' \in [Tsvr -> Wiovs]
      BY <1>1, <1>4 DEF TsvrsOK, Wiovs
    <2>2. mesg_list' \in [Tsvr -> Seq(Mesgs)]
      BY <1>1, <1>3 DEF TsvrsOK
    <2>3. pc' \in [Tsvr -> {"wait", "next", "used", "reread", "mpop", "writev"}]
      BY <1>5 DEF TsvrsOK
    <2>4. UNCHANGED <<batch, fd, num, kpalive>>
      BY DEF SendData
    <2>5. QED
      BY <2>1, <2>2, <2>3, <2>4 DEF TsvrsOK, Wiovs
  <1>7. LinksOK'
    BY DEF SendData, LinksOK, kvars
  <1>8. Typed'
    BY <1>6, <1>7 DEF SendData, Typed, cvars
  <1>9. /\ batch' = batch /\ fd' = fd /\ num' = num /\ pc[t] = "next"
        /\ batch[t] # <<>> /\ batch[t][1].src = "sck"
    BY DEF SendData
  <1>10. fd[t]
    BY <1>9, SckHasFd
  <1>11. /\ wiov'[t] = Put(wiov[t], a) /\ mesg_list'[t] = b
         /\ pc'[t] = IF Left(t) = 0 THEN "writev" ELSE "used"
    BY <1>1, <1>5 DEF TsvrsOK
  <1>12. pc'[t] = "used" => b = <<>> \/ wiov[t].cnt + k >= IovMax
    <2>1. Len(list) \in Nat /\ wiov[t].cnt \in Nat
      BY Elems
    <2>2. k = Len(list) => Len(b) = 0
      BY <1>2, <1>3, <2>1
    <2>3. QED
      BY <1>2, <1>3, <2>1, <2>2, Elems, Bounds
  <1>13. TsvrStands(t)'
    BY <1>4, <1>9, <1>10, <1>11, <1>12 DEF TsvrStands
  <1>14. QED
    BY <1>8, <1>13

LEMMA FilledStands ==
    ASSUME PInv, NEW t \in Tsvr, pc[t] \in {"used", "reread"}, Filled(t)
    PROVE  /\ pc' \in [Tsvr -> {"wait", "next", "used", "reread", "mpop", "writev"}]
           /\ batch' \in [Tsvr -> Seq(Events)]
           /\ pc'[t] = "wait" <=> batch'[t] = <<>>
           /\ Single(batch'[t])
           /\ pc'[t] \in {"wait", "next", "writev"}
           /\ pc'[t] = "writev" => batch'[t][1].src = "sck"
  <1> USE ThreadFacts
  <1>1. CASE wiov[t].cnt = 0
    <2>1. GoOn(t, Tail(batch[t]))
      BY <1>1 DEF Filled
    <2>2. QED
      BY ZenonT(60), <2>1, GoesOn
  <1>2. CASE wiov[t].cnt # 0
    <2>1. pc' = [pc EXCEPT ![t] = "writev"] /\ batch' = batch
      BY <1>2 DEF Filled
    <2>2. QED
      BY <2>1 DEF TsvrStands, TsvrsOK
  <1>3. QED
    BY <1>1, <1>2

LEMMA ReadUsedStands ==
    ASSUME PInv, NEW t \in Tsvr, wiov[t].cnt <= IovMax, ReadUsed(t)
    PROVE  Typed' /\ TsvrStands(t)'
  <1> USE ThreadFacts
  <1>1. /\ pc[t] = "used" /\ batch[t] # <<>> /\ batch[t][1].src = "sck"
        /\ fd' = fd /\ wiov' = wiov /\ mesg_list' = mesg_list
    BY DEF ReadUsed, TsvrStands
  <1>2. fd[t]
    BY <1>1, SckHasFd
  <1>3. Left(t) \in Nat /\ Len(sendq) \in Nat /\ Len(sendq) <= QueueMax
    BY TakenList, Elems DEF Typed
  <1>4. LinksOK'
    BY DEF ReadUsed, LinksOK, kvars
  <1>5. CASE Left(t) < Len(sendq) /\ Left(t) = 0
    <2>1. num' = [num EXCEPT ![t] = Left(t)] /\ Filled(t)
      BY <1>5 DEF ReadUsed
    <2>2. /\ pc' \in [Tsvr -> {"wait", "next", "used", "reread", "mpop", "writev"}]
          /\ batch' \in [Tsvr -> Seq(Events)]
          /\ pc'[t] = "wait" <=> batch'[t] = <<>>
          /\ Single(batch'[t])
          /\ pc'[t] \in {"wait", "next", "writev"}
          /\ pc'[t] = "writev" => batch'[t][1].src = "sck"
      BY <1>1, <2>1, FilledStands
    <2>3. num' \in [Tsvr -> 0..QueueMax]
      BY <1>3, <1>5, <2>1, Bounds DEF TsvrsOK
    <2>4. TsvrsOK'
      BY <2>2, <2>3 DEF ReadUsed, TsvrsOK
    <2>5. Typed'
      BY <1>4, <2>4 DEF ReadUsed, Typed, cvars
    <2>6. TsvrStands(t)'
      BY <1>1, <1>2, <2>2 DEF TsvrStands
    <2>7. QED
      BY <2>5, <2>6
  <1>6. CASE Left(t) < Len(sendq) /\ Left(t) # 0
    <2>1. num' = [num EXCEPT ![t] = Left(t)] /\ pc' = [pc EXCEPT ![t] = "mpop"] /\ batch' = batch
      BY <1>6 DEF ReadUsed
    <2>2. num' \in [Tsvr -> 0..QueueMax]
      BY <1>3, <1>6, <2>1, Bounds DEF TsvrsOK
    <2>3. TsvrsOK'
      BY <2>1, <2>2 DEF ReadUsed, TsvrsOK
    <2>4. Typed'
      BY <1>4, <2>3 DEF ReadUsed, Typed, cvars
    <2>5. pc'[t] = "mpop" /\ num'[t] = Left(t) /\ batch'[t] = batch[t]
      BY <2>1 DEF TsvrsOK
    <2>6. TsvrStands(t)'
      BY <1>1, <1>2, <1>6, <2>5 DEF TsvrStands
    <2>7. QED
      BY <2>4, <2>6
  <1>7. CASE ~(Left(t) < Len(sendq))
    <2>1. pc' = [pc EXCEPT ![t] = "reread"] /\ num' = num /\ batch' = batch
      BY <1>7 DEF ReadUsed
    <2>2. TsvrsOK'
      BY <2>1 DEF ReadUsed, TsvrsOK
    <2>3. Typed'
      BY <1>4, <2>2 DEF ReadUsed, Typed, cvars
    <2>4. pc'[t] = "reread"
      BY <2>1 DEF TsvrsOK
    <2>5. TsvrStands(t)'
      BY <1>1, <1>2, <2>1, <2>4 DEF TsvrStands
    <2>6. QED
      BY <2>3, <2>5
  <1>8. QED
    BY <1>5, <1>6, <1>7

LEMMA RereadUsedStands ==
    ASSUME PInv, NEW t \in Tsvr, RereadUsed(t)
    PROVE  Typed' /\ TsvrStands(t)'
  <1> USE ThreadFacts
  <1>1. /\ pc[t] = "reread" /\ batch[t] # <<>> /\ batch[t][1].src = "sck"
        /\ fd' = fd /\ wiov' = wiov /\ mesg_list' = mesg_list
        /\ num' = [num EXCEPT ![t] = Len(sendq)]
    BY DEF RereadUsed, TsvrStands
  <1>2. fd[t]
    BY <1>1, SckHasFd
  <1>3. Len(sendq) \in Nat /\ Len(sendq) <= QueueMax /\ (sendq = <<>> <=> Len(sendq) = 0)
    BY Elems DEF Typed
  <1>4. LinksOK' /\ num' \in [Tsvr -> 0..QueueMax] /\ num'[t] = Len(sendq)
    <2>1. LinksOK'
      BY DEF RereadUsed, LinksOK, kvars
    <2>2. QED
      BY <1>1, <1>3, <2>1, Bounds DEF TsvrsOK
  <1>5. CASE sendq = <<>>
    <2>1. Filled(t)
      BY <1>5 DEF RereadUsed
    <2>2. /\ pc' \in [Tsvr -> {"wait", "next", "used", "reread", "mpop", "writev"}]
          /\ batch' \in [Tsvr -> Seq(Events)]
          /\ pc'[t] = "wait" <=> batch'[t] = <<>>
          /\ Single(batch'[t])
          /\ pc'[t] \in {"wait", "next", "writev"}
          /\ pc'[t] = "writev" => batch'[t][1].src = "sck"
      BY <1>1, <2>1, FilledStands
    <2>3. TsvrsOK'
      BY <1>4, <2>2 DEF RereadUsed, TsvrsOK
    <2>4. Typed'
      BY <1>4, <2>3 DEF RereadUsed, Typed, cvars
    <2>5. TsvrStands(t)'
      BY <1>1, <1>2, <2>2 DEF TsvrStands
    <2>6. QED
      BY <2>4, <2>5
  <1>6. CASE sendq # <<>>
    <2>1. pc' = [pc EXCEPT ![t] = "mpop"] /\ batch' = batch
      BY <1>6 DEF RereadUsed
    <2>2. TsvrsOK'
      BY <1>4, <2>1 DEF RereadUsed, TsvrsOK
    <2>3. Typed'
      BY <1>4, <2>2 DEF RereadUsed, Typed, cvars
    <2>4. pc'[t] = "mpop"
      BY <2>1 DEF TsvrsOK
    <2>5. TsvrStands(t)'
      BY <1>1, <1>2, <1>3, <1>4, <1>6, <2>1, <2>4 DEF TsvrStands
    <2>6. QED
      BY <2>3, <2>5
  <1>7. QED
    BY <1>5, <1>6

LEMMA MpopStands ==
    ASSUME PInv, NEW t \in Tsvr, Mpop(t)
    PROVE  Typed' /\ TsvrStands(t)'
  <1> USE ThreadFacts
  <1>1. /\ pc[t] = "mpop" /\ pc' = [pc EXCEPT ![t] = "used"]
        /\ batch' = batch /\ fd' = fd /\ num' = num /\ mesg_list' = mesg_list
        /\ batch[t] # <<>> /\ batch[t][1].src = "sck"
    BY DEF Mpop, TsvrStands
  <1>2. fd[t]
    BY <1>1, SckHasFd
  <1>3. LinksOK'
    BY DEF Mpop, LinksOK, kvars
  <1>4. pc'[t] = "used"
    BY <1>1 DEF TsvrsOK
  <1>5. sendq \in Seq(Exps) /\ Len(sendq) \in Nat /\ Len(sendq) <= QueueMax /\ num[t] \in Nat
    BY Elems, Bounds DEF Typed, TsvrsOK
  <1>6. CASE num[t] <= Len(sendq)
    <2> DEFINE n == num[t]
               a == SubSeq(sendq, 1, n)
               b == SubSeq(sendq, n + 1, Len(sendq))
    <2>1. wiov' = [wiov EXCEPT ![t] = Put(@, a)] /\ sendq' = b
      BY <1>6 DEF Mpop
    <2>2. n \in 0..Len(sendq)
      BY <1>5, <1>6
    <2> HIDE DEF n
    <2>3. a \in Seq(Exps) /\ Len(a) = n /\ b \in Seq(Exps) /\ Len(b) = Len(sendq) - n
      BY <1>5, <2>2, Cut
    <2> HIDE DEF a, b
    <2>4. a \in Seq(Mesgs)
      BY <2>3, Kinds
    <2>5. /\ Put(wiov[t], a) \in Wiovs /\ Put(wiov[t], a).cnt = wiov[t].cnt + n
          /\ Put(wiov[t], a).part = 1 => Put(wiov[t], a).items # <<>>
      <3>1. wiov[t] \in Wiovs /\ (wiov[t].part = 1 => wiov[t].items # <<>>)
        BY DEF TsvrStands
      <3>2. QED
        BY <2>3, <2>4, <3>1, PutTyped
    <2>6. wiov' \in [Tsvr -> Wiovs] /\ wiov'[t] = Put(wiov[t], a)
      BY <2>1, <2>5 DEF TsvrsOK, Wiovs
    <2>7. TsvrsOK'
      BY <1>1, <2>6 DEF Mpop, TsvrsOK, Wiovs
    <2>8. Len(b) <= QueueMax
      BY <1>5, <2>2, <2>3, Bounds
    <2>9. Typed'
      BY <1>3, <2>1, <2>3, <2>7, <2>8 DEF Mpop, Typed, cvars
    <2>10. wiov[t].cnt >= IovMax => wiov[t].cnt + n >= IovMax
      <3>1. wiov[t].cnt \in Nat /\ n \in Nat
        BY <1>5, <2>2
      <3>2. QED
        BY <3>1, Bounds
    <2>11. TsvrStands(t)'
      BY <1>1, <1>2, <1>4, <2>5, <2>6, <2>10 DEF TsvrStands
    <2>12. QED
      BY <2>9, <2>11
  <1>7. CASE ~(num[t] <= Len(sendq))
    <2>1. wiov' = wiov /\ sendq' = sendq
      BY <1>7 DEF Mpop
    <2>2. TsvrsOK'
      BY <1>1, <2>1 DEF Mpop, TsvrsOK
    <2>3. Typed'
      BY <1>3, <2>1, <2>2 DEF Mpop, Typed, cvars
    <2>4. TsvrStands(t)'
      BY <1>1, <1>2, <1>4, <2>1 DEF TsvrStands
    <2>5. QED
      BY <2>3, <2>4
  <1>8. QED
    BY <1>6, <1>7

LEMMA WritevStands ==
    ASSUME PInv, NEW t \in Tsvr, Writev(t)
    PROVE  Typed' /\ TsvrStands(t)'
  <1> USE ThreadFacts
  <1> DEFINE w == wiov[t]
  <1>1. PICK n \in 1..Len(Unsent(w)) :
            /\ n < Len(Unsent(w)) => shorts < MaxShort
            /\ shorts' = IF n < Len(Unsent(w)) THEN shorts + 1 ELSE shorts
            /\ blocked' = [blocked EXCEPT ![t] = (n < Len(Unsent(w)))]
            /\ wiov' = [wiov EXCEPT ![t] = Adjust(w, n)]
            /\ free' = free + Blocks(SubSeq(w.items, 1, (w.part + n) \div 2))
            /\ sent' = sent \cup ExpIn(SubSeq(w.items, 1, (w.part + n) \div 2))
            /\ \/ UNCHANGED <<wire, asked>>
               \/ /\ wire' = [wire EXCEPT ![t] = Take(@, SubSeq(Unsent(w), 1, n))]
                  /\ asked' = [asked EXCEPT ![t] = @ \cup
                                   Requests(SubSeq(w.items, 1, (w.part + n) \div 2))]
    BY DEF Writev
  <1>2. /\ pc[t] = "writev" /\ GoOn(t, Tail(batch[t]))
        /\ UNCHANGED <<cvars, sendq, pipe, fd, mesg_list, num, kpalive, armed, cmdev,
                       inbox, closed, closes, lost>>
    BY DEF Writev
  <1>3. w.part = 1 => w.items # <<>>
    BY DEF TsvrStands
  <1> DEFINE k == (w.part + n) \div 2
             r == SubSeq(w.items, 1, k)
             units == SubSeq(Unsent(w), 1, n)
             v == Adjust(w, n)
  <1>4. /\ k \in 0..Len(w.items) /\ units \in Seq(Units) /\ v \in Wiovs
        /\ v.part = 1 => v.items # <<>>
    BY <1>3, WrittenUnits
  <1>5. r \in Seq(Mesgs)
    BY <1>4, Cut
  <1> HIDE DEF r, units, v, k
  <1>6. Blocks(r) \in Nat /\ ExpIn(r) \subseteq Exps
    BY <1>5, HeldBlocks
  <1>7. Take(wire[t], units) \in Wires
    BY <1>4, TakeTyped
  <1>8. /\ pc' \in [Tsvr -> {"wait", "next", "used", "reread", "mpop", "writev"}]
        /\ batch' \in [Tsvr -> Seq(Events)]
        /\ batch'[t] = Tail(batch[t])
        /\ pc'[t] = IF Tail(batch[t]) = <<>> THEN "wait" ELSE "next"
    BY <1>2, GoesOn
  <1>9. wiov' \in [Tsvr -> Wiovs] /\ wiov'[t] = v
    BY <1>1, <1>4 DEF TsvrsOK, Wiovs, v
  <1>10. TsvrsOK'
    BY <1>2, <1>8, <1>9 DEF TsvrsOK, Wiovs
  <1>11. shorts' \in 0..MaxShort
    BY <1>1, Bounds DEF LinksOK
  <1>12. blocked' \in [Tsvr -> BOOLEAN]
    BY <1>1 DEF LinksOK
  <1>13. wire' \in [Tsvr -> Wires]
    BY <1>1, <1>7 DEF LinksOK, Wires, units
  <1>14. asked' \in [Tsvr -> SUBSET {"auth", "kp"}]
    <2>1. Requests(r) \subseteq {"auth", "kp"}
      BY DEF Requests
    <2>2. QED
      BY ZenonT(60), <1>1, <2>1 DEF LinksOK, r, k
  <1>15. LinksOK'
    BY <1>2, <1>11, <1>12, <1>13, <1>14 DEF LinksOK, Wires
  <1>16. free' \in Nat /\ sent' \subseteq Exps
    BY <1>1, <1>6 DEF Typed, r, k
  <1>17. Typed'
    BY <1>2, <1>10, <1>15, <1>16 DEF Typed, cvars
  <1>18. fd[t]
    BY <1>2, SckHasFd DEF TsvrStands
  <1>19. TsvrStands(t)'
    BY <1>2, <1>4, <1>8, <1>9, <1>18 DEF TsvrStands
  <1>20. QED
    BY <1>17, <1>19

LEMMA WritevFailsStands ==
    ASSUME PInv, NEW t \in Tsvr, WritevFails(t)
    PROVE  Typed' /\ TsvrStands(t)'
  <1> USE ThreadFacts
  <1>1. pc[t] = "writev" /\ batch[t] # <<>> /\ batch[t][1].src = "sck"
    BY DEF WritevFails, TsvrStands
  <1>2. DelConn(t) /\ GoOn(t, Tail(batch[t]))
    BY DEF WritevFails
  <1>3. /\ pc' \in [Tsvr -> {"wait", "next", "used", "reread", "mpop", "writev"}]
        /\ batch' \in [Tsvr -> Seq(Events)]
        /\ batch'[t] = Tail(batch[t])
        /\ pc'[t] = IF Tail(batch[t]) = <<>> THEN "wait" ELSE "next"
    BY <1>1, <1>2, GoesOn
  <1>4. /\ fd' \in [Tsvr -> BOOLEAN] /\ ~fd'[t]
        /\ wiov' \in [Tsvr -> [cnt : Nat, items : Seq(Mesgs), part : 0..1]]
        /\ wiov'[t] = EmptyWiov
        /\ free' \in Nat /\ lost' \subseteq Exps
        /\ \A f \in {armed', cmdev', blocked', closed'} : f \in [Tsvr -> BOOLEAN]
        /\ \A f \in {inbox', asked'} : f \in [Tsvr -> SUBSET {"auth", "kp"}]
        /\ closes' \in 0..MaxClose /\ shorts' \in 0..MaxShort
    BY <1>2, Disconnects
  <1>5. TsvrsOK'
    BY <1>3, <1>4 DEF WritevFails, TsvrsOK
  <1>6. LinksOK'
    BY <1>4 DEF WritevFails, LinksOK
  <1>7. Typed'
    BY <1>4, <1>5, <1>6 DEF WritevFails, Typed, cvars
  <1>8. TsvrStands(t)'
    BY SMTT(40), <1>1, <1>3, <1>4 DEF TsvrStands, EmptyWiov
  <1>9. QED
    BY <1>7, <1>8

LEMMA EnvironmentStands ==
    ASSUME PInv, NEW t \in Tsvr, Environment(t)
    PROVE  Typed' /\ TsvrStands(t)'
  <1> USE ThreadFacts
  <1>1. /\ UNCHANGED <<pc, batch, fd, mesg_list, wiov, num, kpalive>>
        /\ UNCHANGED <<made, cpc, free, sendq, pipe, wire, sent, lost, cmdev, shorts>>
    BY DEF Environment, BufferDrains, ServerAnswers, ServerCloses, cvars
  <1>2. /\ \A f \in {armed', blocked', closed'} : f \in [Tsvr -> BOOLEAN]
        /\ \A f \in {inbox', asked'} : f \in [Tsvr -> SUBSET {"auth", "kp"}]
        /\ closes' \in 0..MaxClose
    <2>1. CASE BufferDrains(t)
      BY <2>1 DEF BufferDrains, LinksOK
    <2>2. CASE ServerAnswers(t)
      BY <2>2 DEF ServerAnswers, LinksOK
    <2>3. CASE ServerCloses(t)
      BY <2>3, Bounds DEF ServerCloses, LinksOK
    <2>4. QED
      BY <2>1, <2>2, <2>3 DEF Environment
  <1>3. TsvrsOK' /\ LinksOK'
    BY <1>1, <1>2 DEF TsvrsOK, LinksOK
  <1>4. Typed'
    BY <1>1, <1>3 DEF Typed
  <1>5. TsvrStands(t)'
    BY <1>1 DEF TsvrStands
  <1>6. QED
    BY <1>4, <1>5

LEMMA TsvrStepStands ==
    ASSUME PInv, NEW t \in Tsvr, TsvrStep(t) \/ Environment(t)
    PROVE  PInv'
  <1>1. Typed' /\ TsvrStands(t)'
    <2>1. CASE TsvrStep(t)
      <3>1. wiov[t].cnt <= IovMax
        BY <2>1, Bounds, ThreadFacts DEF TsvrStep, Overrun
      <3>2. QED
        BY <2>1, <3>1, ReconnStands, EpollWaitStands, KeepaliveStands, RecvCmdStands, RecvProcStands,
           SkipOutStands, SendDataStands, ReadUsedStands, RereadUsedStands, MpopStands, WritevStands,
           WritevFailsStands DEF TsvrStep
    <2>2. CASE Environment(t)
      BY <2>2, EnvironmentStands
    <2>3. QED
      BY <2>1, <2>2
  <1>2. ASSUME NEW u \in Tsvr, u # t PROVE TsvrStands(u)'
    <2>1. Apart(t) /\ TsvrStands(u)
      BY StepsApart DEF PInv, Stands
    <2>2. QED
      BY <1>2, <2>1 DEF Apart, TsvrStands
  <1>3. UNCHANGED cvars
    BY DEF TsvrStep, Reconn, EpollWait, Keepalive, RecvCmd, RecvProc, SkipOut, SendData, ReadUsed,
           RereadUsed, Mpop, Writev, WritevFails, Environment, BufferDrains, ServerAnswers, ServerCloses
  <1>4. \A c \in Callers : CallerStands(c)'
    BY <1>3 DEF PInv, Stands, CallerStands, cvars
  <1>5. QED
    BY <1>1, <1>2, <1>4 DEF PInv, Stands

LEMMA CallerStepStands ==
    ASSUME PInv, NEW c \in Callers, CallerStep(c)
    PROVE  PInv'
  <1>1. Typed /\ TsvrsOK /\ LinksOK
    BY DEF PInv, Typed
  <1>2. UNCHANGED <<pc, batch, fd, mesg_list, wiov, num, kpalive>>
    BY DEF CallerStep, Alloc, Push, Notify
  <1>3. TsvrsOK' /\ \A t \in Tsvr : TsvrStands(t)'
    BY <1>1, <1>2 DEF TsvrsOK, PInv, Stands, TsvrStands
  <1>4. CASE Alloc(c)
    <2>1. made' \in [Callers -> 0..MaxSend] /\ cpc' \in [Callers -> {"idle", "push", "notify"}]
      BY <1>1, <1>4, Bounds DEF Alloc, Typed
    <2>2. free' \in Nat /\ LinksOK'
      BY <1>1, <1>4 DEF Alloc, Typed, LinksOK, kvars
    <2>3. Typed'
      BY <1>1, <1>3, <1>4, <2>1, <2>2 DEF Alloc, Typed
    <2>4. \A d \in Callers : CallerStands(d)'
      BY <1>1, <1>4, Bounds DEF Alloc, Typed, PInv, Stands, CallerStands
    <2>5. QED
      BY <1>3, <2>3, <2>4 DEF PInv, Stands
  <1>5. CASE Push(c)
    <2>1. made[c] \in 1..MaxSend
      BY <1>5 DEF Push, PInv, Stands, CallerStands
    <2>2. Msg(c, made[c]) \in Exps
      BY <2>1 DEF Msg, Exps
    <2>3. sendq' \in Seq(Exps) /\ Len(sendq') <= QueueMax /\ free' \in Nat
      <3>1. CASE Len(sendq) < QueueMax
        <4>1. /\ Append(sendq, Msg(c, made[c])) \in Seq(Exps)
              /\ Len(Append(sendq, Msg(c, made[c]))) = Len(sendq) + 1 /\ Len(sendq) \in Nat
          BY <1>1, <2>2 DEF Typed
        <4>2. QED
          BY SMTT(40), <1>1, <1>5, <3>1, <4>1, Bounds DEF Push, Typed
      <3>2. CASE ~(Len(sendq) < QueueMax)
        BY <1>1, <1>5, <3>2 DEF Push, Typed
      <3>3. QED
        BY <3>1, <3>2
    <2>4. LinksOK' /\ cpc' \in [Callers -> {"idle", "push", "notify"}]
      BY <1>1, <1>5 DEF Push, Typed, LinksOK, kvars
    <2>5. Typed'
      BY <1>1, <1>3, <1>5, <2>3, <2>4 DEF Push, Typed
    <2>6. \A d \in Callers : CallerStands(d)'
      BY <1>1, <1>5 DEF Push, Typed, PInv, Stands, CallerStands
    <2>7. QED
      BY <1>3, <2>5, <2>6 DEF PInv, Stands
  <1>6. CASE Notify(c)
    <2>1. cpc' \in [Callers -> {"idle", "push", "notify"}] /\ pipe' \in 0..PipeMax
      BY <1>1, <1>6, Bounds DEF Notify, Typed
    <2>2. cmdev' \in [Tsvr -> BOOLEAN]
      BY <1>1, <1>6 DEF Notify, LinksOK
    <2>3. LinksOK'
      BY <1>1, <1>6, <2>2 DEF Notify, LinksOK
    <2>4. Typed'
      BY <1>1, <1>3, <1>6, <2>1, <2>3 DEF Notify, Typed
    <2>5. \A d \in Callers : CallerStands(d)'
      BY <1>1, <1>6 DEF Notify, Typed, PInv, Stands, CallerStands
    <2>6. QED
      BY <1>3, <2>4, <2>5 DEF PInv, Stands
  <1>7. QED
    BY <1>4, <1>5, <1>6 DEF CallerStep

LEMMA InitStands == Init => PInv
  <1> SUFFICES ASSUME Init PROVE PInv
    OBVIOUS
  <1>1. /\ EmptyWiov \in Wiovs /\ EmptyWiov.part = 0 /\ EmptyWire \in Wires
        /\ <<>> \in Seq(Events) /\ <<>> \in Seq(Mesgs) /\ <<>> \in Seq(Exps)
        /\ Len(<<>>) = 0
    BY DEF EmptyWiov, EmptyWire, Wiovs, Wires
  <1>2. TsvrsOK
    BY <1>1, Bounds DEF Init, TsvrsOK, Wiovs
  <1>3. LinksOK
    BY <1>1, Bounds DEF Init, LinksOK, Wires
  <1>4. Typed
    BY <1>1, <1>2, <1>3, Bounds DEF Init, Typed
  <1>5. Stands
    <2>1. Single(<<>>) /\ NoSck(<<>>)
      BY DEF Single, NoSck
    <2>2. QED
      BY <1>1, <2>1 DEF Init, Stands, CallerStands, TsvrStands
  <1>6. QED
    BY <1>4, <1>5 DEF PInv

LEMMA NextStands == PInv /\ [Next]_vars => PInv'
  <1> SUFFICES ASSUME PInv, [Next]_vars PROVE PInv'
    OBVIOUS
  <1>1. CASE UNCHANGED vars
    BY <1>1 DEF vars, cvars, kvars, PInv, Typed, TsvrsOK, LinksOK, Stands, CallerStands, TsvrStands
  <1>2. CASE Next
    BY <1>2, TsvrStepStands, CallerStepStands DEF Next
  <1>3. QED
    BY <1>1, <1>2

\* The types, and where a thread stands: one event of the socket in a batch, the
\* write vector empty without a connection, no partly sent entry in an empty one.
THEOREM Invariant == Spec => []PInv
  <1>1. QED
    BY InitStands, NextStands, PTL DEF Spec

-----------------------------------------------------------------------------
(* Keepalive requests. *)

KpWay(t) ==
    kpalive[t] = "sent" /\ fd[t] /\ ~closed[t] =>
        \/ KpReq \in ToSet(mesg_list[t]) \cup ToSet(wiov[t].items)
        \/ "kp" \in asked[t] \cup inbox[t]

LEMMA KpTsvrStep ==
    ASSUME PInv, NEW t \in Tsvr, KpWay(t), TsvrStep(t) \/ Environment(t)
    PROVE  KpWay(t)'
  <1> USE ThreadFacts
  <1>0. TsvrsOK /\ LinksOK
    OBVIOUS
  <1>1. CASE Reconn(t)
    BY <1>1 DEF Reconn, TsvrsOK, KpWay
  <1>2. CASE EpollWait(t)
    BY <1>2 DEF EpollWait, KpWay
  <1>3. CASE Keepalive(t)
    <2>1. CASE kpalive[t] = "sent"
      BY <1>3, <2>1 DEF Keepalive, DelConn, TsvrsOK, KpWay
    <2>2. CASE kpalive[t] # "sent"
      <3>1. mesg_list'[t] = Append(mesg_list[t], KpReq)
        BY <1>3, <2>2 DEF Keepalive, TsvrsOK
      <3>2. KpReq \in ToSet(mesg_list'[t])
        BY <3>1, AppendElems, Kinds
      <3>3. QED
        BY <3>2 DEF KpWay
    <2>3. QED
      BY <2>1, <2>2
  <1>4. CASE RecvCmd(t)
    BY <1>4 DEF RecvCmd, KpWay
  <1>5. CASE RecvProc(t)
    <2>1. CASE closed[t]
      BY <1>5, <2>1 DEF RecvProc, DelConn, TsvrsOK, KpWay
    <2>2. CASE ~closed[t]
      <3>1. /\ UNCHANGED <<fd, closed, mesg_list, wiov, asked>>
            /\ kpalive'[t] = IF "kp" \in inbox[t] THEN "succ" ELSE kpalive[t]
        BY <1>5, <2>2 DEF RecvProc, TsvrsOK
      <3>2. QED
        BY <3>1 DEF KpWay
    <2>3. QED
      BY <2>1, <2>2
  <1>6. CASE SkipOut(t)
    BY <1>6 DEF SkipOut, kvars, KpWay
  <1>7. CASE SendData(t)
    <2> DEFINE list == mesg_list[t]
               k == Taken(t)
               a == SubSeq(list, 1, k)
               b == SubSeq(list, k + 1, Len(list))
    <2>1. /\ wiov' = [wiov EXCEPT ![t] = Put(@, a)] /\ mesg_list' = [mesg_list EXCEPT ![t] = b]
          /\ UNCHANGED <<kpalive, fd, closed, asked, inbox>>
      BY <1>7 DEF SendData, Taken, kvars
    <2>2. k \in 0..Len(list)
      <3>1. wiov[t].cnt <= IovMax
        BY Bounds DEF TsvrStep, Overrun, Environment
      <3>2. QED
        BY <3>1, TakenList
    <2>3. a \in Seq(Mesgs) /\ ToSet(a) \cup ToSet(b) = ToSet(list)
      BY <2>2, Cut, CutElems
    <2> HIDE DEF a, b, k
    <2>4. Put(wiov[t], a).items = wiov[t].items \o a
      BY <2>3, PutTyped DEF TsvrStands
    <2>5. ToSet(wiov[t].items \o a) = ToSet(wiov[t].items) \cup ToSet(a)
      BY <2>3, JoinElems
    <2>6. wiov'[t] = Put(wiov[t], a) /\ mesg_list'[t] = b
      BY <2>1 DEF TsvrsOK
    <2>7. QED
      BY <2>1, <2>3, <2>4, <2>5, <2>6 DEF KpWay
  <1>8. CASE ReadUsed(t)
    BY <1>8 DEF ReadUsed, kvars, KpWay
  <1>9. CASE RereadUsed(t)
    BY <1>9 DEF RereadUsed, kvars, KpWay
  <1>10. CASE Mpop(t)
    <2>1. UNCHANGED <<kpalive, fd, closed, asked, inbox, mesg_list>>
      BY <1>10 DEF Mpop, kvars
    <2>2. ToSet(wiov[t].items) \subseteq ToSet(wiov'[t].items)
      <3>1. CASE num[t] <= Len(sendq)
        <4> DEFINE a == SubSeq(sendq, 1, num[t])
        <4>1. sendq \in Seq(Exps) /\ num[t] \in 0..Len(sendq)
          BY <3>1, Elems, Bounds DEF Typed, TsvrsOK
        <4>2. a \in Seq(Exps)
          BY <4>1, Cut
        <4>3. wiov'[t] = Put(wiov[t], a)
          BY <1>10, <3>1 DEF Mpop, TsvrsOK
        <4> HIDE DEF a
        <4>4. a \in Seq(Mesgs)
          BY <4>2, Kinds
        <4>5. wiov[t] \in Wiovs /\ (wiov[t].part = 1 => wiov[t].items # <<>>)
          BY DEF TsvrStands
        <4>5b. Put(wiov[t], a).items = wiov[t].items \o a
          BY <4>4, <4>5, PutTyped
        <4>5a. wiov'[t].items = wiov[t].items \o a
          BY <4>3, <4>5b
        <4>6. QED
          BY <4>4, <4>5a, JoinElems
      <3>2. CASE ~(num[t] <= Len(sendq))
        BY <1>10, <3>2 DEF Mpop
      <3>3. QED
        BY <3>1, <3>2
    <2>3. QED
      BY <2>1, <2>2 DEF KpWay
  <1>11. CASE Writev(t)
    <2> DEFINE w == wiov[t]
    <2>1. PICK n \in 1..Len(Unsent(w)) :
              /\ wiov' = [wiov EXCEPT ![t] = Adjust(w, n)]
              /\ ~closed[t] => asked' = [asked EXCEPT ![t] = @ \cup
                                             Requests(SubSeq(w.items, 1, (w.part + n) \div 2))]
      BY <1>11 DEF Writev
    <2>2. UNCHANGED <<kpalive, fd, closed, mesg_list, inbox>>
      BY <1>11 DEF Writev
    <2> DEFINE k == (w.part + n) \div 2
               a == SubSeq(w.items, 1, k)
               b == SubSeq(w.items, k + 1, Len(w.items))
    <2>3. k \in 0..Len(w.items) /\ Adjust(w, n).items = b
      BY WrittenUnits DEF TsvrStands
    <2>4. ToSet(a) \cup ToSet(b) = ToSet(w.items)
      BY <2>3, CutElems
    <2>5. wiov'[t].items = b
      BY <2>1, <2>3 DEF TsvrsOK
    <2>6. ~closed[t] => asked'[t] = asked[t] \cup Requests(a)
      BY <2>1 DEF LinksOK
    <2> HIDE DEF a, b
    <2>7. KpReq \in ToSet(a) => "kp" \in Requests(a)
      BY Kinds DEF Requests
    <2>8. QED
      BY <2>2, <2>4, <2>5, <2>6, <2>7 DEF KpWay
  <1>12. CASE WritevFails(t)
    BY <1>12 DEF WritevFails, DelConn, TsvrsOK, KpWay
  <1>13. CASE Environment(t)
    <2>1. UNCHANGED <<kpalive, fd, mesg_list, wiov>> /\ (closed[t] => closed'[t])
      BY <1>13 DEF Environment, BufferDrains, ServerAnswers, ServerCloses, LinksOK
    <2>2. asked[t] \cup inbox[t] \subseteq asked'[t] \cup inbox'[t]
      BY <1>13 DEF Environment, BufferDrains, ServerAnswers, ServerCloses, LinksOK
    <2>3. QED
      BY <2>1, <2>2 DEF KpWay
  <1>14. QED
    BY <1>1, <1>2, <1>3, <1>4, <1>5, <1>6, <1>7, <1>8, <1>9, <1>10, <1>11, <1>12, <1>13 DEF TsvrStep

LEMMA KpNext == PInv /\ KeepaliveOutstanding /\ [Next]_vars => KeepaliveOutstanding'
  <1> SUFFICES ASSUME PInv, KeepaliveOutstanding, [Next]_vars PROVE KeepaliveOutstanding'
    OBVIOUS
  <1>1. \A t \in Tsvr : KpWay(t)
    BY DEF KeepaliveOutstanding, KpWay
  <1>2. CASE UNCHANGED vars
    BY <1>2 DEF KeepaliveOutstanding, vars, kvars
  <1>3. ASSUME NEW c \in Callers, CallerStep(c) PROVE KeepaliveOutstanding'
    BY <1>3 DEF CallerStep, Alloc, Push, Notify, kvars, KeepaliveOutstanding
  <1>4. ASSUME NEW t \in Tsvr, TsvrStep(t) \/ Environment(t) PROVE KeepaliveOutstanding'
    <2>1. KpWay(t)'
      BY <1>1, <1>4, KpTsvrStep
    <2>2. Apart(t)
      BY <1>4, StepsApart DEF PInv
    <2>3. \A u \in Tsvr \ {t} : KpWay(u)'
      BY <1>1, <2>2 DEF Apart, KpWay
    <2>4. QED
      BY <2>1, <2>3 DEF KeepaliveOutstanding, KpWay
  <1>5. QED
    BY <1>2, <1>3, <1>4 DEF Next

\* While a connection counts a keepalive request as sent, the request or its answer
\* is on the way (rtmq_proxy_tsvr_timeout_hdl): the drop of a connection that does
\* not answer is never the drop of one that was not asked.
THEOREM Outstanding == Spec => []KeepaliveOutstanding
  <1>1. Init => KeepaliveOutstanding
    BY DEF Init, KeepaliveOutstanding
  <1>2. QED
    BY <1>1, KpNext, Invariant, PTL DEF Spec

-----------------------------------------------------------------------------
(* What a server gets. *)

\* The entry that is partly sent.
Rest(w) == IF w.part = 1 THEN <<w.items[1]>> ELSE <<>>

\* One unit of an entry, and the next.
LEMMA OneUnit ==
    ASSUME NEW v \in Wires, NEW m \in Mesgs, v.framed
    PROVE  /\ v.part = <<>> => Receive(v, <<m, 1>>) = [v EXCEPT !.part = <<m>>]
           /\ v.part = <<m>> => Receive(v, <<m, 2>>) =
                 [v EXCEPT !.part = <<>>, !.done = IF m = KpReq THEN v.done ELSE Append(v.done, m)]
  <1>1. <<m>> # <<>> /\ <<m, 1>>[1] = m /\ <<m, 1>>[2] = 1 /\ <<m, 2>>[1] = m /\ <<m, 2>>[2] = 2
    OBVIOUS
  <1>2. QED
    BY <1>1 DEF Receive

LEMMA HalfSteps ==
    ASSUME NEW x \in Nat, x # 0
    PROVE  /\ x % 2 = 1 => (x - 1) % 2 # 1 /\ (x + 1) \div 2 = (x \div 2) + 1
           /\ x % 2 # 1 => /\ (x - 1) % 2 = 1 /\ ((x - 1) \div 2) + 1 = (x + 1) \div 2
                           /\ x \div 2 = (x + 1) \div 2
  OBVIOUS

LEMMA HalfEnds ==
    ASSUME NEW p \in 0..1, NEW n \in Nat, n # 0, NEW K, K = (p + n) \div 2
    PROVE  /\ K \in Nat
           /\ n = 2 * K - p \/ (n = (2 * K - p) + 1 /\ (p + n) % 2 = 1)
           /\ K = 0 => n = 1 /\ p = 0
  OBVIOUS

\* got[k] is what a server holds after k units, of which the first belongs to the
\* entry s[1]; p units of that one came before.
Gets(got, s, p, n) ==
    \A j \in 1..n : /\ (p + j + 1) \div 2 \in 1..Len(s)
                    /\ got[j] = Receive(got[j - 1], <<s[(p + j + 1) \div 2],
                                                      IF (p + j) % 2 = 1 THEN 1 ELSE 2>>)

LEMMA UnitByUnit ==
    ASSUME NEW s \in Seq(Mesgs), NEW p \in 0..1, NEW n \in Nat, n # 0,
           NEW v \in Wires, v.framed, v.part = IF p = 1 THEN <<s[1]>> ELSE <<>>,
           NEW got, got[0] = v, Gets(got, s, p, n)
    PROVE  /\ \A k \in 0..n :
                got[k] \in Wires /\ got[k].framed
                /\ got[k].part = IF (p + k) % 2 = 1 THEN <<s[((p + k) \div 2) + 1]>> ELSE <<>>
           /\ \A k \in 1..n :
                got[k].done = IF (p + k) % 2 = 1 \/ s[(p + k) \div 2] = KpReq THEN got[k - 1].done
                              ELSE Append(got[k - 1].done, s[(p + k) \div 2])
  <1> DEFINE Part(k) == IF (p + k) % 2 = 1 THEN <<s[((p + k) \div 2) + 1]>> ELSE <<>>
             P(k) == got[k] \in Wires /\ got[k].framed /\ got[k].part = Part(k)
             Done(k) == IF (p + k) % 2 = 1 \/ s[(p + k) \div 2] = KpReq THEN got[k - 1].done
                        ELSE Append(got[k - 1].done, s[(p + k) \div 2])
  <1>1. P(0)
    <2>1. ((p + 0) \div 2) + 1 = 1 /\ (p + 0) % 2 = p
      OBVIOUS
    <2>2. QED
      BY <2>1
  <1>2. ASSUME NEW k \in 1..n, P(k - 1)
        PROVE  P(k) /\ got[k].done = Done(k)
    <2> DEFINE i == (p + k + 1) \div 2
               m == s[i]
    <2>1. i \in 1..Len(s) /\ got[k] = Receive(got[k - 1], <<m, IF (p + k) % 2 = 1 THEN 1 ELSE 2>>)
      BY DEF Gets
    <2>2. m \in Mesgs
      <3>1. \A j \in 1..Len(s) : s[j] \in Mesgs
        BY Elems
      <3> HIDE DEF i
      <3>2. QED
        BY <2>1, <3>1
    <2>3. got[k - 1] \in Wires /\ got[k - 1].framed /\ got[k - 1].part = Part(k - 1)
      BY <1>2
    <2>4. p + k \in Nat /\ p + k # 0 /\ p + (k - 1) = (p + k) - 1
      OBVIOUS
    <2>5. CASE (p + k) % 2 = 1
      <3>1. (p + (k - 1)) % 2 # 1 /\ ((p + k) \div 2) + 1 = i
        BY <2>4, <2>5, HalfSteps
      <3>2. Part(k - 1) = <<>> /\ Part(k) = <<m>> /\ Done(k) = got[k - 1].done
        BY <2>5, <3>1
      <3>3. got[k] = Receive(got[k - 1], <<m, 1>>)
        BY <2>1, <2>5
      <3> HIDE DEF Part, Done, i, m
      <3>4. got[k] = [got[k - 1] EXCEPT !.part = <<m>>]
        <4> DEFINE g == got[k - 1]
        <4>1. g \in Wires /\ g.framed /\ g.part = <<>>
          BY <2>3, <3>2
        <4> HIDE DEF g
        <4>2. Receive(g, <<m, 1>>) = [g EXCEPT !.part = <<m>>]
          BY <2>2, <4>1, OneUnit
        <4>3. QED
          BY <3>3, <4>2 DEF g
      <3>5. <<m>> \in Seq(Mesgs)
        BY <2>2
      <3>6. QED
        BY <2>3, <3>2, <3>4, <3>5 DEF Wires
    <2>6. CASE (p + k) % 2 # 1
      <3>1. (p + (k - 1)) % 2 = 1 /\ ((p + (k - 1)) \div 2) + 1 = i /\ (p + k) \div 2 = i
        BY <2>4, <2>6, HalfSteps
      <3>2. /\ Part(k - 1) = <<m>> /\ Part(k) = <<>>
            /\ Done(k) = IF m = KpReq THEN got[k - 1].done ELSE Append(got[k - 1].done, m)
        BY <2>6, <3>1
      <3>3. got[k] = Receive(got[k - 1], <<m, 2>>)
        BY <2>1, <2>6
      <3> HIDE DEF Part, Done, i, m
      <3>4. got[k] = [got[k - 1] EXCEPT !.part = <<>>,
                         !.done = IF m = KpReq THEN got[k - 1].done ELSE Append(got[k - 1].done, m)]
        <4> DEFINE g == got[k - 1]
        <4>1. g \in Wires /\ g.framed /\ g.part = <<m>>
          BY <2>3, <3>2
        <4> HIDE DEF g
        <4>2. Receive(g, <<m, 2>>) = [g EXCEPT !.part = <<>>,
                                        !.done = IF m = KpReq THEN g.done ELSE Append(g.done, m)]
          BY <2>2, <4>1, OneUnit
        <4>3. QED
          BY <3>3, <4>2 DEF g
      <3>5. <<>> \in Seq(Mesgs) /\ Append(got[k - 1].done, m) \in Seq(Mesgs)
        BY <2>2, <2>3, AppendElems DEF Wires
      <3>6. QED
        BY <2>3, <3>2, <3>4, <3>5 DEF Wires
    <2>7. QED
      BY <2>5, <2>6
  <1>3. \A k \in 0..n : P(k)
    <2> DEFINE Bad == {k \in 0..n : ~P(k)}
    <2> SUFFICES ASSUME Bad # {} PROVE FALSE
      OBVIOUS
    <2> HIDE DEF P
    <2>1. Bad \in SUBSET Nat
      OBVIOUS
    <2>2. PICK k \in Bad : \A j \in Bad : k <= j
      <3> HIDE DEF Bad
      <3>1. QED
        BY <2>1, LeastOf
    <2>3. k \in 1..n
      BY <1>1, <2>2
    <2>4. k - 1 \in 0..n /\ k - 1 \notin Bad
      BY <2>2, <2>3
    <2>5. QED
      BY <1>2, <2>2, <2>3, <2>4
  <1>4. \A k \in 1..n : got[k].done = Done(k)
    <2>1. \A k \in 1..n : k - 1 \in 0..n
      OBVIOUS
    <2> HIDE DEF P, Done
    <2>2. QED
      BY <1>2, <1>3, <2>1
  <1>5. QED
    BY <1>3, <1>4

\* The server parses what is written of a vector: it gets the entries that are
\* sent whole, one after the other, and the part of the next.
LEMMA TakeItems ==
    ASSUME NEW w \in Wiovs, w.part = 1 => w.items # <<>>, NEW n \in 1..Len(Unsent(w)),
           NEW v \in Wires, v.framed, v.part = Rest(w)
    PROVE  LET K == (w.part + n) \div 2
               z == Take(v, SubSeq(Unsent(w), 1, n))
           IN  /\ z \in Wires /\ z.framed /\ z.part = Rest(Adjust(w, n))
               /\ \E D \in [0..K -> Seq(Mesgs)] :
                    /\ D[0] = v.done /\ D[K] = z.done
                    /\ \A q \in 1..K : D[q] = IF w.items[q] = KpReq THEN D[q - 1]
                                              ELSE Append(D[q - 1], w.items[q])
  <1> DEFINE p == w.part
             s == w.items
             N == Len(s)
             units == SubSeq(Unsent(w), 1, n)
             K == (p + n) \div 2
             z == Take(v, units)
             b == Adjust(w, n)
  <1>1. /\ n \in Nat /\ K \in 0..N
        /\ \A j \in 1..n :
              /\ (p + j + 1) \div 2 \in 1..N
              /\ units[j] = <<s[(p + j + 1) \div 2], IF (p + j) % 2 = 1 THEN 1 ELSE 2>>
        /\ b.items = SubSeq(s, K + 1, N)
        /\ b.part = (p + n) % 2
        /\ b.part = 1 => b.items # <<>>
    BY WrittenUnits
  <1>2. units \in Seq(Units) /\ Len(units) = n
    BY WrittenUnits
  <1>3. s \in Seq(Mesgs) /\ N \in Nat /\ p \in 0..1 /\ n # 0
    BY <1>1, Elems DEF Wiovs
  <1>4. v.part = IF p = 1 THEN <<s[1]>> ELSE <<>>
    BY DEF Rest
  <1>5. PICK got : /\ got[0] = v /\ got[Len(units)] = z
                   /\ \A k \in 1..Len(units) : got[k] = Receive(got[k - 1], units[k])
    <2>1. units \in Seq(Units)
      BY <1>2
    <2> HIDE DEF units
    <2>2. \E got : /\ got[0] = v /\ got[Len(units)] = Take(v, units)
                   /\ \A k \in 1..Len(units) : got[k] = Receive(got[k - 1], units[k])
      BY <2>1, TakeSteps
    <2>3. QED
      BY <2>2
  <1> HIDE DEF p, s, units, K, z, b
  <1>6. got[0] = v /\ got[n] = z /\ Gets(got, s, p, n)
    BY <1>1, <1>2, <1>5 DEF Gets
  <1>7. /\ \A k \in 0..n :
             got[k] \in Wires /\ got[k].framed
             /\ got[k].part = IF (p + k) % 2 = 1 THEN <<s[((p + k) \div 2) + 1]>> ELSE <<>>
        /\ \A k \in 1..n :
             got[k].done = IF (p + k) % 2 = 1 \/ s[(p + k) \div 2] = KpReq THEN got[k - 1].done
                           ELSE Append(got[k - 1].done, s[(p + k) \div 2])
    <2>1. s \in Seq(Mesgs) /\ p \in 0..1 /\ n \in Nat /\ n # 0
      BY <1>1, <1>3
    <2>2. QED
      BY <1>4, <1>6, <2>1, UnitByUnit
  <1>8. z \in Wires /\ z.framed /\ z.part = Rest(b)
    <2>1. z \in Wires /\ z.framed /\ z.part = IF (p + n) % 2 = 1 THEN <<s[K + 1]>> ELSE <<>>
      <3>1. n \in 0..n
        BY <1>1
      <3>2. QED
        BY <1>6, <1>7, <3>1 DEF K
    <2>2. ASSUME (p + n) % 2 = 1 PROVE b.items[1] = s[K + 1]
      <3> DEFINE r == SubSeq(s, K + 1, Len(s))
      <3>1. /\ Len(r) = N - K /\ r \in Seq(Mesgs)
            /\ \A i \in 1..(N - K) : r[i] = s[K + i]
        BY <1>1, <1>3, Cut
      <3>2. r # <<>> /\ r = b.items
        BY <1>1, <2>2
      <3> HIDE DEF r
      <3>3. 1 \in 1..Len(r)
        BY <3>1, <3>2, HeadTail
      <3>4. QED
        BY <3>1, <3>2, <3>3
    <2>3. QED
      BY <1>1, <2>1, <2>2 DEF Rest
  <1>9. /\ K \in Nat /\ n \in Nat /\ p \in 0..1
        /\ n = 2 * K - p \/ (n = (2 * K - p) + 1 /\ (p + n) % 2 = 1)
        /\ K = 0 => n = 1 /\ p = 0
    BY <1>1, <1>3, HalfEnds DEF K
  <1> DEFINE At(q) == IF q = 0 THEN 0 ELSE 2 * q - p
             D == [q \in 0..K |-> got[At(q)].done]
  <1>10. \A q \in 0..K : At(q) \in 0..n
    BY <1>9
  <1>11. D \in [0..K -> Seq(Mesgs)]
    <2> HIDE DEF At
    <2>1. QED
      BY <1>7, <1>10 DEF Wires
  <1>12. D[0] = v.done
    BY <1>6, <1>9
  <1>13. D[K] = z.done
    <2>1. D[K] = got[At(K)].done
      BY <1>9
    <2>2. CASE At(K) = n
      BY <1>6, <2>1, <2>2
    <2>3. CASE At(K) # n
      <3>1. At(K) = n - 1 /\ (p + n) % 2 = 1 /\ n \in 1..n
        BY <1>9, <2>3
      <3>2. got[n].done = got[n - 1].done
        BY <1>7, <3>1
      <3>3. QED
        BY <1>6, <2>1, <3>1, <3>2
    <2>4. QED
      BY <2>2, <2>3
  <1>14. ASSUME NEW q \in 1..K
         PROVE  D[q] = IF s[q] = KpReq THEN D[q - 1] ELSE Append(D[q - 1], s[q])
    <2> DEFINE k == 2 * q - p
    <2>1. /\ k \in 1..n /\ (p + k) % 2 # 1 /\ (p + k) \div 2 = q
          /\ q \in 0..K /\ q # 0 /\ q - 1 \in 0..K
      BY <1>9
    <2>2. got[k].done = IF s[q] = KpReq THEN got[k - 1].done ELSE Append(got[k - 1].done, s[q])
      BY <1>7, <2>1
    <2>3. D[q] = got[k].done /\ D[q - 1] = got[At(q - 1)].done
      BY <2>1
    <2>4. got[k - 1].done = got[At(q - 1)].done
      <3>1. CASE At(q - 1) = k - 1
        BY <3>1
      <3>2. CASE At(q - 1) # k - 1
        <4>1. k - 1 \in 1..n /\ (p + (k - 1)) % 2 = 1 /\ At(q - 1) = k - 2 /\ (k - 1) - 1 = k - 2
          BY <1>9, <2>1, <3>2
        <4>2. got[k - 1].done = got[(k - 1) - 1].done
          BY <1>7, <4>1
        <4>3. QED
          BY <4>1, <4>2
      <3>3. QED
        BY <3>1, <3>2
    <2> HIDE DEF D, k, At
    <2>5. QED
      BY <2>2, <2>3, <2>4
  <1> HIDE DEF D
  <1>15. QED
    BY <1>8, <1>11, <1>12, <1>13, <1>14 DEF K, z, s, p, units, b

\* What a step of a thread or of its connection does to the messages: nothing, ask
\* for a keepalive answer, or one of the rest.
Quiet == UNCHANGED <<free, sendq, fd, mesg_list, wiov, closed, wire, sent, lost>>

Asks(t) == /\ mesg_list' = [mesg_list EXCEPT ![t] = Append(@, KpReq)]
           /\ UNCHANGED <<free, sendq, fd, wiov, closed, wire, sent, lost>>

Breaks(t) == DelConn(t) /\ UNCHANGED <<sendq, mesg_list, wire, sent>>

LEMMA StepKinds ==
    ASSUME NEW t \in Tsvr, TsvrStep(t) \/ Environment(t)
    PROVE  /\ UNCHANGED <<made, cpc>>
           /\ \A u \in Tsvr : wiov[u].cnt \in Nat => wiov[u].cnt <= IovMax
           /\ \/ Quiet \/ Asks(t) \/ Breaks(t) \/ Reconn(t) \/ SendData(t) \/ Mpop(t)
              \/ Writev(t) \/ ServerCloses(t)
  <1>1. \A u \in Tsvr : wiov[u].cnt \in Nat => wiov[u].cnt <= IovMax
    BY Bounds DEF TsvrStep, Environment, Overrun
  <1>2. UNCHANGED <<made, cpc>>
    BY DEF TsvrStep, Reconn, EpollWait, Keepalive, RecvCmd, RecvProc, SkipOut, SendData, ReadUsed,
           RereadUsed, Mpop, Writev, WritevFails, Environment, BufferDrains, ServerAnswers,
           ServerCloses, cvars
  <1>3. EpollWait(t) \/ RecvCmd(t) \/ SkipOut(t) \/ ReadUsed(t) \/ RereadUsed(t)
        \/ BufferDrains(t) \/ ServerAnswers(t) => Quiet
    BY DEF EpollWait, RecvCmd, SkipOut, ReadUsed, RereadUsed, BufferDrains, ServerAnswers, kvars, Quiet
  <1>4. Keepalive(t) => Asks(t) \/ Breaks(t)
    BY DEF Keepalive, Asks, Breaks
  <1>5. RecvProc(t) => Quiet \/ Breaks(t)
    BY DEF RecvProc, Quiet, Breaks
  <1>6. WritevFails(t) => Breaks(t)
    BY DEF WritevFails, Breaks
  <1>7. QED
    BY <1>1, <1>2, <1>3, <1>4, <1>5, <1>6 DEF TsvrStep, Environment

\* What the steps that move messages do to the thread's own state.
LEMMA SendDataMoves ==
    ASSUME PInv, NEW t \in Tsvr, wiov[t].cnt <= IovMax, SendData(t)
    PROVE  LET list == mesg_list[t]
               k == Taken(t)
               a == SubSeq(list, 1, k)
               b == SubSeq(list, k + 1, Len(list))
           IN  /\ k \in 0..Len(list)
               /\ a \in Seq(Mesgs) /\ b \in Seq(Mesgs) /\ Len(b) = Len(list) - k
               /\ wiov'[t].items = wiov[t].items \o a /\ wiov'[t].part = wiov[t].part
               /\ mesg_list'[t] = b
               /\ UNCHANGED <<free, sendq, fd, closed, wire, sent, lost>>
  <1> USE ThreadFacts
  <1> DEFINE list == mesg_list[t]
             k == Taken(t)
             a == SubSeq(list, 1, k)
             b == SubSeq(list, k + 1, Len(list))
  <1>1. wiov' = [wiov EXCEPT ![t] = Put(@, a)] /\ mesg_list' = [mesg_list EXCEPT ![t] = b]
    BY DEF SendData, Taken
  <1>2. k \in 0..Len(list)
    BY TakenList
  <1>3. a \in Seq(Mesgs) /\ b \in Seq(Mesgs) /\ Len(b) = Len(list) - k
    BY <1>2, Cut
  <1> HIDE DEF a, b, k
  <1>4. wiov[t] \in Wiovs /\ (wiov[t].part = 1 => wiov[t].items # <<>>)
    BY DEF TsvrStands
  <1>5. Put(wiov[t], a).items = wiov[t].items \o a /\ Put(wiov[t], a).part = wiov[t].part
    BY <1>3, <1>4, PutTyped
  <1>6. wiov'[t] = Put(wiov[t], a) /\ mesg_list'[t] = b
    BY <1>1 DEF TsvrsOK
  <1>7. UNCHANGED <<free, sendq, fd, closed, wire, sent, lost>>
    BY DEF SendData, kvars
  <1>8. QED
    BY <1>2, <1>3, <1>5, <1>6, <1>7 DEF a, b, k

LEMMA MpopMoves ==
    ASSUME PInv, NEW t \in Tsvr, Mpop(t), num[t] <= Len(sendq)
    PROVE  LET a == SubSeq(sendq, 1, num[t])
               b == SubSeq(sendq, num[t] + 1, Len(sendq))
           IN  /\ num[t] \in 0..Len(sendq) /\ num[t] # 0
               /\ a \in Seq(Exps) /\ a \in Seq(Mesgs) /\ b \in Seq(Exps) /\ Len(a) = num[t]
               /\ wiov'[t].items = wiov[t].items \o a /\ wiov'[t].part = wiov[t].part
               /\ wiov'[t].cnt = wiov[t].cnt + num[t]
               /\ sendq' = b
               /\ UNCHANGED <<free, mesg_list, fd, closed, wire, sent, lost>>
  <1> USE ThreadFacts
  <1> DEFINE n == num[t]
             a == SubSeq(sendq, 1, n)
             b == SubSeq(sendq, n + 1, Len(sendq))
  <1>1. wiov' = [wiov EXCEPT ![t] = Put(@, a)] /\ sendq' = b /\ n # 0
    BY DEF Mpop, TsvrStands
  <1>2. n \in 0..Len(sendq) /\ sendq \in Seq(Exps)
    BY Elems, Bounds DEF Typed, TsvrsOK
  <1> HIDE DEF n
  <1>3. a \in Seq(Exps) /\ Len(a) = n /\ b \in Seq(Exps)
    BY <1>2, Cut
  <1> HIDE DEF a, b
  <1>4. a \in Seq(Mesgs)
    BY <1>3, Kinds
  <1>5. wiov[t] \in Wiovs /\ (wiov[t].part = 1 => wiov[t].items # <<>>)
    BY DEF TsvrStands
  <1>6. /\ Put(wiov[t], a).items = wiov[t].items \o a /\ Put(wiov[t], a).part = wiov[t].part
        /\ Put(wiov[t], a).cnt = wiov[t].cnt + n
    BY <1>3, <1>4, <1>5, PutTyped
  <1>7. wiov'[t] = Put(wiov[t], a)
    BY <1>1 DEF TsvrsOK
  <1>8. UNCHANGED <<free, mesg_list, fd, closed, wire, sent, lost>>
    BY DEF Mpop, kvars
  <1>9. QED
    BY <1>1, <1>2, <1>3, <1>4, <1>6, <1>7, <1>8 DEF n, a, b

LEMMA WritevMoves ==
    ASSUME PInv, NEW t \in Tsvr, Writev(t)
    PROVE  \E n \in 1..Len(Unsent(wiov[t])) :
              LET w == wiov[t]
                  k == (w.part + n) \div 2
                  a == SubSeq(w.items, 1, k)
              IN  /\ w \in Wiovs /\ (w.part = 1 => w.items # <<>>)
                  /\ k \in 0..Len(w.items) /\ a \in Seq(Mesgs)
                  /\ wiov'[t] = Adjust(w, n)
                  /\ wiov'[t].items = SubSeq(w.items, k + 1, Len(w.items))
                  /\ free' = free + Blocks(a)
                  /\ sent' = sent \cup ExpIn(a)
                  /\ wire'[t] = IF closed[t] THEN wire[t] ELSE Take(wire[t], SubSeq(Unsent(w), 1, n))
                  /\ UNCHANGED <<sendq, fd, closed, mesg_list, lost>>
  <1> USE ThreadFacts
  <1> DEFINE w == wiov[t]
  <1>1. PICK n \in 1..Len(Unsent(w)) :
            /\ wiov' = [wiov EXCEPT ![t] = Adjust(w, n)]
            /\ free' = free + Blocks(SubSeq(w.items, 1, (w.part + n) \div 2))
            /\ sent' = sent \cup ExpIn(SubSeq(w.items, 1, (w.part + n) \div 2))
            /\ IF closed[t] THEN UNCHANGED <<wire, asked>>
               ELSE wire' = [wire EXCEPT ![t] = Take(@, SubSeq(Unsent(w), 1, n))]
    BY DEF Writev
  <1> DEFINE k == (w.part + n) \div 2
  <1>2. w \in Wiovs /\ (w.part = 1 => w.items # <<>>)
    BY DEF TsvrStands
  <1>3. k \in 0..Len(w.items) /\ Adjust(w, n).items = SubSeq(w.items, k + 1, Len(w.items))
    BY <1>2, WrittenUnits
  <1>4. SubSeq(w.items, 1, k) \in Seq(Mesgs)
    BY <1>3, Cut
  <1>5. wiov'[t] = Adjust(w, n)
    BY <1>1 DEF TsvrsOK
  <1>6. wire'[t] = IF closed[t] THEN wire[t] ELSE Take(wire[t], SubSeq(Unsent(w), 1, n))
    BY <1>1 DEF LinksOK
  <1>7. UNCHANGED <<sendq, fd, closed, mesg_list, lost>>
    BY DEF Writev
  <1>8. QED
    BY <1>1, <1>2, <1>3, <1>4, <1>5, <1>6, <1>7

\* The server has the units that the vector counts as sent of its first entry.
Parsed(t) == wire[t].framed /\ (fd[t] /\ ~closed[t] => wire[t].part = Rest(wiov[t]))
WireInv == \A t \in Tsvr : Parsed(t)

LEMMA RestKept ==
    ASSUME NEW w \in Wiovs, w.part = 1 => w.items # <<>>, NEW s \in Seq(Mesgs),
           NEW v, v.items = w.items \o s, v.part = w.part
    PROVE  Rest(v) = Rest(w)
  <1>1. CASE w.part = 1
    <2>1. w.items \in Seq(Mesgs) /\ 1 \in 1..Len(w.items)
      BY <1>1, HeadTail DEF Wiovs
    <2>2. (w.items \o s)[1] = w.items[1]
      BY <2>1, Join
    <2>3. QED
      BY <2>2 DEF Rest
  <1>2. CASE w.part # 1
    BY <1>2 DEF Rest
  <1>3. QED
    BY <1>1, <1>2

LEMMA ParsedStep ==
    ASSUME PInv, NEW t \in Tsvr, Parsed(t), TsvrStep(t) \/ Environment(t)
    PROVE  Parsed(t)'
  <1> USE ThreadFacts
  <1>0. wiov[t].cnt <= IovMax
    BY StepKinds
  <1>0a. wiov[t] \in Wiovs /\ (wiov[t].part = 1 => wiov[t].items # <<>>)
    BY DEF TsvrStands
  <1>1. CASE Quiet
    BY <1>1 DEF Quiet, Parsed
  <1>2. CASE Asks(t)
    BY <1>2 DEF Asks, Parsed
  <1>3. CASE Breaks(t)
    <2>1. ~fd'[t]
      BY <1>3, Disconnects DEF Breaks
    <2>2. QED
      BY <1>3, <2>1 DEF Breaks, Parsed
  <1>4. CASE Reconn(t)
    <2>1. wire'[t] = EmptyWire /\ wiov'[t] = wiov[t] /\ wiov[t] = EmptyWiov
      BY <1>4 DEF Reconn, LinksOK, TsvrStands
    <2>2. QED
      BY <2>1 DEF Parsed, EmptyWire, EmptyWiov, Rest
  <1>5. CASE SendData(t)
    <2>1. PICK a \in Seq(Mesgs) : wiov'[t].items = wiov[t].items \o a
      BY <1>0, <1>5, SendDataMoves
    <2>2. wiov'[t].part = wiov[t].part /\ UNCHANGED <<fd, closed, wire>>
      BY <1>0, <1>5, SendDataMoves
    <2>3. Rest(wiov'[t]) = Rest(wiov[t])
      BY <1>0a, <2>1, <2>2, RestKept
    <2>4. QED
      BY <2>2, <2>3 DEF Parsed, Rest
  <1>6. CASE Mpop(t)
    <2>1. CASE num[t] <= Len(sendq)
      <3>1. PICK a \in Seq(Mesgs) : wiov'[t].items = wiov[t].items \o a
        BY <1>6, <2>1, MpopMoves
      <3>2. wiov'[t].part = wiov[t].part /\ UNCHANGED <<fd, closed, wire>>
        BY <1>6, <2>1, MpopMoves
      <3>3. Rest(wiov'[t]) = Rest(wiov[t])
        BY <1>0a, <3>1, <3>2, RestKept
      <3>4. QED
        BY <3>2, <3>3 DEF Parsed, Rest
    <2>2. CASE ~(num[t] <= Len(sendq))
      BY <1>6, <2>2 DEF Mpop, kvars, Parsed
    <2>3. QED
      BY <2>1, <2>2
  <1>7. CASE Writev(t)
    <2>1. PICK n \in 1..Len(Unsent(wiov[t])) :
             /\ wiov'[t] = Adjust(wiov[t], n)
             /\ wire'[t] = IF closed[t] THEN wire[t] ELSE Take(wire[t], SubSeq(Unsent(wiov[t]), 1, n))
             /\ UNCHANGED <<fd, closed>>
      BY <1>7, WritevMoves
    <2>2. CASE closed[t]
      BY <2>1, <2>2 DEF Parsed
    <2>3. CASE ~closed[t]
      <3>1. fd[t]
        BY <1>7, SckHasFd DEF Writev, TsvrStands
      <3>2. wire[t].framed /\ wire[t].part = Rest(wiov[t])
        BY <2>3, <3>1 DEF Parsed
      <3>3. wire'[t].framed /\ wire'[t].part = Rest(Adjust(wiov[t], n))
        BY <1>0a, <2>1, <2>3, <3>2, TakeItems
      <3>4. QED
        BY <2>1, <3>3 DEF Parsed
    <2>4. QED
      BY <2>2, <2>3
  <1>8. CASE ServerCloses(t)
    BY <1>8 DEF ServerCloses, LinksOK, Parsed
  <1>9. QED
    BY <1>1, <1>2, <1>3, <1>4, <1>5, <1>6, <1>7, <1>8, StepKinds

LEMMA WireNext == PInv /\ WireInv /\ [Next]_vars => WireInv'
  <1> SUFFICES ASSUME PInv, WireInv, [Next]_vars PROVE WireInv'
    OBVIOUS
  <1>1. CASE UNCHANGED vars
    BY <1>1 DEF WireInv, Parsed, Rest, vars, kvars
  <1>2. ASSUME NEW c \in Callers, CallerStep(c) PROVE WireInv'
    <2>1. UNCHANGED <<fd, closed, wire, wiov>>
      BY <1>2 DEF CallerStep, Alloc, Push, Notify, kvars
    <2>2. QED
      BY <2>1 DEF WireInv, Parsed, Rest
  <1>3. ASSUME NEW t \in Tsvr, TsvrStep(t) \/ Environment(t) PROVE WireInv'
    <2>1. Parsed(t)'
      BY <1>3, ParsedStep DEF WireInv
    <2>2. Apart(t)
      BY <1>3, StepsApart DEF PInv
    <2>3. \A u \in Tsvr \ {t} : Parsed(u)'
      BY <2>2 DEF Apart, WireInv, Parsed, Rest
    <2>4. QED
      BY <2>1, <2>3 DEF WireInv
  <1>4. QED
    BY <1>1, <1>2, <1>3 DEF Next

\* A server can parse the byte stream of every connection: a short write
\* (wiov_item_adjust) resumes in the message it stopped in, and a new connection
\* starts with a message.
THEOREM StreamFramed == Spec => []Framed
  <1>1. Init => WireInv
    BY DEF Init, WireInv, Parsed, EmptyWire, EmptyWiov, Rest
  <1>2. WireInv => Framed
    BY DEF WireInv, Parsed, Framed
  <1>3. QED
    BY <1>1, <1>2, WireNext, Invariant, PTL DEF Spec

-----------------------------------------------------------------------------
(* The order of what a server gets. *)

\* x may come before y.
R(x, y) ==
    /\ y # AuthReq
    /\ ~(x.kind = "exp" /\ y.kind = "sub")
    /\ x.kind = "exp" /\ y.kind = "exp" /\ x.by = y.by => x.no < y.no

Ordered(s) == \A i, j \in 1..Len(s) : i < j => R(s[i], s[j])
Before(A, B) == \A x \in A, y \in B : R(x, y)

\* The caller of x has not begun it after it pushed it.
Old(x) == x.kind = "exp" => /\ x.no <= made[x.by]
                            /\ cpc[x.by] = "push" => x.no < made[x.by]

Open(t) == fd[t] /\ ~closed[t] /\ wiov[t].cnt <= IovMax

\* What is on the way to the server of t: what it has, the write vector, the
\* message list, and the queue.
Flow(t) ==
    LET d == wire[t].done
        s == wiov[t].items
        m == mesg_list[t]
    IN  /\ Ordered(d) /\ (d # <<>> => d[1] = AuthReq)
        /\ Open(t) =>
             /\ Ordered(s) /\ Ordered(m)
             /\ Before(ToSet(d), ToSet(s)) /\ Before(ToSet(d) \cup ToSet(s), ToSet(m))
             /\ Before(ToSet(d) \cup ToSet(s), ToSet(sendq))
             /\ d = <<>> => IF s # <<>> THEN s[1] = AuthReq ELSE m # <<>> /\ m[1] = AuthReq
             /\ \A x \in ToSet(m) : x.kind # "exp"
             /\ \A x \in ToSet(d) \cup ToSet(s) : Old(x)

QueueFlow == Ordered(sendq) /\ \A x \in ToSet(sendq) : Old(x)
OrderInv == QueueFlow /\ \A t \in Tsvr : Flow(t)

LEMMA OrderedCut ==
    ASSUME NEW S, NEW s \in Seq(S), Ordered(s), NEW k \in 0..Len(s)
    PROVE  /\ Ordered(SubSeq(s, 1, k)) /\ Ordered(SubSeq(s, k + 1, Len(s)))
           /\ Before(ToSet(SubSeq(s, 1, k)), ToSet(SubSeq(s, k + 1, Len(s))))
  <1> DEFINE a == SubSeq(s, 1, k)
             b == SubSeq(s, k + 1, Len(s))
  <1>1. /\ a \in Seq(S) /\ Len(a) = k /\ b \in Seq(S) /\ Len(b) = Len(s) - k
        /\ \A i \in 1..k : i \in 1..Len(s) /\ a[i] = s[i]
        /\ \A i \in 1..(Len(s) - k) : k + i \in 1..Len(s) /\ b[i] = s[k + i]
    BY Cut
  <1> HIDE DEF a, b
  <1>2. Len(s) \in Nat /\ k \in Nat
    BY Elems
  <1>3. Ordered(a)
    BY <1>1 DEF Ordered
  <1>4. Ordered(b)
    <2> SUFFICES ASSUME NEW i \in 1..Len(b), NEW j \in 1..Len(b), i < j PROVE R(b[i], b[j])
      BY DEF Ordered
    <2>1. /\ k + i \in 1..Len(s) /\ b[i] = s[k + i]
          /\ k + j \in 1..Len(s) /\ b[j] = s[k + j]
      BY <1>1
    <2>2. k + i < k + j
      BY <1>1, <1>2
    <2>3. QED
      BY <2>1, <2>2 DEF Ordered
  <1>5. ASSUME NEW i \in 1..Len(a), NEW j \in 1..Len(b) PROVE R(a[i], b[j])
    <2>1. /\ i \in 1..Len(s) /\ a[i] = s[i] /\ k + j \in 1..Len(s) /\ b[j] = s[k + j]
      BY <1>1
    <2>2. i < k + j
      BY <1>1, <1>2
    <2>3. QED
      BY <2>1, <2>2 DEF Ordered
  <1>6. Before(ToSet(a), ToSet(b))
    <2> SUFFICES ASSUME NEW x \in ToSet(a), NEW y \in ToSet(b) PROVE R(x, y)
      BY DEF Before
    <2>1. PICK i \in 1..Len(a) : x = a[i]
      BY <1>1, Elems
    <2>2. PICK j \in 1..Len(b) : y = b[j]
      BY <1>1, Elems
    <2>3. QED
      BY <1>5, <2>1, <2>2
  <1>7. QED
    BY <1>3, <1>4, <1>6 DEF a, b

LEMMA OrderedJoin ==
    ASSUME NEW S, NEW s \in Seq(S), NEW t \in Seq(S), Ordered(s), Ordered(t),
           Before(ToSet(s), ToSet(t))
    PROVE  Ordered(s \o t)
  <1> DEFINE u == s \o t
  <1>1. /\ u \in Seq(S) /\ Len(u) = Len(s) + Len(t)
        /\ \A i \in 1..Len(s) : u[i] = s[i]
        /\ \A i \in 1..Len(u) : i \in 1..Len(s) \/ \E j \in 1..Len(t) : i = Len(s) + j /\ u[i] = t[j]
    BY Join
  <1> HIDE DEF u
  <1>2. Len(s) \in Nat /\ Len(t) \in Nat
    BY Elems
  <1>3. ASSUME NEW i \in 1..Len(u), NEW j \in 1..Len(u), i < j PROVE R(u[i], u[j])
    <2>1. CASE j \in 1..Len(s)
      <3>1. i \in 1..Len(s)
        BY <1>1, <1>2, <1>3, <2>1
      <3>2. QED
        BY <1>1, <1>3, <2>1, <3>1 DEF Ordered
    <2>2. CASE \E y \in 1..Len(t) : j = Len(s) + y /\ u[j] = t[y]
      <3>1. PICK y \in 1..Len(t) : j = Len(s) + y /\ u[j] = t[y]
        BY <2>2
      <3>2. CASE i \in 1..Len(s)
        <4>1. u[i] \in ToSet(s) /\ u[j] \in ToSet(t)
          BY <1>1, <3>1, <3>2, Elems
        <4>2. QED
          BY <4>1 DEF Before
      <3>3. CASE \E x \in 1..Len(t) : i = Len(s) + x /\ u[i] = t[x]
        <4>1. PICK x \in 1..Len(t) : i = Len(s) + x /\ u[i] = t[x]
          BY <3>3
        <4>2. x < y
          BY <1>2, <1>3, <3>1, <4>1
        <4>3. QED
          BY <3>1, <4>1, <4>2 DEF Ordered
      <3>4. QED
        BY <1>1, <3>2, <3>3
    <2>3. QED
      BY <1>1, <2>1, <2>2
  <1>4. QED
    BY <1>3 DEF Ordered, u

LEMMA OrderedAppend ==
    ASSUME NEW S, NEW s \in Seq(S), NEW m \in S, Ordered(s), \A x \in ToSet(s) : R(x, m)
    PROVE  Ordered(Append(s, m))
  <1> DEFINE t == Append(s, m)
  <1>1. /\ t \in Seq(S) /\ Len(t) = Len(s) + 1
        /\ \A i \in 1..Len(s) : t[i] = s[i]
        /\ t[Len(s) + 1] = m
        /\ \A i \in 1..(Len(s) + 1) : i \in 1..Len(s) \/ i = Len(s) + 1
        /\ Len(s) \in Nat
    BY AppendElems, Elems
  <1> HIDE DEF t
  <1>2. ASSUME NEW i \in 1..Len(t), NEW j \in 1..Len(t), i < j PROVE R(t[i], t[j])
    <2>1. i \in 1..Len(s)
      BY <1>1, <1>2
    <2>2. CASE j \in 1..Len(s)
      BY <1>1, <1>2, <2>1, <2>2 DEF Ordered
    <2>3. CASE j = Len(s) + 1
      <3>1. s[i] \in ToSet(s)
        BY <2>1, Elems
      <3>2. QED
        BY <1>1, <2>1, <2>3, <3>1
    <2>4. QED
      BY <1>1, <2>2, <2>3
  <1>3. QED
    BY <1>2 DEF Ordered, t

\* The first entry of a sequence that grows at its end stays the first.
LEMMA FirstKept ==
    ASSUME NEW S, NEW s \in Seq(S), s # <<>>, NEW t \in Seq(S)
    PROVE  s \o t # <<>> /\ (s \o t)[1] = s[1]
  <1>1. /\ Len(s \o t) = Len(s) + Len(t) /\ Len(s) \in Nat /\ Len(t) \in Nat /\ 1 \in 1..Len(s)
        /\ \A i \in 1..Len(s) : (s \o t)[i] = s[i]
    BY Join, Elems, HeadTail
  <1>2. Len(s \o t) # 0
    BY <1>1
  <1>3. QED
    BY <1>1, <1>2, NoElems

\* e is d and what follows it of the first k entries of s, in order.
Continues(d, s, k, e) ==
    Ordered(d) /\ Ordered(s) /\ Before(ToSet(d), ToSet(s))
    /\ (d # <<>> => d[1] = AuthReq) /\ (d = <<>> /\ s # <<>> => s[1] = AuthReq)
    => /\ Ordered(e) /\ (e # <<>> => e[1] = AuthReq)
       /\ e = <<>> => d = <<>> /\ k = 0

\* What a server gets of a vector keeps the order.
LEMMA OrderGot ==
    ASSUME NEW d \in Seq(Mesgs), NEW s \in Seq(Mesgs), NEW K \in 0..Len(s),
           NEW D \in [0..K -> Seq(Mesgs)], D[0] = d,
           \A q \in 1..K : D[q] = IF s[q] = KpReq THEN D[q - 1] ELSE Append(D[q - 1], s[q])
    PROVE  /\ ToSet(D[K]) \subseteq ToSet(d) \cup ToSet(SubSeq(s, 1, K))
           /\ Continues(d, s, K, D[K])
  <1> DEFINE From(q) == \A x \in ToSet(D[q]) : x \in ToSet(d) \/ \E i \in 1..q : x = s[i]
             Good(q) == /\ Ordered(D[q]) /\ (D[q] # <<>> => D[q][1] = AuthReq)
                        /\ D[q] = <<>> => d = <<>> /\ q = 0
             Given == /\ Ordered(d) /\ Ordered(s) /\ Before(ToSet(d), ToSet(s))
                      /\ (d # <<>> => d[1] = AuthReq) /\ (d = <<>> /\ s # <<>> => s[1] = AuthReq)
             P(q) == From(q) /\ (Given => Good(q))
  <1>1. Len(s) \in Nat /\ K \in Nat /\ \A q \in 1..K : q \in 1..Len(s) /\ s[q] \in Mesgs /\ s[q] \in ToSet(s)
    BY Elems
  <1>2. P(0)
    OBVIOUS
  <1>3. ASSUME NEW q \in 1..K, P(q - 1) PROVE P(q)
    <2> DEFINE c == D[q - 1]
               m == s[q]
    <2>1. /\ D[q] = IF m = KpReq THEN c ELSE Append(c, m)
          /\ q \in Nat /\ q - 1 \in Nat /\ q - 1 \in 0..K /\ c \in Seq(Mesgs) /\ m \in Mesgs /\ m \in ToSet(s)
      BY <1>1
    <2>2. From(q - 1) /\ (Given => Good(q - 1))
      BY <1>3
    <2>3. \A i \in 1..(q - 1) : i \in 1..q /\ i < q /\ i \in 1..Len(s)
      BY <1>1
    <2>4. q \in 1..q /\ q \in 1..Len(s)
      BY <1>1
    <2> HIDE DEF c
    <2>5. ToSet(D[q]) \subseteq ToSet(c) \cup {m}
      BY <2>1, AppendElems
    <2>6. From(q)
      BY <2>2, <2>3, <2>4, <2>5 DEF c
    <2>7. ASSUME Given PROVE Good(q)
      <3>1. /\ Ordered(c) /\ (c # <<>> => c[1] = AuthReq)
            /\ c = <<>> => d = <<>> /\ q = 1
        BY <2>1, <2>2, <2>7 DEF c
      <3>2. c = <<>> => m = AuthReq
        <4>1. s # <<>>
          BY <2>4, NoElems
        <4>2. QED
          BY <2>7, <3>1, <4>1
      <3>3. CASE m = KpReq
        <4>1. c # <<>> /\ D[q] = c
          BY <2>1, <3>2, <3>3, Kinds
        <4>2. QED
          BY <3>1, <4>1
      <3>4. CASE m # KpReq
        <4>1. D[q] = Append(c, m)
          BY <2>1, <3>4
        <4>2. \A x \in ToSet(c) : R(x, m)
          <5> SUFFICES ASSUME NEW x \in ToSet(c) PROVE R(x, m)
            OBVIOUS
          <5>1. CASE x \in ToSet(d)
            BY <2>1, <2>7, <5>1 DEF Before
          <5>2. CASE \E i \in 1..(q - 1) : x = s[i]
            BY <2>3, <2>4, <2>7, <5>2 DEF Ordered
          <5>3. QED
            BY <2>2, <5>1, <5>2 DEF c
        <4>3. Ordered(D[q])
          BY <2>1, <3>1, <4>1, <4>2, OrderedAppend
        <4>4. D[q] # <<>> /\ D[q][1] = AuthReq
          <5>1. /\ Len(Append(c, m)) = Len(c) + 1 /\ Len(c) \in Nat
                /\ \A i \in 1..Len(c) : Append(c, m)[i] = c[i]
                /\ Append(c, m)[Len(c) + 1] = m
            BY <2>1, AppendElems, Elems
          <5>1a. Len(Append(c, m)) # 0
            BY <5>1
          <5>2. D[q] # <<>>
            BY <4>1, <5>1a, NoElems
          <5>3. CASE c = <<>>
            <6>1. Len(c) + 1 = 1
              BY <5>3, NoElems
            <6>2. QED
              BY <3>2, <4>1, <5>1, <5>2, <5>3, <6>1
          <5>4. CASE c # <<>>
            <6>1. 1 \in 1..Len(c)
              BY <2>1, <5>4, HeadTail
            <6>2. QED
              BY <3>1, <4>1, <5>1, <5>2, <5>4, <6>1
          <5>5. QED
            BY <5>3, <5>4
        <4>5. QED
          BY <4>3, <4>4
      <3>5. QED
        BY <3>3, <3>4
    <2> HIDE DEF From, Good, Given
    <2>8. QED
      BY <2>6, <2>7
  <1>4. P(K)
    <2> DEFINE Bad == {q \in 0..K : ~P(q)}
    <2> HIDE DEF P
    <2> SUFFICES ASSUME Bad # {} PROVE FALSE
      BY <1>1
    <2>1. Bad \in SUBSET Nat
      BY <1>1
    <2>2. PICK q \in Bad : \A j \in Bad : q <= j
      <3> HIDE DEF Bad
      <3>1. QED
        BY <2>1, LeastOf
    <2>3. q \in 1..K
      BY <1>1, <1>2, <2>2
    <2>4. q - 1 \in 0..K /\ q - 1 \notin Bad
      BY <1>1, <2>2, <2>3
    <2>5. QED
      BY <1>3, <2>2, <2>3, <2>4
  <1>5. ASSUME NEW i \in 1..K PROVE s[i] \in ToSet(SubSeq(s, 1, K))
    <2> DEFINE a == SubSeq(s, 1, K)
    <2>1. a \in Seq(Mesgs) /\ Len(a) = K /\ a[i] = s[i]
      BY Cut
    <2> HIDE DEF a
    <2>2. a[i] \in ToSet(a)
      BY <2>1, Elems
    <2>3. QED
      BY <2>1, <2>2 DEF a
  <1>6. QED
    BY <1>4, <1>5 DEF Continues

\* What is Old stays Old, and what is pushed comes after it.
LEMMA OldKept ==
    ASSUME PInv, NEW c \in Callers, CallerStep(c), NEW x \in Mesgs, Old(x)
    PROVE  Old(x)'
  <1>1. CASE x.kind # "exp"
    BY <1>1 DEF Old
  <1>2. CASE x.kind = "exp"
    <2>1. x.by \in Callers /\ x.no \in Nat
      BY <1>2, Kinds DEF Exps
    <2>2. /\ made \in [Callers -> 0..MaxSend] /\ cpc \in [Callers -> {"idle", "push", "notify"}]
      BY DEF PInv, Typed
    <2>3. x.no <= made[x.by] /\ (cpc[x.by] = "push" => x.no < made[x.by])
      BY <1>2 DEF Old
    <2>4. CASE Alloc(c)
      <3>1. made' = [made EXCEPT ![c] = @ + 1] /\ cpc' = [cpc EXCEPT ![c] = "push"] /\ cpc[c] = "idle"
        BY <2>4 DEF Alloc
      <3>2. made[x.by] \in Nat
        BY <2>1, <2>2, Bounds
      <3>3. x.no <= made'[x.by] /\ (cpc'[x.by] = "push" => x.no < made'[x.by])
        BY <2>1, <2>2, <2>3, <3>1, <3>2
      <3>4. QED
        BY <3>3 DEF Old
    <2>5. CASE Push(c) \/ Notify(c)
      <3>1. made' = made /\ \E w \in {"idle", "notify"} : cpc' = [cpc EXCEPT ![c] = w]
        BY <2>5 DEF Push, Notify
      <3>2. x.no <= made'[x.by] /\ (cpc'[x.by] = "push" => x.no < made'[x.by])
        BY <2>1, <2>2, <2>3, <3>1
      <3>3. QED
        BY <3>2 DEF Old
    <2>6. QED
      BY <2>4, <2>5 DEF CallerStep
  <1>3. QED
    BY <1>1, <1>2

LEMMA OrderCaller ==
    ASSUME PInv, OrderInv, NEW c \in Callers, CallerStep(c)
    PROVE  OrderInv'
  <1>1. UNCHANGED <<fd, closed, wiov, wire, mesg_list>>
    BY DEF CallerStep, Alloc, Push, Notify, kvars
  <1>2. sendq \in Seq(Exps) /\ made \in [Callers -> 0..MaxSend]
        /\ cpc \in [Callers -> {"idle", "push", "notify"}]
    BY DEF PInv, Typed
  <1>3. \A x \in Mesgs : Old(x) => Old(x)'
    BY OldKept
  <1>3a. PICK m : m = Msg(c, made[c])
    OBVIOUS
  <1>4. CASE sendq' = sendq
    <2>1. QueueFlow'
      <3>1. ToSet(sendq) \subseteq Mesgs
        BY <1>2, Elems, Kinds
      <3>2. QED
        BY <1>3, <1>4, <3>1 DEF OrderInv, QueueFlow, Ordered
    <2>2. ASSUME NEW t \in Tsvr PROVE Flow(t)'
      <3>1. ToSet(wire[t].done) \subseteq Mesgs /\ ToSet(wiov[t].items) \subseteq Mesgs
        BY ThreadFacts, Elems DEF Wires
      <3>2. Flow(t)
        BY DEF OrderInv
      <3> DEFINE A == ToSet(wire[t].done) \cup ToSet(wiov[t].items)
      <3>3. (\A x \in A : Old(x)) => \A x \in A : Old(x)'
        BY <1>3, <3>1
      <3>4. QED
        BY <1>1, <1>4, <3>2, <3>3 DEF Flow, Open
    <2>3. QED
      BY <2>1, <2>2 DEF OrderInv
  <1>5. CASE sendq' = Append(sendq, m) /\ Push(c) /\ made' = made /\ cpc' = [cpc EXCEPT ![c] = "notify"]
    <2>1. m \in Exps /\ m.kind = "exp" /\ m.by = c /\ m.no = made[c] /\ m \in Mesgs /\ cpc[c] = "push"
      <3>1. made[c] \in 1..MaxSend /\ cpc[c] = "push"
        BY <1>5 DEF Push, PInv, Stands, CallerStands
      <3>2. QED
        BY <1>3a, <3>1, Kinds DEF Msg, Exps
    <2>2. ASSUME NEW x \in Mesgs, Old(x) PROVE R(x, m)
      <3>1. m # AuthReq /\ m.kind # "sub"
        BY <2>1, Kinds
      <3>2. x.kind = "exp" /\ x.by = m.by => x.no < m.no
        BY <2>1, <2>2 DEF Old
      <3>3. QED
        BY <3>1, <3>2 DEF R
    <2>3. Old(m)'
      <3>1. cpc'[c] # "push" /\ made[c] <= made[c]
        BY <1>2, <1>5, Bounds
      <3>2. QED
        BY <1>5, <2>1, <3>1 DEF Old
    <2>4. sendq' \in Seq(Exps) /\ ToSet(sendq') = ToSet(sendq) \cup {m} /\ ToSet(sendq) \subseteq Mesgs
      BY <1>2, <1>5, <2>1, AppendElems, Elems, Kinds
    <2>5. QueueFlow'
      <3>1. Ordered(sendq')
        <4>1. \A x \in ToSet(sendq) : R(x, m)
          BY <2>2, <2>4 DEF OrderInv, QueueFlow
        <4>2. Ordered(sendq)
          BY DEF OrderInv, QueueFlow
        <4>3. Ordered(Append(sendq, m))
          BY <1>2, <2>1, <4>1, <4>2, OrderedAppend
        <4>4. QED
          BY <1>5, <4>3
      <3>2. \A x \in ToSet(sendq') : Old(x)'
        BY <1>3, <2>3, <2>4 DEF OrderInv, QueueFlow
      <3>3. QED
        BY <3>1, <3>2 DEF QueueFlow, Ordered
    <2>6. ASSUME NEW t \in Tsvr PROVE Flow(t)'
      <3>1. ToSet(wire[t].done) \subseteq Mesgs /\ ToSet(wiov[t].items) \subseteq Mesgs
        BY ThreadFacts, Elems DEF Wires
      <3>2. Flow(t)
        BY DEF OrderInv
      <3> DEFINE A == ToSet(wire[t].done) \cup ToSet(wiov[t].items)
      <3>3. (\A x \in A : Old(x)) => \A x \in A : Old(x)'
        BY <1>3, <3>1
      <3>4. (\A x \in A : Old(x)) /\ Before(A, ToSet(sendq)) => Before(A, ToSet(sendq'))
        BY <2>2, <2>4, <3>1 DEF Before
      <3>5. QED
        BY <1>1, <3>2, <3>3, <3>4 DEF Flow, Open
    <2>7. QED
      BY <2>5, <2>6 DEF OrderInv
  <1>6. QED
    BY <1>3a, <1>4, <1>5 DEF CallerStep, Alloc, Push, Notify

LEMMA OldSame ==
    ASSUME UNCHANGED <<made, cpc>>
    PROVE  \A x : Old(x)' <=> Old(x)
  BY DEF Old

\* Another thread loses nothing when the queue is shortened.
LEMMA FlowApart ==
    ASSUME PInv, NEW t \in Tsvr, TsvrStep(t) \/ Environment(t), NEW u \in Tsvr \ {t}, Flow(u),
           ToSet(sendq') \subseteq ToSet(sendq)
    PROVE  Flow(u)'
  <1>1. /\ fd'[u] = fd[u] /\ mesg_list'[u] = mesg_list[u] /\ wiov'[u] = wiov[u]
        /\ closed'[u] = closed[u] /\ wire'[u] = wire[u]
    BY StepsApart DEF PInv, Apart
  <1>2. \A x : Old(x)' <=> Old(x)
    BY StepKinds, OldSame
  <1>3. Open(u)' <=> Open(u)
    BY <1>1 DEF Open
  <1> DEFINE A == ToSet(wire[u].done) \cup ToSet(wiov[u].items)
  <1>4. Before(A, ToSet(sendq)) => Before(A, ToSet(sendq'))
    BY DEF Before
  <1>5. QED
    BY <1>1, <1>2, <1>3, <1>4 DEF Flow

\* A connection that has just begun.
LEMMA FlowBegins ==
    ASSUME PInv, NEW t \in Tsvr, Reconn(t)
    PROVE  Flow(t)'
  <1> USE ThreadFacts
  <1> DEFINE m == <<AuthReq>> \o SubReqs
  <1>1. wire'[t] = EmptyWire /\ mesg_list'[t] = m /\ wiov'[t] = EmptyWiov
    BY DEF Reconn, LinksOK, TsvrsOK, TsvrStands
  <1>2. wire'[t].done = <<>> /\ wiov'[t].items = <<>>
    BY <1>1 DEF EmptyWire, EmptyWiov
  <1>3. /\ m \in Seq(Mesgs) /\ Len(m) = Len(SubReqs) + 1 /\ Len(SubReqs) \in Nat
        /\ m[1] = AuthReq
        /\ \A i \in 1..Len(m) : i # 1 => m[i].kind = "sub"
    BY FirstRequests, SubReqsAre, Elems
  <1> HIDE DEF m
  <1>4. m # <<>>
    <2>1. Len(m) # 0
      BY <1>3
    <2>2. QED
      BY <2>1, NoElems
  <1>5. \A i \in 1..Len(m) : m[i].kind # "exp" /\ (i # 1 => m[i] # AuthReq)
    BY <1>3, Kinds
  <1>6. Ordered(m)
    <2> SUFFICES ASSUME NEW i \in 1..Len(m), NEW j \in 1..Len(m), i < j PROVE R(m[i], m[j])
      BY DEF Ordered
    <2>1. j # 1
      BY <1>3
    <2>2. QED
      BY <1>5, <2>1 DEF R
  <1>7. \A x \in ToSet(m) : x.kind # "exp"
    <2>1. \A x \in ToSet(m) : \E i \in 1..Len(m) : x = m[i]
      BY <1>3, Elems
    <2>2. QED
      BY <1>5, <2>1
  <1>8. Ordered(<<>>) /\ ToSet(<<>>) = {}
    BY NoElems DEF Ordered
  <1>9. QED
    BY <1>1, <1>2, <1>3, <1>4, <1>6, <1>7, <1>8 DEF Flow, Before

\* The message list moves to the end of the vector.
LEMMA FlowSendData ==
    ASSUME PInv, NEW t \in Tsvr, wiov[t].cnt <= IovMax, SendData(t), Flow(t)
    PROVE  Flow(t)'
  <1> USE ThreadFacts
  <1> DEFINE d == wire[t].done
             s == wiov[t].items
             list == mesg_list[t]
             k == Taken(t)
             a == SubSeq(list, 1, k)
             b == SubSeq(list, k + 1, Len(list))
             u == s \o a
  <1>1. /\ k \in 0..Len(list)
        /\ a \in Seq(Mesgs) /\ b \in Seq(Mesgs) /\ Len(b) = Len(list) - k
        /\ wiov'[t].items = u /\ mesg_list'[t] = b
        /\ UNCHANGED <<sendq, fd, closed, wire>>
    BY SendDataMoves
  <1>2. d \in Seq(Mesgs) /\ s \in Seq(Mesgs) /\ list \in Seq(Mesgs)
    BY DEF Wires
  <1>3. Ordered(d) /\ (d # <<>> => d[1] = AuthReq)
    BY DEF Flow
  <1>4. \A x : Old(x)' <=> Old(x)
    BY OldSame DEF SendData, cvars
  <1>5. ASSUME Open(t)
        PROVE  /\ Ordered(u) /\ Ordered(b)
               /\ Before(ToSet(d), ToSet(u)) /\ Before(ToSet(d) \cup ToSet(u), ToSet(b))
               /\ Before(ToSet(d) \cup ToSet(u), ToSet(sendq))
               /\ d = <<>> => IF u # <<>> THEN u[1] = AuthReq ELSE b # <<>> /\ b[1] = AuthReq
               /\ \A x \in ToSet(b) : x.kind # "exp"
               /\ \A x \in ToSet(d) \cup ToSet(u) : Old(x)
    <2>1. /\ Ordered(s) /\ Ordered(list)
          /\ Before(ToSet(d), ToSet(s)) /\ Before(ToSet(d) \cup ToSet(s), ToSet(list))
          /\ Before(ToSet(d) \cup ToSet(s), ToSet(sendq))
          /\ d = <<>> => IF s # <<>> THEN s[1] = AuthReq ELSE list # <<>> /\ list[1] = AuthReq
          /\ \A x \in ToSet(list) : x.kind # "exp"
          /\ \A x \in ToSet(d) \cup ToSet(s) : Old(x)
      BY <1>5 DEF Flow
    <2> HIDE DEF k
    <2>2. /\ Ordered(a) /\ Ordered(b) /\ Before(ToSet(a), ToSet(b))
          /\ ToSet(a) \cup ToSet(b) = ToSet(list)
      BY <1>1, <1>2, <2>1, OrderedCut, CutElems
    <2>3. (a = <<>> /\ b = list) \/ (a # <<>> /\ (list # <<>> => a[1] = list[1]))
      <3>1. CASE k = 0
        <4>1. Len(a) = 0 /\ Len(list) \in Nat
          BY <1>1, <1>2, <3>1, Cut, Elems
        <4>2. a = <<>>
          BY <1>1, <4>1, Elems
        <4>3. /\ Len(b) = Len(list)
              /\ \A i \in 1..Len(list) : b[i] = list[i]
          <5>1. \A i \in 1..(Len(list) - k) : b[i] = list[k + i]
            BY SMTT(40), <1>1, <1>2, Cut
          <5>2. \A i \in 1..Len(list) : i \in 1..(Len(list) - k) /\ k + i = i
            BY <3>1, <4>1
          <5>3. Len(b) = Len(list)
            BY <1>1, <3>1, <4>1
          <5>4. QED
            BY <5>1, <5>2, <5>3
        <4> HIDE DEF b
        <4>4. b = list
          BY SMTT(40), <1>1, <1>2, <4>3, SeqEqual
        <4>5. QED
          BY <4>2, <4>4
      <3>2. CASE k # 0
        <4>1. Len(a) = k /\ k \in Nat
          BY <1>1, <1>2, Cut, Elems
        <4>2. a # <<>>
          BY <3>2, <4>1, NoElems
        <4>3. 1 \in 1..k
          BY <3>2, <4>1
        <4>4. a[1] = list[1]
          BY <1>1, <1>2, <4>3, Cut
        <4>5. QED
          BY <4>2, <4>4
      <3>3. QED
        BY <3>1, <3>2
    <2> HIDE DEF a, b
    <2>4. Before(ToSet(s), ToSet(a))
      BY <2>1, <2>2 DEF Before
    <2>5. Ordered(u)
      BY <1>1, <1>2, <2>1, <2>2, <2>4, OrderedJoin
    <2>6. ToSet(u) = ToSet(s) \cup ToSet(a)
      BY <1>1, <1>2, JoinElems
    <2>7. d = <<>> => IF u # <<>> THEN u[1] = AuthReq ELSE b # <<>> /\ b[1] = AuthReq
      <3>1. CASE s # <<>>
        <4>1. u # <<>> /\ u[1] = s[1]
          BY <1>1, <1>2, <3>1, FirstKept
        <4>2. QED
          BY <2>1, <3>1, <4>1
      <3>2. CASE s = <<>>
        <4>1. u = a
          BY <1>1, <3>2
        <4>2. QED
          BY <2>1, <2>3, <3>2, <4>1
      <3>3. QED
        BY <3>1, <3>2
    <2> HIDE DEF u
    <2>8. \A x \in ToSet(a) : x.kind # "exp" /\ Old(x)
      BY <2>1, <2>2 DEF Old
    <2>9. Before(ToSet(a), ToSet(sendq))
      <3> SUFFICES ASSUME NEW x \in ToSet(a), NEW y \in ToSet(sendq) PROVE R(x, y)
        BY DEF Before
      <3>1. y \in Exps
        BY Elems DEF Typed
      <3>2. y # AuthReq
        BY <3>1, Kinds
      <3>3. QED
        BY <2>8, <3>2 DEF R
    <2>10. Before(ToSet(d), ToSet(u)) /\ Before(ToSet(d) \cup ToSet(u), ToSet(b))
      BY <2>1, <2>2, <2>6 DEF Before
    <2>11. Before(ToSet(d) \cup ToSet(u), ToSet(sendq))
      BY <2>1, <2>6, <2>9 DEF Before
    <2>12. /\ \A x \in ToSet(b) : x.kind # "exp"
           /\ \A x \in ToSet(d) \cup ToSet(u) : Old(x)
      BY <2>1, <2>2, <2>6, <2>8
    <2>13. QED
      BY <2>2, <2>5, <2>7, <2>10, <2>11, <2>12
  <1>6. Open(t)' => Open(t)
    BY <1>1 DEF Open
  <1> HIDE DEF d, u, b
  <1>7. QED
    BY <1>1, <1>3, <1>4, <1>5, <1>6 DEF Flow, d

\* Messages of the queue move to the end of the vector.  The message list is empty
\* then, or the vector is full and is overrun.
LEMMA FlowMpop ==
    ASSUME PInv, NEW t \in Tsvr, Mpop(t), Flow(t), QueueFlow
    PROVE  Flow(t)' /\ QueueFlow' /\ ToSet(sendq') \subseteq ToSet(sendq)
  <1> USE ThreadFacts
  <1>0. \A x : Old(x)' <=> Old(x)
    BY OldSame DEF Mpop, cvars
  <1>0a. sendq \in Seq(Exps)
    BY DEF Typed
  <1>1. CASE ~(num[t] <= Len(sendq))
    <2>1. UNCHANGED <<sendq, wiov, wire, mesg_list, fd, closed>>
      BY <1>1 DEF Mpop, kvars
    <2>2. QED
      BY <1>0, <2>1 DEF Flow, Open, QueueFlow, Ordered
  <1>2. CASE num[t] <= Len(sendq)
    <2> DEFINE d == wire[t].done
               s == wiov[t].items
               m == mesg_list[t]
               n == num[t]
               a == SubSeq(sendq, 1, n)
               b == SubSeq(sendq, n + 1, Len(sendq))
               u == s \o a
    <2>1. /\ n \in 0..Len(sendq) /\ n # 0
          /\ a \in Seq(Exps) /\ a \in Seq(Mesgs) /\ b \in Seq(Exps) /\ Len(a) = n
          /\ wiov'[t].items = u /\ wiov'[t].cnt = wiov[t].cnt + n
          /\ sendq' = b
          /\ UNCHANGED <<mesg_list, fd, closed, wire>>
      BY <1>2, MpopMoves
    <2>2. d \in Seq(Mesgs) /\ s \in Seq(Mesgs) /\ m \in Seq(Mesgs)
      BY DEF Wires
    <2> HIDE DEF n
    <2>3. /\ Ordered(a) /\ Ordered(b) /\ Before(ToSet(a), ToSet(b))
          /\ ToSet(a) \cup ToSet(b) = ToSet(sendq)
      BY <1>0a, <2>1, OrderedCut, CutElems DEF QueueFlow
    <2> HIDE DEF a, b
    <2>4. QueueFlow' /\ ToSet(sendq') \subseteq ToSet(sendq)
      <3>1. Ordered(sendq') /\ \A x \in ToSet(sendq') : Old(x)'
        BY <1>0, <2>1, <2>3 DEF QueueFlow
      <3>2. QED
        BY <2>1, <2>3, <3>1 DEF QueueFlow, Ordered
    <2>5. Ordered(d) /\ (d # <<>> => d[1] = AuthReq)
      BY DEF Flow
    <2>6. ASSUME Open(t)'
          PROVE  /\ Ordered(u) /\ Ordered(m)
                 /\ Before(ToSet(d), ToSet(u)) /\ Before(ToSet(d) \cup ToSet(u), ToSet(m))
                 /\ Before(ToSet(d) \cup ToSet(u), ToSet(b))
                 /\ d = <<>> => IF u # <<>> THEN u[1] = AuthReq ELSE m # <<>> /\ m[1] = AuthReq
                 /\ \A x \in ToSet(m) : x.kind # "exp"
                 /\ \A x \in ToSet(d) \cup ToSet(u) : Old(x)
      <3>1. Open(t) /\ m = <<>>
        <4>1. wiov[t].cnt + n <= IovMax /\ fd[t] /\ ~closed[t]
          BY <2>1, <2>6 DEF Open
        <4>2. wiov[t].cnt \in Nat /\ n \in Nat /\ IovMax \in Nat
          BY <1>0a, <2>1, Elems, Bounds
        <4>3. wiov[t].cnt < IovMax
          BY <2>1, <4>1, <4>2
        <4>4. Open(t)
          BY <4>1, <4>2, <4>3 DEF Open
        <4>5. m = <<>>
          BY <4>2, <4>3 DEF Mpop, TsvrStands
        <4>6. QED
          BY <4>4, <4>5
      <3>2. /\ Ordered(s) /\ Ordered(m)
            /\ Before(ToSet(d), ToSet(s))
            /\ Before(ToSet(d) \cup ToSet(s), ToSet(sendq))
            /\ d = <<>> => s # <<>> /\ s[1] = AuthReq
            /\ \A x \in ToSet(d) \cup ToSet(s) : Old(x)
        BY <3>1 DEF Flow
      <3>3. ToSet(m) = {}
        BY <3>1, NoElems
      <3>4. Before(ToSet(s), ToSet(a))
        BY <2>3, <3>2 DEF Before
      <3>5. Ordered(u)
        BY <2>1, <2>2, <2>3, <3>2, <3>4, OrderedJoin
      <3>6. ToSet(u) = ToSet(s) \cup ToSet(a)
        BY <2>1, <2>2, JoinElems
      <3>7. d = <<>> => u # <<>> /\ u[1] = AuthReq
        BY <2>1, <2>2, <3>2, FirstKept
      <3> HIDE DEF u
      <3>8. \A x \in ToSet(d) \cup ToSet(u) : Old(x)
        BY <2>3, <3>2, <3>6 DEF QueueFlow
      <3>9. Before(ToSet(d), ToSet(u)) /\ Before(ToSet(d) \cup ToSet(u), ToSet(b))
        BY <2>3, <3>2, <3>6 DEF Before
      <3>10. QED
        BY <3>2, <3>3, <3>5, <3>7, <3>8, <3>9 DEF Before
    <2> HIDE DEF d, u, m
    <2>7. Flow(t)'
      BY <1>0, <2>1, <2>5, <2>6 DEF Flow, d, m
    <2>8. QED
      BY <2>4, <2>7
  <1>3. QED
    BY <1>1, <1>2

\* What the server gets of the vector.
LEMMA WritevGets ==
    ASSUME PInv, WireInv, NEW t \in Tsvr, Writev(t)
    PROVE  LET s == wiov[t].items
               d == wire[t].done
               e == wire'[t].done
           IN  \E k \in 0..Len(s) :
                  /\ d \in Seq(Mesgs) /\ s \in Seq(Mesgs) /\ e \in Seq(Mesgs)
                  /\ wiov'[t].items = SubSeq(s, k + 1, Len(s))
                  /\ free' = free + Blocks(SubSeq(s, 1, k))
                  /\ sent' = sent \cup ExpIn(SubSeq(s, 1, k))
                  /\ UNCHANGED <<sendq, fd, closed, mesg_list, lost>>
                  /\ closed[t] => e = d
                  /\ ToSet(e) \subseteq ToSet(d) \cup ToSet(SubSeq(s, 1, k))
                  /\ ~closed[t] => Continues(d, s, k, e)
  <1> USE ThreadFacts
  <1> DEFINE w == wiov[t]
             s == w.items
             d == wire[t].done
             e == wire'[t].done
  <1>1. PICK n \in 1..Len(Unsent(w)) :
           /\ w \in Wiovs /\ (w.part = 1 => w.items # <<>>)
           /\ (w.part + n) \div 2 \in 0..Len(w.items)
           /\ wiov'[t].items = SubSeq(w.items, (w.part + n) \div 2 + 1, Len(w.items))
           /\ free' = free + Blocks(SubSeq(w.items, 1, (w.part + n) \div 2))
           /\ sent' = sent \cup ExpIn(SubSeq(w.items, 1, (w.part + n) \div 2))
           /\ wire'[t] = IF closed[t] THEN wire[t] ELSE Take(wire[t], SubSeq(Unsent(w), 1, n))
           /\ UNCHANGED <<sendq, fd, closed, mesg_list, lost>>
    BY WritevMoves
  <1> DEFINE k == (w.part + n) \div 2
  <1>2. d \in Seq(Mesgs) /\ s \in Seq(Mesgs) /\ k \in 0..Len(s)
    BY <1>1 DEF Wires
  <1>3. CASE closed[t]
    <2>1. e = d
      BY <1>1, <1>3
    <2> HIDE DEF k, w
    <2>2. QED
      BY <1>1, <1>2, <1>3, <2>1 DEF k, w
  <1>4. CASE ~closed[t]
    <2>1. fd[t]
      BY SckHasFd DEF Writev, TsvrStands
    <2>2. wire[t].framed /\ wire[t].part = Rest(w)
      BY <1>4, <2>1 DEF WireInv, Parsed
    <2> DEFINE z == Take(wire[t], SubSeq(Unsent(w), 1, n))
    <2>3. wire[t] \in Wires /\ wire'[t] = z /\ w \in Wiovs /\ (w.part = 1 => w.items # <<>>)
      BY <1>1, <1>4
    <2>4. \E D \in [0..k -> Seq(Mesgs)] :
             /\ D[0] = wire[t].done /\ D[k] = z.done
             /\ \A q \in 1..k : D[q] = IF s[q] = KpReq THEN D[q - 1] ELSE Append(D[q - 1], s[q])
      BY ZenonT(60), <2>2, <2>3, TakeItems
    <2>5. PICK D \in [0..k -> Seq(Mesgs)] :
                /\ D[0] = d /\ D[k] = e
                /\ \A q \in 1..k : D[q] = IF s[q] = KpReq THEN D[q - 1] ELSE Append(D[q - 1], s[q])
      <3> HIDE DEF z, k
      <3>1. QED
        BY <2>3, <2>4
    <2> HIDE DEF k, s, d, e
    <2>6. e \in Seq(Mesgs)
      <3>1. k \in 0..k
        BY <1>2
      <3>2. QED
        BY <2>5, <3>1
    <2>7. ToSet(e) \subseteq ToSet(d) \cup ToSet(SubSeq(s, 1, k)) /\ Continues(d, s, k, e)
      <3>1. d \in Seq(Mesgs) /\ s \in Seq(Mesgs) /\ k \in 0..Len(s)
        BY <1>2
      <3>2. ToSet(D[k]) \subseteq ToSet(d) \cup ToSet(SubSeq(s, 1, k)) /\ Continues(d, s, k, D[k])
        BY <2>5, <3>1, OrderGot
      <3>3. QED
        BY <2>5, <3>2
    <2>8. QED
      BY <1>1, <1>2, <1>4, <2>6, <2>7 DEF k, s, d, e
  <1>5. QED
    BY <1>3, <1>4

LEMMA FlowWritev ==
    ASSUME PInv, WireInv, NEW t \in Tsvr, wiov[t].cnt <= IovMax, Writev(t), Flow(t)
    PROVE  Flow(t)'
  <1> USE ThreadFacts
  <1> DEFINE d == wire[t].done
             s == wiov[t].items
             m == mesg_list[t]
             e == wire'[t].done
  <1>1. PICK k \in 0..Len(s) :
                  /\ d \in Seq(Mesgs) /\ s \in Seq(Mesgs) /\ e \in Seq(Mesgs)
                  /\ wiov'[t].items = SubSeq(s, k + 1, Len(s))
                  /\ UNCHANGED <<sendq, fd, closed, mesg_list>>
                  /\ closed[t] => e = d
                  /\ ToSet(e) \subseteq ToSet(d) \cup ToSet(SubSeq(s, 1, k))
                  /\ ~closed[t] => Continues(d, s, k, e)
    BY WritevGets
  <1>2. \A x : Old(x)' <=> Old(x)
    BY OldSame DEF Writev, cvars
  <1>3. Ordered(d) /\ (d # <<>> => d[1] = AuthReq)
    BY DEF Flow
  <1>4. CASE closed[t]
    <2>1. e = d /\ ~Open(t)'
      BY <1>1, <1>4 DEF Open
    <2>2. QED
      BY <1>3, <2>1 DEF Flow, d, e
  <1>5. CASE ~closed[t]
    <2>1. fd[t]
      BY SckHasFd DEF Writev, TsvrStands
    <2> DEFINE a == SubSeq(s, 1, k)
               b == SubSeq(s, k + 1, Len(s))
    <2>2. b \in Seq(Mesgs) /\ a \in Seq(Mesgs) /\ Len(b) = Len(s) - k
      BY <1>1, Cut
    <2>3. Open(t)
      BY <1>5, <2>1 DEF Open
    <2>4. QED
      <3>1. /\ Ordered(s) /\ Ordered(m)
            /\ Before(ToSet(d), ToSet(s)) /\ Before(ToSet(d) \cup ToSet(s), ToSet(m))
            /\ Before(ToSet(d) \cup ToSet(s), ToSet(sendq))
            /\ d = <<>> => IF s # <<>> THEN s[1] = AuthReq ELSE m # <<>> /\ m[1] = AuthReq
            /\ \A x \in ToSet(m) : x.kind # "exp"
            /\ \A x \in ToSet(d) \cup ToSet(s) : Old(x)
        BY <2>3 DEF Flow
      <3>2. /\ Ordered(e) /\ (e # <<>> => e[1] = AuthReq)
            /\ e = <<>> => d = <<>> /\ k = 0
        BY <1>1, <1>3, <1>5, <3>1 DEF Continues
      <3>3. /\ Ordered(b) /\ Before(ToSet(a), ToSet(b))
            /\ ToSet(a) \cup ToSet(b) = ToSet(s)
        BY <1>1, <3>1, OrderedCut, CutElems
      <3>4. ToSet(e) \subseteq ToSet(d) \cup ToSet(a)
        BY <1>1
      <3>5. k = 0 => b = s
        <4> SUFFICES ASSUME k = 0 PROVE b = s
          OBVIOUS
        <4>1. Len(s) \in Nat
          BY <1>1, Elems
        <4>2. \A i \in 1..(Len(s) - k) : b[i] = s[k + i]
          BY <1>1, Cut
        <4>3. \A i \in 1..Len(s) : i \in 1..(Len(s) - k) /\ k + i = i
          BY <4>1
        <4>4. Len(b) = Len(s)
          BY <2>2, <4>1
        <4>5. \A i \in 1..Len(s) : b[i] = s[i]
          BY <4>2, <4>3
        <4> HIDE DEF b
        <4>6. QED
          BY <1>1, <2>2, <4>4, <4>5, SeqEqual
      <3> HIDE DEF a, b
      <3>6. e = <<>> => IF b # <<>> THEN b[1] = AuthReq ELSE m # <<>> /\ m[1] = AuthReq
        BY <3>1, <3>2, <3>5
      <3>7. /\ Before(ToSet(e), ToSet(b)) /\ Before(ToSet(e) \cup ToSet(b), ToSet(m))
            /\ Before(ToSet(e) \cup ToSet(b), ToSet(sendq))
            /\ \A x \in ToSet(e) \cup ToSet(b) : Old(x)
        BY <3>1, <3>3, <3>4 DEF Before
      <3>8. wiov'[t].items = b /\ UNCHANGED <<sendq, mesg_list>>
        BY <1>1 DEF b
      <3>9. QED
        BY <1>2, <3>1, <3>2, <3>3, <3>6, <3>7, <3>8 DEF Flow, e, m
  <1>6. QED
    BY <1>4, <1>5

LEMMA FlowAsks ==
    ASSUME PInv, NEW t \in Tsvr, Asks(t), UNCHANGED <<made, cpc>>, Flow(t)
    PROVE  Flow(t)'
  <1> USE ThreadFacts
  <1> DEFINE m == mesg_list[t]
             b == Append(m, KpReq)
  <1>1. UNCHANGED <<sendq, wiov, wire, fd, closed>> /\ mesg_list'[t] = b /\ m \in Seq(Mesgs)
    BY DEF Asks, TsvrsOK
  <1>2. \A x : Old(x)' <=> Old(x)
    BY OldSame
  <1>3. \A x : R(x, KpReq)
    BY Kinds DEF R
  <1>4. Ordered(m) => Ordered(b)
    BY <1>1, <1>3, Kinds, OrderedAppend
  <1>5. ToSet(b) = ToSet(m) \cup {KpReq} /\ b \in Seq(Mesgs) /\ Len(b) = Len(m) + 1 /\ Len(m) \in Nat
    BY <1>1, Kinds, AppendElems, Elems
  <1>6. m # <<>> => b # <<>> /\ b[1] = m[1]
    <2>1. m # <<>> => 1 \in 1..Len(m) /\ b[1] = m[1]
      BY <1>1, HeadTail, AppendElems, Kinds
    <2>2. Len(b) # 0
      BY <1>5
    <2> HIDE DEF b
    <2>3. QED
      BY <2>1, <2>2, NoElems
  <1> HIDE DEF b
  <1>7. KpReq.kind # "exp"
    BY Kinds
  <1>8. Open(t)' <=> Open(t)
    BY <1>1 DEF Open
  <1> DEFINE A == ToSet(wire[t].done) \cup ToSet(wiov[t].items)
  <1>9. Before(A, ToSet(m)) => Before(A, ToSet(b))
    BY <1>3, <1>5 DEF Before
  <1>10. (\A x \in ToSet(m) : x.kind # "exp") => \A x \in ToSet(b) : x.kind # "exp"
    BY <1>5, <1>7
  <1>11. QED
    BY <1>1, <1>2, <1>4, <1>6, <1>8, <1>9, <1>10 DEF Flow

LEMMA OrderTsvr ==
    ASSUME PInv, WireInv, OrderInv, NEW t \in Tsvr, TsvrStep(t) \/ Environment(t)
    PROVE  OrderInv'
  <1> USE ThreadFacts
  <1>1. Flow(t) /\ QueueFlow
    BY DEF OrderInv
  <1>2. wiov[t].cnt <= IovMax /\ UNCHANGED <<made, cpc>>
    BY StepKinds
  <1>3. \A x : Old(x)' <=> Old(x)
    BY <1>2, OldSame
  <1>4. UNCHANGED sendq => QueueFlow' /\ ToSet(sendq') \subseteq ToSet(sendq)
    BY <1>1, <1>3 DEF QueueFlow, Ordered
  <1>5. Flow(t)' /\ QueueFlow' /\ ToSet(sendq') \subseteq ToSet(sendq)
    <2>1. CASE Quiet
      BY <1>1, <1>3, <1>4, <2>1 DEF Quiet, Flow, Open
    <2>2. CASE Asks(t)
      BY <1>1, <1>2, <1>4, <2>2, FlowAsks DEF Asks
    <2>3. CASE Breaks(t)
      <3>1. ~fd'[t] /\ UNCHANGED <<sendq, wire>>
        BY <2>3, Disconnects DEF Breaks
      <3>2. Flow(t)'
        BY <1>1, <3>1 DEF Flow, Open
      <3>3. QED
        BY <1>4, <3>1, <3>2
    <2>4. CASE Reconn(t)
      BY <1>4, <2>4, FlowBegins DEF Reconn
    <2>5. CASE SendData(t)
      BY <1>1, <1>2, <1>4, <2>5, FlowSendData DEF SendData
    <2>6. CASE Mpop(t)
      BY <1>1, <2>6, FlowMpop
    <2>7. CASE Writev(t)
      BY <1>1, <1>2, <1>4, <2>7, FlowWritev DEF Writev
    <2>8. CASE ServerCloses(t)
      <3>1. ~Open(t)'
        BY <2>8 DEF ServerCloses, LinksOK, Open
      <3>2. UNCHANGED <<wire, sendq>>
        BY <2>8 DEF ServerCloses
      <3>3. QED
        BY <1>1, <1>4, <3>1, <3>2 DEF Flow
    <2>9. QED
      BY <2>1, <2>2, <2>3, <2>4, <2>5, <2>6, <2>7, <2>8, StepKinds
  <1>6. \A u \in Tsvr \ {t} : Flow(u)'
    BY <1>5, FlowApart DEF OrderInv
  <1>7. QED
    BY <1>5, <1>6 DEF OrderInv

LEMMA OrderNext == PInv /\ WireInv /\ OrderInv /\ [Next]_vars => OrderInv'
  <1> SUFFICES ASSUME PInv, WireInv, OrderInv, [Next]_vars PROVE OrderInv'
    OBVIOUS
  <1>1. CASE UNCHANGED vars
    <2>1. UNCHANGED <<made, cpc, sendq, fd, closed, wiov, wire, mesg_list>>
      BY <1>1 DEF vars, cvars, kvars
    <2>2. \A x : Old(x)' <=> Old(x)
      BY <2>1, OldSame
    <2>3. QED
      BY <2>1, <2>2 DEF OrderInv, QueueFlow, Ordered, Flow, Open
  <1>2. CASE Next
    BY <1>2, OrderCaller, OrderTsvr DEF Next
  <1>3. QED
    BY <1>1, <1>2

LEMMA OrderInit == Init => OrderInv
  <1> SUFFICES ASSUME Init PROVE OrderInv
    OBVIOUS
  <1>1. QueueFlow
    BY NoElems DEF Init, QueueFlow, Ordered
  <1>2. ASSUME NEW t \in Tsvr PROVE Flow(t)
    <2>1. wire[t].done = <<>> /\ ~fd[t]
      BY DEF Init, EmptyWire
    <2>2. QED
      BY <2>1, NoElems DEF Flow, Open, Ordered
  <1>3. QED
    BY <1>1, <1>2 DEF OrderInv

LEMMA OrderHolds == Spec => [](PInv /\ WireInv /\ OrderInv)
  <1>1. Init => WireInv
    BY DEF Init, WireInv, Parsed, EmptyWire, EmptyWiov, Rest
  <1>2. QED
    BY <1>1, WireNext, OrderInit, OrderNext, Invariant, PTL DEF Spec

\* What the server of t got is a sequence.
LEMMA DoneOrdered ==
    ASSUME PInv, OrderInv, NEW t \in Tsvr
    PROVE  LET done == wire[t].done
           IN  /\ DOMAIN done = 1..Len(done) /\ (done # <<>> => done[1] = AuthReq)
               /\ \A i, j \in DOMAIN done : i < j => R(done[i], done[j])
  <1>1. Flow(t) /\ wire[t].done \in Seq(Mesgs)
    BY ThreadFacts DEF OrderInv, Wires
  <1>2. DOMAIN wire[t].done = 1..Len(wire[t].done)
    BY <1>1, Elems
  <1>3. QED
    BY <1>1, <1>2 DEF Flow, Ordered

\* On every connection the authentication (rtmq_link_auth_req) is first, and the
\* subscriptions come before the messages of the application, although these are
\* queued by other threads before the connection is there.
THEOREM AuthComesFirst == Spec => []AuthFirst
  <1>1. PInv /\ WireInv /\ OrderInv => AuthFirst
    BY DoneOrdered DEF AuthFirst, R
  <1>2. QED
    BY <1>1, OrderHolds, PTL

\* The messages of a caller that take the same connection arrive in the order of
\* its calls of rtmq_proxy_async_send, whichever threads share the queue.
THEOREM CallersOrdered == Spec => []CallerOrder
  <1>1. PInv /\ WireInv /\ OrderInv => CallerOrder
    BY DoneOrdered DEF CallerOrder, R
  <1>2. QED
    BY <1>1, OrderHolds, PTL

-----------------------------------------------------------------------------
(* Where the messages and their blocks are. *)

HeldAt == <<"held", 0>>
QueuedAt == <<"sendq", 0>>
SentAt == <<"sent", 0>>
LostAt == <<"lost", 0>>
WiovAt(t) == <<"wiov", t>>

\* The places that hold a block, and the messages there.
Holding == {p \in Places : p[1] \notin {"sent", "lost"}}
InUse == UNION {In(p) : p \in Holding}
All == UNION {In(p) : p \in Places}
Disjoint == \A p, q \in Places : p # q => In(p) \cap In(q) = {}

ItemsOnce(t) == \A i, j \in DOMAIN wiov[t].items :
                   wiov[t].items[i] = wiov[t].items[j] /\ wiov[t].items[i].kind = "exp" => i = j

\* Nothing of the application is in a message list.
ListsOwn == \A t \in Tsvr : \A x \in ToSet(mesg_list[t]) : x.kind # "exp"

SlotInv ==
    /\ OnePlace
    /\ IsFiniteSet(InUse)
    /\ free + Cardinality(InUse) = QueueMax
    /\ ListsOwn

LEMMA PlacesAre ==
    /\ {HeldAt, QueuedAt, SentAt, LostAt} \subseteq Places
    /\ \A t \in Tsvr : WiovAt(t) \in Places
    /\ \A p \in Places : p \in {HeldAt, QueuedAt, SentAt, LostAt} \/ \E t \in Tsvr : p = WiovAt(t)
    /\ HeldAt # QueuedAt /\ HeldAt # SentAt /\ HeldAt # LostAt
    /\ QueuedAt # SentAt /\ QueuedAt # LostAt /\ SentAt # LostAt
    /\ \A t \in Tsvr : /\ WiovAt(t) # HeldAt /\ WiovAt(t) # QueuedAt
                       /\ WiovAt(t) # SentAt /\ WiovAt(t) # LostAt
                       /\ \A u \in Tsvr : u # t => WiovAt(t) # WiovAt(u)
    /\ HeldAt \in Holding /\ QueuedAt \in Holding /\ SentAt \notin Holding /\ LostAt \notin Holding
    /\ \A t \in Tsvr : WiovAt(t) \in Holding
    /\ Holding \subseteq Places
  <1>1. /\ HeldAt[1] = "held" /\ QueuedAt[1] = "sendq" /\ SentAt[1] = "sent" /\ LostAt[1] = "lost"
        /\ \A t \in Tsvr : WiovAt(t)[1] = "wiov" /\ WiovAt(t)[2] = t
    BY DEF HeldAt, QueuedAt, SentAt, LostAt, WiovAt
  <1>2. /\ {HeldAt, QueuedAt, SentAt, LostAt} \subseteq Places
        /\ \A t \in Tsvr : WiovAt(t) \in Places
        /\ \A p \in Places : p \in {HeldAt, QueuedAt, SentAt, LostAt} \/ \E t \in Tsvr : p = WiovAt(t)
    BY DEF Places, HeldAt, QueuedAt, SentAt, LostAt, WiovAt
  <1>3. QED
    BY <1>1, <1>2 DEF Holding

LEMMA InPlaces ==
    /\ In(HeldAt) = Held /\ In(QueuedAt) = ToSet(sendq) /\ In(SentAt) = sent /\ In(LostAt) = lost
    /\ \A t \in Tsvr : In(WiovAt(t)) = ExpIn(wiov[t].items)
  BY DEF In, HeldAt, QueuedAt, SentAt, LostAt, WiovAt

LEMMA InPlacesNext ==
    /\ In(HeldAt)' = Held' /\ In(QueuedAt)' = ToSet(sendq') /\ In(SentAt)' = sent' /\ In(LostAt)' = lost'
    /\ \A t \in Tsvr : In(WiovAt(t))' = ExpIn(wiov'[t].items)
  BY DEF In, HeldAt, QueuedAt, SentAt, LostAt, WiovAt, ExpIn

\* Messages that go from one place to another.
LEMMA Moved ==
    ASSUME Disjoint, NEW p \in Places, NEW q \in Places, p # q, NEW A \in SUBSET In(p),
           In(p)' = In(p) \ A, In(q)' = In(q) \cup A,
           \A r \in Places : r # p /\ r # q => In(r)' = In(r)
    PROVE  /\ Disjoint' /\ All' = All
           /\ p \in Holding /\ q \in Holding => InUse' = InUse
           /\ p \in Holding /\ q \notin Holding => InUse' = InUse \ A /\ A \subseteq InUse
  <1>1. \A r \in Places : /\ \A x \in In(r)' : x \in In(r) \/ (r = q /\ x \in A)
                          /\ \A x \in In(r) : x \in In(r)' \/ (r = p /\ x \in A)
    OBVIOUS
  <1>2. A \subseteq In(p) /\ A \cap In(q) = {} /\ A \cap In(p)' = {} /\ A \subseteq In(q)'
    BY DEF Disjoint
  <1>3. ASSUME NEW r \in Places, NEW s \in Places, r # s PROVE In(r)' \cap In(s)' = {}
    <2>1. CASE r # q /\ s # q
      BY <1>1, <1>3, <2>1 DEF Disjoint
    <2>2. CASE r = q
      <3>1. In(s)' \subseteq In(s) /\ In(s) \cap In(q) = {}
        BY <1>1, <1>3, <2>2 DEF Disjoint
      <3>2. A \cap In(s)' = {}
        BY <1>2, <1>3, <2>2, <3>1 DEF Disjoint
      <3>3. QED
        BY <2>2, <3>1, <3>2
    <2>3. CASE s = q
      <3>1. In(r)' \subseteq In(r) /\ In(r) \cap In(q) = {}
        BY <1>1, <1>3, <2>3 DEF Disjoint
      <3>2. A \cap In(r)' = {}
        BY <1>2, <1>3, <2>3, <3>1 DEF Disjoint
      <3>3. QED
        BY <2>3, <3>1, <3>2
    <2>4. QED
      BY <2>1, <2>2, <2>3
  <1>4. Disjoint'
    BY <1>3 DEF Disjoint, Places
  <1>5. ASSUME NEW x PROVE x \in All' <=> x \in All
    <2>1. ASSUME x \in All' PROVE x \in All
      <3>1. PICK r \in Places : x \in In(r)'
        BY <2>1 DEF All, Places
      <3>2. QED
        BY <1>1, <1>2, <3>1 DEF All
    <2>2. ASSUME x \in All PROVE x \in All'
      <3>1. PICK r \in Places : x \in In(r)
        BY <2>2 DEF All
      <3>2. x \in In(r)' \/ x \in In(q)'
        BY <1>1, <1>2, <3>1
      <3>3. QED
        BY <3>2 DEF All, Places
    <2>3. QED
      BY <2>1, <2>2
  <1>6. ASSUME p \in Holding, q \in Holding, NEW x PROVE x \in InUse' <=> x \in InUse
    <2>1. ASSUME x \in InUse' PROVE x \in InUse
      <3>1. PICK r \in Holding : x \in In(r)'
        BY <2>1 DEF InUse, Holding, Places
      <3>2. QED
        BY <1>1, <1>2, <1>6, <3>1 DEF InUse, Holding
    <2>2. ASSUME x \in InUse PROVE x \in InUse'
      <3>1. PICK r \in Holding : x \in In(r)
        BY <2>2 DEF InUse
      <3>2. x \in In(r)' \/ x \in In(q)'
        BY <1>1, <1>2, <3>1 DEF Holding
      <3>3. QED
        BY <1>6, <3>2 DEF InUse, Holding, Places
    <2>3. QED
      BY <2>1, <2>2
  <1>7. ASSUME p \in Holding, q \notin Holding
        PROVE  InUse' = InUse \ A /\ A \subseteq InUse
    <2>1. A \subseteq InUse
      BY <1>2, <1>7 DEF InUse
    <2>2. ASSUME NEW x \in InUse' PROVE x \in InUse \ A
      <3>1. PICK r \in Holding : x \in In(r)'
        BY <2>2 DEF InUse, Holding, Places
      <3>2. x \in In(r) /\ r # q
        BY <1>1, <1>7, <3>1 DEF Holding
      <3>3. x \notin A
        BY <1>2, <3>1, <3>2 DEF Disjoint, Holding
      <3>4. QED
        BY <3>2, <3>3 DEF InUse
    <2>3. ASSUME NEW x \in InUse, x \notin A PROVE x \in InUse'
      <3>1. PICK r \in Holding : x \in In(r)
        BY <2>3 DEF InUse
      <3>2. x \in In(r)'
        BY <1>1, <2>3, <3>1 DEF Holding
      <3>3. QED
        BY <3>2 DEF InUse, Holding, Places
    <2>4. QED
      BY <2>1, <2>2, <2>3
  <1>8. QED
    BY <1>4, <1>5, <1>6, <1>7

\* An injection keeps the number of elements.
LEMMA CountImage ==
    ASSUME NEW D, IsFiniteSet(D), NEW f, \A i, j \in D : f[i] = f[j] => i = j
    PROVE  LET T == {f[i] : i \in D}
           IN  IsFiniteSet(T) /\ Cardinality(T) = Cardinality(D)
  <1> DEFINE T == {f[i] : i \in D}
             g == [i \in D |-> f[i]]
  <1>1. g \in Bijection(D, T)
    BY DEF Bijection, Injection, Surjection, IsInjective
  <1>2. ExistsBijection(D, T)
    BY <1>1 DEF ExistsBijection
  <1>3. QED
    BY <1>2, FS_Bijection

LEMMA BlocksCount ==
    ASSUME NEW items \in Seq(Mesgs),
           \A i, j \in DOMAIN items : items[i] = items[j] /\ items[i].kind = "exp" => i = j
    PROVE  IsFiniteSet(ExpIn(items)) /\ Blocks(items) = Cardinality(ExpIn(items))
  <1> DEFINE D == {i \in DOMAIN items : items[i].kind = "exp"}
             T == {items[i] : i \in D}
  <1>1. D \subseteq 1..Len(items) /\ Len(items) \in Nat /\ DOMAIN items = 1..Len(items)
    BY Elems
  <1>2. IsFiniteSet(D)
    <2>1. IsFiniteSet(1..Len(items))
      BY <1>1, FS_Interval
    <2> HIDE DEF D
    <2>2. QED
      BY <1>1, <2>1, FS_Subset
  <1>3. T = ExpIn(items)
    <2>1. \A x : x \in ToSet(items) <=> \E i \in 1..Len(items) : x = items[i]
      BY Elems
    <2>2. QED
      BY <1>1, <2>1 DEF ExpIn
  <1>4. \A i, j \in D : items[i] = items[j] => i = j
    OBVIOUS
  <1>5. IsFiniteSet(T) /\ Cardinality(T) = Cardinality(D)
    <2> HIDE DEF D
    <2>1. QED
      BY <1>2, <1>4, CountImage
  <1>6. QED
    BY <1>3, <1>5 DEF Blocks

LEMMA QueueCount ==
    ASSUME NEW s \in Seq(Exps), IsInjective(s)
    PROVE  IsFiniteSet(ToSet(s)) /\ Cardinality(ToSet(s)) = Len(s)
  <1> DEFINE D == 1..Len(s)
             T == {s[i] : i \in D}
  <1>1. Len(s) \in Nat /\ DOMAIN s = D /\ T = ToSet(s)
    BY Elems
  <1>2. IsFiniteSet(D) /\ Cardinality(D) = Len(s)
    <2>1. IsFiniteSet(D) /\ Cardinality(D) = IF 1 > Len(s) THEN 0 ELSE Len(s) - 1 + 1
      BY <1>1, FS_Interval
    <2>2. QED
      BY <1>1, <2>1
  <1>3. \A i, j \in D : s[i] = s[j] => i = j
    BY <1>1 DEF IsInjective
  <1>4. IsFiniteSet(T) /\ Cardinality(T) = Cardinality(D)
    <2> HIDE DEF D
    <2>1. QED
      BY <1>2, <1>3, CountImage
  <1>5. QED
    BY <1>1, <1>2, <1>4

\* Blocks that are given back.
LEMMA Released ==
    ASSUME NEW S, IsFiniteSet(S), NEW A \in SUBSET S
    PROVE  /\ IsFiniteSet(A) /\ IsFiniteSet(S \ A)
           /\ Cardinality(A) \in Nat /\ Cardinality(S) \in Nat /\ Cardinality(S \ A) \in Nat
           /\ Cardinality(S \ A) = Cardinality(S) - Cardinality(A)
  <1>1. IsFiniteSet(A) /\ IsFiniteSet(S \ A)
    BY FS_Subset
  <1>2. /\ Cardinality(A) \in Nat /\ Cardinality(S) \in Nat /\ Cardinality(S \ A) \in Nat
    BY <1>1, FS_CardinalityType
  <1>3. (S \ A) \cup A = S /\ (S \ A) \cap A = {}
    OBVIOUS
  <1>4. Cardinality((S \ A) \cup A) = Cardinality(S \ A) + Cardinality(A) - Cardinality((S \ A) \cap A)
    BY <1>1, FS_Union
  <1>5. Cardinality(S) = Cardinality(S \ A) + Cardinality(A)
    <2>1. Cardinality((S \ A) \cap A) = 0
      BY <1>3, FS_EmptySet
    <2>2. Cardinality(S) = Cardinality(S \ A) + Cardinality(A) - 0
      BY <1>3, <1>4, <2>1
    <2>3. QED
      BY <1>2, <2>2
  <1>6. QED
    BY <1>1, <1>2, <1>5

\* The part of the invariant about sequences.
Once == /\ IsInjective(sendq)
        /\ \A t \in Tsvr : ItemsOnce(t)
        /\ \A t \in Tsvr : ExpIn(wire[t].done) \subseteq sent

LEMMA OnePlaceIs == OnePlace <=> Made = All /\ Disjoint /\ Once
  BY DEF OnePlace, All, Disjoint, Once, ItemsOnce

LEMMA HeldIs ==
    ASSUME PInv
    PROVE  /\ \A x \in Held : \E c \in Callers : cpc[c] = "push" /\ x = Msg(c, made[c])
           /\ \A c \in Callers : cpc[c] = "push" => Msg(c, made[c]) \in Held
           /\ Held \subseteq Exps
  BY DEF Held, PInv, Stands, CallerStands, Msg, Exps

\* Nothing moves to another place.
LEMMA SlotsSame ==
    ASSUME SlotInv, Made' = Made, UNCHANGED free, \A p \in Places : In(p)' = In(p), ListsOwn', Once'
    PROVE  SlotInv'
  <1>1. All' = All
    BY DEF All, Places
  <1>2. InUse' = InUse
    BY DEF InUse, Holding, Places
  <1>3. Disjoint' = Disjoint
    BY DEF Disjoint, Places
  <1>4. Made = All /\ Disjoint
    BY OnePlaceIs DEF SlotInv
  <1>5. OnePlace'
    BY <1>1, <1>3, <1>4 DEF OnePlace, All, Disjoint, Once, ItemsOnce
  <1>6. QED
    BY <1>2, <1>5 DEF SlotInv

\* Nothing moves at all.
LEMMA SlotsStay ==
    ASSUME SlotInv, Made' = Made, Held' = Held,
           UNCHANGED <<free, sendq, sent, lost>>, ListsOwn',
           \A t \in Tsvr : wiov'[t].items = wiov[t].items /\ ExpIn(wire'[t].done) \subseteq ExpIn(wire[t].done)
    PROVE  SlotInv'
  <1>1. \A p \in Places : In(p)' = In(p)
    <2>1. /\ In(HeldAt)' = In(HeldAt) /\ In(QueuedAt)' = In(QueuedAt)
          /\ In(SentAt)' = In(SentAt) /\ In(LostAt)' = In(LostAt)
          /\ \A t \in Tsvr : In(WiovAt(t))' = In(WiovAt(t))
      BY InPlaces, InPlacesNext
    <2>2. QED
      BY <2>1, PlacesAre
  <1>2. Once
    BY OnePlaceIs DEF SlotInv
  <1>3. Once'
    BY <1>2 DEF Once, ItemsOnce, ExpIn
  <1>4. QED
    BY <1>1, <1>3, SlotsSame

\* From its caller or the queue to the queue or a write vector: no block changes
\* hands with the pool.
LEMMA SlotsPass ==
    ASSUME SlotInv, Made' = Made, NEW p \in Holding, NEW q \in Holding, p # q,
           NEW A \in SUBSET In(p), In(p)' = In(p) \ A, In(q)' = In(q) \cup A,
           \A r \in Places : r # p /\ r # q => In(r)' = In(r),
           UNCHANGED free, ListsOwn', Once'
    PROVE  SlotInv'
  <1>1. p \in Places /\ q \in Places
    BY PlacesAre
  <1>2. Made = All /\ Disjoint
    BY OnePlaceIs DEF SlotInv
  <1>3. Disjoint' /\ All' = All /\ InUse' = InUse
    BY <1>1, <1>2, Moved
  <1>4. OnePlace'
    BY <1>2, <1>3 DEF OnePlace, All, Disjoint, Once, ItemsOnce
  <1>5. QED
    BY <1>3, <1>4 DEF SlotInv

\* From a write vector to the messages released, with their blocks.
LEMMA SlotsRelease ==
    ASSUME PInv, SlotInv, Made' = Made, NEW p \in Holding, NEW q \in Places \ Holding,
           NEW A \in SUBSET In(p), In(p)' = In(p) \ A, In(q)' = In(q) \cup A,
           \A r \in Places : r # p /\ r # q => In(r)' = In(r),
           free' = free + Cardinality(A), ListsOwn', Once'
    PROVE  SlotInv'
  <1>1. p \in Places /\ q \in Places /\ p # q
    BY PlacesAre
  <1>2. Made = All /\ Disjoint
    BY OnePlaceIs DEF SlotInv
  <1>3. Disjoint' /\ All' = All /\ InUse' = InUse \ A /\ A \subseteq InUse
    BY <1>1, <1>2, Moved
  <1>4. OnePlace'
    BY <1>2, <1>3 DEF OnePlace, All, Disjoint, Once, ItemsOnce
  <1>5. IsFiniteSet(InUse') /\ free' + Cardinality(InUse') = QueueMax
    <2>1. IsFiniteSet(InUse) /\ free + Cardinality(InUse) = QueueMax /\ free \in Nat
      BY DEF SlotInv, PInv, Typed
    <2>2. /\ IsFiniteSet(InUse \ A)
          /\ Cardinality(A) \in Nat /\ Cardinality(InUse) \in Nat /\ Cardinality(InUse \ A) \in Nat
          /\ Cardinality(InUse \ A) = Cardinality(InUse) - Cardinality(A)
      BY <1>3, <2>1, Released
    <2>3. Cardinality(InUse') = Cardinality(InUse) - Cardinality(A) /\ IsFiniteSet(InUse')
      BY <1>3, <2>2
    <2>4. QED
      BY <2>1, <2>2, <2>3, Bounds
  <1>6. QED
    BY <1>4, <1>5 DEF SlotInv

LEMMA SlotsAlloc ==
    ASSUME PInv, SlotInv, NEW c \in Callers, Alloc(c)
    PROVE  SlotInv'
  <1>1. PICK m : m = Msg(c, made[c] + 1)
    OBVIOUS
  <1>2. /\ made \in [Callers -> 0..MaxSend] /\ cpc \in [Callers -> {"idle", "push", "notify"}]
        /\ free \in Nat /\ free > 0 /\ free' = free - 1
        /\ made' = [made EXCEPT ![c] = @ + 1] /\ cpc' = [cpc EXCEPT ![c] = "push"]
        /\ cpc[c] = "idle" /\ made[c] \in Nat
        /\ UNCHANGED <<sendq, mesg_list, wiov, wire, sent, lost>>
    BY Bounds DEF Alloc, PInv, Typed
  <1>3. Held' = Held \cup {m}
    <2>1. Held' \subseteq Held \cup {m}
      BY <1>1, <1>2 DEF Held
    <2>2. Held \subseteq Held'
      <3> SUFFICES ASSUME NEW d \in Callers, cpc[d] = "push" PROVE Msg(d, made[d]) \in Held'
        BY DEF Held
      <3>1. d # c /\ cpc'[d] = "push" /\ made'[d] = made[d]
        BY <1>2
      <3>2. QED
        BY <3>1 DEF Held
    <2>3. m \in Held'
      <3>1. cpc'[c] = "push" /\ made'[c] = made[c] + 1
        BY <1>2
      <3>2. QED
        BY <1>1, <3>1 DEF Held
    <2>4. QED
      BY <2>1, <2>2, <2>3
  <1>4. Made' = Made \cup {m} /\ m \notin Made
    <2>1. \A d \in Callers \ {c} : made'[d] = made[d]
      BY <1>2
    <2>2. made'[c] = made[c] + 1
      BY <1>2
    <2>3. ASSUME NEW d \in Callers, NEW k \in 1..made'[d]
          PROVE  Msg(d, k) \in Made \cup {m}
      <3>1. CASE d # c
        BY <2>1, <3>1 DEF Made
      <3>2. CASE d = c /\ k \in 1..made[c]
        BY <3>2 DEF Made
      <3>3. CASE d = c /\ k = made[c] + 1
        BY <1>1, <3>3
      <3>4. d = c => k \in 1..made[c] \/ k = made[c] + 1
        BY <1>2, <2>2
      <3>5. QED
        BY <3>1, <3>2, <3>3, <3>4
    <2>4. ASSUME NEW d \in Callers, NEW k \in 1..made[d]
          PROVE  Msg(d, k) \in Made'
      <3>1. k \in 1..made'[d]
        <4>1. CASE d # c
          BY <2>1, <4>1
        <4>2. CASE d = c
          BY <1>2, <2>2, <4>2
        <4>3. QED
          BY <4>1, <4>2
      <3>2. QED
        BY <3>1 DEF Made
    <2>5. m \in Made'
      <3>1. made[c] + 1 \in 1..made'[c]
        BY <1>2, <2>2
      <3>2. QED
        BY <1>1, <3>1 DEF Made
    <2>6. m \notin Made
      <3> SUFFICES ASSUME NEW d \in Callers, NEW k \in 1..made[d], m = Msg(d, k) PROVE FALSE
        BY DEF Made
      <3>1. d = c /\ k = made[c] + 1
        BY <1>1 DEF Msg
      <3>2. QED
        BY <1>2, <3>1
    <2>7. QED
      <3>1. Made' \subseteq Made \cup {m}
        BY <2>3 DEF Made
      <3>2. Made \subseteq Made'
        BY <2>4 DEF Made
      <3>3. QED
        BY <2>5, <2>6, <3>1, <3>2
  <1>5. /\ In(HeldAt)' = In(HeldAt) \cup {m}
        /\ \A p \in Places : p # HeldAt => In(p)' = In(p)
    <2>1. /\ In(QueuedAt)' = In(QueuedAt) /\ In(SentAt)' = In(SentAt) /\ In(LostAt)' = In(LostAt)
          /\ In(HeldAt)' = In(HeldAt) \cup {m}
          /\ \A t \in Tsvr : In(WiovAt(t))' = In(WiovAt(t))
      BY <1>2, <1>3, InPlaces, InPlacesNext
    <2>2. QED
      BY <2>1, PlacesAre
  <1>6. Made = All /\ Disjoint /\ Once
    BY OnePlaceIs DEF SlotInv
  <1>7. \A p \in Places : m \notin In(p)
    BY <1>4, <1>6 DEF All
  <1>8. Disjoint'
    <2>1. \A p \in Places : \A x \in In(p)' : x \in In(p) \/ (p = HeldAt /\ x = m)
      BY <1>5
    <2>2. \A p, q \in Places : p # q => In(p)' \cap In(q)' = {}
      BY <1>6, <1>7, <2>1 DEF Disjoint
    <2>3. QED
      BY <2>2 DEF Disjoint, Places
  <1>9. All' = All \cup {m}
    <2>1. \A p \in Places : In(p) \subseteq In(p)' /\ In(p)' \subseteq In(p) \cup {m}
      BY <1>5
    <2>2. HeldAt \in Places /\ m \in In(HeldAt)'
      BY <1>5, PlacesAre
    <2>3. QED
      BY <2>1, <2>2 DEF All, Places
  <1>10. InUse' = InUse \cup {m} /\ m \notin InUse
    <2>1. \A p \in Holding : In(p) \subseteq In(p)' /\ In(p)' \subseteq In(p) \cup {m} /\ m \notin In(p)
      BY <1>5, <1>7, PlacesAre
    <2>2. HeldAt \in Holding /\ m \in In(HeldAt)'
      BY <1>5, PlacesAre
    <2>3. QED
      BY <2>1, <2>2 DEF InUse, Holding, Places
  <1>11. Once'
    BY <1>2, <1>6 DEF Once, ItemsOnce
  <1>12. OnePlace'
    BY <1>4, <1>6, <1>8, <1>9, <1>11 DEF OnePlace, All, Disjoint, Once, ItemsOnce
  <1>13. IsFiniteSet(InUse') /\ free' + Cardinality(InUse') = QueueMax
    <2>1. IsFiniteSet(InUse) /\ free + Cardinality(InUse) = QueueMax
      BY DEF SlotInv
    <2>2. IsFiniteSet(InUse \cup {m}) /\ Cardinality(InUse \cup {m}) = Cardinality(InUse) + 1
      BY <1>10, <2>1, FS_AddElement
    <2>3. Cardinality(InUse) \in Nat
      BY <2>1, FS_CardinalityType
    <2>4. IsFiniteSet(InUse') /\ Cardinality(InUse') = Cardinality(InUse) + 1
      BY <1>10, <2>2
    <2>5. QED
      BY <1>2, <2>1, <2>3, <2>4
  <1>14. ListsOwn'
    BY <1>2 DEF SlotInv, ListsOwn
  <1>15. QED
    BY <1>12, <1>13, <1>14 DEF SlotInv

\* No message of the application is twice in the sequence.
ExpOnce(s) == \A i, j \in 1..Len(s) : s[i] = s[j] /\ s[i].kind = "exp" => i = j

LEMMA OnceIs ==
    ASSUME PInv
    PROVE  /\ \A t \in Tsvr : ItemsOnce(t) <=> ExpOnce(wiov[t].items)
           /\ IsInjective(sendq) <=> ExpOnce(sendq)
           /\ ExpIn(sendq) = ToSet(sendq)
  <1>1. ASSUME NEW t \in Tsvr PROVE ItemsOnce(t) <=> ExpOnce(wiov[t].items)
    <2>1. DOMAIN wiov[t].items = 1..Len(wiov[t].items)
      BY ThreadFacts, Elems
    <2>2. QED
      BY <2>1 DEF ItemsOnce, ExpOnce
  <1>2. sendq \in Seq(Exps)
    BY DEF PInv, Typed
  <1>3. /\ DOMAIN sendq = 1..Len(sendq) /\ ToSet(sendq) \subseteq Exps
        /\ \A i \in 1..Len(sendq) : sendq[i] \in Exps
    BY <1>2, Elems
  <1>4. /\ \A x \in ToSet(sendq) : x.kind = "exp"
        /\ \A i \in 1..Len(sendq) : sendq[i].kind = "exp"
    BY <1>3, Kinds
  <1>5. QED
    BY <1>1, <1>3, <1>4 DEF IsInjective, ExpOnce, ExpIn

LEMMA CutOnce ==
    ASSUME NEW S, NEW s \in Seq(S), NEW k \in 0..Len(s), ExpOnce(s)
    PROVE  LET a == SubSeq(s, 1, k)
               b == SubSeq(s, k + 1, Len(s))
           IN  /\ ExpOnce(a) /\ ExpOnce(b)
               /\ ExpIn(a) \cap ExpIn(b) = {} /\ ExpIn(a) \cup ExpIn(b) = ExpIn(s)
  <1> DEFINE a == SubSeq(s, 1, k)
             b == SubSeq(s, k + 1, Len(s))
  <1>1. /\ a \in Seq(S) /\ Len(a) = k /\ b \in Seq(S) /\ Len(b) = Len(s) - k
        /\ \A i \in 1..k : i \in 1..Len(s) /\ a[i] = s[i]
        /\ \A i \in 1..(Len(s) - k) : k + i \in 1..Len(s) /\ b[i] = s[k + i]
        /\ Len(s) \in Nat
    BY Cut, Elems
  <1>2. ToSet(a) \cup ToSet(b) = ToSet(s)
    BY CutElems
  <1> HIDE DEF a, b
  <1>3. ExpOnce(a)
    <2> SUFFICES ASSUME NEW i \in 1..Len(a), NEW j \in 1..Len(a), a[i] = a[j], a[i].kind = "exp"
                 PROVE  i = j
      BY DEF ExpOnce
    <2>1. i \in 1..Len(s) /\ a[i] = s[i] /\ j \in 1..Len(s) /\ a[j] = s[j]
      BY <1>1
    <2>2. QED
      BY <2>1 DEF ExpOnce
  <1>4. ExpOnce(b)
    <2> SUFFICES ASSUME NEW i \in 1..Len(b), NEW j \in 1..Len(b), b[i] = b[j], b[i].kind = "exp"
                 PROVE  i = j
      BY DEF ExpOnce
    <2>1. /\ k + i \in 1..Len(s) /\ b[i] = s[k + i]
          /\ k + j \in 1..Len(s) /\ b[j] = s[k + j]
      BY <1>1
    <2>2. k + i = k + j
      BY <2>1 DEF ExpOnce
    <2>3. QED
      BY <1>1, <2>2
  <1>5. ExpIn(a) \cap ExpIn(b) = {}
    <2> SUFFICES ASSUME NEW x \in ToSet(a), x \in ToSet(b), x.kind = "exp" PROVE FALSE
      BY DEF ExpIn
    <2>1. PICK i \in 1..Len(a) : x = a[i]
      BY <1>1, Elems
    <2>2. PICK j \in 1..Len(b) : x = b[j]
      BY <1>1, Elems
    <2>3. i \in 1..Len(s) /\ x = s[i] /\ k + j \in 1..Len(s) /\ x = s[k + j]
      BY <1>1, <2>1, <2>2
    <2>4. i = k + j
      BY <2>3 DEF ExpOnce
    <2>5. QED
      BY <1>1, <2>1, <2>2, <2>4
  <1>6. ExpIn(a) \cup ExpIn(b) = ExpIn(s)
    BY <1>2 DEF ExpIn
  <1>7. QED
    BY <1>3, <1>4, <1>5, <1>6 DEF a, b

LEMMA JoinOnce ==
    ASSUME NEW s \in Seq(Mesgs), NEW t \in Seq(Mesgs), ExpOnce(s), ExpOnce(t),
           ExpIn(s) \cap ExpIn(t) = {}
    PROVE  ExpOnce(s \o t) /\ ExpIn(s \o t) = ExpIn(s) \cup ExpIn(t)
  <1> DEFINE u == s \o t
  <1>1. /\ u \in Seq(Mesgs) /\ Len(s) \in Nat /\ Len(t) \in Nat
        /\ \A i \in 1..Len(s) : u[i] = s[i] /\ s[i] \in ToSet(s)
        /\ \A i \in 1..Len(t) : u[Len(s) + i] = t[i] /\ t[i] \in ToSet(t)
        /\ \A i \in 1..Len(u) :
              i \in 1..Len(s) \/ \E j \in 1..Len(t) : i = Len(s) + j /\ u[i] = t[j]
    BY Join, Elems
  <1>2. ToSet(u) = ToSet(s) \cup ToSet(t)
    BY JoinElems
  <1> HIDE DEF u
  <1>3. ASSUME NEW i \in 1..Len(u), NEW j \in 1..Len(u), u[i] = u[j], u[i].kind = "exp"
        PROVE  i = j
    <2>1. CASE i \in 1..Len(s) /\ j \in 1..Len(s)
      BY <1>1, <1>3, <2>1 DEF ExpOnce
    <2>2. CASE i \in 1..Len(s) /\ j \notin 1..Len(s)
      <3>1. u[i] \in ToSet(s) /\ u[j] \in ToSet(t)
        BY <1>1, <2>2
      <3>2. QED
        BY <1>3, <3>1 DEF ExpIn
    <2>3. CASE i \notin 1..Len(s) /\ j \in 1..Len(s)
      <3>1. u[i] \in ToSet(t) /\ u[j] \in ToSet(s)
        BY <1>1, <2>3
      <3>2. QED
        BY <1>3, <3>1 DEF ExpIn
    <2>4. CASE i \notin 1..Len(s) /\ j \notin 1..Len(s)
      <3>1. PICK k \in 1..Len(t) : i = Len(s) + k /\ u[i] = t[k]
        BY <1>1, <2>4
      <3>2. PICK l \in 1..Len(t) : j = Len(s) + l /\ u[j] = t[l]
        BY <1>1, <2>4
      <3>3. k = l
        BY <1>3, <3>1, <3>2 DEF ExpOnce
      <3>4. QED
        BY <3>1, <3>2, <3>3
    <2>5. QED
      BY <2>1, <2>2, <2>3, <2>4
  <1>4. ExpOnce(u)
    BY <1>3 DEF ExpOnce
  <1>5. QED
    BY <1>2, <1>4 DEF ExpIn, u

LEMMA SlotsPush ==
    ASSUME PInv, SlotInv, NEW c \in Callers, Push(c)
    PROVE  SlotInv'
  <1>1. PICK m : m = Msg(c, made[c])
    OBVIOUS
  <1>2. /\ cpc \in [Callers -> {"idle", "push", "notify"}] /\ sendq \in Seq(Exps)
        /\ Len(sendq) \in Nat /\ free \in Nat /\ cpc[c] = "push"
        /\ UNCHANGED <<made, mesg_list, wiov, wire, sent, lost>>
    BY Elems DEF Push, PInv, Typed
  <1>3. m \in Held /\ m \in Exps /\ Made' = Made
    BY <1>1, <1>2, HeldIs DEF Made
  <1>4. Made = All /\ Disjoint /\ Once
    BY OnePlaceIs DEF SlotInv
  <1>5. m \notin ToSet(sendq)
    BY <1>3, <1>4, PlacesAre, InPlaces DEF Disjoint
  <1>6. IsFiniteSet(ToSet(sendq)) /\ Cardinality(ToSet(sendq)) = Len(sendq)
    BY <1>2, <1>4, QueueCount DEF Once
  <1>7. Len(sendq) < QueueMax
    <2>1. ToSet(sendq) \cup {m} \subseteq InUse
      BY <1>3, PlacesAre, InPlaces DEF InUse
    <2>2. IsFiniteSet(InUse) /\ free + Cardinality(InUse) = QueueMax
      BY DEF SlotInv
    <2>3. /\ IsFiniteSet(ToSet(sendq) \cup {m})
          /\ Cardinality(ToSet(sendq) \cup {m}) = Len(sendq) + 1
      BY <1>5, <1>6, FS_AddElement
    <2>4. Cardinality(ToSet(sendq) \cup {m}) <= Cardinality(InUse)
      BY <2>1, <2>2, FS_Subset
    <2>5. Cardinality(InUse) \in Nat
      BY <2>2, FS_CardinalityType
    <2>6. QED
      BY <1>2, <2>2, <2>3, <2>4, <2>5, Bounds
  <1>8. sendq' = Append(sendq, m) /\ cpc' = [cpc EXCEPT ![c] = "notify"] /\ free' = free
    BY <1>1, <1>7 DEF Push
  <1>9. Held' = Held \ {m}
    <2>1. \A d \in Callers : cpc'[d] = "push" <=> d # c /\ cpc[d] = "push"
      BY <1>2, <1>8
    <2>2. \A d \in Callers : Msg(d, made[d]) = m <=> d = c
      BY <1>1 DEF Msg
    <2>3. QED
      BY <1>2, <2>1, <2>2 DEF Held
  <1>10. /\ ToSet(sendq') = ToSet(sendq) \cup {m} /\ sendq' \in Seq(Exps)
         /\ Len(sendq') = Len(sendq) + 1
         /\ \A i \in 1..Len(sendq) : sendq'[i] = sendq[i]
         /\ sendq'[Len(sendq) + 1] = m
         /\ \A i \in 1..(Len(sendq) + 1) : i \in 1..Len(sendq) \/ i = Len(sendq) + 1
    BY <1>2, <1>3, <1>8, AppendElems
  <1>11. IsInjective(sendq')
    <2>1. DOMAIN sendq' = 1..(Len(sendq) + 1) /\ DOMAIN sendq = 1..Len(sendq)
      BY <1>2, <1>10, Elems
    <2>2. \A i \in 1..Len(sendq) : sendq[i] # m
      BY <1>2, <1>5, Elems
    <2>3. QED
      BY <1>4, <1>10, <2>1, <2>2 DEF Once, IsInjective
  <1>12. Once'
    BY <1>2, <1>4, <1>11 DEF Once, ItemsOnce
  <1>13. ListsOwn'
    BY <1>2 DEF SlotInv, ListsOwn
  <1>14. /\ In(HeldAt)' = In(HeldAt) \ {m} /\ In(QueuedAt)' = In(QueuedAt) \cup {m}
         /\ {m} \in SUBSET In(HeldAt)
         /\ \A p \in Places : p # HeldAt /\ p # QueuedAt => In(p)' = In(p)
    <2>1. /\ In(HeldAt)' = In(HeldAt) \ {m} /\ In(QueuedAt)' = In(QueuedAt) \cup {m}
          /\ {m} \in SUBSET In(HeldAt)
          /\ In(SentAt)' = In(SentAt) /\ In(LostAt)' = In(LostAt)
          /\ \A t \in Tsvr : In(WiovAt(t))' = In(WiovAt(t))
      BY <1>2, <1>3, <1>9, <1>10, InPlaces, InPlacesNext
    <2>2. QED
      BY <2>1, PlacesAre
  <1>15. HeldAt \in Holding /\ QueuedAt \in Holding /\ HeldAt # QueuedAt
    BY PlacesAre
  <1>16. QED
    BY <1>3, <1>8, <1>12, <1>13, <1>14, <1>15, SlotsPass

LEMMA SlotsCaller ==
    ASSUME PInv, SlotInv, NEW c \in Callers, CallerStep(c)
    PROVE  SlotInv'
  <1>1. CASE Notify(c)
    <2>1. /\ cpc \in [Callers -> {"idle", "push", "notify"}]
          /\ cpc[c] = "notify" /\ cpc' = [cpc EXCEPT ![c] = "idle"]
          /\ UNCHANGED <<made, free, sendq, mesg_list, wiov, wire, sent, lost>>
      BY <1>1 DEF Notify, PInv, Typed
    <2>2. \A d \in Callers : cpc'[d] = "push" <=> cpc[d] = "push"
      BY <2>1
    <2>3. Made' = Made /\ Held' = Held
      BY <2>1, <2>2 DEF Made, Held
    <2>4. ListsOwn'
      BY <2>1 DEF SlotInv, ListsOwn
    <2>5. QED
      BY <2>1, <2>3, <2>4, SlotsStay
  <1>2. QED
    BY <1>1, SlotsAlloc, SlotsPush DEF CallerStep

\* The other vectors, message lists and connections are left alone.
LEMMA SlotsApart ==
    ASSUME PInv, SlotInv, NEW t \in Tsvr, TsvrStep(t) \/ Environment(t)
    PROVE  /\ Made' = Made /\ Held' = Held
           /\ \A u \in Tsvr \ {t} : /\ mesg_list'[u] = mesg_list[u]
                                    /\ wiov'[u] = wiov[u] /\ wire'[u] = wire[u]
           /\ (\A x \in ToSet(mesg_list'[t]) : x.kind # "exp") => ListsOwn'
           /\ Once /\ Disjoint
  <1>1. UNCHANGED <<made, cpc>>
    BY StepKinds
  <1>2. \A u \in Tsvr \ {t} : /\ mesg_list'[u] = mesg_list[u]
                              /\ wiov'[u] = wiov[u] /\ wire'[u] = wire[u]
    BY StepsApart DEF PInv, Apart
  <1>3. (\A x \in ToSet(mesg_list'[t]) : x.kind # "exp") => ListsOwn'
    BY <1>2 DEF SlotInv, ListsOwn
  <1>4. Once /\ Disjoint
    BY OnePlaceIs DEF SlotInv
  <1>5. QED
    BY <1>1, <1>2, <1>3, <1>4 DEF Made, Held

LEMMA SlotsSendData ==
    ASSUME PInv, SlotInv, NEW t \in Tsvr, TsvrStep(t), SendData(t)
    PROVE  SlotInv'
  <1> USE SlotsApart
  <1> DEFINE s == wiov[t].items
             list == mesg_list[t]
             k == Taken(t)
             a == SubSeq(list, 1, k)
             b == SubSeq(list, k + 1, Len(list))
  <1>1. /\ k \in 0..Len(list)
        /\ a \in Seq(Mesgs) /\ b \in Seq(Mesgs)
        /\ wiov'[t].items = s \o a /\ mesg_list'[t] = b
        /\ UNCHANGED <<free, sendq, wire, sent, lost>>
    BY SendDataMoves, StepKinds, ThreadFacts
  <1>2. list \in Seq(Mesgs) /\ s \in Seq(Mesgs)
    BY ThreadFacts
  <1> HIDE DEF k
  <1>3. ToSet(a) \cup ToSet(b) = ToSet(list)
    BY <1>1, <1>2, CutElems
  <1> HIDE DEF a, b
  <1>4. \A x \in ToSet(list) : x.kind # "exp"
    BY DEF SlotInv, ListsOwn
  <1>5. ListsOwn'
    BY <1>1, <1>3, <1>4
  <1>6. ExpIn(a) = {} /\ ExpOnce(a)
    <2>1. \A x \in ToSet(a) : x.kind # "exp"
      BY <1>3, <1>4
    <2>2. \A i \in 1..Len(a) : a[i] \in ToSet(a)
      BY <1>1, Elems
    <2>3. QED
      BY <2>1, <2>2 DEF ExpIn, ExpOnce
  <1>7. ExpOnce(s)
    BY OnceIs DEF Once
  <1>8. ExpOnce(s \o a) /\ ExpIn(s \o a) = ExpIn(s)
    <2> HIDE DEF s
    <2>1. ExpIn(s) \cap ExpIn(a) = {}
      BY <1>6
    <2>2. ExpOnce(s \o a) /\ ExpIn(s \o a) = ExpIn(s) \cup ExpIn(a)
      BY <1>1, <1>2, <1>6, <1>7, <2>1, JoinOnce
    <2>3. QED
      BY <1>6, <2>2
  <1>9. Once'
    <2>1. s \o a \in Seq(Mesgs)
      BY <1>1, <1>2, Join
    <2>2. DOMAIN (s \o a) = 1..Len(s \o a)
      BY <2>1, Elems
    <2>3. ItemsOnce(t)'
      BY <1>1, <1>8, <2>2 DEF ItemsOnce, ExpOnce
    <2>4. \A u \in Tsvr \ {t} : ItemsOnce(u)'
      BY DEF Once, ItemsOnce
    <2>5. QED
      BY <1>1, <2>3, <2>4 DEF Once
  <1>10. \A p \in Places : In(p)' = In(p)
    <2>1. /\ In(HeldAt)' = In(HeldAt) /\ In(QueuedAt)' = In(QueuedAt)
          /\ In(SentAt)' = In(SentAt) /\ In(LostAt)' = In(LostAt)
      BY <1>1, InPlaces, InPlacesNext
    <2>2. In(WiovAt(t))' = In(WiovAt(t))
      BY <1>1, <1>8, InPlaces, InPlacesNext
    <2>3. \A u \in Tsvr : In(WiovAt(u))' = In(WiovAt(u))
      BY <2>2, InPlaces, InPlacesNext
    <2>4. QED
      BY <2>1, <2>3, PlacesAre
  <1>11. QED
    BY <1>1, <1>5, <1>9, <1>10, SlotsSame

LEMMA SlotsMpop ==
    ASSUME PInv, SlotInv, NEW t \in Tsvr, TsvrStep(t), Mpop(t)
    PROVE  SlotInv'
  <1> USE SlotsApart
  <1>1. CASE ~(num[t] <= Len(sendq))
    <2>1. UNCHANGED <<free, sendq, wiov, wire, mesg_list, sent, lost>>
      BY <1>1 DEF Mpop, kvars
    <2>2. ListsOwn'
      BY <2>1 DEF SlotInv, ListsOwn
    <2>3. QED
      BY <2>1, <2>2, SlotsStay
  <1>2. CASE num[t] <= Len(sendq)
    <2> DEFINE s == wiov[t].items
               n == num[t]
               a == SubSeq(sendq, 1, n)
               b == SubSeq(sendq, n + 1, Len(sendq))
    <2>1. /\ n \in 0..Len(sendq)
          /\ a \in Seq(Exps) /\ a \in Seq(Mesgs) /\ b \in Seq(Exps)
          /\ wiov'[t].items = s \o a
          /\ sendq' = b
          /\ UNCHANGED <<free, mesg_list, wire, sent, lost>>
      BY <1>2, MpopMoves
    <2>2. s \in Seq(Mesgs) /\ sendq \in Seq(Exps)
      BY ThreadFacts DEF Typed
    <2> HIDE DEF n
    <2>3. ExpOnce(sendq) /\ ExpOnce(s) /\ ExpIn(sendq) = ToSet(sendq)
      BY OnceIs DEF Once
    <2>4. /\ ExpOnce(a) /\ ExpOnce(b)
          /\ ExpIn(a) \cap ExpIn(b) = {} /\ ExpIn(a) \cup ExpIn(b) = ToSet(sendq)
      BY <2>1, <2>2, <2>3, CutOnce
    <2> HIDE DEF a, b
    <2>5. ExpIn(b) = ToSet(b) /\ \A i \in 1..Len(b) : b[i].kind = "exp"
      <3>1. ToSet(b) \subseteq Exps /\ \A i \in 1..Len(b) : b[i] \in Exps
        BY <2>1, Elems
      <3>2. QED
        BY <3>1, Kinds DEF ExpIn
    <2>6. ExpIn(s) \cap ToSet(sendq) = {}
      BY PlacesAre, InPlaces DEF Disjoint
    <2>7. ExpOnce(s \o a) /\ ExpIn(s \o a) = ExpIn(s) \cup ExpIn(a)
      <3>1. ExpIn(s) \cap ExpIn(a) = {}
        BY <2>4, <2>6
      <3>2. QED
        BY <2>1, <2>2, <2>3, <2>4, <3>1, JoinOnce
    <2>8. Once'
      <3>1. s \o a \in Seq(Mesgs)
        BY <2>1, <2>2, Join
      <3>2. DOMAIN (s \o a) = 1..Len(s \o a) /\ DOMAIN b = 1..Len(b)
        BY <2>1, <3>1, Elems
      <3>3. ItemsOnce(t)'
        BY <2>1, <2>7, <3>2 DEF ItemsOnce, ExpOnce
      <3>4. \A u \in Tsvr \ {t} : ItemsOnce(u)'
        BY DEF Once, ItemsOnce
      <3>5. IsInjective(sendq')
        BY <2>1, <2>4, <2>5, <3>2 DEF IsInjective, ExpOnce
      <3>6. QED
        BY <2>1, <3>3, <3>4, <3>5 DEF Once
    <2>9. ListsOwn'
      BY <2>1 DEF SlotInv, ListsOwn
    <2> DEFINE A == ExpIn(a)
    <2>10. /\ In(QueuedAt)' = In(QueuedAt) \ A /\ In(WiovAt(t))' = In(WiovAt(t)) \cup A
           /\ A \in SUBSET In(QueuedAt)
           /\ \A p \in Places : p # QueuedAt /\ p # WiovAt(t) => In(p)' = In(p)
      <3>1. A \in SUBSET In(QueuedAt) /\ In(QueuedAt)' = In(QueuedAt) \ A
        BY <2>1, <2>4, <2>5, InPlaces, InPlacesNext
      <3>2. In(WiovAt(t))' = In(WiovAt(t)) \cup A
        BY <2>1, <2>7, InPlaces, InPlacesNext
      <3>3. In(HeldAt)' = In(HeldAt) /\ In(SentAt)' = In(SentAt) /\ In(LostAt)' = In(LostAt)
        BY <2>1, InPlaces, InPlacesNext
      <3>4. \A u \in Tsvr \ {t} : In(WiovAt(u))' = In(WiovAt(u))
        BY InPlaces, InPlacesNext
      <3> HIDE DEF A
      <3>5. QED
        BY <3>1, <3>2, <3>3, <3>4, PlacesAre
    <2>11. QueuedAt \in Holding /\ WiovAt(t) \in Holding /\ QueuedAt # WiovAt(t)
      BY PlacesAre
    <2> HIDE DEF A
    <2>12. Made' = Made /\ UNCHANGED free
      BY <2>1
    <2>13. QED
      BY <2>8, <2>9, <2>10, <2>11, <2>12, SlotsPass
  <1>3. QED
    BY <1>1, <1>2

LEMMA SlotsBreaks ==
    ASSUME PInv, SlotInv, NEW t \in Tsvr, TsvrStep(t) \/ Environment(t), Breaks(t)
    PROVE  SlotInv'
  <1> USE SlotsApart
  <1> DEFINE s == wiov[t].items
             A == ExpIn(s)
  <1>1. /\ wiov'[t] = EmptyWiov /\ free' = free + Blocks(s) /\ lost' = lost \cup A
        /\ UNCHANGED <<sendq, mesg_list, wire, sent>>
    BY Disconnects, ThreadFacts DEF Breaks, DelConn
  <1>2. wiov'[t].items = <<>>
    BY <1>1 DEF EmptyWiov
  <1>3. IsFiniteSet(A) /\ Blocks(s) = Cardinality(A)
    <2>1. s \in Seq(Mesgs) /\ \A i, j \in DOMAIN s : s[i] = s[j] /\ s[i].kind = "exp" => i = j
      BY ThreadFacts DEF Once, ItemsOnce
    <2>2. QED
      BY <2>1, BlocksCount
  <1>4. Once'
    <2>1. ItemsOnce(t)'
      BY <1>2, NoElems DEF ItemsOnce
    <2>2. \A u \in Tsvr \ {t} : ItemsOnce(u)'
      BY DEF Once, ItemsOnce
    <2>3. QED
      BY <1>1, <2>1, <2>2 DEF Once
  <1>5. ListsOwn'
    BY <1>1 DEF SlotInv, ListsOwn
  <1>6. /\ In(WiovAt(t))' = In(WiovAt(t)) \ A /\ In(LostAt)' = In(LostAt) \cup A
        /\ A \in SUBSET In(WiovAt(t))
        /\ \A p \in Places : p # WiovAt(t) /\ p # LostAt => In(p)' = In(p)
    <2>1. In(WiovAt(t)) = A /\ In(WiovAt(t))' = {}
      BY <1>2, NoElems, InPlaces, InPlacesNext DEF ExpIn
    <2>2. In(LostAt)' = In(LostAt) \cup A
      BY <1>1, InPlaces, InPlacesNext
    <2>3. In(HeldAt)' = In(HeldAt) /\ In(SentAt)' = In(SentAt) /\ In(QueuedAt)' = In(QueuedAt)
      BY <1>1, InPlaces, InPlacesNext
    <2>4. \A u \in Tsvr \ {t} : In(WiovAt(u))' = In(WiovAt(u))
      BY InPlaces, InPlacesNext
    <2> HIDE DEF A
    <2>5. QED
      BY <2>1, <2>2, <2>3, <2>4, PlacesAre
  <1>7. WiovAt(t) \in Holding /\ LostAt \in Places \ Holding
    BY PlacesAre
  <1> HIDE DEF A
  <1>8. Made' = Made /\ free' = free + Cardinality(A)
    BY <1>1, <1>3
  <1>9. QED
    BY <1>4, <1>5, <1>6, <1>7, <1>8, SlotsRelease

LEMMA SlotsWritev ==
    ASSUME PInv, WireInv, SlotInv, NEW t \in Tsvr, TsvrStep(t), Writev(t)
    PROVE  SlotInv'
  <1> USE SlotsApart
  <1> DEFINE s == wiov[t].items
             d == wire[t].done
             e == wire'[t].done
  <1>1. PICK k \in 0..Len(s) :
           /\ d \in Seq(Mesgs) /\ s \in Seq(Mesgs) /\ e \in Seq(Mesgs)
           /\ wiov'[t].items = SubSeq(s, k + 1, Len(s))
           /\ free' = free + Blocks(SubSeq(s, 1, k))
           /\ sent' = sent \cup ExpIn(SubSeq(s, 1, k))
           /\ UNCHANGED <<sendq, mesg_list, lost>>
           /\ ToSet(e) \subseteq ToSet(d) \cup ToSet(SubSeq(s, 1, k))
    BY WritevGets
  <1> DEFINE a == SubSeq(s, 1, k)
             b == SubSeq(s, k + 1, Len(s))
             A == ExpIn(a)
  <1>2. a \in Seq(Mesgs) /\ b \in Seq(Mesgs)
    BY <1>1, Cut
  <1>3. ExpOnce(s)
    BY OnceIs DEF Once
  <1>4. /\ ExpOnce(a) /\ ExpOnce(b)
        /\ A \cap ExpIn(b) = {} /\ A \cup ExpIn(b) = ExpIn(s)
    BY <1>1, <1>3, CutOnce
  <1>5. /\ wiov'[t].items = b /\ free' = free + Blocks(a) /\ sent' = sent \cup A
        /\ ToSet(e) \subseteq ToSet(d) \cup ToSet(a)
    BY <1>1
  <1> HIDE DEF a, b
  <1>6. DOMAIN a = 1..Len(a) /\ DOMAIN b = 1..Len(b)
    BY <1>2, Elems
  <1>7. IsFiniteSet(A) /\ Blocks(a) = Cardinality(A)
    <2>1. \A i, j \in DOMAIN a : a[i] = a[j] /\ a[i].kind = "exp" => i = j
      BY <1>4, <1>6 DEF ExpOnce
    <2>2. QED
      BY <1>2, <2>1, BlocksCount
  <1>8. Once'
    <2>1. ItemsOnce(t)'
      BY <1>4, <1>5, <1>6 DEF ItemsOnce, ExpOnce
    <2>2. \A u \in Tsvr \ {t} : ItemsOnce(u)'
      BY DEF Once, ItemsOnce
    <2>3. ExpIn(e) \subseteq sent'
      <3>1. ExpIn(d) \subseteq sent
        BY DEF Once
      <3>2. ExpIn(e) \subseteq ExpIn(d) \cup A
        BY <1>5 DEF ExpIn
      <3>3. QED
        BY <1>5, <3>1, <3>2
    <2>4. \A u \in Tsvr \ {t} : ExpIn(wire'[u].done) \subseteq sent'
      BY <1>5 DEF Once
    <2>5. \A u \in Tsvr : ItemsOnce(u)' /\ ExpIn(wire'[u].done) \subseteq sent'
      BY <2>1, <2>2, <2>3, <2>4
    <2>6. \A u \in Tsvr : ExpIn(wire[u].done)' = ExpIn(wire'[u].done)
      BY DEF ExpIn
    <2>7. QED
      BY <1>1, <2>5, <2>6 DEF Once
  <1>9. ListsOwn'
    BY <1>1 DEF SlotInv, ListsOwn
  <1>10. /\ In(WiovAt(t))' = In(WiovAt(t)) \ A /\ In(SentAt)' = In(SentAt) \cup A
         /\ A \in SUBSET In(WiovAt(t))
         /\ \A p \in Places : p # WiovAt(t) /\ p # SentAt => In(p)' = In(p)
    <2>1. In(WiovAt(t)) = ExpIn(s) /\ In(WiovAt(t))' = ExpIn(b)
      BY <1>5, InPlaces, InPlacesNext
    <2>2. In(SentAt)' = In(SentAt) \cup A
      BY <1>5, InPlaces, InPlacesNext
    <2>3. In(HeldAt)' = In(HeldAt) /\ In(LostAt)' = In(LostAt) /\ In(QueuedAt)' = In(QueuedAt)
      BY <1>1, InPlaces, InPlacesNext
    <2>4. \A u \in Tsvr \ {t} : In(WiovAt(u))' = In(WiovAt(u))
      BY InPlaces, InPlacesNext
    <2> HIDE DEF A, s
    <2>5. QED
      BY <1>4, <2>1, <2>2, <2>3, <2>4, PlacesAre
  <1>11. WiovAt(t) \in Holding /\ SentAt \in Places \ Holding
    BY PlacesAre
  <1> HIDE DEF A
  <1>12. Made' = Made /\ free' = free + Cardinality(A)
    BY <1>5, <1>7
  <1>13. QED
    BY <1>8, <1>9, <1>10, <1>11, <1>12, SlotsRelease

LEMMA SlotsTsvr ==
    ASSUME PInv, WireInv, SlotInv, NEW t \in Tsvr, TsvrStep(t) \/ Environment(t)
    PROVE  SlotInv'
  <1> USE SlotsApart
  <1>1. CASE Quiet \/ ServerCloses(t)
    <2>1. UNCHANGED <<free, sendq, wiov, wire, mesg_list, sent, lost>>
      BY <1>1 DEF Quiet, ServerCloses
    <2>2. ListsOwn'
      BY <2>1 DEF SlotInv, ListsOwn
    <2>3. QED
      BY <2>1, <2>2, SlotsStay
  <1>2. CASE Asks(t)
    <2>1. /\ mesg_list'[t] = Append(mesg_list[t], KpReq) /\ mesg_list[t] \in Seq(Mesgs)
          /\ UNCHANGED <<free, sendq, wiov, wire, sent, lost>>
      BY <1>2, ThreadFacts DEF Asks, TsvrsOK
    <2>2. ToSet(mesg_list'[t]) = ToSet(mesg_list[t]) \cup {KpReq}
      BY <2>1, Kinds, AppendElems
    <2>3. ListsOwn'
      BY <2>2, Kinds DEF SlotInv, ListsOwn
    <2>4. QED
      BY <2>1, <2>3, SlotsStay
  <1>3. CASE Reconn(t)
    <2> DEFINE m == <<AuthReq>> \o SubReqs
    <2>1. /\ mesg_list'[t] = m /\ wire'[t] = EmptyWire
          /\ UNCHANGED <<free, sendq, wiov, sent, lost>>
      BY <1>3, ThreadFacts DEF Reconn, TsvrsOK, LinksOK
    <2>2. /\ m \in Seq(Mesgs) /\ \A i \in 1..Len(m) : m[i].kind # "exp"
      <3>1. m \in Seq(Mesgs) /\ m[1] = AuthReq /\ \A i \in 1..Len(m) : i # 1 => m[i].kind = "sub"
        BY FirstRequests
      <3> HIDE DEF m
      <3>2. QED
        BY <3>1, Kinds
    <2> HIDE DEF m
    <2>3. ListsOwn'
      <3>1. \A x \in ToSet(m) : x.kind # "exp"
        BY <2>2, Elems
      <3>2. QED
        BY <2>1, <3>1
    <2>4. ExpIn(wire'[t].done) = {}
      <3>1. wire'[t].done = <<>>
        BY <2>1 DEF EmptyWire
      <3>2. QED
        BY <3>1, NoElems DEF ExpIn
    <2>5. \A u \in Tsvr : ExpIn(wire'[u].done) \subseteq ExpIn(wire[u].done)
      BY <2>4
    <2>6. QED
      BY <2>1, <2>3, <2>5, SlotsStay
  <1>4. CASE SendData(t) \/ Mpop(t) \/ Writev(t) \/ Breaks(t)
    <2>1. CASE Breaks(t)
      BY <2>1, SlotsBreaks
    <2>2. CASE (SendData(t) \/ Mpop(t) \/ Writev(t)) /\ TsvrStep(t)
      BY <2>2, SlotsSendData, SlotsMpop, SlotsWritev
    <2>3. SendData(t) \/ Mpop(t) \/ Writev(t) => TsvrStep(t)
      BY DEF TsvrStep, Environment
    <2>4. QED
      BY <1>4, <2>1, <2>2, <2>3
  <1>5. QED
    BY <1>1, <1>2, <1>3, <1>4, StepKinds

LEMMA SlotNext == PInv /\ WireInv /\ SlotInv /\ [Next]_vars => SlotInv'
  <1> SUFFICES ASSUME PInv, WireInv, SlotInv, [Next]_vars PROVE SlotInv'
    OBVIOUS
  <1>1. CASE UNCHANGED vars
    <2>1. UNCHANGED <<made, cpc, free, sendq, wiov, wire, mesg_list, sent, lost>>
      BY <1>1 DEF vars, cvars
    <2>2. Made' = Made /\ Held' = Held /\ ListsOwn'
      BY <2>1 DEF Made, Held, SlotInv, ListsOwn
    <2>3. QED
      BY <2>1, <2>2, SlotsStay
  <1>2. CASE Next
    BY <1>2, SlotsCaller, SlotsTsvr DEF Next
  <1>3. QED
    BY <1>1, <1>2

LEMMA SlotInit == Init => SlotInv
  <1> SUFFICES ASSUME Init PROVE SlotInv
    OBVIOUS
  <1>1. Made = {} /\ Held = {}
    BY DEF Init, Made, Held
  <1>2. \A p \in Places : In(p) = {}
    <2>1. In(HeldAt) = {} /\ In(QueuedAt) = {} /\ In(SentAt) = {} /\ In(LostAt) = {}
      BY <1>1, NoElems, InPlaces DEF Init
    <2>2. \A t \in Tsvr : In(WiovAt(t)) = {}
      BY NoElems, InPlaces DEF Init, EmptyWiov, ExpIn
    <2>3. QED
      BY <2>1, <2>2, PlacesAre
  <1>3. All = {} /\ InUse = {} /\ Disjoint
    BY <1>2 DEF All, InUse, Holding, Disjoint
  <1>4. Once
    BY NoElems DEF Init, Once, IsInjective, ItemsOnce, EmptyWiov, EmptyWire, ExpIn
  <1>5. OnePlace
    BY <1>1, <1>3, <1>4, OnePlaceIs
  <1>6. IsFiniteSet(InUse) /\ free + Cardinality(InUse) = QueueMax
    <2>1. IsFiniteSet(InUse) /\ Cardinality(InUse) = 0
      BY <1>3, FS_EmptySet
    <2>2. QED
      BY <2>1, Bounds DEF Init
  <1>7. ListsOwn
    BY NoElems DEF Init, ListsOwn
  <1>8. QED
    BY <1>5, <1>6, <1>7 DEF SlotInv

LEMMA SlotsHold == Spec => [](PInv /\ WireInv /\ SlotInv)
  <1>1. Init => PInv /\ WireInv /\ SlotInv
    BY InitStands, SlotInit DEF Init, WireInv, Parsed, EmptyWire, EmptyWiov, Rest
  <1>2. PInv /\ WireInv /\ SlotInv /\ [Next]_vars => (PInv /\ WireInv /\ SlotInv)'
    BY NextStands, WireNext, SlotNext
  <1>3. QED
    BY <1>1, <1>2, PTL DEF Spec

\* Every block of the send queue's pool is free, with a caller, in the queue or in
\* one write vector: no connection that breaks, short write or race for the queue
\* leaks a block or frees it twice, and no message goes out on two connections.
THEOREM SlotsKept == Spec => []SlotsAccounted
  <1>1. SlotInv => SlotsAccounted
    BY DEF SlotInv, SlotsAccounted, InUse, Holding
  <1>2. QED
    BY <1>1, SlotsHold, PTL

\* The types; that the pool never holds more than its blocks, for every queue_free
\* of the senders, is the count of the blocks in use.
THEOREM TypesKept == Spec => []TypeOK
  <1>1. PInv /\ SlotInv => TypeOK
    <2> SUFFICES ASSUME PInv, SlotInv PROVE TypeOK
      OBVIOUS
    <2>1. Cardinality(InUse) \in Nat /\ free + Cardinality(InUse) = QueueMax /\ free \in Nat
      BY FS_CardinalityType DEF SlotInv, PInv, Typed
    <2>2. free \in 0..QueueMax
      BY <2>1, Bounds
    <2>3. QED
      BY <2>2 DEF PInv, Typed, TypeOK, SharedOK
  <1>2. QED
    BY <1>1, SlotsHold, PTL
=============================================================================
