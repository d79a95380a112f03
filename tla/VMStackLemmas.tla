---------------------------- MODULE VMStackLemmas ----------------------------
(***************************************************************************)
(* Lemmas about sequences that are used as stacks, and about the walks     *)
(* down the chains of a stack (idio_vm_find_stack_marker and the loops     *)
(* that follow "next").                                                    *)
(***************************************************************************)
EXTENDS VMStack, TLAPS, WellFoundedInduction, SequenceTheorems

(* A sequence of anything. *)
IsSeq(s) == \E S : s \in Seq(S)

(* The positions of a sequence.                                            *)
LEMMA SeqLen ==
    ASSUME NEW s, IsSeq(s)
    PROVE  Len(s) \in Nat /\ DOMAIN s = 1 .. Len(s)
<1>1. PICK S : s \in Seq(S)
  BY DEF IsSeq
<1> QED BY <1>1, LenProperties

(* Sequences of the same length and elements are the same.                 *)
LEMMA SeqSame ==
    ASSUME NEW s, IsSeq(s), NEW t, IsSeq(t), Len(s) = Len(t),
           \A i \in 1 .. Len(s) : s[i] = t[i]
    PROVE  s = t
<1>1. PICK S : s \in Seq(S)
  BY DEF IsSeq
<1>2. PICK T : t \in Seq(T)
  BY DEF IsSeq
<1>3. s \in Seq(S \cup T) /\ t \in Seq(S \cup T)
  BY <1>1, <1>2, SeqMonotonic
<1> QED BY <1>3, SeqEqual

(* The first n elements of a sequence.                                     *)
LEMMA SeqCut ==
    ASSUME NEW s, IsSeq(s), NEW n \in 0 .. Len(s)
    PROVE  /\ IsSeq(SubSeq(s, 1, n)) /\ Len(SubSeq(s, 1, n)) = n
           /\ \A i \in 1 .. n : SubSeq(s, 1, n)[i] = s[i]
<1>1. PICK S : s \in Seq(S)
  BY DEF IsSeq
<1>2. Len(s) \in Nat /\ \A i \in 1 .. n : s[i] \in S
  BY <1>1, LenProperties, ElementOfSeq
<1>3. SubSeq(s, 1, n) \in Seq(S) /\ Len(SubSeq(s, 1, n)) = (IF 1 <= n THEN n - 1 + 1 ELSE 0)
      /\ \A i \in 1 .. n - 1 + 1 : SubSeq(s, 1, n)[i] = s[1 + i - 1]
  BY <1>2, SubSeqProperties
<1> QED BY <1>3 DEF IsSeq

(* The first m of the first n.                                             *)
LEMMA SeqCutCut ==
    ASSUME NEW s, IsSeq(s), NEW n \in 0 .. Len(s), NEW m \in 0 .. n
    PROVE  SubSeq(SubSeq(s, 1, n), 1, m) = SubSeq(s, 1, m)
<1>1. Len(s) \in Nat
  BY SeqLen
<1> DEFINE t == SubSeq(s, 1, n)
<1>2. IsSeq(t) /\ Len(t) = n /\ \A i \in 1 .. n : t[i] = s[i]
  BY SeqCut
<1> HIDE DEF t
<1>3. IsSeq(SubSeq(t, 1, m)) /\ Len(SubSeq(t, 1, m)) = m
      /\ \A i \in 1 .. m : SubSeq(t, 1, m)[i] = t[i]
  BY <1>2, SeqCut
<1>4. m \in 0 .. Len(s)
  BY <1>1
<1>5. IsSeq(SubSeq(s, 1, m)) /\ Len(SubSeq(s, 1, m)) = m
      /\ \A i \in 1 .. m : SubSeq(s, 1, m)[i] = s[i]
  BY <1>4, SeqCut
<1>6. SubSeq(t, 1, m) = SubSeq(s, 1, m)
  BY <1>2, <1>3, <1>5, SeqSame
<1> QED BY <1>6 DEF t

(* One more element; what was there stays.                                 *)
LEMMA SeqAppend ==
    ASSUME NEW s, IsSeq(s), NEW x
    PROVE  /\ IsSeq(Append(s, x)) /\ Len(Append(s, x)) = Len(s) + 1
           /\ Append(s, x)[Len(s) + 1] = x
           /\ \A i \in 1 .. Len(s) : Append(s, x)[i] = s[i]
           /\ \A n \in 0 .. Len(s) : SubSeq(Append(s, x), 1, n) = SubSeq(s, 1, n)
<1>1. PICK S : s \in Seq(S)
  BY DEF IsSeq
<1>2. s \in Seq(S \cup {x}) /\ x \in S \cup {x} /\ Len(s) \in Nat
  BY <1>1, SeqMonotonic, LenProperties
<1> DEFINE t == Append(s, x)
<1>3. t \in Seq(S \cup {x}) /\ Len(t) = Len(s) + 1
      /\ \A i \in 1 .. Len(s) : t[i] = s[i]
      /\ t[Len(s) + 1] = x
  BY <1>2, AppendProperties
<1>4. IsSeq(t)
  BY <1>3 DEF IsSeq
<1> HIDE DEF t
<1>5. ASSUME NEW n \in 0 .. Len(s) PROVE SubSeq(t, 1, n) = SubSeq(s, 1, n)
  <2>1. n \in 0 .. Len(t)
    BY <1>2, <1>3
  <2>2. IsSeq(SubSeq(t, 1, n)) /\ Len(SubSeq(t, 1, n)) = n
        /\ \A i \in 1 .. n : SubSeq(t, 1, n)[i] = t[i]
    BY <1>4, <2>1, SeqCut
  <2>3. IsSeq(SubSeq(s, 1, n)) /\ Len(SubSeq(s, 1, n)) = n
        /\ \A i \in 1 .. n : SubSeq(s, 1, n)[i] = s[i]
    BY SeqCut
  <2> QED BY <1>2, <1>3, <2>2, <2>3, SeqSame
<1> QED BY <1>3, <1>4, <1>5 DEF t

(* All but the first element.                                              *)
LEMMA SeqTail ==
    ASSUME NEW s, IsSeq(s), s # << >>
    PROVE  /\ IsSeq(Tail(s)) /\ Len(Tail(s)) = Len(s) - 1
           /\ \A i \in 1 .. Len(s) - 1 : Tail(s)[i] = s[i + 1]
<1>1. PICK S : s \in Seq(S)
  BY DEF IsSeq
<1>2. Tail(s) \in Seq(S) /\ Len(Tail(s)) = Len(s) - 1
      /\ \A i \in 1 .. Len(Tail(s)) : Tail(s)[i] = s[i + 1]
  BY <1>1, HeadTailProperties
<1> QED BY <1>2 DEF IsSeq

(* Two sequences put together: each position is one of the first or of the *)
(* second.                                                                 *)
LEMMA SeqConcat ==
    ASSUME NEW s, IsSeq(s), NEW t, IsSeq(t)
    PROVE  /\ IsSeq(s \o t) /\ Len(s \o t) = Len(s) + Len(t)
           /\ \A i \in 1 .. Len(s) : (s \o t)[i] = s[i]
           /\ \A i \in 1 .. Len(t) : (s \o t)[Len(s) + i] = t[i]
           /\ \A i \in 1 .. Len(s) + Len(t) :
                  i <= Len(s) \/ \E j \in 1 .. Len(t) : i = Len(s) + j
<1>1. PICK S : s \in Seq(S)
  BY DEF IsSeq
<1>2. PICK T : t \in Seq(T)
  BY DEF IsSeq
<1>3. s \in Seq(S \cup T) /\ t \in Seq(S \cup T)
  BY <1>1, <1>2, SeqMonotonic
<1>4. s \o t \in Seq(S \cup T) /\ Len(s \o t) = Len(s) + Len(t)
      /\ \A i \in 1 .. Len(s) + Len(t) :
             (s \o t)[i] = IF i <= Len(s) THEN s[i] ELSE t[i - Len(s)]
  BY <1>3, ConcatProperties
<1>5. Len(s) \in Nat /\ Len(t) \in Nat
  BY SeqLen
<1>6. ASSUME NEW i \in 1 .. Len(s) + Len(t)
      PROVE  i <= Len(s) \/ \E j \in 1 .. Len(t) : i = Len(s) + j
  <2>1. CASE i > Len(s)
    <3>1. i - Len(s) \in 1 .. Len(t) /\ i = Len(s) + (i - Len(s))
      BY <1>5, <2>1
    <3> QED BY <3>1
  <2> QED BY <1>5, <2>1
<1> QED BY <1>4, <1>5, <1>6 DEF IsSeq

(* Sequences written out.                                                  *)
LEMMA SeqShort ==
    /\ IsSeq(<< >>) /\ Len(<< >>) = 0
    /\ \A x : IsSeq(<<x>>) /\ Len(<<x>>) = 1 /\ <<x>>[1] = x
    /\ \A x, y : /\ IsSeq(<<x, y>>) /\ Len(<<x, y>>) = 2
                 /\ <<x, y>>[1] = x /\ <<x, y>>[2] = y
    /\ \A x, y, z : /\ IsSeq(<<x, y, z>>) /\ Len(<<x, y, z>>) = 3
                    /\ <<x, y, z>>[1] = x /\ <<x, y, z>>[2] = y /\ <<x, y, z>>[3] = z
<1>1. \A x, y, z : /\ << >> \in Seq({}) /\ <<x>> \in Seq({x}) /\ <<x, y>> \in Seq({x, y})
                   /\ <<x, y, z>> \in Seq({x, y, z})
  OBVIOUS
<1> QED BY <1>1 DEF IsSeq

(* Putting a written sequence at the end appends its elements in turn.     *)
LEMMA SeqAppends ==
    ASSUME NEW s, IsSeq(s)
    PROVE  /\ \A x : s \o <<x>> = Append(s, x)
           /\ \A x, y : s \o <<x, y>> = Append(Append(s, x), y)
           /\ \A x, y, z : s \o <<x, y, z>> = Append(Append(Append(s, x), y), z)
<1>1. PICK S : s \in Seq(S)
  BY DEF IsSeq
<1>2. ASSUME NEW x, NEW y, NEW z
      PROVE  s \o <<x>> = Append(s, x) /\ s \o <<x, y>> = Append(Append(s, x), y)
             /\ s \o <<x, y, z>> = Append(Append(Append(s, x), y), z)
  <2>1. s \in Seq(S \cup {x, y, z})
    BY <1>1, SeqMonotonic
  <2> QED BY <2>1
<1> QED BY <1>2

(* A function on 1 .. n is a sequence of length n.                         *)
LEMMA SeqMake ==
    ASSUME NEW n \in Nat, NEW f, f = [i \in 1 .. n |-> f[i]]
    PROVE  IsSeq(f) /\ Len(f) = n
<1>1. f \in [1 .. n -> {f[i] : i \in 1 .. n}]
  BY Zenon
<1>2. f \in Seq({f[i] : i \in 1 .. n})
  BY <1>1
<1>3. Len(f) = n
  BY <1>1, <1>2
<1> QED BY <1>2, <1>3 DEF IsSeq

(* Every inhabited set of naturals has a least element, a bounded one a    *)
(* greatest.                                                               *)
LEMMA Least ==
    ASSUME NEW T \in SUBSET Nat, T # {}
    PROVE  \E n \in T : \A m \in T : n <= m
<1> DEFINE R == OpToRel(<, Nat)
<1>1. \A x, y \in Nat : x < y => <<x, y>> \in R
  BY DEF OpToRel
<1>2. IsWellFoundedOn(R, Nat)
  BY NatLessThanWellFounded, Zenon
<1> HIDE DEF R
<1>3. \E x \in T : \A y \in T : ~ (<<y, x>> \in R)
  BY <1>2, WFMin, Zenon
<1>4. PICK x \in T : \A y \in T : ~ (<<y, x>> \in R)
  BY <1>3
<1>5. ASSUME NEW m \in T PROVE x <= m
  <2>1. x \in Nat /\ m \in Nat /\ ~ (<<m, x>> \in R)
    BY <1>4
  <2>2. ~(m < x)
    BY <2>1, <1>1
  <2> QED BY <2>1, <2>2
<1> QED BY <1>5

(* A set of numbers that has a bound has a greatest one, and Max is it.    *)
LEMMA Greatest ==
    ASSUME NEW n \in Nat, NEW T \in SUBSET (0 .. n), T # {}
    PROVE  Max(T) \in T /\ \A m \in T : m <= Max(T)
<1> DEFINE U == {k \in Nat : \A m \in T : m <= k}
<1>1. n \in U
  OBVIOUS
<1>2. U \in SUBSET Nat /\ U # {}
  BY <1>1
<1> HIDE DEF U
<1>3. PICK k \in U : \A j \in U : k <= j
  BY <1>2, Least
<1>4. k \in Nat /\ \A m \in T : m <= k
  BY DEF U
<1>5. k \in T
  <2>1. SUFFICES ASSUME k \notin T PROVE FALSE
    OBVIOUS
  <2>2. \A m \in T : m <= k - 1 /\ m \in Nat
    BY <1>4, <2>1
  <2>5. PICK m \in T : TRUE
    OBVIOUS
  <2>3. k - 1 \in Nat
    BY <1>4, <2>2, <2>5
  <2>4. k - 1 \in U
    BY <2>2, <2>3 DEF U
  <2> QED BY <1>3, <1>4, <2>4
<1>6. \E x \in T : \A y \in T : x >= y
  BY <1>4, <1>5
<1>7. Max(T) \in T /\ \A y \in T : Max(T) >= y
  BY <1>6 DEF Max
<1> QED BY <1>4, <1>7

(* idio_vm_find_stack_marker: the topmost frame of the kind, or 0.         *)
LEMMA Marker ==
    ASSUME NEW s, IsSeq(s), NEW m
    PROVE  /\ FindMarker(s, m) \in 0 .. Len(s)
           /\ FindMarker(s, m) # 0 => s[FindMarker(s, m)].m = m
           /\ \A i \in 1 .. Len(s) : s[i].m = m => i <= FindMarker(s, m) /\ FindMarker(s, m) # 0
<1>1. Len(s) \in Nat /\ DOMAIN s = 1 .. Len(s)
  BY SeqLen
<1> DEFINE T == Positions(s, m) \cup {0}
<1>2. T \in SUBSET (0 .. Len(s)) /\ T # {}
  BY <1>1 DEF Positions
<1>3. \A i \in T : i # 0 => s[i].m = m
  BY DEF Positions
<1>4. \A i \in 1 .. Len(s) : s[i].m = m => i \in T
  BY <1>1 DEF Positions
<1> HIDE DEF T
<1>5. Max(T) \in T /\ \A i \in T : i <= Max(T)
  BY <1>1, <1>2, Greatest
<1>6. FindMarker(s, m) = Max(T)
  BY DEF FindMarker, T
<1> DEFINE x == FindMarker(s, m)
<1>7. x \in T /\ \A i \in T : i <= x
  BY <1>5, <1>6
<1> HIDE DEF x
<1>8. x \in 0 .. Len(s)
  BY <1>2, <1>7
<1>9. x # 0 => s[x].m = m
  BY <1>3, <1>7
<1>10. \A i \in 1 .. Len(s) : s[i].m = m => i <= x /\ x # 0
  BY <1>1, <1>4, <1>7, <1>8
<1> QED BY <1>8, <1>9, <1>10 DEF x

(* A chain of positions that each point at a lower one, but those where a  *)
(* walk stops; and the function that takes each to where its walk stops.   *)
Descends(P, Stop, next) ==
    \A p \in P : p \in Stop \/ (next[p] \in P /\ next[p] < p)
Follows(g, P, Stop, next) ==
    g = [p \in P |-> IF p \in Stop THEN p ELSE g[next[p]]]

(* A walk down a chain of positions, each pointing at a lower one: the     *)
(* function that follows it exists, and ends where the test holds.         *)
LEMMA WalkExists ==
    ASSUME NEW N \in Nat, NEW P \in SUBSET (0 .. N), NEW Stop \in SUBSET P, NEW next,
           Descends(P, Stop, next)
    PROVE  \E g : Follows(g, P, Stop, next)
<1> DEFINE Upto(n) == {p \in P : p <= n}
           Good(n) == \E g : g = [p \in Upto(n) |-> IF p \in Stop THEN p ELSE g[next[p]]]
           Bad == {n \in Nat : ~Good(n)}
<1>0. \A p \in P : /\ p \in Nat /\ p <= N
                   /\ p \in Stop \/ (next[p] \in P /\ next[p] \in Nat /\ next[p] < p)
  <2>1. \A p \in P : p \in Nat /\ p <= N
    OBVIOUS
  <2> QED BY <2>1 DEF Descends
<1>1. Good(0)
  <2>1. \A p \in Upto(0) : p \in Stop
    <3> SUFFICES ASSUME NEW p \in P, p <= 0, p \notin Stop PROVE FALSE
      OBVIOUS
    <3>1. next[p] \in Nat /\ next[p] < p /\ p \in Nat
      BY <1>0
    <3> QED BY <3>1
  <2> DEFINE g == [p \in Upto(0) |-> p]
  <2>2. g = [p \in Upto(0) |-> IF p \in Stop THEN p ELSE g[next[p]]]
    BY <2>1
  <2> QED BY <2>2
<1>2. ASSUME NEW n \in Nat, Good(n) PROVE Good(n + 1)
  <2>1. PICK g : g = [p \in Upto(n) |-> IF p \in Stop THEN p ELSE g[next[p]]]
    BY <1>2
  <2> DEFINE h == [p \in Upto(n + 1) |-> IF p \in Stop THEN p ELSE g[next[p]]]
  <2>2. \A p \in Upto(n) : h[p] = g[p]
    <3>1. \A p \in Upto(n) : p \in Upto(n + 1)
      OBVIOUS
    <3>2. \A p \in Upto(n) : g[p] = IF p \in Stop THEN p ELSE g[next[p]]
      BY <2>1, Zenon
    <3>3. \A p \in Upto(n + 1) : h[p] = IF p \in Stop THEN p ELSE g[next[p]]
      BY Zenon
    <3> HIDE DEF h, Upto
    <3> QED BY <3>1, <3>2, <3>3
  <2>3. \A p \in Upto(n + 1) : p \notin Stop => next[p] \in Upto(n)
    <3> SUFFICES ASSUME NEW p \in P, p <= n + 1, p \notin Stop PROVE next[p] \in Upto(n)
      OBVIOUS
    <3>1. next[p] \in P /\ next[p] \in Nat /\ next[p] < p /\ p \in Nat
      BY <1>0
    <3>2. next[p] <= n
      BY <3>1
    <3> QED BY <3>1, <3>2
  <2>4. h = [p \in Upto(n + 1) |-> IF p \in Stop THEN p ELSE h[next[p]]]
    BY <2>2, <2>3
  <2> HIDE DEF h
  <2> QED BY <2>4
<1> HIDE DEF Good
<1>3. Good(N)
  <2>1. SUFFICES ASSUME ~Good(N) PROVE FALSE
    OBVIOUS
  <2>2. N \in Bad
    BY <2>1
  <2>3. Bad \in SUBSET Nat /\ Bad # {}
    BY <2>2
  <2>4. PICK n \in Bad : \A m \in Bad : n <= m
    BY <2>3, Least, Zenon
  <2>5. n \in Nat /\ ~Good(n) /\ n # 0
    BY <2>4, <1>1
  <2>6. n - 1 \in Nat /\ n - 1 \notin Bad
    BY <2>4, <2>5
  <2>7. Good(n - 1)
    BY <2>6
  <2>8. (n - 1) + 1 = n
    BY <2>5
  <2>9. Good((n - 1) + 1)
    BY <2>6, <2>7, <1>2
  <2> QED BY <2>5, <2>8, <2>9
<1>4. Upto(N) = P
  <2>1. \A p \in P : p <= N
    BY <1>0
  <2> QED BY <2>1
<1> HIDE DEF Upto
<1> QED BY <1>3, <1>4, Zenon DEF Good, Follows

(* A walk that descends until it may stop ends where it may, not above its *)
(* start.                                                                  *)
LEMMA WalkEnds ==
    ASSUME NEW N \in Nat, NEW P \in SUBSET (0 .. N), NEW Stop \in SUBSET P, NEW next,
           Descends(P, Stop, next),
           NEW w, Follows(w, P, Stop, next),
           NEW start \in P
    PROVE  w[start] \in Stop /\ w[start] <= start
<1> DEFINE Bad == {p \in P : ~(w[p] \in Stop /\ w[p] <= p)}
<1>0. \A p \in P : p \in Nat
  OBVIOUS
<1>3. \A p \in P : w[p] = IF p \in Stop THEN p ELSE w[next[p]]
  BY Zenon DEF Follows
<1>1. CASE Bad = {}
  BY <1>1
<1>2. CASE Bad # {}
  <2>1. Bad \in SUBSET Nat
    BY <1>0
  <2>2. PICK p \in Bad : \A q \in Bad : p <= q
    BY <1>2, <2>1, Least, Zenon
  <2>3. p \in P /\ p \in Nat /\ ~(w[p] \in Stop /\ w[p] <= p)
    BY <2>2
  <2>4. p \notin Stop
    BY <1>3, <2>3
  <2>5. next[p] \in P /\ next[p] < p /\ w[p] = w[next[p]]
    BY <1>3, <2>3, <2>4 DEF Descends
  <2>6. next[p] \notin Bad /\ next[p] \in Nat
    <3>1. next[p] \in Nat
      BY <2>5, <1>0
    <3>2. ~(p <= next[p])
      BY <2>3, <2>5, <3>1
    <3> QED BY <2>2, <3>1, <3>2, Zenon
  <2>7. w[next[p]] \in Stop /\ w[next[p]] <= next[p]
    BY <2>5, <2>6
  <2>8. w[p] \in Stop
    BY <2>5, <2>7
  <2>9. w[p] \in Nat
    BY <2>8, <1>0
  <2>10. w[p] <= p
    BY <2>3, <2>5, <2>6, <2>7, <2>9
  <2> QED BY <2>3, <2>8, <2>10
<1> QED BY <1>1, <1>2

(* The walk down the trap frames ends at a frame that takes the condition. *)
LEMMA MatchFacts ==
    ASSUME NEW s, IsSeq(s), NEW c, NEW start \in Positions(s, "trap"),
           \A p \in Positions(s, "trap") :
               InstanceIsa(c, s[p].type) \/ (s[p].next \in Positions(s, "trap") /\ s[p].next < p)
    PROVE  /\ Match(s, start, c) \in Positions(s, "trap")
           /\ InstanceIsa(c, s[Match(s, start, c)].type)
           /\ InstanceIsa(c, s[start].type) => Match(s, start, c) = start
<1> DEFINE P == Positions(s, "trap")
           Stop == {p \in P : InstanceIsa(c, s[p].type)}
           next == [p \in P |-> s[p].next]
           Eqn(g) == g = [p \in P |-> IF InstanceIsa(c, s[p].type) THEN p ELSE g[s[p].next]]
           w == CHOOSE g : Eqn(g)
<1>1. Len(s) \in Nat /\ P \in SUBSET (0 .. Len(s))
  BY SeqLen DEF Positions
<1>2. Stop \in SUBSET P /\ \A p \in P : p \in Stop \/ (next[p] \in P /\ next[p] < p)
  OBVIOUS
<1>3. \A p \in P : next[p] = s[p].next /\ (p \in Stop <=> InstanceIsa(c, s[p].type))
  OBVIOUS
<1>4. Match(s, start, c) = w[start]
  BY DEF Match
<1> HIDE DEF P, next, Stop
<1>5. PICK g : Follows(g, P, Stop, next)
  <2>1. Descends(P, Stop, next)
    BY <1>2 DEF Descends
  <2> QED BY <1>1, <1>2, <2>1, WalkExists
<1>6. Eqn(g)
  <2>1. \A p \in P : (IF p \in Stop THEN p ELSE g[next[p]])
                     = (IF InstanceIsa(c, s[p].type) THEN p ELSE g[s[p].next])
    BY <1>3
  <2> QED BY <1>5, <2>1 DEF Follows
<1>7. Eqn(w)
  <2> HIDE DEF Eqn
  <2> QED BY <1>6
<1> HIDE DEF w
<1>8. Follows(w, P, Stop, next)
  <2>1. \A p \in P : (IF p \in Stop THEN p ELSE w[next[p]])
                     = (IF InstanceIsa(c, s[p].type) THEN p ELSE w[s[p].next])
    BY <1>3
  <2> QED BY <1>7, <2>1 DEF Follows
<1>9. start \in P
  BY DEF P
<1>10. w[start] \in Stop
  <2>1. Descends(P, Stop, next)
    BY <1>2 DEF Descends
  <2> QED BY <1>1, <1>2, <1>8, <1>9, <2>1, WalkEnds
<1>11. start \in Stop => w[start] = start
  BY <1>8, <1>9 DEF Follows
<1> QED BY <1>2, <1>3, <1>4, <1>9, <1>10, <1>11 DEF P

(* idio_vm_find_max_trap finds a trap frame.                               *)
LEMMA MaxTrap ==
    ASSUME NEW s, IsSeq(s), Positions(s, "trap") # {},
           \A p \in Positions(s, "trap") : s[p].next \in 0 .. Len(s)
    PROVE  FindMaxTrap(s) \in Positions(s, "trap")
<1> DEFINE P == Positions(s, "trap")
           T == {s[p].next : p \in P}
           M == {p \in P : \A q \in P : s[q].next <= s[p].next}
<1>1. Len(s) \in Nat /\ P \in SUBSET (0 .. Len(s))
  BY SeqLen DEF Positions
<1>2. T \in SUBSET (0 .. Len(s)) /\ T # {}
  OBVIOUS
<1>3. Max(T) \in T /\ \A m \in T : m <= Max(T)
  <2> HIDE DEF T
  <2> QED BY <1>1, <1>2, Greatest
<1>4. M # {}
  BY <1>3
<1>5. M \in SUBSET (0 .. Len(s))
  BY <1>1
<1>6. Max(M) \in M
  <2> HIDE DEF M
  <2> QED BY <1>1, <1>4, <1>5, Greatest
<1> QED BY <1>6 DEF FindMaxTrap

(* idio_vm_find_abort_1 finds the first ABORT, idio_vm_find_abort_2 one of *)
(* the others or nothing.                                                  *)
LEMMA AbortFacts ==
    ASSUME NEW s, IsSeq(s), Positions(s, "abort") # {},
           \A p \in Positions(s, "abort") :
               s[p].next = 0 \/ (s[p].next \in Positions(s, "abort") /\ s[p].next < p)
    PROVE  /\ FindAbort1(s) \in Positions(s, "abort") /\ s[FindAbort1(s)].next = 0
           /\ FindAbort2(s) \in Positions(s, "abort") \cup {0}
           /\ FindAbort2(s) # 0 => LET q == s[FindAbort2(s)].next IN q # 0 /\ s[q].next = 0
<1> DEFINE P == Positions(s, "abort")
           top == FindMarker(s, "abort")
           next == [p \in P |-> s[p].next]
<1>1. Len(s) \in Nat /\ P \in SUBSET (0 .. Len(s)) /\ \A p \in P : p # 0 /\ p \in Nat
  BY SeqLen DEF Positions
<1>2. top \in P
  <2>1. PICK p \in P : TRUE
    OBVIOUS
  <2>2. p \in 1 .. Len(s) /\ s[p].m = "abort"
    BY SeqLen DEF Positions
  <2>3. top \in 1 .. Len(s) /\ s[top].m = "abort"
    BY <1>1, <2>2, Marker
  <2> QED BY <2>3, SeqLen DEF Positions
<1>3. \A p \in P : next[p] = s[p].next
  OBVIOUS
<1>4. \A p \in P : next[p] = 0 \/ (next[p] \in P /\ next[p] < p)
  OBVIOUS
<1>5. FindAbort1(s) \in P /\ s[FindAbort1(s)].next = 0
  <2> DEFINE Stop == {p \in P : s[p].next = 0}
             Eqn(g) == g = [p \in P |-> IF s[p].next = 0 THEN p ELSE g[s[p].next]]
             w == CHOOSE g : Eqn(g)
  <2>1. FindAbort1(s) = w[top]
    BY DEF FindAbort1
  <2>2. Stop \in SUBSET P /\ \A p \in P : p \in Stop <=> next[p] = 0
    BY <1>3
  <2> HIDE DEF P, next, Stop, top
  <2>3. Descends(P, Stop, next)
    BY <1>4, <2>2 DEF Descends
  <2>4. PICK g : Follows(g, P, Stop, next)
    BY <1>1, <2>2, <2>3, WalkExists
  <2>5. Eqn(g)
    <3>1. \A p \in P : (IF p \in Stop THEN p ELSE g[next[p]])
                       = (IF s[p].next = 0 THEN p ELSE g[s[p].next])
      BY <1>3, <2>2
    <3> QED BY <2>4, <3>1 DEF Follows
  <2>6. Eqn(w)
    <3> HIDE DEF Eqn
    <3> QED BY <2>5
  <2> HIDE DEF w
  <2>7. Follows(w, P, Stop, next)
    <3>1. \A p \in P : (IF p \in Stop THEN p ELSE w[next[p]])
                       = (IF s[p].next = 0 THEN p ELSE w[s[p].next])
      BY <1>3, <2>2
    <3> QED BY <2>6, <3>1 DEF Follows
  <2>8. w[top] \in Stop
    BY <1>1, <1>2, <2>2, <2>3, <2>7, WalkEnds
  <2> QED BY <1>3, <2>1, <2>2, <2>8
<1>6. /\ FindAbort2(s) \in P \cup {0}
      /\ FindAbort2(s) # 0 => s[FindAbort2(s)].next # 0 /\ s[s[FindAbort2(s)].next].next = 0
  <2> DEFINE above == {p \in P : s[p].next # 0}
             Stop == {p \in above : s[s[p].next].next = 0}
             Eqn(g) == g = [p \in above |-> IF s[s[p].next].next = 0 THEN p ELSE g[s[p].next]]
             w == CHOOSE g : Eqn(g)
  <2>1. FindAbort2(s) = IF s[top].next = 0 THEN 0 ELSE w[top]
    BY DEF FindAbort2
  <2>2. CASE s[top].next = 0
    BY <2>1, <2>2
  <2>3. CASE s[top].next # 0
    <3>1. Stop \in SUBSET above /\ above \in SUBSET (0 .. Len(s)) /\ above \in SUBSET P
      BY <1>1
    <3>2. \A p \in above : /\ p \in Stop <=> s[s[p].next].next = 0
                           /\ p \in Stop \/ (next[p] \in above /\ next[p] < p)
      BY <1>3, <1>4
    <3>3. top \in above
      BY <1>2, <2>3
    <3>4. \A p \in above : next[p] = s[p].next
      BY <1>3
    <3>11. \A p \in above : s[p].next # 0
      OBVIOUS
    <3> HIDE DEF P, next, Stop, top, above
    <3>10. Descends(above, Stop, next)
      BY <3>2 DEF Descends
    <3>5. PICK g : Follows(g, above, Stop, next)
      BY <1>1, <3>1, <3>10, WalkExists
    <3>6. Eqn(g)
      <4>1. \A p \in above : (IF p \in Stop THEN p ELSE g[next[p]])
                         = (IF s[s[p].next].next = 0 THEN p ELSE g[s[p].next])
        BY <3>4, <3>2
      <4> QED BY <3>5, <4>1 DEF Follows
    <3>7. Eqn(w)
      <4> HIDE DEF Eqn
      <4> QED BY <3>6
    <3> HIDE DEF w
    <3>8. Follows(w, above, Stop, next)
      <4>1. \A p \in above : (IF p \in Stop THEN p ELSE w[next[p]])
                         = (IF s[s[p].next].next = 0 THEN p ELSE w[s[p].next])
        BY <3>4, <3>2
      <4> QED BY <3>7, <4>1 DEF Follows
    <3>9. w[top] \in Stop
      BY <1>1, <3>1, <3>3, <3>8, <3>10, WalkEnds
    <3> QED BY <2>1, <2>3, <3>1, <3>2, <3>9, <3>11
  <2> QED BY <2>2, <2>3
<1> QED BY <1>5, <1>6
=============================================================================
