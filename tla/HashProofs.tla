----------------------------- MODULE HashProofs -----------------------------
(***************************************************************************)
(* Proofs about `Hash', for every set of keys and values, every hashing    *)
(* function, however its keys collide, and every size: the inductive       *)
(* invariant, the properties that follow from it, and that a table is a    *)
(* set of pairs.                                                           *)
(***************************************************************************)
EXTENDS Hash, FiniteSetTheorems, TLAPS

Distinct(S) == \A d, e \in S : d.key = e.key => d = e

Apart(S, T) == \A d \in S, e \in T : d.key # e.key

(* The buckets of a table of n slots and c entries.                        *)
Placed(n, f) ==
    \A b \in DOMAIN f : \A i \in DOMAIN f[b] :
        /\ Index(f[b][i].key, n) = b
        /\ \A j \in DOMAIN f[b] : f[b][i].key = f[b][j].key => i = j

Counted(c, S) == IsFiniteSet(S) /\ c = Cardinality(S)

Sound(n, c, f) == Placed(n, f) /\ Counted(c, EntriesOf(f))

(* What is still to be put back, or to be copied, is not there yet.        *)
OnTheMove ==
    /\ IF pc = "resize"
       THEN /\ Distinct(old) /\ Counted(hcount - count, old)
            /\ Apart(Entries, old)
            /\ hcount < LoadHigh(size)
       ELSE old = {}
    /\ IF op = "copy"
       THEN /\ Distinct(todo) /\ Apart(Entries, todo) /\ Apart(old, todo)
            /\ EntriesOf(orig.ha) = Pairs
       ELSE orig = NoTable
    /\ op = "none" => todo = {}

(* What the steps of a put and a delete rely on.                           *)
Loads ==
    /\ pc = "idle" => count <= LoadHigh(size)
    /\ pc = "shrink" => count < size \div 16 /\ op = "none"
    /\ pc \notin {"nested", "lost"}
    /\ orig.count <= LoadHigh(orig.size)

IInv ==
    /\ TypeOK
    /\ Sound(size, count, ha) /\ Sound(orig.size, orig.count, orig.ha)
    /\ OnTheMove
    /\ Loads

-----------------------------------------------------------------------------
(* idio_hash_put: one entry for the key, in its bucket, and the others are *)
(* what they were.                                                         *)
LEMMA PutFacts ==
    ASSUME NEW k \in Key, NEW v \in Value,
           TableType(Table), Sound(size, count, ha), Put(k, v)
    PROVE  /\ TableType(Table)'
           /\ Sound(size, count, ha)'
           /\ Entries' = {e \in Entries : e.key # k} \cup {[key |-> k, value |-> v]}
           /\ IF \E e \in Entries : e.key = k THEN count' = count ELSE count' = count + 1
<1> DEFINE n == Index(k, size)
           B == ha[n]
           new == [key |-> k, value |-> v]
<1>1. /\ size \in Nat \ {0} /\ size \in Sizes /\ size' = size
      /\ count \in Nat /\ n \in 0 .. size - 1
      /\ ha \in [0 .. size - 1 -> Seq(Entry)] /\ B \in Seq(Entry)
      /\ new \in Entry /\ new.key = k
  <2>1. /\ size \in Sizes /\ size' = size /\ count \in Nat
        /\ ha \in [0 .. size - 1 -> Seq(Entry)]
    BY DEF TableType, Table, Put
  <2>2. size \in Nat \ {0} /\ HashOf[k] \in Nat
    BY <2>1, HashAssumption DEF HashAssumption
  <2>3. n \in 0 .. size - 1
    BY <2>2 DEF Index
  <2> QED BY <2>1, <2>2, <2>3 DEF Entry
<1>2. \A e : e \in Entries <=> \E b \in 0 .. size - 1 : \E i \in DOMAIN ha[b] : e = ha[b][i]
  BY <1>1 DEF Entries, EntriesOf
<1>3. \A b \in 0 .. size - 1 : \A i \in DOMAIN ha[b] :
        /\ Index(ha[b][i].key, size) = b
        /\ ha[b][i] \in Entry
        /\ \A j \in DOMAIN ha[b] : ha[b][i].key = ha[b][j].key => i = j
  <2>1. DOMAIN ha = 0 .. size - 1
    BY <1>1
  <2>2. \A b \in 0 .. size - 1 : \A i \in DOMAIN ha[b] : ha[b][i] \in Entry
    BY <1>1
  <2> QED BY <2>1, <2>2 DEF Sound, Placed
<1>4. IsFiniteSet(Entries) /\ count = Cardinality(Entries)
  BY DEF Sound, Counted, Entries
<1>5. CASE \E i \in DOMAIN Bucket(k) : IsFirst(i, k) /\ Replace(i, k, v)
  <2>1. PICK i \in DOMAIN B : B[i].key = k /\ Replace(i, k, v)
    BY <1>5 DEF IsFirst, Bucket
  <2> DEFINE C == [B EXCEPT ![i] = new]
  <2>2. C \in Seq(Entry) /\ DOMAIN C = DOMAIN B /\ C[i] = new
        /\ \A j \in DOMAIN B : j # i => C[j] = B[j]
    BY <1>1
  <2>3. /\ count' = count
        /\ ha' \in [0 .. size - 1 -> Seq(Entry)] /\ ha'[n] = C
        /\ \A b \in 0 .. size - 1 : b # n => ha'[b] = ha[b]
    BY <1>1, <2>1, <2>2 DEF Replace
  <2>4. Placed(size, ha')
    <3>1. ASSUME NEW b \in 0 .. size - 1, NEW j \in DOMAIN ha'[b]
          PROVE  j \in DOMAIN ha[b] /\ ha'[b][j].key = ha[b][j].key
      BY <1>1, <2>1, <2>2, <2>3
    <3>2. \A b \in 0 .. size - 1 : DOMAIN ha'[b] = DOMAIN ha[b]
      BY <1>1, <2>2, <2>3
    <3> QED BY <1>3, <2>3, <3>1, <3>2 DEF Placed
  <2>5. \A e : e \in Entries' <=> \E b \in 0 .. size - 1 : \E j \in DOMAIN ha'[b] : e = ha'[b][j]
    <3>1. DOMAIN ha' = 0 .. size - 1
      BY <2>3
    <3> QED BY <3>1 DEF Entries, EntriesOf
  <2>6. B[i] \in Entries /\ \A e \in Entries : e.key = k => e = B[i]
    BY <1>1, <1>2, <1>3, <2>1
  <2>7. Entries' = (Entries \ {B[i]}) \cup {new}
    <3>1. ASSUME NEW e \in Entries' PROVE e \in (Entries \ {B[i]}) \cup {new}
      <4>0. PICK b \in 0 .. size - 1 : \E j \in DOMAIN ha'[b] : e = ha'[b][j]
        BY <2>5
      <4>1. PICK j \in DOMAIN ha'[b] : e = ha'[b][j]
        BY <4>0
      <4>2. CASE b = n /\ j = i
        BY <2>2, <2>3, <4>1, <4>2
      <4>3. CASE ~(b = n /\ j = i)
        <5>1. j \in DOMAIN ha[b] /\ e = ha[b][j]
          BY <2>2, <2>3, <4>1, <4>3
        <5>2. e.key # k \/ (b = n /\ j = i)
          BY <1>1, <1>3, <2>1, <5>1
        <5> QED BY <1>2, <2>1, <4>3, <5>1, <5>2
      <4> QED BY <4>2, <4>3
    <3>2. ASSUME NEW e \in Entries, e # B[i] PROVE e \in Entries'
      <4>0. PICK b \in 0 .. size - 1 : \E j \in DOMAIN ha[b] : e = ha[b][j]
        BY <1>2
      <4>1. PICK j \in DOMAIN ha[b] : e = ha[b][j]
        BY <4>0
      <4>2. j \in DOMAIN ha'[b] /\ e = ha'[b][j]
        BY <2>2, <2>3, <3>2, <4>1
      <4> QED BY <2>5, <4>2
    <3>3. new \in Entries'
      BY <1>1, <2>2, <2>3, <2>5
    <3> QED BY <3>1, <3>2, <3>3
  <2>8. new \notin Entries \ {B[i]}
    BY <1>1, <2>6
  <2>9. IsFiniteSet(Entries') /\ Cardinality(Entries') = count
    <3>1. /\ IsFiniteSet(Entries \ {B[i]})
          /\ Cardinality(Entries \ {B[i]}) = count - 1
      BY <1>4, <2>6, FS_RemoveElement
    <3>2. /\ IsFiniteSet((Entries \ {B[i]}) \cup {new})
          /\ Cardinality((Entries \ {B[i]}) \cup {new}) = count - 1 + 1
      BY <2>8, <3>1, FS_AddElement
    <3> QED BY <1>1, <2>7, <3>2
  <2>10. Entries' = {e \in Entries : e.key # k} \cup {new}
    BY <2>1, <2>6, <2>7
  <2> QED
    BY <1>1, <2>1, <2>3, <2>4, <2>6, <2>9, <2>10
    DEF TableType, Table, Sound, Counted, Entries
<1>6. CASE Absent(k) /\ Prepend(k, v)
  <2> DEFINE C == <<new>> \o B
  <2>1. /\ C \in Seq(Entry) /\ Len(C) = Len(B) + 1 /\ C[1] = new
        /\ \A j \in DOMAIN B : C[j + 1] = B[j]
        /\ \A j \in DOMAIN C : j = 1 \/ (j - 1 \in DOMAIN B /\ C[j] = B[j - 1])
        /\ DOMAIN B = 1 .. Len(B) /\ DOMAIN C = 1 .. Len(C) /\ Len(B) \in Nat
    BY <1>1
  <2>2. /\ count' = count + 1
        /\ ha' \in [0 .. size - 1 -> Seq(Entry)] /\ ha'[n] = C
        /\ \A b \in 0 .. size - 1 : b # n => ha'[b] = ha[b]
    BY <1>1, <1>6, <2>1 DEF Prepend
  <2>3. \A j \in DOMAIN B : B[j].key # k
    BY <1>6 DEF Absent, Bucket
  <2>4. Placed(size, ha')
    <3>1. ASSUME NEW b \in 0 .. size - 1, b # n, NEW i \in DOMAIN ha'[b]
          PROVE  /\ Index(ha'[b][i].key, size) = b
                 /\ \A j \in DOMAIN ha'[b] : ha'[b][i].key = ha'[b][j].key => i = j
      BY <1>3, <2>2, <3>1
    <3>2. ASSUME NEW i \in DOMAIN C
          PROVE  /\ Index(C[i].key, size) = n
                 /\ \A j \in DOMAIN C : C[i].key = C[j].key => i = j
      <4>1. CASE i = 1
        BY <1>1, <2>1, <2>3, <4>1
      <4>2. CASE i # 1
        <5>1. i - 1 \in DOMAIN B /\ C[i] = B[i - 1]
          BY <2>1, <4>2
        <5>2. Index(C[i].key, size) = n /\ C[i].key # k
          BY <1>1, <1>3, <2>3, <5>1
        <5>3. ASSUME NEW j \in DOMAIN C, C[i].key = C[j].key PROVE i = j
          <6>1. j # 1
            BY <1>1, <2>1, <5>2, <5>3
          <6>2. j - 1 \in DOMAIN B /\ C[j] = B[j - 1]
            BY <2>1, <6>1
          <6>3. i - 1 = j - 1
            BY <1>1, <1>3, <5>1, <5>3, <6>2
          <6> QED BY <2>1, <6>3
        <5> QED BY <5>2, <5>3
      <4> QED BY <4>1, <4>2
    <3> QED BY <2>2, <3>1, <3>2 DEF Placed
  <2>5. \A e : e \in Entries' <=> \E b \in 0 .. size - 1 : \E j \in DOMAIN ha'[b] : e = ha'[b][j]
    <3>1. DOMAIN ha' = 0 .. size - 1
      BY <2>2
    <3> QED BY <3>1 DEF Entries, EntriesOf
  <2>6. \A e \in Entries : e.key # k
    BY <1>1, <1>2, <1>3, <2>3
  <2>7. Entries' = Entries \cup {new}
    <3>1. ASSUME NEW e \in Entries' PROVE e \in Entries \cup {new}
      <4>0. PICK b \in 0 .. size - 1 : \E j \in DOMAIN ha'[b] : e = ha'[b][j]
        BY <2>5
      <4>1. PICK j \in DOMAIN ha'[b] : e = ha'[b][j]
        BY <4>0
      <4>2. CASE b = n
        <5>1. j = 1 \/ (j - 1 \in DOMAIN B /\ e = B[j - 1])
          BY <2>1, <2>2, <4>1, <4>2
        <5>2. CASE j = 1
          BY <2>1, <2>2, <4>1, <4>2, <5>2
        <5>3. CASE j - 1 \in DOMAIN B /\ e = B[j - 1]
          BY <1>1, <1>2, <5>3
        <5> QED BY <5>1, <5>2, <5>3
      <4>3. CASE b # n
        BY <1>2, <2>2, <4>1, <4>3
      <4> QED BY <4>2, <4>3
    <3>2. ASSUME NEW e \in Entries PROVE e \in Entries'
      <4>1. PICK b \in 0 .. size - 1 : \E j \in DOMAIN ha[b] : e = ha[b][j]
        BY <1>2
      <4>2. PICK j \in DOMAIN ha[b] : e = ha[b][j]
        BY <4>1
      <4>3. CASE b = n
        <5>1. j + 1 \in DOMAIN C /\ C[j + 1] = e
          BY <1>1, <2>1, <4>2, <4>3
        <5> QED BY <1>1, <2>2, <2>5, <5>1
      <4>4. CASE b # n
        BY <2>2, <2>5, <4>2, <4>4
      <4> QED BY <4>3, <4>4
    <3>3. new \in Entries'
      <4>1. 1 \in DOMAIN ha'[n] /\ ha'[n][1] = new
        BY <2>1, <2>2
      <4> QED BY <1>1, <2>5, <4>1
    <3> QED BY <3>1, <3>2, <3>3
  <2>8. IsFiniteSet(Entries') /\ Cardinality(Entries') = count + 1
    BY <1>1, <1>4, <2>6, <2>7, FS_AddElement
  <2>9. Entries' = {e \in Entries : e.key # k} \cup {new}
    BY <2>6, <2>7
  <2> QED
    BY <1>1, <2>2, <2>4, <2>6, <2>8, <2>9 DEF TableType, Table, Sound, Counted, Entries
<1> QED BY <1>5, <1>6 DEF Put

(* idio_hash_delete: the entry of the key is gone, and no other.           *)
LEMMA UnlinkFacts ==
    ASSUME NEW k \in Key, NEW i \in DOMAIN Bucket(k),
           TableType(Table), Sound(size, count, ha), size' = size,
           IsFirst(i, k), Unlink(i, k)
    PROVE  /\ TableType(Table)'
           /\ Sound(size, count, ha)'
           /\ Entries' = {e \in Entries : e.key # k}
           /\ count' = count - 1
           /\ Bucket(k)[i] \in Entries
<1> DEFINE n == Index(k, size)
           B == ha[n]
           C == Without(B, i)
<1>1. /\ size \in Nat \ {0} /\ size \in Sizes
      /\ count \in Nat /\ n \in 0 .. size - 1
      /\ ha \in [0 .. size - 1 -> Seq(Entry)] /\ B \in Seq(Entry)
  <2>1. /\ size \in Sizes /\ count \in Nat
        /\ ha \in [0 .. size - 1 -> Seq(Entry)]
    BY DEF TableType, Table
  <2>2. size \in Nat \ {0} /\ HashOf[k] \in Nat
    BY <2>1, HashAssumption DEF HashAssumption
  <2>3. n \in 0 .. size - 1
    BY <2>2 DEF Index
  <2> QED BY <2>1, <2>2, <2>3
<1>2. \A e : e \in Entries <=> \E b \in 0 .. size - 1 : \E j \in DOMAIN ha[b] : e = ha[b][j]
  BY <1>1 DEF Entries, EntriesOf
<1>3. \A b \in 0 .. size - 1 : \A j \in DOMAIN ha[b] :
        /\ Index(ha[b][j].key, size) = b
        /\ ha[b][j] \in Entry
        /\ \A h \in DOMAIN ha[b] : ha[b][j].key = ha[b][h].key => j = h
  <2>1. DOMAIN ha = 0 .. size - 1
    BY <1>1
  <2>2. \A b \in 0 .. size - 1 : \A j \in DOMAIN ha[b] : ha[b][j] \in Entry
    BY <1>1
  <2> QED BY <2>1, <2>2 DEF Sound, Placed
<1>4. IsFiniteSet(Entries) /\ count = Cardinality(Entries)
  BY DEF Sound, Counted, Entries
<1>5. i \in DOMAIN B /\ B[i].key = k
  BY DEF IsFirst, Bucket
<1>6. /\ Len(B) \in Nat /\ DOMAIN B = 1 .. Len(B) /\ Len(B) >= 1
      /\ C = [j \in 1 .. Len(B) - 1 |-> IF j < i THEN B[j] ELSE B[j + 1]]
  BY <1>1, <1>5 DEF Without
<1>7. /\ DOMAIN C = 1 .. Len(B) - 1
      /\ \A j \in DOMAIN C : /\ j < i => j \in DOMAIN B /\ C[j] = B[j]
                             /\ j >= i => j + 1 \in DOMAIN B /\ C[j] = B[j + 1]
      /\ \A j \in DOMAIN B : /\ j < i => j \in DOMAIN C /\ C[j] = B[j]
                             /\ j > i => j - 1 \in DOMAIN C /\ C[j - 1] = B[j]
  BY <1>5, <1>6
<1>8. C \in Seq(Entry)
  <2>1. \A j \in 1 .. Len(B) - 1 : (IF j < i THEN B[j] ELSE B[j + 1]) \in Entry
    BY <1>1, <1>5, <1>6
  <2>2. Len(B) - 1 \in Nat
    BY <1>6
  <2>3. C \in [1 .. Len(B) - 1 -> Entry]
    BY <1>6, <2>1
  <2> HIDE DEF C
  <2> QED BY <2>2, <2>3
<1>9. /\ count' = count - 1
      /\ ha' \in [0 .. size - 1 -> Seq(Entry)] /\ ha'[n] = C
      /\ \A b \in 0 .. size - 1 : b # n => ha'[b] = ha[b]
  BY <1>1, <1>8 DEF Unlink
<1>10. Placed(size, ha')
  <2>1. ASSUME NEW b \in 0 .. size - 1, b # n, NEW j \in DOMAIN ha'[b]
        PROVE  /\ Index(ha'[b][j].key, size) = b
               /\ \A h \in DOMAIN ha'[b] : ha'[b][j].key = ha'[b][h].key => j = h
    BY <1>3, <1>9, <2>1
  <2>2. ASSUME NEW j \in DOMAIN C
        PROVE  /\ Index(C[j].key, size) = n
               /\ \A h \in DOMAIN C : C[j].key = C[h].key => j = h
    <3> DEFINE At(g) == IF g < i THEN g ELSE g + 1
    <3>1. \A g \in DOMAIN C : At(g) \in DOMAIN B /\ C[g] = B[At(g)]
      BY <1>5, <1>6, <1>7
    <3>2. \A g, h \in DOMAIN C : At(g) = At(h) => g = h
      BY <1>5, <1>6, <1>7
    <3> HIDE DEF At
    <3> QED BY <1>1, <1>3, <2>2, <3>1, <3>2
  <2> QED BY <1>9, <2>1, <2>2 DEF Placed
<1>11. \A e : e \in Entries' <=> \E b \in 0 .. size - 1 : \E j \in DOMAIN ha'[b] : e = ha'[b][j]
  <2>1. DOMAIN ha' = 0 .. size - 1
    BY <1>9
  <2> QED BY <2>1 DEF Entries, EntriesOf
<1>12. B[i] \in Entries /\ \A e \in Entries : e.key = k => e = B[i]
  BY <1>1, <1>2, <1>3, <1>5
<1>13. Entries' = Entries \ {B[i]}
  <2>1. ASSUME NEW e \in Entries' PROVE e \in Entries /\ e.key # k
    <3>1. PICK b \in 0 .. size - 1 : \E j \in DOMAIN ha'[b] : e = ha'[b][j]
      BY <1>11
    <3>2. PICK j \in DOMAIN ha'[b] : e = ha'[b][j]
      BY <3>1
    <3>3. CASE b = n
      <4>1. PICK h \in DOMAIN B : h # i /\ e = B[h]
        <5>1. j \in DOMAIN C /\ e = C[j]
          BY <1>9, <3>2, <3>3
        <5>2. CASE j < i
          BY <1>7, <5>1, <5>2
        <5>3. CASE j >= i
          <6>1. j + 1 \in DOMAIN B /\ e = B[j + 1]
            BY <1>7, <5>1, <5>3
          <6>2. j + 1 # i
            BY <1>5, <1>6, <1>7, <5>1, <5>3
          <6> QED BY <6>1, <6>2
        <5>4. j < i \/ j >= i
          BY <1>5, <1>6, <1>7, <5>1
        <5> QED BY <5>2, <5>3, <5>4
      <4> QED BY <1>1, <1>2, <1>3, <1>5, <4>1
    <3>4. CASE b # n
      <4>1. j \in DOMAIN ha[b] /\ e = ha[b][j]
        BY <1>9, <3>2, <3>4
      <4> QED BY <1>2, <1>3, <3>4, <4>1
    <3> QED BY <3>3, <3>4
  <2>2. ASSUME NEW e \in Entries, e # B[i] PROVE e \in Entries'
    <3>1. PICK b \in 0 .. size - 1 : \E j \in DOMAIN ha[b] : e = ha[b][j]
      BY <1>2
    <3>2. PICK j \in DOMAIN ha[b] : e = ha[b][j]
      BY <3>1
    <3>3. CASE b = n
      <4>1. j \in DOMAIN B /\ j # i /\ e = B[j]
        BY <2>2, <3>2, <3>3
      <4>2. \E h \in DOMAIN C : e = C[h]
        <5>1. CASE j < i
          BY <1>7, <4>1, <5>1
        <5>2. CASE j > i
          BY <1>7, <4>1, <5>2
        <5> QED BY <1>5, <1>6, <4>1, <5>1, <5>2
      <4> QED BY <1>1, <1>9, <1>11, <4>2
    <3>4. CASE b # n
      BY <1>9, <1>11, <3>2, <3>4
    <3> QED BY <3>3, <3>4
  <2> QED BY <1>5, <2>1, <2>2
<1>14. IsFiniteSet(Entries') /\ Cardinality(Entries') = count - 1
  BY <1>4, <1>12, <1>13, FS_RemoveElement
<1>15. Entries' = {e \in Entries : e.key # k}
  BY <1>5, <1>12, <1>13
<1>16. count - 1 \in Nat
  BY <1>1, <1>4, <1>12, FS_EmptySet
<1> QED
  BY <1>1, <1>9, <1>10, <1>12, <1>14, <1>15, <1>16
  DEF TableType, Table, Sound, Counted, Entries, Bucket

-----------------------------------------------------------------------------
(* Every state of the table satisfies the inductive invariant.             *)
LEMMA Invariance == Spec => []IInv
<1>0. /\ TableType(NoTable)
      /\ Sound(NoTable.size, NoTable.count, NoTable.ha)
      /\ NoTable.count <= LoadHigh(NoTable.size)
      /\ Empty(1) = NoTable.ha /\ NoTable.size = 1 /\ NoTable.count = 0
  <2> DEFINE f == [b \in {0} |-> << >>]
  <2>1. EntriesOf(f) = {} /\ Placed(1, f)
    BY DEF EntriesOf, Placed
  <2>2. f \in [0 .. 0 -> Seq(Entry)] /\ f = Empty(1)
    BY DEF Empty
  <2>3. NoTable.size = 1 /\ NoTable.count = 0 /\ NoTable.ha = f
    BY DEF NoTable
  <2>4. LoadHigh(1) = 0
    BY DEF LoadHigh
  <2> HIDE DEF f
  <2>5. Sound(1, 0, f)
    BY <2>1, FS_EmptySet DEF Sound, Counted
  <2>6. TableType(NoTable)
    BY <2>2, <2>3, HashAssumption DEF HashAssumption, TableType
  <2> QED BY <2>2, <2>3, <2>4, <2>5, <2>6
<1>1. Init => IInv
  <2> SUFFICES ASSUME Init PROVE IInv
    OBVIOUS
  <2>1. /\ size \in Sizes /\ size \in Nat \ {0} /\ 1 \in Sizes /\ ha = Empty(size) /\ count = 0
        /\ orig = NoTable /\ old = {} /\ freed = {} /\ pc = "idle" /\ hcount = 0
    BY HashAssumption DEF HashAssumption, Init
  <2>2. todo \subseteq Entry /\ op \in {"none", "alist"} /\ (op = "none" => todo = {})
    BY DEF Init, Others
  <2>3. ASSUME NEW s \in Nat \ {0}
        PROVE  /\ Empty(s) \in [0 .. s - 1 -> Seq(Entry)]
               /\ Placed(s, Empty(s)) /\ EntriesOf(Empty(s)) = {}
    BY DEF Empty, Placed, EntriesOf
  <2>5. Counted(0, {})
    BY FS_EmptySet DEF Counted
  <2>6. TypeOK
    <3>1. Empty(size) \in [0 .. size - 1 -> Seq(Entry)]
      BY <2>1, <2>3
    <3>2. TableType(orig) /\ TableType(Table)
      BY <1>0, <2>1, <3>1 DEF TableType, Table
    <3> QED BY <2>1, <2>2, <3>2 DEF TypeOK, PCs
  <2>7. Sound(size, count, ha) /\ Sound(orig.size, orig.count, orig.ha)
    <3>1. Sound(size, 0, Empty(size))
      BY <2>1, <2>3, <2>5 DEF Sound
    <3> QED BY <1>0, <2>1, <3>1
  <2>8. Loads
    BY <1>0, <2>1 DEF Loads, LoadHigh
  <2> QED BY <2>1, <2>2, <2>6, <2>7, <2>8 DEF IInv, OnTheMove
<1>2. IInv /\ [Next]_vars => IInv'
  <2> SUFFICES ASSUME IInv, [Next]_vars PROVE IInv'
    OBVIOUS
  <2>1. /\ TypeOK /\ OnTheMove /\ Loads
        /\ TableType(Table) /\ TableType(orig)
        /\ Sound(size, count, ha) /\ Sound(orig.size, orig.count, orig.ha)
        /\ size \in Nat \ {0} /\ count \in Nat /\ hcount \in Nat
    BY HashAssumption DEF HashAssumption, IInv, TypeOK, TableType, Table
  <2>2. ASSUME NEW e \in Entry
        PROVE  e.key \in Key /\ e.value \in Value /\ [key |-> e.key, value |-> e.value] = e
    BY DEF Entry
  <2>3. \A n \in Nat : LoadHigh(n) \in Nat
    BY DEF LoadHigh
  <2>4. ASSUME UNCHANGED vars PROVE IInv'
    BY <2>1, <2>4 DEF vars, IInv, TypeOK, OnTheMove, Loads, Pairs, Entries, Table
  <2>5. ASSUME NEW k \in Key, NEW v \in Value, HashPut(k, v) PROVE IInv'
    <3>1. /\ pc = "idle" /\ op = "none" /\ old = {} /\ todo = {} /\ orig = NoTable
          /\ Put(k, v)
          /\ UNCHANGED <<hcount, old, freed, op, todo, orig, size>>
          /\ pc' = IF count' > LoadHigh(size) THEN "grow" ELSE "idle"
      BY <2>1, <2>5 DEF HashPut, Idle, ThenGrow, Put, filling, OnTheMove
    <3>2. TableType(Table)' /\ Sound(size, count, ha)'
      BY <2>1, <3>1, PutFacts
    <3>3. count' \in Nat /\ (pc' = "idle" => count' <= LoadHigh(size'))
      BY <2>1, <2>3, <3>1, <3>2 DEF TableType, Table
    <3> QED BY <2>1, <3>1, <3>2, <3>3 DEF IInv, TypeOK, OnTheMove, Loads, PCs
  <2>6. ASSUME NEW k \in Key, HashDelete(k) PROVE IInv'
    <3>1. /\ pc = "idle" /\ op = "none" /\ old = {} /\ todo = {} /\ orig = NoTable
          /\ UNCHANGED <<hcount, old, freed, op, todo, orig, size>>
      BY <2>1, <2>6 DEF HashDelete, Idle, filling, OnTheMove
    <3>2. CASE UNCHANGED <<count, ha, pc>>
      BY <2>1, <3>1, <3>2 DEF IInv, TypeOK, OnTheMove, Loads, Table
    <3>3. CASE /\ \E i \in DOMAIN Bucket(k) : IsFirst(i, k) /\ Unlink(i, k)
               /\ pc' = IF count' < size \div 16 THEN "shrink" ELSE "idle"
      <4>1. PICK i \in DOMAIN Bucket(k) : IsFirst(i, k) /\ Unlink(i, k)
        BY <3>3
      <4>2. TableType(Table)' /\ Sound(size, count, ha)' /\ count' = count - 1
        BY <2>1, <3>1, <4>1, UnlinkFacts
      <4>3. /\ pc' = "idle" => count' <= LoadHigh(size')
            /\ pc' = "shrink" => count' < size' \div 16
        BY <2>1, <2>3, <3>1, <3>3, <4>2 DEF Loads
      <4> QED BY <2>1, <3>1, <3>3, <4>2, <4>3 DEF IInv, TypeOK, OnTheMove, Loads, PCs
    <3> QED BY <2>6, <3>2, <3>3 DEF HashDelete
  <2>7. ASSUME NEW n \in Nat \ {0}, Rehash(n), pc \in {"grow", "shrink"},
               \A m \in Nat : m >= n => LoadHigh(m) > count,
               UNCHANGED <<filling, freed>>
        PROVE  IInv'
    <3>1. PICK s \in Sizes : /\ s \in Nat \ {0} /\ s >= n
                             /\ size' = s /\ ha' = Empty(s)
      BY <2>7, HashAssumption DEF HashAssumption, Rehash, Rounds
    <3>2. /\ old = {} /\ pc' = "resize" /\ hcount' = count /\ count' = 0
          /\ old' = Entries /\ UNCHANGED <<op, todo, orig, freed>>
      BY <2>1, <2>7 DEF Rehash, filling, OnTheMove
    <3>3. /\ Empty(s) \in [0 .. s - 1 -> Seq(Entry)]
          /\ Placed(s, Empty(s)) /\ EntriesOf(Empty(s)) = {}
      BY <3>1 DEF Empty, Placed, EntriesOf
    <3>4. Entries' = {} /\ TableType(Table)' /\ Sound(size, count, ha)'
      BY <3>1, <3>2, <3>3, FS_EmptySet DEF Entries, TableType, Table, Sound, Counted
    <3>5. Entries \subseteq Entry /\ Distinct(Entries) /\ Counted(count, Entries)
      <4>1. \A e \in Entries : \E b \in 0 .. size - 1 : \E i \in DOMAIN ha[b] : e = ha[b][i]
        BY <2>1 DEF Entries, EntriesOf, TableType, Table
      <4>2. \A b \in 0 .. size - 1 : \A i \in DOMAIN ha[b] :
               /\ ha[b][i] \in Entry /\ Index(ha[b][i].key, size) = b
               /\ \A j \in DOMAIN ha[b] : ha[b][i].key = ha[b][j].key => i = j
        BY <2>1 DEF TableType, Table, Sound, Placed
      <4> QED BY <2>1, <4>1, <4>2 DEF Distinct, Sound, Entries
    <3>6. LoadHigh(size') > hcount' /\ hcount' - count' = count
      BY <2>1, <2>7, <3>1, <3>2
    <3>7. OnTheMove'
      BY <2>1, <3>2, <3>4, <3>5, <3>6, <2>7 DEF OnTheMove, Apart, Pairs
    <3> QED BY <2>1, <3>2, <3>4, <3>5, <3>7 DEF IInv, TypeOK, Loads, PCs
  <2>8. ASSUME Grow PROVE IInv'
    <3>1. PICK s \in Sizes : Doubled(s) /\ Rehash(2 * s)
      BY <2>8 DEF Grow
    <3>2. s \in Nat \ {0} /\ s > count
      BY <3>1, HashAssumption DEF HashAssumption, Doubled
    <3>3. \A m \in Nat : m >= 2 * s => LoadHigh(m) > count
      BY <2>1, <3>2 DEF LoadHigh
    <3>4. 2 * s \in Nat \ {0}
      BY <3>2
    <3> QED BY <2>7, <2>8, <3>1, <3>3, <3>4 DEF Grow
  <2>9. ASSUME Shrink PROVE IInv'
    <3>1. PICK s \in Sizes : /\ Halved(s)
                             /\ IF Smaller(s) = size
                                THEN pc' = "idle" /\ UNCHANGED <<table, hcount, old>>
                                ELSE Rehash(Smaller(s))
      BY <2>9 DEF Shrink
    <3>2. pc = "shrink" /\ count < size \div 16 /\ op = "none" /\ UNCHANGED <<filling, freed>>
      BY <2>1, <2>9 DEF Shrink, Loads
    <3>3. s \in Nat \ {0} /\ s > count
      BY <3>1, HashAssumption DEF HashAssumption, Halved
    <3>4. /\ Smaller(s) \in Nat \ {0} /\ Smaller(s) >= 8
          /\ Smaller(s) >= 4 * (s \div 2)
      BY <2>1, <3>2, <3>3 DEF Smaller, LoadLow, AtLeast
    <3>5. \A m \in Nat : m >= Smaller(s) => LoadHigh(m) > count
      BY <2>1, <3>3, <3>4 DEF LoadHigh
    <3>6. CASE Smaller(s) = size
      <4>1. LoadHigh(size) > count
        BY <2>1, <3>5, <3>6
      <4> QED BY <2>1, <2>3, <3>1, <3>2, <3>6, <4>1
              DEF IInv, TypeOK, OnTheMove, Loads, Table, table, filling, PCs
    <3>7. CASE Smaller(s) # size
      BY <2>7, <3>1, <3>2, <3>4, <3>5, <3>7
    <3> QED BY <3>6, <3>7
  <2>10. ASSUME NEW e \in old, Reinsert(e) PROVE IInv'
    <3>1. /\ pc = "resize" /\ e \in Entry
          /\ Put(e.key, e.value) /\ size' = size
          /\ old' = old \ {e}
          /\ pc' = IF count' > LoadHigh(size) THEN "nested" ELSE "resize"
          /\ UNCHANGED <<hcount, freed, op, todo, orig>>
      BY <2>1, <2>10 DEF Reinsert, TypeOK, filling, Put
    <3>2. /\ Distinct(old) /\ Counted(hcount - count, old) /\ Apart(Entries, old)
          /\ hcount < LoadHigh(size)
      BY <2>1, <3>1 DEF OnTheMove
    <3>3. ~ \E d \in Entries : d.key = e.key
      BY <3>2 DEF Apart
    <3>4. /\ TableType(Table)' /\ Sound(size, count, ha)'
          /\ Entries' = Entries \cup {e} /\ count' = count + 1
      <4>1. /\ TableType(Table)' /\ Sound(size, count, ha)'
            /\ Entries' = {d \in Entries : d.key # e.key} \cup {e}
            /\ count' = count + 1
        BY <2>1, <2>2, <3>1, <3>3, PutFacts
      <4> QED BY <3>3, <4>1
    <3>5. Counted(hcount' - count', old') /\ count < hcount
      <4>1. /\ IsFiniteSet(old) /\ Cardinality(old) = hcount - count
            /\ IsFiniteSet(old') /\ Cardinality(old') = Cardinality(old) - 1
            /\ Cardinality(old') \in Nat
        BY <2>10, <3>1, <3>2, FS_RemoveElement, FS_CardinalityType DEF Counted
      <4> QED BY <2>1, <3>1, <3>4, <4>1 DEF Counted
    <3>6. pc' = "resize"
      BY <2>1, <2>3, <3>1, <3>2, <3>4, <3>5
    <3>7. Distinct(old') /\ Apart(Entries', old')
      BY <2>10, <3>1, <3>2, <3>4 DEF Distinct, Apart
    <3>8. op = "copy" => /\ Apart(Entries', todo') /\ Apart(old', todo')
                         /\ Pairs' = Pairs
      BY <2>1, <2>10, <3>1, <3>4 DEF OnTheMove, Apart, Pairs
    <3>9. OnTheMove'
      BY <2>1, <3>1, <3>2, <3>5, <3>6, <3>7, <3>8 DEF OnTheMove
    <3>10. Loads' /\ TypeOK'
      BY <2>1, <3>1, <3>4, <3>6 DEF Loads, TypeOK, PCs
    <3> QED BY <2>1, <3>1, <3>4, <3>9, <3>10 DEF IInv
  <2>11. ASSUME ResizeEnds PROVE IInv'
    <3>1. /\ pc = "resize" /\ old = {} /\ hcount' = 0 /\ freed' = {}
          /\ pc' = IF count = hcount THEN "idle" ELSE "lost"
          /\ UNCHANGED <<size, count, ha, old, op, todo, orig>>
      BY <2>11 DEF ResizeEnds, table, filling
    <3>2. count = hcount /\ count <= LoadHigh(size)
      BY <2>1, <2>3, <3>1, FS_EmptySet DEF OnTheMove, Counted
    <3> QED BY <2>1, <3>1, <3>2 DEF IInv, TypeOK, OnTheMove, Loads, Pairs, Entries, Table, PCs
  <2>12. ASSUME MergeStarts PROVE IInv'
    <3>1. /\ pc = "idle" /\ op = "none" /\ op' = "merge" /\ todo' \subseteq Entry
          /\ UNCHANGED <<size, count, ha, pc, hcount, old, freed, orig>>
      BY <2>12 DEF MergeStarts, Idle, Others, table, resizing
    <3> QED BY <2>1, <3>1 DEF IInv, TypeOK, OnTheMove, Loads, Entries, Table
  <2>13. ASSUME CopyStarts PROVE IInv'
    <3>1. PICK s \in Sizes : size' = s /\ ha' = Empty(s) /\ s \in Nat \ {0}
      BY <2>13, HashAssumption DEF HashAssumption, CopyStarts
    <3>2. /\ pc = "idle" /\ op = "none" /\ old = {}
          /\ op' = "copy" /\ todo' = Entries /\ orig' = Table /\ count' = 0
          /\ UNCHANGED <<pc, hcount, old, freed>>
      BY <2>1, <2>13 DEF CopyStarts, Idle, resizing, OnTheMove
    <3>3. /\ Empty(s) \in [0 .. s - 1 -> Seq(Entry)]
          /\ Placed(s, Empty(s)) /\ EntriesOf(Empty(s)) = {}
      BY <3>1 DEF Empty, Placed, EntriesOf
    <3>4. Entries' = {} /\ TableType(Table)' /\ Sound(size, count, ha)'
      BY <3>1, <3>2, <3>3, FS_EmptySet DEF Entries, TableType, Table, Sound, Counted
    <3>5. Entries \subseteq Entry /\ Distinct(Entries)
      <4>1. \A e \in Entries : \E b \in 0 .. size - 1 : \E i \in DOMAIN ha[b] : e = ha[b][i]
        BY <2>1 DEF Entries, EntriesOf, TableType, Table
      <4>2. \A b \in 0 .. size - 1 : \A i \in DOMAIN ha[b] :
               /\ ha[b][i] \in Entry /\ Index(ha[b][i].key, size) = b
               /\ \A j \in DOMAIN ha[b] : ha[b][i].key = ha[b][j].key => i = j
        BY <2>1 DEF TableType, Table, Sound, Placed
      <4> QED BY <2>1, <4>1, <4>2 DEF Distinct
    <3>6. /\ orig'.size = size /\ orig'.count = count /\ orig'.ha = ha
          /\ TableType(orig)' /\ Sound(orig.size, orig.count, orig.ha)'
      BY <2>1, <3>2 DEF Table
    <3>7. OnTheMove'
      BY <3>2, <3>4, <3>5, <3>6 DEF OnTheMove, Apart, Pairs, Entries
    <3>8. Loads'
      BY <2>1, <2>3, <3>1, <3>2, <3>6 DEF Loads
    <3> QED BY <2>1, <3>2, <3>4, <3>5, <3>6, <3>7, <3>8 DEF IInv, TypeOK, PCs
  <2>14. ASSUME NEW e \in todo, Fill(e) PROVE IInv'
    <3>1. /\ pc = "idle" /\ old = {} /\ e \in Entry /\ todo' = todo \ {e}
          /\ UNCHANGED <<hcount, old, freed, op, orig>>
          /\ op # "none"
      BY <2>1, <2>14 DEF Fill, TypeOK, OnTheMove
    <3>2. CASE UNCHANGED <<table, pc>> /\ op = "alist"
      BY <2>1, <3>1, <3>2 DEF IInv, TypeOK, OnTheMove, Loads, Table, table
    <3>3. CASE Put(e.key, e.value) /\ ThenGrow
      <4>1. /\ TableType(Table)' /\ Sound(size, count, ha)'
            /\ Entries' = {d \in Entries : d.key # e.key} \cup {e}
        BY <2>1, <2>2, <3>1, <3>3, PutFacts
      <4>2. /\ size' = size /\ count' \in Nat /\ pc' \in {"idle", "grow"}
            /\ pc' = "idle" => count' <= LoadHigh(size')
        BY <2>1, <2>3, <3>3, <4>1 DEF Put, ThenGrow, TableType, Table
      <4>3. op = "copy" => /\ Distinct(todo') /\ Apart(Entries', todo')
                           /\ Pairs' = Pairs
        BY <2>1, <2>14, <3>1, <4>1 DEF OnTheMove, Distinct, Apart, Pairs
      <4>4. OnTheMove'
        BY <2>1, <3>1, <4>2, <4>3 DEF OnTheMove, Apart
      <4>5. TypeOK' /\ Loads'
        BY <2>1, <3>1, <4>1, <4>2 DEF TypeOK, Loads, PCs
      <4> QED BY <2>1, <3>1, <4>1, <4>4, <4>5 DEF IInv
    <3> QED BY <2>14, <3>2, <3>3 DEF Fill
  <2>15. ASSUME FillEnds PROVE IInv'
    <3>1. /\ pc = "idle" /\ old = {} /\ op' = "none" /\ todo = {} /\ orig' = NoTable
          /\ UNCHANGED <<size, count, ha, pc, hcount, old, freed, todo>>
      BY <2>1, <2>15 DEF FillEnds, table, resizing, OnTheMove
    <3> QED BY <1>0, <2>1, <3>1 DEF IInv, TypeOK, OnTheMove, Loads, Entries, Table
  <2>16. ASSUME Leave PROVE IInv'
    <3>1. /\ pc' = "idle" /\ hcount' = 0 /\ old' = {} /\ freed' = {}
          /\ op' = "none" /\ todo' = {} /\ orig' = NoTable
          /\ pc \in {"idle", "resize"}
      BY <2>16 DEF Leave
    <3>3. /\ TableType(Table)' /\ Sound(size, count, ha)'
          /\ count' <= LoadHigh(size')
      <4>1. CASE op = "copy"
        BY <2>1, <2>16, <4>1 DEF Leave, TableType, Table, Loads
      <4>2. CASE op # "copy"
        <5>1. count <= LoadHigh(size)
          <6>1. CASE pc = "resize"
            <7>1. hcount - count \in Nat
              BY <2>1, <6>1, FS_CardinalityType DEF OnTheMove, Counted
            <7> QED BY <2>1, <2>3, <6>1, <7>1 DEF OnTheMove
          <6> QED BY <2>1, <3>1, <6>1 DEF Loads
        <5> QED BY <2>1, <2>16, <4>2, <5>1 DEF Leave, table, Table
      <4> QED BY <4>1, <4>2
    <3> QED BY <1>0, <3>1, <3>3 DEF IInv, TypeOK, OnTheMove, Loads, PCs
  <2>17. ASSUME Collect PROVE IInv'
    <3>1. /\ freed' \subseteq freed \cup old
          /\ UNCHANGED <<size, count, ha, pc, hcount, old, op, todo, orig>>
      BY <2>17 DEF Collect, table, filling
    <3> QED BY <2>1, <3>1 DEF IInv, TypeOK, OnTheMove, Loads, Pairs, Entries, Table
  <2>18. ASSUME NEW k \in Key, HashRef(k) PROVE IInv'
    BY <2>1, <2>18
    DEF HashRef, table, resizing, filling,
        IInv, TypeOK, OnTheMove, Loads, Pairs, Entries, Table
  <2>19. ASSUME HashSize PROVE IInv'
    BY <2>1, <2>19
    DEF HashSize, table, resizing, filling,
        IInv, TypeOK, OnTheMove, Loads, Pairs, Entries, Table
  <2> QED
    BY <2>4, <2>5, <2>6, <2>8, <2>9, <2>10, <2>11, <2>12, <2>13, <2>14, <2>15,
       <2>16, <2>17, <2>18, <2>19 DEF Next
<1> QED BY <1>1, <1>2, PTL DEF Spec

-----------------------------------------------------------------------------
(* The variables have their types.                                         *)
THEOREM TypeCorrect == Spec => []TypeOK
<1>1. IInv => TypeOK
  BY DEF IInv
<1> QED BY <1>1, Invariance, PTL

(* IDIO_HASH_COUNT is the number of entries, each in the bucket of its     *)
(* key, and "LOST HASH ENTRIES" never ends the program.                    *)
THEOREM AlwaysCounted == Spec => []CountsEntries
<1>1. IInv => CountsEntries
  BY DEF IInv, Loads, Sound, Placed, Counted, CountsEntries, Entries
<1> QED BY <1>1, Invariance, PTL

(* A resize is never resized: idio_hash_resize always chooses a size that  *)
(* is enough.                                                              *)
THEOREM ResizesOnce == Spec => []NeverNested
<1>1. IInv => NeverNested
  BY DEF IInv, Loads, NeverNested
<1> QED BY <1>1, Invariance, PTL

(* After a resize there is room for another entry.                         *)
THEOREM SteadyTables == Spec => Steady
<1>1. IInv /\ ResizeEnds => count < LoadHigh(size)
  <2> SUFFICES ASSUME IInv, ResizeEnds PROVE count < LoadHigh(size)
    OBVIOUS
  <2>1. /\ hcount < LoadHigh(size) /\ hcount - count = 0
        /\ hcount \in Nat /\ count \in Nat
    BY FS_EmptySet DEF IInv, ResizeEnds, OnTheMove, Counted, TypeOK, TableType, Table
  <2> QED BY <2>1
<1> QED BY <1>1, Invariance, PTL DEF Steady

(* The table is a set of pairs: every step of the code is a step of Dict,  *)
(* or changes nothing a program can see.                                   *)
THEOREM Refines == Spec => IsDict
<1>1. Init => D!Init
  <2> SUFFICES ASSUME Init PROVE D!Init
    OBVIOUS
  <2>1. Entries = {} /\ Pairs = {}
    BY DEF Init, Empty, Entries, EntriesOf, Pairs
  <2> QED BY <2>1 DEF Init, D!Init
<1>2. IInv /\ [Next]_vars => [D!Next]_D!vars
  <2> SUFFICES ASSUME IInv, [Next]_vars, ~ UNCHANGED <<call, out, Pairs>>
               PROVE  D!Next
    BY DEF D!vars
  <2>1. /\ TypeOK /\ OnTheMove /\ Loads
        /\ TableType(Table) /\ Sound(size, count, ha)
        /\ count = Cardinality(Entries)
        /\ Placed(size, ha) /\ size \in Nat \ {0}
        /\ ha \in [0 .. size - 1 -> Seq(Entry)]
    BY HashAssumption
    DEF HashAssumption, IInv, TypeOK, TableType, Table, Sound, Counted, Entries
  <2>2. ASSUME NEW e \in Entry
        PROVE  e.key \in Key /\ e.value \in Value /\ [key |-> e.key, value |-> e.value] = e
    BY DEF Entry
  <2>3. ASSUME NEW k \in Key, op # "copy", old = {}
        PROVE  /\ Pairs = Entries
               /\ D!For(k) = {e \in Entries : e.key = k}
    BY <2>3 DEF Pairs, D!For
  <2>4. ASSUME NEW k \in Key
        PROVE  /\ Absent(k) => \A e \in Entries : e.key # k
               /\ \A i \in DOMAIN Bucket(k) : Bucket(k)[i] \in Entries
    <3>1. \A e : e \in Entries <=> \E b \in 0 .. size - 1 : \E i \in DOMAIN ha[b] : e = ha[b][i]
      <4>1. DOMAIN ha = 0 .. size - 1
        BY <2>1
      <4> QED BY <4>1 DEF Entries, EntriesOf
    <3>2. Index(k, size) \in 0 .. size - 1
      BY <2>1, HashAssumption DEF HashAssumption, Index
    <3>3. \A b \in 0 .. size - 1 : \A i \in DOMAIN ha[b] : Index(ha[b][i].key, size) = b
      BY <2>1 DEF Placed
    <3> QED BY <3>1, <3>2, <3>3 DEF Absent, Bucket
  <2>5. ASSUME NEW k \in Key, NEW v \in Value, HashPut(k, v) PROVE D!Next
    <3>1. /\ op = "none" /\ op' = "none" /\ old = {} /\ old' = {}
          /\ Put(k, v) /\ Done(<<"put", k, v>>, "unspec")
      BY <2>1, <2>5 DEF HashPut, Idle, filling, OnTheMove
    <3>2. Entries' = {e \in Entries : e.key # k} \cup {[key |-> k, value |-> v]}
      BY <2>1, <3>1, PutFacts
    <3>3. Pairs' = Entries' /\ Pairs = Entries
      BY <3>1 DEF Pairs
    <3>4. D!Put(k, v, "put")
      BY <3>1, <3>2, <3>3 DEF D!Put, D!For, D!Done, Done
    <3> QED BY <3>4 DEF D!Next
  <2>6. ASSUME NEW k \in Key, HashDelete(k) PROVE D!Next
    <3>1. /\ op = "none" /\ op' = "none" /\ old = {} /\ old' = {} /\ size' = size
      BY <2>1, <2>6 DEF HashDelete, Idle, filling, OnTheMove
    <3>2. Pairs' = Entries' /\ Pairs = Entries
      BY <3>1 DEF Pairs
    <3>3. CASE Absent(k) /\ Done(<<"delete", k>>, "absent") /\ UNCHANGED <<count, ha, pc>>
      <4>1. D!For(k) = {} /\ Entries' = Entries
        BY <2>4, <3>2, <3>3 DEF D!For, Entries
      <4>2. D!Delete(k)
        BY <3>2, <3>3, <4>1 DEF D!Delete, D!Done, Done
      <4> QED BY <4>2 DEF D!Next
    <3>4. CASE /\ \E i \in DOMAIN Bucket(k) : IsFirst(i, k) /\ Unlink(i, k)
               /\ Done(<<"delete", k>>, "deleted")
      <4>1. PICK i \in DOMAIN Bucket(k) : IsFirst(i, k) /\ Unlink(i, k)
        BY <3>4
      <4>2. Entries' = {e \in Entries : e.key # k} /\ Bucket(k)[i] \in Entries
        BY <2>1, <3>1, <4>1, UnlinkFacts
      <4>3. D!For(k) # {} /\ Pairs' = Pairs \ D!For(k)
        BY <3>2, <4>1, <4>2 DEF D!For, IsFirst
      <4>4. D!Delete(k)
        BY <3>4, <4>3 DEF D!Delete, D!Done, Done
      <4> QED BY <4>4 DEF D!Next
    <3> QED BY <2>6, <3>3, <3>4 DEF HashDelete
  <2>7. ASSUME NEW k \in Key, HashRef(k) PROVE D!Next
    <3>1. /\ op = "none" /\ old = {} /\ UNCHANGED <<ha, old, op, todo>>
      BY <2>1, <2>7 DEF HashRef, Idle, table, resizing, filling, OnTheMove
    <3>2. Pairs' = Entries /\ Pairs = Entries
      BY <3>1 DEF Pairs, Entries
    <3>3. CASE Absent(k) /\ Done(<<"ref", k>>, "unspec")
      <4>1. D!For(k) = {}
        BY <2>4, <3>2, <3>3 DEF D!For
      <4>2. D!Ref(k)
        BY <3>2, <3>3, <4>1 DEF D!Ref, D!Done, Done
      <4> QED BY <4>2 DEF D!Next
    <3>4. CASE \E i \in DOMAIN Bucket(k) :
                  IsFirst(i, k) /\ Done(<<"ref", k>>, Bucket(k)[i].value)
      <4>1. PICK i \in DOMAIN Bucket(k) :
                  IsFirst(i, k) /\ Done(<<"ref", k>>, Bucket(k)[i].value)
        BY <3>4
      <4>2. Bucket(k)[i] \in D!For(k)
        BY <2>4, <3>2, <4>1 DEF D!For, IsFirst
      <4>3. D!Ref(k)
        BY <3>2, <4>1, <4>2 DEF D!Ref, D!Done, Done
      <4> QED BY <4>3 DEF D!Next
    <3> QED BY <2>7, <3>3, <3>4 DEF HashRef
  <2>8. ASSUME HashSize PROVE D!Next
    <3>1. Pairs' = Pairs /\ Pairs = Entries
      BY <2>1, <2>8 DEF HashSize, Idle, table, resizing, filling, Pairs, Entries, OnTheMove
    <3> QED BY <2>1, <2>8, <3>1 DEF HashSize, Done, D!Size, D!Done, D!Next
  <2>9. ASSUME NEW n, Rehash(n), pc # "resize", UNCHANGED <<filling, call, out>>
        PROVE  FALSE
    <3>1. /\ old = {} /\ old' = Entries /\ UNCHANGED <<op, todo, call, out>>
          /\ \E s : ha' = Empty(s)
      BY <2>1, <2>9 DEF Rehash, filling, OnTheMove
    <3>2. Entries' = {}
      BY <3>1 DEF Entries, EntriesOf, Empty
    <3> QED BY <3>1, <3>2 DEF Pairs
  <2>10. ~ Grow
    BY <2>9 DEF Grow
  <2>11. ~ Shrink
    <3>1. ASSUME Shrink, UNCHANGED <<table, old>> PROVE FALSE
      BY <3>1 DEF Shrink, table, filling, Pairs, Entries
    <3> QED BY <2>9, <3>1 DEF Shrink, table
  <2>12. ASSUME NEW e \in old, Reinsert(e) PROVE FALSE
    <3>1. /\ e \in Entry /\ Put(e.key, e.value) /\ old' = old \ {e}
          /\ UNCHANGED <<op, todo, call, out>>
          /\ Apart(Entries, old)
      BY <2>1, <2>12 DEF Reinsert, filling, TypeOK, OnTheMove
    <3>2. Entries' = {d \in Entries : d.key # e.key} \cup {e}
      BY <2>1, <2>2, <3>1, PutFacts
    <3>3. Entries' = Entries \cup {e}
      BY <2>12, <3>1, <3>2 DEF Apart
    <3>4. Pairs' = Pairs
      BY <2>12, <3>1, <3>3 DEF Pairs
    <3> QED BY <3>1, <3>4
  <2>13. ~ ResizeEnds /\ ~ MergeStarts /\ ~ Collect
    <3>1. ASSUME ResizeEnds \/ Collect PROVE FALSE
      BY <3>1 DEF ResizeEnds, Collect, table, filling, Pairs, Entries
    <3>2. ASSUME MergeStarts PROVE FALSE
      BY <3>2 DEF MergeStarts, Idle, table, resizing, Pairs, Entries
    <3> QED BY <3>1, <3>2
  <2>14. ~ CopyStarts
    <3>1. ASSUME CopyStarts PROVE FALSE
      <4>1. /\ op = "none" /\ op' = "copy" /\ old = {} /\ old' = {}
            /\ todo' = Entries /\ UNCHANGED <<call, out>>
            /\ \E s : ha' = Empty(s)
        BY <2>1, <3>1 DEF CopyStarts, Idle, resizing, OnTheMove
      <4>2. Entries' = {}
        BY <4>1 DEF Entries, EntriesOf, Empty
      <4>3. Pairs' = Pairs
        BY <4>1, <4>2 DEF Pairs
      <4> QED BY <4>1, <4>3
    <3> QED BY <3>1
  <2>15. ASSUME NEW e \in todo, Fill(e) PROVE D!Next
    <3>1. /\ pc = "idle" /\ old = {} /\ old' = {} /\ op' = op
          /\ todo' = todo \ {e}
          /\ e \in Entry /\ e.key \in Key /\ e.value \in Value
          /\ [key |-> e.key, value |-> e.value] = e
          /\ op \in {"merge", "copy", "alist"}
      BY <2>1, <2>2, <2>15 DEF Fill, TypeOK, OnTheMove
    <3>2. ASSUME Put(e.key, e.value)
          PROVE  Entries' = {d \in Entries : d.key # e.key} \cup {e}
      BY <2>1, <3>1, <3>2, PutFacts
    <3>3. CASE op = "copy"
      <4>1. Put(e.key, e.value) /\ UNCHANGED <<call, out>>
        BY <2>15, <3>3 DEF Fill
      <4>2. Entries' = Entries \cup {e}
        BY <2>1, <2>15, <3>2, <3>3, <4>1 DEF OnTheMove, Apart
      <4>3. Pairs' = Pairs
        BY <2>15, <3>1, <3>3, <4>2 DEF Pairs
      <4> QED BY <4>1, <4>3
    <3>4. CASE op = "merge"
      <4>1. Put(e.key, e.value) /\ Done(<<"merge", e.key, e.value>>, "unspec")
        BY <2>15, <3>4 DEF Fill
      <4>2. Pairs' = Entries' /\ Pairs = Entries
        BY <3>1, <3>4 DEF Pairs
      <4>3. D!Put(e.key, e.value, "merge")
        BY <3>1, <3>2, <4>1, <4>2 DEF D!Put, D!For, D!Done, Done
      <4> QED BY <3>1, <4>3 DEF D!Next
    <3>5. CASE op = "alist"
      <4>1. /\ Done(<<"add", e.key, e.value>>, "unspec")
            /\ IF Absent(e.key) THEN Put(e.key, e.value) ELSE UNCHANGED table
        BY <2>15, <3>5 DEF Fill
      <4>2. Pairs' = Entries' /\ Pairs = Entries
        BY <3>1, <3>5 DEF Pairs
      <4>3. CASE Absent(e.key)
        <5>1. D!For(e.key) = {} /\ Entries' = Entries \cup {e}
          BY <2>4, <3>1, <3>2, <4>1, <4>2, <4>3 DEF D!For
        <5>2. D!Add(e.key, e.value)
          BY <3>1, <4>1, <4>2, <5>1 DEF D!Add, D!Done, Done
        <5> QED BY <3>1, <5>2 DEF D!Next
      <4>4. CASE ~ Absent(e.key)
        <5>1. PICK i \in DOMAIN Bucket(e.key) : Bucket(e.key)[i].key = e.key
          BY <4>4 DEF Absent
        <5>2. D!For(e.key) # {}
          BY <2>4, <3>1, <4>2, <5>1 DEF D!For
        <5>3. Entries' = Entries
          BY <4>1, <4>4 DEF table, Entries
        <5>4. D!Add(e.key, e.value)
          BY <4>1, <4>2, <5>2, <5>3 DEF D!Add, D!Done, Done
        <5> QED BY <3>1, <5>4 DEF D!Next
      <4> QED BY <4>3, <4>4
    <3> QED BY <3>1, <3>3, <3>4, <3>5
  <2>16. ASSUME FillEnds PROVE D!Next
    <3>1. Pairs' = Pairs
      BY <2>16 DEF FillEnds, table, resizing, Pairs, Entries
    <3>2. Done(<<"copy">>, "unspec")
      BY <2>16, <3>1 DEF FillEnds
    <3> QED BY <3>1, <3>2 DEF Done, D!Copy, D!Done, D!Next
  <2>17. ASSUME Leave PROVE D!Next
    <3>1. Pairs' \subseteq Pairs
      <4>1. Pairs' = Entries'
        BY <2>17 DEF Leave, Pairs
      <4>2. CASE op = "copy"
        <5>1. Entries' = EntriesOf(orig.ha)
          BY <2>17, <4>2 DEF Leave, Entries
        <5> QED BY <2>1, <4>1, <4>2, <5>1 DEF OnTheMove
      <4>3. CASE op # "copy"
        <5>1. Entries' = Entries
          BY <2>17, <4>3 DEF Leave, table, Entries
        <5> QED BY <4>1, <5>1 DEF Pairs
      <4> QED BY <4>2, <4>3
    <3>2. UserHash /\ Done(<<"left">>, "unspec")
      BY <2>17 DEF Leave
    <3>3. D!Leave
      BY <3>1, <3>2 DEF Done, D!Leave, D!Done
    <3> QED BY <3>3 DEF D!Next
  <2>18. ~ UNCHANGED vars
    BY DEF vars, Pairs, Entries
  <2> QED
    BY <2>5, <2>6, <2>7, <2>8, <2>10, <2>11, <2>12, <2>13, <2>14, <2>15, <2>16,
       <2>17, <2>18 DEF Next
<1> QED BY <1>1, <1>2, Invariance, PTL DEF Spec, IsDict, D!Spec
=============================================================================
