-------------------------------- MODULE Hash --------------------------------
(***************************************************************************)
(* Idio hash tables, src/src/hash.c: `size' buckets, each a list of        *)
(* entries.  A put that takes the table over three quarters of its size    *)
(* makes it larger, a delete that takes it below a sixteenth makes it      *)
(* smaller: either way idio_hash_resize gives it new buckets and puts the  *)
(* entries of the old ones back one by one through idio_hash_put, the      *)
(* function that may have called it.                                       *)
(*                                                                         *)
(* A table made with a hashing or equivalence function of the program runs *)
(* that function for every put, so during a resize the program may raise a *)
(* condition and go on elsewhere, and the collector may run.               *)
(***************************************************************************)
EXTENDS Integers, Sequences, FiniteSets

CONSTANTS
    Key,        \* each stands for the keys that are equal to it
    Value,
    HashOf,     \* the value of the hashing function
    Sizes,      \* bound: the powers of two a table may have for its size
    InitSizes,  \* bound: the sizes make-hash is asked for
    MaxOther,   \* bound: entries of a table that is merged, of an alist
    UserHash    \* the table has a function of the program

ASSUME HashAssumption ==
    /\ HashOf \in [Key -> Nat]
    /\ Sizes \subseteq Nat \ {0} /\ 1 \in Sizes
    /\ InitSizes \subseteq Nat \ {0}
    /\ MaxOther \in Nat
    /\ UserHash \in BOOLEAN

VARIABLES
    size, count,    \* IDIO_HASH_SIZE, IDIO_HASH_COUNT
    ha,             \* IDIO_HASH_HA: the buckets
    pc,             \* what the put or delete under way does next
    hcount, old,    \* idio_hash_resize: the count it found, and the entries
                    \* it has still to put back
    op, todo,       \* the merge, copy or alist->hash under way, its entries
    orig,           \* the table a copy is made of
    freed,          \* entries of the old buckets the collector freed
    call, out       \* history: the last operation that was done, its result

table == <<size, count, ha>>
resizing == <<pc, hcount, old, freed>>
filling == <<op, todo, orig>>
vars == <<size, count, ha, pc, hcount, old, op, todo, orig, freed, call, out>>

Entry == [key : Key, value : Value]
EntriesOf(f) == UNION {{f[b][i] : i \in DOMAIN f[b]} : b \in DOMAIN f}
Entries == EntriesOf(ha)
Keys(S) == {e.key : e \in S}
Others == {S \in SUBSET Entry : Cardinality(S) <= MaxOther}

Done(c, r) == call' = c /\ out' = r
Idle == pc = "idle" /\ op = "none"

Table == [size |-> size, count |-> count, ha |-> ha]
NoTable == [size |-> 1, count |-> 0, ha |-> [b \in {0} |-> << >>]]

-----------------------------------------------------------------------------
(* idio_assign_hash_he: the size is rounded up to a power of two.          *)
Rounds(n, s) == s \in Sizes /\ IF n = 0 THEN s = 1 ELSE n <= s /\ s < 2 * n

(* Faulty variant: the loop over the new buckets stops one short.         *)
AllButLast(s) == [b \in 0 .. s - 2 |-> << >>]

Empty(s) == [b \in 0 .. s - 1 |-> << >>]

(* The hash value masked by size - 1.                                      *)
Index(k, n) == HashOf[k] % n

LoadHigh(n) == n \div 2 + n \div 4

(* make-hash, and alist->hash that fills what make-hash made.              *)
Init ==
    /\ \E n \in InitSizes, s \in Sizes : /\ Rounds(n, s)
                                         /\ size = s
                                         /\ ha = Empty(s)
    /\ count = 0
    /\ pc = "idle" /\ hcount = 0 /\ old = {} /\ freed = {}
    /\ \/ op = "none" /\ todo = {}
       \/ op = "alist" /\ todo \in Others
    /\ orig = NoTable
    /\ call = <<"make">> /\ out = "unspec"

-----------------------------------------------------------------------------
Bucket(k) == ha[Index(k, size)]

(* idio_hash_he: the first entry of the bucket whose key is equal.         *)
IsFirst(i, k) ==
    /\ i \in DOMAIN Bucket(k)
    /\ Bucket(k)[i].key = k
    /\ \A j \in 1 .. i - 1 : Bucket(k)[j].key # k

Absent(k) == \A i \in DOMAIN Bucket(k) : Bucket(k)[i].key # k

Replace(i, k, v) ==
    /\ ha' = [ha EXCEPT ![Index(k, size)] = [@ EXCEPT ![i] = [key |-> k, value |-> v]]]
    /\ UNCHANGED count

Prepend(k, v) ==
    /\ ha' = [ha EXCEPT ![Index(k, size)] = <<[key |-> k, value |-> v]>> \o @]
    /\ count' = count + 1

(* Faulty variant: an entry with the same key is not looked for.           *)
PutAlways(k, v) == Prepend(k, v) /\ UNCHANGED size

(* idio_hash_put up to the test of the load.                               *)
Put(k, v) ==
    /\ \/ \E i \in DOMAIN Bucket(k) : IsFirst(i, k) /\ Replace(i, k, v)
       \/ Absent(k) /\ Prepend(k, v)
    /\ UNCHANGED size

(* Faulty variant: the table grows when it is full.                        *)
ThenGrowFull == pc' = IF count' > size THEN "grow" ELSE "idle"

(* The test, for a put that is not a resize's own.                         *)
ThenGrow == pc' = IF count' > LoadHigh(size) THEN "grow" ELSE "idle"

HashPut(k, v) ==
    /\ Idle
    /\ Put(k, v) /\ ThenGrow
    /\ Done(<<"put", k, v>>, "unspec")
    /\ UNCHANGED <<hcount, old, freed, filling>>

(* The list without its i-th entry.                                        *)
Without(s, i) ==
    [j \in 1 .. Len(s) - 1 |-> IF j < i THEN s[j] ELSE s[j + 1]]

(* Faulty variant: the entry goes, the count stays.                        *)
UnlinkOnly(i, k) ==
    /\ ha' = [ha EXCEPT ![Index(k, size)] = Without(@, i)]
    /\ UNCHANGED count

Unlink(i, k) ==
    /\ ha' = [ha EXCEPT ![Index(k, size)] = Without(@, i)]
    /\ count' = count - 1

HashDelete(k) ==
    /\ Idle
    /\ \/ /\ Absent(k)
          /\ Done(<<"delete", k>>, "absent")
          /\ UNCHANGED <<count, ha, pc>>
       \/ /\ \E i \in DOMAIN Bucket(k) : IsFirst(i, k) /\ Unlink(i, k)
          /\ pc' = IF count' < size \div 16 THEN "shrink" ELSE "idle"
          /\ Done(<<"delete", k>>, "deleted")
    /\ UNCHANGED <<size, hcount, old, freed, filling>>

HashRef(k) ==
    /\ Idle
    /\ \/ Absent(k) /\ Done(<<"ref", k>>, "unspec")
       \/ \E i \in DOMAIN Bucket(k) :
             IsFirst(i, k) /\ Done(<<"ref", k>>, Bucket(k)[i].value)
    /\ UNCHANGED <<table, resizing, filling>>

HashSize ==
    /\ Idle
    /\ Done(<<"size">>, count)
    /\ UNCHANGED <<table, resizing, filling>>

-----------------------------------------------------------------------------
(* idio_hash_resize                                                        *)

(* The entries are on the old buckets; the new ones are empty.             *)
Rehash(n) ==
    /\ \E s \in Sizes : Rounds(n, s) /\ size' = s /\ ha' = Empty(s)
    /\ hcount' = count
    /\ count' = 0
    /\ old' = Entries
    /\ pc' = "resize"

(* nsize doubles until it is more than the count, and once more.           *)
Doubled(s) == /\ s \in Sizes /\ s >= size /\ s > count
              /\ s = size \/ s \div 2 <= count

(* Faulty variant: the loop's exit alone.                                  *)
GrowOnce ==
    /\ pc = "grow"
    /\ \E s \in Sizes : Doubled(s) /\ Rehash(s)
    /\ UNCHANGED <<filling, freed, call, out>>

Grow ==
    /\ pc = "grow"
    /\ \E s \in Sizes : Doubled(s) /\ Rehash(2 * s)
    /\ UNCHANGED <<filling, freed, call, out>>

(* nsize halves until it is not more than the count: s was its last value  *)
(* above it.                                                               *)
Halved(s) == s \in Sizes /\ s <= size /\ s > count /\ s \div 2 <= count

AtLeast(n, low) == IF n < low THEN low ELSE n
LoadLow(n) == AtLeast(n \div 16, 8)

Smaller(s) ==
    IF count < LoadLow(size) THEN AtLeast(4 * (s \div 2), LoadLow(size)) ELSE size

Shrink ==
    /\ pc = "shrink"
    /\ \E s \in Sizes :
          /\ Halved(s)
          /\ IF Smaller(s) = size
             THEN pc' = "idle" /\ UNCHANGED <<table, hcount, old>>
             ELSE Rehash(Smaller(s))
    /\ UNCHANGED <<filling, freed, call, out>>

(* The put of a resize tests the load like every other: it would resize    *)
(* the table that is being resized.                                        *)
Reinsert(e) ==
    /\ pc = "resize"
    /\ e \in old
    /\ Put(e.key, e.value)
    /\ pc' = IF count' > LoadHigh(size) THEN "nested" ELSE "resize"
    /\ old' = old \ {e}
    /\ UNCHANGED <<hcount, freed, filling, call, out>>

(* "LOST HASH ENTRIES": the program exits.                                 *)
ResizeEnds ==
    /\ pc = "resize" /\ old = {}
    /\ pc' = IF count = hcount THEN "idle" ELSE "lost"
    /\ hcount' = 0
    /\ freed' = {}
    /\ UNCHANGED <<table, old, filling, call, out>>

-----------------------------------------------------------------------------
(* idio_merge_hash, idio_copy_hash and alist->hash put one entry after the *)
(* other; which comes first depends on the buckets of another table.       *)

MergeStarts ==
    /\ Idle
    /\ op' = "merge"
    /\ \E S \in Others : /\ Cardinality(Keys(S)) = Cardinality(S)
                         /\ todo' = S
    /\ UNCHANGED <<table, resizing, orig, call, out>>

(* From here on the table is the copy.                                     *)
CopyStarts ==
    /\ Idle
    /\ op' = "copy"
    /\ todo' = Entries
    /\ orig' = Table
    /\ \E s \in Sizes : Rounds(count, s) /\ size' = s /\ ha' = Empty(s)
    /\ count' = 0
    /\ UNCHANGED <<resizing, call, out>>

Fill(e) ==
    /\ pc = "idle"
    /\ e \in todo
    /\ todo' = todo \ {e}
    /\ IF op = "alist" /\ ~Absent(e.key)
       THEN UNCHANGED <<table, pc>>
       ELSE Put(e.key, e.value) /\ ThenGrow
    /\ CASE op = "merge" -> Done(<<"merge", e.key, e.value>>, "unspec")
         [] op = "alist" -> Done(<<"add", e.key, e.value>>, "unspec")
         [] OTHER -> UNCHANGED <<call, out>>
    /\ UNCHANGED <<hcount, old, freed, op, orig>>

FillEnds ==
    /\ pc = "idle" /\ op # "none" /\ todo = {}
    /\ op' = "none"
    /\ orig' = NoTable
    /\ IF op = "copy" THEN Done(<<"copy">>, "unspec") ELSE UNCHANGED <<call, out>>
    /\ UNCHANGED <<table, resizing, todo>>

-----------------------------------------------------------------------------
(* The program's function raises a condition whose handler does not come   *)
(* back: the put, and everything that was to follow it, is left.  A copy   *)
(* that is left is never seen.                                             *)
Leave ==
    /\ UserHash
    /\ pc = "idle" \/ (pc = "resize" /\ old # {})
    /\ IF op = "copy"
       THEN size' = orig.size /\ count' = orig.count /\ ha' = orig.ha
       ELSE UNCHANGED table
    /\ pc' = "idle" /\ hcount' = 0 /\ old' = {} /\ freed' = {}
    /\ op' = "none" /\ todo' = {} /\ orig' = NoTable
    /\ Done(<<"left">>, "unspec")

(* The virtual machine that runs the program's function lets the collector *)
(* run.  It marks the new buckets and not the old ones: of the entries     *)
(* there, what nothing else refers to is freed.  The key and value of the  *)
(* put under way are on the stack; a copy is put together from what the    *)
(* original refers to.                                                     *)
Collect ==
    /\ UserHash
    /\ pc = "resize" /\ op # "copy"
    /\ \E S \in SUBSET {e \in old : e.key # call[2]} : freed' = freed \cup S
    /\ UNCHANGED <<table, pc, hcount, old, filling, call, out>>

Next ==
    \/ \E k \in Key, v \in Value : HashPut(k, v)
    \/ \E k \in Key : HashDelete(k) \/ HashRef(k)
    \/ HashSize
    \/ Grow \/ Shrink
    \/ \E e \in old : Reinsert(e)
    \/ ResizeEnds
    \/ MergeStarts \/ CopyStarts
    \/ \E e \in todo : Fill(e)
    \/ FillEnds
    \/ Leave \/ Collect

Spec == Init /\ [][Next]_vars

-----------------------------------------------------------------------------
PCs == {"idle", "grow", "shrink", "resize", "nested", "lost"}

TableType(t) ==
    /\ t.size \in Sizes /\ t.count \in Nat
    /\ t.ha \in [0 .. t.size - 1 -> Seq(Entry)]

(* The type invariant of idio_hash_t and of the loops over it.             *)
TypeOK ==
    /\ TableType(Table) /\ TableType(orig)
    /\ pc \in PCs /\ hcount \in Nat
    /\ old \subseteq Entry /\ freed \subseteq Entry
    /\ op \in {"none", "merge", "copy", "alist"}
    /\ todo \subseteq Entry

(* Every entry is in the bucket its key hashes to for the size the table   *)
(* has now, no key has two entries, and IDIO_HASH_COUNT is the number of   *)
(* entries, through a resize that a condition cuts short as well: what     *)
(* hash-size returns, and what the test "LOST HASH ENTRIES" of             *)
(* idio_hash_resize relies on, which never makes the program exit.         *)
CountsEntries ==
    /\ \A b \in DOMAIN ha : \A i \in DOMAIN ha[b] :
          /\ Index(ha[b][i].key, size) = b
          /\ \A j \in DOMAIN ha[b] : ha[b][i].key = ha[b][j].key => i = j
    /\ count = Cardinality(Entries)
    /\ pc # "lost"

(* The puts of a resize never resize the table again: idio_hash_resize     *)
(* always chose a size the entries fit in.  Outside a put the table is not *)
(* over its load.                                                          *)
NeverNested ==
    /\ pc # "nested"
    /\ pc = "idle" => count <= LoadHigh(size)

(* A table that was just resized takes another entry before the next       *)
(* resize: the limits for growing and shrinking in idio_hash_put and       *)
(* idio_hash_delete are far enough from what idio_hash_resize chooses.     *)
Steady == [][ResizeEnds => count < LoadHigh(size)]_vars

(* What a table refers to is never freed: the entries it has are live.     *)
EntriesLive == Entries \cap freed = {}

(* The pairs the table stands for, on whichever buckets they are.          *)
Pairs == Entries \cup old \cup (IF op = "copy" THEN todo ELSE {})

D == INSTANCE Dict WITH map <- Pairs

(* Put, delete, ref, size, merge, copy and alist->hash do to the table     *)
(* what they do to a set of pairs, whatever resizes they cause and however *)
(* the keys collide; pairs are lost only when a condition leaves a resize. *)
IsDict == D!Spec
=============================================================================
