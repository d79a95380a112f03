-------------------------------- MODULE Dict --------------------------------
(***************************************************************************)
(* What an Idio hash table promises: a set of key, value pairs, one for    *)
(* each key.  There are no buckets here; `Hash' implements this module.    *)
(***************************************************************************)
EXTENDS FiniteSets

CONSTANTS
    Key, Value,
    UserHash    \* hashing and comparing keys call the program's functions

VARIABLES
    map,        \* the pairs
    call, out   \* the last operation with its arguments, what it returned

vars == <<call, out, map>>

Pair == [key : Key, value : Value]
For(k) == {p \in map : p.key = k}
Done(c, r) == call' = c /\ out' = r

Init ==
    /\ map = {}
    /\ call = <<"make">>
    /\ out = "unspec"

(* A put under any name: hash-set!, and a pair of a merge.                 *)
Put(k, v, name) ==
    /\ Done(<<name, k, v>>, "unspec")
    /\ map' = (map \ For(k)) \cup {[key |-> k, value |-> v]}

(* alist->hash: the first association of a key is the one that counts.     *)
Add(k, v) ==
    /\ Done(<<"add", k, v>>, "unspec")
    /\ map' = IF For(k) = {} THEN map \cup {[key |-> k, value |-> v]} ELSE map

Delete(k) ==
    /\ Done(<<"delete", k>>, IF For(k) = {} THEN "absent" ELSE "deleted")
    /\ map' = map \ For(k)

Ref(k) ==
    /\ IF For(k) = {} THEN Done(<<"ref", k>>, "unspec")
       ELSE \E p \in For(k) : Done(<<"ref", k>>, p.value)
    /\ UNCHANGED map

Size ==
    /\ Done(<<"size">>, Cardinality(map))
    /\ UNCHANGED map

Copy ==
    /\ Done(<<"copy">>, "unspec")
    /\ UNCHANGED map

(* One of the program's functions raised a condition, and the program went *)
(* on elsewhere: the pairs that were on the move are gone.                 *)
Leave ==
    /\ UserHash
    /\ Done(<<"left">>, "unspec")
    /\ map' \in SUBSET map

Next ==
    \/ \E k \in Key, v \in Value : \/ Put(k, v, "put") \/ Put(k, v, "merge")
                                   \/ Add(k, v)
    \/ \E k \in Key : Delete(k) \/ Ref(k)
    \/ Size \/ Copy \/ Leave

Spec == Init /\ [][Next]_vars
=============================================================================
