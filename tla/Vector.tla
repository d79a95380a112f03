------------------------------- MODULE Vector -------------------------------
(***************************************************************************)
(* What an Idio array promises: elements 0 .. len-1, a default value for   *)
(* elements that were never set, and copies of itself that continuations   *)
(* keep.  There is no allocation here; `Array' implements this module.     *)
(***************************************************************************)
EXTENDS Integers

CONSTANTS
    Value,      \* what elements are
    Index,      \* bound: the indexes a program uses
    Size        \* bound: the sizes it asks for, and how many it pushes

VARIABLES
    len, elem,  \* the elements
    default,    \* what make-array was given
    call, out,  \* the last operation with its arguments, what it returned
    saved       \* the copies continuations keep

vars == <<len, elem, default, call, out, saved>>

(* A negative index counts from the end.                                   *)
At(i) == IF i < 0 THEN i + len ELSE i

Becomes(n, f) == len' = n /\ elem' = f
Done(c, r) == call' = c /\ out' = r

Init ==
    /\ \E n \in Size, d \in Value : /\ len = n
                                   /\ elem = [k \in 0 .. n - 1 |-> d]
                                   /\ default = d
    /\ call = <<"make">>
    /\ out = "unspec"
    /\ saved = {}

Ref(i) ==
    /\ Done(<<"ref", i>>, IF At(i) \in 0 .. len - 1 THEN elem[At(i)] ELSE "bounds")
    /\ UNCHANGED <<len, elem, default, saved>>

(* Every element up to the one that is set exists afterwards.              *)
Put(i, v) ==
    Becomes(IF i < len THEN len ELSE i + 1,
            [k \in 0 .. (IF i < len THEN len - 1 ELSE i) |->
                IF k = i THEN v ELSE IF k < len THEN elem[k] ELSE default])

Set(i, v) ==
    /\ At(i) \in 0 .. len
    /\ Put(At(i), v)
    /\ Done(<<"set", i, v>>, "unspec")
    /\ UNCHANGED <<default, saved>>

(* Beyond the end the array may be extended, or refuse.                    *)
Extend(i, v) ==
    /\ At(i) > len
    /\ Put(At(i), v)
    /\ Done(<<"set", i, v>>, "unspec")
    /\ UNCHANGED <<default, saved>>

Refuse(i, v) ==
    /\ At(i) < 0 \/ At(i) > len
    /\ Done(<<"set", i, v>>, "bounds")
    /\ UNCHANGED <<len, elem, default, saved>>

Push(v) ==
    /\ Put(len, v)
    /\ Done(<<"push", v>>, "unspec")
    /\ UNCHANGED <<default, saved>>

PushN(n, vs) ==
    /\ Becomes(len + n, [k \in 0 .. len + n - 1 |->
                            IF k < len THEN elem[k] ELSE vs[k - len + 1]])
    /\ Done(<<"push_n", vs>>, "unspec")
    /\ UNCHANGED <<default, saved>>

Unshift(v) ==
    /\ Becomes(len + 1, [k \in 0 .. len |-> IF k = 0 THEN v ELSE elem[k - 1]])
    /\ Done(<<"unshift", v>>, "unspec")
    /\ UNCHANGED <<default, saved>>

TakeNone(c) ==
    /\ len = 0
    /\ Done(c, "nil")
    /\ UNCHANGED <<len, elem, default, saved>>

Pop ==
    /\ len > 0
    /\ Becomes(len - 1, [k \in 0 .. len - 2 |-> elem[k]])
    /\ Done(<<"pop">>, elem[len - 1])
    /\ UNCHANGED <<default, saved>>

Shift ==
    /\ len > 0
    /\ Becomes(len - 1, [k \in 0 .. len - 2 |-> elem[k + 1]])
    /\ Done(<<"shift">>, elem[0])
    /\ UNCHANGED <<default, saved>>

Fill(v) ==
    /\ Becomes(len, [k \in 0 .. len - 1 |-> v])
    /\ Done(<<"fill", v>>, "unspec")
    /\ UNCHANGED <<default, saved>>

Copy ==
    /\ Done(<<"copy">>, "unspec")
    /\ UNCHANGED <<len, elem, default, saved>>

Truncate(n) ==
    /\ n <= len
    /\ Becomes(n, [k \in 0 .. n - 1 |-> elem[k]])
    /\ Done(<<"truncate", n>>, "unspec")
    /\ UNCHANGED <<default, saved>>

Save ==
    /\ saved' = saved \cup {[len |-> len, elem |-> elem]}
    /\ Done(<<"save">>, "unspec")
    /\ UNCHANGED <<len, elem, default>>

Restore(s) ==
    /\ Becomes(s.len, s.elem)
    /\ Done(<<"restore", s>>, "unspec")
    /\ UNCHANGED <<default, saved>>

Next ==
    \/ \E i \in Index : Ref(i)
    \/ \E i \in Index, v \in Value : Set(i, v) \/ Extend(i, v) \/ Refuse(i, v)
    \/ \E n \in Size \ {0} : \E vs \in [1 .. n -> Value] : PushN(n, vs)
    \/ \E v \in Value : Push(v) \/ Unshift(v) \/ Fill(v)
    \/ TakeNone(<<"pop">>) \/ TakeNone(<<"shift">>) \/ Pop \/ Shift \/ Copy
    \/ \E n \in Size : Truncate(n)
    \/ Save
    \/ \E s \in saved : Restore(s)

Spec == Init /\ [][Next]_vars
=============================================================================
