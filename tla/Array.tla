-------------------------------- MODULE Array --------------------------------
(***************************************************************************)
(* Idio arrays, src/src/array.c: `asize' slots are allocated, the first    *)
(* `usize' of them are elements.  Arrays hold the program's data, the      *)
(* values of the VM's top-level variables and the stack of each thread.    *)
(*                                                                         *)
(* A primitive is not interrupted, yet idio_array_shift,                   *)
(* idio_array_unshift and idio_array_push_n move elements or grow the      *)
(* array one piece at a time, each through the same code that checks       *)
(* bounds and grows; `op' says which of them is under way.                 *)
(***************************************************************************)
EXTENDS Integers, Sequences, FiniteSets

CONSTANTS
    Value,      \* what elements are
    Index,      \* bound: the indexes a program uses
    Size,       \* bound: the sizes it asks for
    GrowBy,     \* 1024: a smaller array doubles, others grow by this
    MaxLen,     \* bound: elements in an array of data
    MaxStack,   \* bound: elements on a stack
    MaxSaved    \* bound: continuations

ASSUME ArrayAssumption ==
    /\ Index \subseteq Int /\ Size \subseteq Nat /\ 0 \in Size
    /\ GrowBy \in Nat \ {0}
    /\ MaxLen \in Nat /\ MaxStack \in Nat /\ MaxSaved \in Nat

VARIABLES
    asize, usize,   \* a->u.array->asize, usize
    ae, dv,         \* a->u.array->ae, dv
    stack,          \* this is the stack of a thread
    op, at, arg,    \* the loop under way, its index and its values
    call, out,      \* history: the last operation that was done, its result
    copies          \* the stacks of the continuations made so far

vars == <<asize, usize, ae, dv, stack, op, at, arg, call, out, copies>>
loop == <<op, at, arg>>
Done(c, r) == call' = c /\ out' = r

Slots == 0 .. asize - 1
Most == IF stack THEN MaxStack ELSE MaxLen

(* idio_array_dv, and the used size make-array gives it; the stack of a    *)
(* thread and the tables of the VM are made empty.                         *)
Init ==
    /\ stack \in BOOLEAN
    /\ \E n \in Size, d \in Value :
          /\ asize = IF n = 0 THEN 1 ELSE n
          /\ usize \in IF stack THEN {0} ELSE {0, n}
          /\ ae = [k \in Slots |-> d]
          /\ dv = d
    /\ op = "none"
    /\ at = 0
    /\ arg = << >>
    /\ call = <<"make">>
    /\ out = "unspec"
    /\ copies = {}

-----------------------------------------------------------------------------
(* idio_resize_array: the elements stay, the rest is the default value.    *)

Grown(n) == IF n < GrowBy THEN 2 * n ELSE n + GrowBy

Resized(n) == [k \in 0 .. n - 1 |-> IF k < usize THEN ae[k] ELSE dv]

(* Faulty variant: the array grows one element too late.                   *)
StoreAfterGrow(i, v) ==
    /\ asize' = IF i > asize THEN Grown(asize) ELSE asize
    /\ usize' = IF i >= usize THEN i + 1 ELSE usize
    /\ ae' = [ae EXCEPT ![i] = v]

(* idio_array_insert_index, for an index within bounds.                    *)
Store(i, v) ==
    /\ asize' = IF i = asize THEN Grown(asize) ELSE asize
    /\ usize' = IF i >= usize THEN i + 1 ELSE usize
    /\ ae' = [IF i = asize THEN Resized(Grown(asize)) ELSE ae EXCEPT ![i] = v]

Abs(i) == IF i < 0 THEN i + usize ELSE i

(* A stack is only changed within its used size; the tables of the VM are  *)
(* set up to their allocated size.                                         *)
InsertIndex(i, v) ==
    /\ op = "none"
    /\ Abs(i) < Most
    /\ stack => Abs(i) < usize
    /\ IF Abs(i) \in 0 .. asize
       THEN Store(Abs(i), v) /\ Done(<<"set", i, v>>, "unspec")
       ELSE Done(<<"set", i, v>>, "bounds") /\ UNCHANGED <<asize, usize, ae>>
    /\ UNCHANGED <<dv, stack, loop, copies>>

(* array-set! goes no further than a push.                                 *)
ArraySet(i, v) ==
    /\ op = "none" /\ ~stack
    /\ Abs(i) < Most
    /\ IF Abs(i) \in 0 .. usize
       THEN Store(Abs(i), v) /\ Done(<<"set", i, v>>, "unspec")
       ELSE Done(<<"set", i, v>>, "bounds") /\ UNCHANGED <<asize, usize, ae>>
    /\ UNCHANGED <<dv, stack, loop, copies>>

ArrayRef(i) ==
    /\ op = "none"
    /\ Done(<<"ref", i>>, IF Abs(i) \in 0 .. usize - 1 THEN ae[Abs(i)] ELSE "bounds")
    /\ UNCHANGED <<asize, usize, ae, dv, stack, loop, copies>>

Push(v) ==
    /\ op = "none"
    /\ usize < Most
    /\ Store(usize, v)
    /\ Done(<<"push", v>>, "unspec")
    /\ UNCHANGED <<dv, stack, loop, copies>>

(* Faulty variant: the slot keeps what was popped.                         *)
DropLastKept ==
    /\ usize' = usize - 1
    /\ UNCHANGED <<ae, asize>>

(* The last element goes, its slot has the default value again.            *)
DropLast ==
    /\ usize' = usize - 1
    /\ ae' = [ae EXCEPT ![usize - 1] = dv]
    /\ UNCHANGED asize

Pop ==
    /\ op = "none"
    /\ IF usize < 1
       THEN Done(<<"pop">>, "nil") /\ UNCHANGED <<asize, usize, ae>>
       ELSE Done(<<"pop">>, ae[usize - 1]) /\ DropLast
    /\ UNCHANGED <<dv, stack, loop, copies>>

ArrayFill(v) ==
    /\ op = "none" /\ ~stack
    /\ ae' = [k \in Slots |-> IF k < usize THEN v ELSE ae[k]]
    /\ Done(<<"fill", v>>, "unspec")
    /\ UNCHANGED <<asize, usize, dv, stack, loop, copies>>

(* The program goes on with the copy.                                      *)
CopyArray(extra) ==
    /\ op = "none" /\ ~stack
    /\ usize + extra <= Most
    /\ asize' = IF usize + extra = 0 THEN 1 ELSE usize + extra
    /\ ae' = [k \in 0 .. asize' - 1 |-> IF k < usize THEN ae[k] ELSE dv]
    /\ Done(<<"copy">>, "unspec")
    /\ UNCHANGED <<usize, dv, stack, loop, copies>>

-----------------------------------------------------------------------------
(* idio_array_push_n: the array grows until there is room, with one to     *)
(* spare.                                                                  *)

PushN(vs) ==
    /\ op = "none" /\ stack
    /\ usize + Len(vs) <= Most
    /\ op' = "push" /\ arg' = vs
    /\ UNCHANGED <<asize, usize, ae, dv, stack, at, call, out, copies>>

PushGrow ==
    /\ op = "push"
    /\ usize + Len(arg) >= asize
    /\ asize' = Grown(asize)
    /\ ae' = Resized(Grown(asize))
    /\ UNCHANGED <<usize, dv, stack, loop, call, out, copies>>

PushStore ==
    /\ op = "push"
    /\ usize + Len(arg) < asize
    /\ usize' = usize + Len(arg)
    /\ ae' = [k \in Slots |-> IF k \in usize .. usize + Len(arg) - 1
                              THEN arg[k - usize + 1] ELSE ae[k]]
    /\ op' = "none" /\ arg' = << >>
    /\ Done(<<"push_n", arg>>, "unspec")
    /\ UNCHANGED <<asize, dv, stack, at, copies>>

(* idio_array_shift: element i + 1 goes to i, then the last one goes.      *)
Shift ==
    /\ op = "none" /\ ~stack
    /\ IF usize < 1
       THEN Done(<<"shift">>, "nil") /\ UNCHANGED loop
       ELSE op' = "shift" /\ at' = 0 /\ arg' = <<ae[0]>> /\ UNCHANGED <<call, out>>
    /\ UNCHANGED <<asize, usize, ae, dv, stack, copies>>

ShiftOne ==
    /\ op = "shift"
    /\ at < usize - 1
    /\ Store(at, ae[at + 1])
    /\ at' = at + 1
    /\ UNCHANGED <<dv, stack, op, arg, call, out, copies>>

ShiftEnds ==
    /\ op = "shift"
    /\ at = usize - 1
    /\ DropLast
    /\ Done(<<"shift">>, arg[1])
    /\ op' = "none" /\ at' = 0 /\ arg' = << >>
    /\ UNCHANGED <<dv, stack, copies>>

(* idio_array_unshift: from the end, element i - 1 goes to i.              *)
Unshift(v) ==
    /\ op = "none" /\ ~stack
    /\ usize < Most
    /\ op' = "unshift" /\ at' = usize /\ arg' = <<v>>
    /\ UNCHANGED <<asize, usize, ae, dv, stack, call, out, copies>>

(* Faulty variant: the element is taken from one place too far.            *)
UnshiftSame ==
    /\ op = "unshift"
    /\ at > 0
    /\ Store(at, ae[0])
    /\ at' = at - 1
    /\ UNCHANGED <<dv, stack, op, arg, call, out, copies>>

UnshiftOne ==
    /\ op = "unshift"
    /\ at > 0
    /\ Store(at, ae[at - 1])
    /\ at' = at - 1
    /\ UNCHANGED <<dv, stack, op, arg, call, out, copies>>

UnshiftEnds ==
    /\ op = "unshift"
    /\ at = 0
    /\ Store(0, arg[1])
    /\ Done(<<"unshift", arg[1]>>, "unspec")
    /\ op' = "none" /\ arg' = << >>
    /\ UNCHANGED <<dv, stack, at, copies>>

-----------------------------------------------------------------------------
(* The stack of a thread.  An abort or an escape cuts it and leaves the    *)
(* slots as they are.  A continuation keeps a copy of it, which            *)
(* idio_duplicate_array puts back; with more elements than there are slots *)
(* that frees the slots, and the assertion at the end of                   *)
(* idio_array_insert_index fails.                                          *)

Truncate(n) ==
    /\ op = "none" /\ stack
    /\ n <= usize
    /\ usize' = n
    /\ Done(<<"truncate", n>>, "unspec")
    /\ UNCHANGED <<asize, ae, dv, stack, loop, copies>>

Elements == [k \in 0 .. usize - 1 |-> ae[k]]

Continuation ==
    /\ op = "none" /\ stack
    /\ Cardinality(copies) < MaxSaved
    /\ copies' = copies \cup {[len |-> usize, elem |-> Elements]}
    /\ Done(<<"save">>, "unspec")
    /\ UNCHANGED <<asize, usize, ae, dv, stack, loop>>

(* Faulty variant: the stack gets the slots of the copy.                   *)
RestoreCopy(c) ==
    /\ op = "none" /\ stack
    /\ asize' = IF c.len = 0 THEN 1 ELSE c.len
    /\ usize' = c.len
    /\ ae' = [k \in 0 .. asize' - 1 |-> IF k < c.len THEN c.elem[k] ELSE dv]
    /\ Done(<<"restore", c>>, "unspec")
    /\ UNCHANGED <<dv, stack, loop, copies>>

Restore(c) ==
    /\ op = "none" /\ stack
    /\ IF c.len <= asize
       THEN /\ usize' = c.len
            /\ ae' = [k \in Slots |-> IF k < c.len THEN c.elem[k] ELSE ae[k]]
            /\ UNCHANGED op
       ELSE op' = "aborted" /\ UNCHANGED <<usize, ae>>
    /\ Done(<<"restore", c>>, "unspec")
    /\ UNCHANGED <<asize, dv, stack, at, arg, copies>>

-----------------------------------------------------------------------------
Next ==
    \/ \E i \in Index : ArrayRef(i)
    \/ \E i \in Index, v \in Value : InsertIndex(i, v) \/ ArraySet(i, v)
    \/ \E v \in Value : Push(v) \/ Unshift(v) \/ ArrayFill(v)
    \/ \E n \in Size : CopyArray(n) \/ Truncate(n)
    \/ \E n \in Size \ {0} : \E vs \in [1 .. n -> Value] : PushN(vs)
    \/ Pop \/ Shift
    \/ PushGrow \/ PushStore
    \/ ShiftOne \/ ShiftEnds \/ UnshiftOne \/ UnshiftEnds
    \/ Continuation
    \/ \E c \in copies : Restore(c)

Spec == Init /\ [][Next]_vars

-----------------------------------------------------------------------------
IsCopy(c) == /\ c.len \in Nat
             /\ c.elem \in [0 .. c.len - 1 -> Value]
             /\ c = [len |-> c.len, elem |-> c.elem]

(* The used size is never above the allocated one, as array.c asserts      *)
(* after every change, and there is always a slot: a size of 0 would not   *)
(* grow by doubling.                                                       *)
TypeOK ==
    /\ asize \in Nat \ {0}
    /\ usize \in 0 .. asize
    /\ ae \in [Slots -> Value]
    /\ dv \in Value
    /\ stack \in BOOLEAN
    /\ op \in {"none", "push", "shift", "unshift", "aborted"}
    /\ at \in 0 .. usize
    /\ arg \in Seq(Value)
    /\ out \in Value \cup {"unspec", "nil", "bounds"}
    /\ \A c \in copies : IsCopy(c)

(* Slots beyond the used size hold the default value, whichever            *)
(* operations grew or shrank the array: idio_array_insert_index beyond the *)
(* end shows them, and so does a later make-array size.                    *)
SpareIsDefault ==
    ~stack => \A k \in usize .. asize - 1 : ae[k] = dv

(* A continuation's copy of the stack always fits: idio_duplicate_array    *)
(* never comes to its reallocation, which forgets to set the allocated     *)
(* size and ends in a failed assertion.                                    *)
CopiesFit == op # "aborted" /\ \A c \in copies : c.len <= asize

-----------------------------------------------------------------------------
(* The elements a reader may count on, in the middle of a loop those from  *)
(* before it.                                                              *)

Len0 == IF op = "unshift" /\ at < usize THEN usize - 1 ELSE usize

Elem0(k) ==
    CASE op = "unshift" -> IF k < at THEN ae[k] ELSE ae[k + 1]
      [] op = "shift" -> IF k = 0 THEN arg[1] ELSE IF k <= at THEN ae[k - 1] ELSE ae[k]
      [] OTHER -> ae[k]

V == INSTANCE Vector WITH len <- Len0, elem <- [k \in 0 .. Len0 - 1 |-> Elem0(k)],
                          default <- dv, saved <- copies

(* Through every operation an array is the vector its elements make: a     *)
(* move does not lose, double or reorder elements, growing keeps them, and *)
(* a stack put back is the one that was saved.                             *)
IsVector == V!Spec
=============================================================================
