----------------------------- MODULE ArrayProofs -----------------------------
(***************************************************************************)
(* Proofs about `Array', for every set of values, every size and every     *)
(* growth step: the inductive invariant, the properties that follow from   *)
(* it, and that the array implements `Vector'.                             *)
(***************************************************************************)
EXTENDS Array, TLAPS

(* A slot beyond the new used size is beyond the old one, and is not the   *)
(* one that was set.                                                       *)
LEMMA BeyondBoth ==
    ASSUME NEW old \in Nat, NEW new \in Nat, NEW end \in Nat, NEW i \in Nat,
           old <= new, i < new
    PROVE  \A k \in new .. end - 1 : k \in old .. end - 1 /\ k # i
OBVIOUS

(* The value in hand.                                                      *)
LEMMA FirstOfOne ==
    ASSUME NEW s \in Seq(Value), Len(s) = 1
    PROVE  s[1] \in Value
OBVIOUS

(* What holds while elements are moved: the index is inside the used size  *)
(* and the value in hand is there; only data is shifted, only a stack is   *)
(* pushed several values at a time, or saved.                              *)
LoopOK ==
    /\ op \in {"shift", "unshift"} => ~stack /\ Len(arg) = 1
    /\ op = "shift" => at < usize
    /\ op = "push" => stack /\ Len(arg) \in Size \ {0}
    /\ op \notin {"shift", "unshift"} => at = 0
    /\ ~stack => copies = {}

IInv == TypeOK /\ LoopOK /\ SpareIsDefault /\ CopiesFit

(* Doubling or adding a step always makes room (idio_resize_array).        *)
LEMMA GrownBigger ==
    ASSUME NEW n \in Nat \ {0}
    PROVE  Grown(n) \in Nat /\ Grown(n) > n
BY ArrayAssumption DEF ArrayAssumption, Grown

(* idio_resize_array keeps the elements and fills the rest.                *)
LEMMA ResizedKeeps ==
    ASSUME TypeOK
    PROVE  /\ Resized(Grown(asize)) \in [0 .. Grown(asize) - 1 -> Value]
           /\ \A k \in 0 .. usize - 1 : Resized(Grown(asize))[k] = ae[k]
           /\ \A k \in usize .. Grown(asize) - 1 : Resized(Grown(asize))[k] = dv
<1>1. Grown(asize) \in Nat /\ Grown(asize) > asize
  BY GrownBigger DEF TypeOK
<1> QED BY <1>1 DEF TypeOK, Slots, Resized

(* What idio_array_insert_index does to the slots and the sizes.           *)
LEMMA StoreOK ==
    ASSUME TypeOK, NEW i \in 0 .. asize, NEW v \in Value, Store(i, v)
    PROVE  /\ asize' \in Nat \ {0} /\ asize' >= asize
           /\ usize' \in 0 .. asize' /\ i < usize'
           /\ usize' = (IF i < usize THEN usize ELSE i + 1)
           /\ ae' \in [0 .. asize' - 1 -> Value]
           /\ ae'[i] = v
           /\ \A k \in 0 .. usize - 1 : k # i => ae'[k] = ae[k]
           /\ (\A k \in usize .. asize - 1 : ae[k] = dv)
                => \A k \in usize .. asize' - 1 : k # i => ae'[k] = dv
<1>1. Grown(asize) \in Nat /\ Grown(asize) > asize
  BY GrownBigger DEF TypeOK
<1>2. CASE i = asize
  <2> DEFINE r == Resized(Grown(asize))
  <2>1. /\ r \in [0 .. Grown(asize) - 1 -> Value]
        /\ \A k \in 0 .. usize - 1 : r[k] = ae[k]
        /\ \A k \in usize .. Grown(asize) - 1 : r[k] = dv
    BY ResizedKeeps
  <2>2. asize' = Grown(asize) /\ ae' = [r EXCEPT ![i] = v]
    BY <1>2 DEF Store
  <2>3. usize' = i + 1 /\ usize' \in 0 .. asize'
    BY <1>1, <1>2, <2>2 DEF Store, TypeOK
  <2> HIDE DEF r
  <2> QED BY <1>1, <1>2, <2>1, <2>2, <2>3 DEF TypeOK
<1>3. CASE i # asize
  <2>1. asize' = asize /\ ae' = [ae EXCEPT ![i] = v]
    BY <1>3 DEF Store
  <2>2. i \in Slots /\ ae \in [Slots -> Value]
    BY <1>3 DEF TypeOK, Slots
  <2>3. usize' = (IF i < usize THEN usize ELSE i + 1)
    BY DEF Store, TypeOK
  <2> QED BY <1>3, <2>1, <2>2, <2>3 DEF TypeOK, Slots
<1> QED BY <1>2, <1>3

(* A store inside the bounds by an operation that is not under way, or by  *)
(* a loop that keeps its own part of the invariant.                        *)
LEMMA StoreKeeps ==
    ASSUME IInv, NEW i \in 0 .. asize, NEW v \in Value, Store(i, v),
           UNCHANGED <<dv, stack, copies>>
    PROVE  /\ asize' \in Nat \ {0} /\ usize' \in 0 .. asize'
           /\ usize <= usize'
           /\ ae' \in [Slots' -> Value]
           /\ dv' \in Value
           /\ SpareIsDefault'
           /\ \A c \in copies' : IsCopy(c) /\ c.len <= asize'
<1>1. /\ asize' \in Nat \ {0} /\ asize' >= asize
      /\ usize' \in 0 .. asize' /\ i < usize'
      /\ usize' = (IF i < usize THEN usize ELSE i + 1)
      /\ ae' \in [0 .. asize' - 1 -> Value]
      /\ (\A k \in usize .. asize - 1 : ae[k] = dv)
            => \A k \in usize .. asize' - 1 : k # i => ae'[k] = dv
  BY StoreOK DEF IInv
<1>2. SpareIsDefault'
  <2>1. usize \in Nat /\ i \in Nat /\ usize' \in Nat /\ asize' \in Nat
    BY <1>1 DEF IInv, TypeOK
  <2>2. usize <= usize' /\ i < usize'
    BY <1>1, <2>1
  <2>3. CASE stack
    BY <2>3 DEF SpareIsDefault
  <2>4. CASE ~stack
    <3>1. \A k \in usize .. asize' - 1 : k # i => ae'[k] = dv
      BY <1>1, <2>4 DEF IInv, SpareIsDefault
    <3>2. \A k \in usize' .. asize' - 1 : k \in usize .. asize' - 1 /\ k # i
      BY <2>1, <2>2, BeyondBoth
    <3> QED BY <3>1, <3>2 DEF SpareIsDefault
  <2> QED BY <2>3, <2>4
<1>3. \A c \in copies' : IsCopy(c) /\ c.len <= asize'
  <2> SUFFICES ASSUME NEW c \in copies
               PROVE  IsCopy(c) /\ c.len <= asize'
    OBVIOUS
  <2>1. IsCopy(c) /\ c.len \in Nat /\ c.len <= asize
    BY DEF IInv, TypeOK, CopiesFit, IsCopy
  <2> QED BY <1>1, <2>1 DEF IInv, TypeOK
<1>4. usize <= usize'
  BY <1>1 DEF IInv, TypeOK
<1> QED BY <1>1, <1>2, <1>3, <1>4 DEF Slots, IInv, TypeOK

(* The constants are as assumed, and make-array starts with default        *)
(* values in every slot.                                                   *)
LEMMA InitIInv == Init => IInv
<1> SUFFICES ASSUME Init PROVE IInv
  OBVIOUS
<1>1. PICK n \in Size, d \in Value :
          /\ asize = IF n = 0 THEN 1 ELSE n
          /\ usize \in IF stack THEN {0} ELSE {0, n}
          /\ ae = [k \in Slots |-> d]
          /\ dv = d
  BY DEF Init
<1>2. n \in Nat
  BY ArrayAssumption DEF ArrayAssumption
<1>3. TypeOK
  BY <1>1, <1>2 DEF Init, TypeOK, Slots
<1>4. LoopOK /\ SpareIsDefault /\ CopiesFit
  BY <1>1, <1>2 DEF Init, LoopOK, SpareIsDefault, CopiesFit, Slots
<1> QED BY <1>3, <1>4 DEF IInv

(* Every step keeps the invariant.                                         *)
LEMMA NextIInv == IInv /\ [Next]_vars => IInv'
<1> SUFFICES ASSUME IInv, [Next]_vars PROVE IInv'
  OBVIOUS
<1> USE DEF loop, Done
<1>1. ASSUME NEW i \in Index, ArrayRef(i) PROVE IInv'
  <2>1. Abs(i) \in 0 .. usize - 1 => ae[Abs(i)] \in Value
    BY DEF IInv, TypeOK, Slots
  <2> QED BY <1>1, <2>1 DEF IInv, TypeOK, LoopOK, SpareIsDefault, CopiesFit, ArrayRef,
                            Slots
<1>2. ASSUME NEW i \in Index, NEW v \in Value, InsertIndex(i, v) PROVE IInv'
  <2>1. CASE Abs(i) \in 0 .. asize
    <3>1. Store(Abs(i), v) /\ UNCHANGED <<dv, stack, copies, op, at, arg>> /\ out' = "unspec"
      BY <1>2, <2>1 DEF InsertIndex
    <3> DEFINE j == Abs(i)
    <3>2. j \in 0 .. asize /\ Store(j, v)
      BY <2>1, <3>1
    <3> HIDE DEF j
    <3>3. /\ asize' \in Nat \ {0} /\ usize' \in 0 .. asize'
          /\ usize <= usize'
          /\ ae' \in [Slots' -> Value]
          /\ dv' \in Value
          /\ SpareIsDefault'
          /\ \A c \in copies' : IsCopy(c) /\ c.len <= asize'
      BY <3>1, <3>2, StoreKeeps
    <3>4. op' = op /\ op = "none" /\ at = 0
      BY <1>2, <3>1 DEF InsertIndex, IInv, LoopOK
    <3> QED BY <3>1, <3>3, <3>4 DEF IInv, TypeOK, LoopOK, CopiesFit
  <2>2. CASE Abs(i) \notin 0 .. asize
    BY <1>2, <2>2 DEF InsertIndex, IInv, TypeOK, LoopOK, SpareIsDefault, CopiesFit, Slots
  <2> QED BY <2>1, <2>2
<1>3. ASSUME NEW i \in Index, NEW v \in Value, ArraySet(i, v) PROVE IInv'
  <2>1. CASE Abs(i) \in 0 .. usize
    <3>1. Store(Abs(i), v) /\ UNCHANGED <<dv, stack, copies, op, at, arg>> /\ out' = "unspec"
      BY <1>3, <2>1 DEF ArraySet
    <3> DEFINE j == Abs(i)
    <3>2. j \in 0 .. asize /\ Store(j, v)
      BY <2>1, <3>1 DEF IInv, TypeOK
    <3> HIDE DEF j
    <3>3. /\ asize' \in Nat \ {0} /\ usize' \in 0 .. asize'
          /\ usize <= usize'
          /\ ae' \in [Slots' -> Value]
          /\ dv' \in Value
          /\ SpareIsDefault'
          /\ \A c \in copies' : IsCopy(c) /\ c.len <= asize'
      BY <3>1, <3>2, StoreKeeps
    <3>4. op' = op /\ op = "none" /\ at = 0
      BY <1>3, <3>1 DEF ArraySet, IInv, LoopOK
    <3> QED BY <3>1, <3>3, <3>4 DEF IInv, TypeOK, LoopOK, CopiesFit
  <2>2. CASE Abs(i) \notin 0 .. usize
    BY <1>3, <2>2 DEF ArraySet, IInv, TypeOK, LoopOK, SpareIsDefault, CopiesFit, Slots
  <2> QED BY <2>1, <2>2
<1>4. ASSUME NEW v \in Value, Push(v) PROVE IInv'
  <2>1. usize \in 0 .. asize /\ Store(usize, v) /\ UNCHANGED <<dv, stack, copies>>
    BY <1>4 DEF Push, IInv, TypeOK
  <2>2. /\ asize' \in Nat \ {0} /\ usize' \in 0 .. asize'
        /\ usize <= usize'
        /\ ae' \in [Slots' -> Value]
        /\ dv' \in Value
        /\ SpareIsDefault'
        /\ \A c \in copies' : IsCopy(c) /\ c.len <= asize'
    BY <2>1, StoreKeeps
  <2> QED BY <1>4, <2>2 DEF Push, IInv, TypeOK, LoopOK, CopiesFit
<1>5. ASSUME NEW v \in Value, Unshift(v) PROVE IInv'
  BY <1>5 DEF Unshift, IInv, TypeOK, LoopOK, SpareIsDefault, CopiesFit, Slots
<1>6. ASSUME NEW v \in Value, ArrayFill(v) PROVE IInv'
  BY <1>6 DEF ArrayFill, IInv, TypeOK, LoopOK, SpareIsDefault, CopiesFit, Slots
<1>7. ASSUME NEW n \in Size, CopyArray(n) PROVE IInv'
  <2>1. n \in Nat /\ ~stack
    BY <1>7, ArrayAssumption DEF ArrayAssumption, CopyArray
  <2>2. copies' = {}
    BY <1>7, <2>1 DEF CopyArray, IInv, LoopOK
  <2>3. asize' \in Nat \ {0} /\ usize \in Nat /\ usize <= asize'
    BY <1>7, <2>1 DEF CopyArray, IInv, TypeOK
  <2>4. \A k \in 0 .. usize - 1 : ae[k] \in Value
    BY DEF IInv, TypeOK, Slots
  <2>5. /\ ae' \in [Slots' -> Value]
        /\ \A k \in usize .. asize' - 1 : ae'[k] = dv
    BY <1>7, <2>3, <2>4 DEF CopyArray, IInv, TypeOK, Slots
  <2> QED BY <1>7, <2>1, <2>2, <2>3, <2>5
          DEF CopyArray, IInv, TypeOK, LoopOK, SpareIsDefault, CopiesFit
<1>8. ASSUME NEW n \in Size, Truncate(n) PROVE IInv'
  <2>1. n \in Nat
    BY ArrayAssumption DEF ArrayAssumption
  <2> QED BY <1>8, <2>1 DEF Truncate, IInv, TypeOK, LoopOK, SpareIsDefault, CopiesFit, Slots
<1>9. ASSUME NEW n \in Size \ {0}, NEW vs \in [1 .. n -> Value], PushN(vs) PROVE IInv'
  <2>1. n \in Nat
    BY ArrayAssumption DEF ArrayAssumption
  <2>2. vs \in Seq(Value) /\ Len(vs) = n
    BY <2>1
  <2> QED BY <1>9, <2>2 DEF PushN, IInv, TypeOK, LoopOK, SpareIsDefault, CopiesFit, Slots
<1>10. CASE Pop
  <2>1. CASE usize < 1
    BY <1>10, <2>1 DEF Pop, IInv, TypeOK, LoopOK, SpareIsDefault, CopiesFit, Slots
  <2>2. CASE ~(usize < 1)
    <3>1. /\ usize' = usize - 1 /\ ae' = [ae EXCEPT ![usize - 1] = dv]
          /\ out' = ae[usize - 1] /\ op = "none"
          /\ UNCHANGED <<asize, dv, stack, op, at, arg, copies>>
      BY <1>10, <2>2 DEF Pop, DropLast
    <3>2. usize - 1 \in Slots /\ ae[usize - 1] \in Value /\ usize' \in 0 .. asize
      BY <2>2, <3>1 DEF IInv, TypeOK, Slots
    <3> QED BY <3>1, <3>2 DEF IInv, TypeOK, LoopOK, SpareIsDefault, CopiesFit, Slots
  <2> QED BY <2>1, <2>2
<1>11. CASE Shift
  <2>1. CASE usize < 1
    BY <1>11, <2>1 DEF Shift, IInv, TypeOK, LoopOK, SpareIsDefault, CopiesFit, Slots
  <2>2. CASE ~(usize < 1)
    <3>1. ae[0] \in Value
      BY <2>2 DEF IInv, TypeOK, Slots
    <3>2. <<ae[0]>> \in Seq(Value) /\ Len(<<ae[0]>>) = 1
      BY <3>1
    <3>3. /\ op' = "shift" /\ at' = 0 /\ arg' \in Seq(Value) /\ Len(arg') = 1
          /\ UNCHANGED <<out, asize, usize, ae, dv, stack, copies>> /\ ~stack /\ copies = {}
      BY <1>11, <2>2, <3>2 DEF Shift, IInv, LoopOK
    <3>4. at' \in 0 .. usize /\ at' < usize
      BY <2>2, <3>3 DEF IInv, TypeOK
    <3> QED BY <3>3, <3>4 DEF IInv, TypeOK, LoopOK, SpareIsDefault, CopiesFit, Slots
  <2> QED BY <2>1, <2>2
<1>12. CASE PushGrow
  <2>1. Grown(asize) \in Nat /\ Grown(asize) > asize
    BY GrownBigger DEF IInv, TypeOK
  <2>2. /\ Resized(Grown(asize)) \in [0 .. Grown(asize) - 1 -> Value]
        /\ \A k \in usize .. Grown(asize) - 1 : Resized(Grown(asize))[k] = dv
    BY ResizedKeeps DEF IInv
  <2>3. \A c \in copies : c.len \in Nat /\ c.len <= asize'
    BY <1>12, <2>1 DEF PushGrow, IInv, TypeOK, CopiesFit, IsCopy
  <2> QED BY <1>12, <2>1, <2>2, <2>3 DEF PushGrow, IInv, TypeOK, LoopOK, SpareIsDefault,
                                         CopiesFit, Slots
<1>13. CASE PushStore
  <2>1. Len(arg) \in Nat /\ \A k \in 1 .. Len(arg) : arg[k] \in Value
    BY DEF IInv, TypeOK
  <2>2. usize + Len(arg) \in 0 .. asize
    BY <1>13, <2>1 DEF PushStore, IInv, TypeOK
  <2>3. ae' \in [Slots -> Value]
    <3>1. \A k \in Slots : k \in usize .. usize + Len(arg) - 1
                              => arg[k - usize + 1] \in Value
      BY <2>1 DEF IInv, TypeOK, Slots
    <3> QED BY <1>13, <3>1 DEF PushStore, IInv, TypeOK
  <2>4. << >> \in Seq(Value)
    OBVIOUS
  <2> QED BY <1>13, <2>1, <2>2, <2>3, <2>4
          DEF PushStore, IInv, TypeOK, LoopOK, SpareIsDefault, CopiesFit, Slots
<1>14. CASE ShiftOne
  <2>1. at \in 0 .. asize /\ ae[at + 1] \in Value
    BY <1>14 DEF ShiftOne, IInv, TypeOK, Slots
  <2>2. Store(at, ae[at + 1]) /\ UNCHANGED <<dv, stack, copies>>
    BY <1>14 DEF ShiftOne
  <2>3. /\ asize' \in Nat \ {0} /\ usize' \in 0 .. asize'
        /\ usize <= usize'
        /\ ae' \in [Slots' -> Value]
        /\ dv' \in Value
        /\ SpareIsDefault'
        /\ \A c \in copies' : IsCopy(c) /\ c.len <= asize'
    BY <2>1, <2>2, StoreKeeps
  <2> QED BY <1>14, <2>3 DEF ShiftOne, IInv, TypeOK, LoopOK, CopiesFit
<1>15. CASE ShiftEnds
  <2>1. arg[1] \in Value /\ usize > 0
    <3>1. arg \in Seq(Value) /\ Len(arg) = 1 /\ at < usize /\ at \in Nat
          /\ usize \in Nat
      BY <1>15 DEF ShiftEnds, IInv, TypeOK, LoopOK
    <3> QED BY <3>1, FirstOfOne
  <2>2. << >> \in Seq(Value)
    OBVIOUS
  <2> QED BY <1>15, <2>1, <2>2 DEF ShiftEnds, DropLast, IInv, TypeOK, LoopOK,
                                   SpareIsDefault, CopiesFit, Slots
<1>16. CASE UnshiftOne
  <2>1. at \in 0 .. asize /\ ae[at - 1] \in Value
    BY <1>16 DEF UnshiftOne, IInv, TypeOK, Slots
  <2>2. Store(at, ae[at - 1]) /\ UNCHANGED <<dv, stack, copies>>
    BY <1>16 DEF UnshiftOne
  <2>3. /\ asize' \in Nat \ {0} /\ usize' \in 0 .. asize'
        /\ usize <= usize'
        /\ ae' \in [Slots' -> Value]
        /\ dv' \in Value
        /\ SpareIsDefault'
        /\ \A c \in copies' : IsCopy(c) /\ c.len <= asize'
    BY <2>1, <2>2, StoreKeeps
  <2> QED BY <1>16, <2>3 DEF UnshiftOne, IInv, TypeOK, LoopOK, CopiesFit
<1>17. CASE UnshiftEnds
  <2>1. 0 \in 0 .. asize /\ arg[1] \in Value /\ << >> \in Seq(Value)
    <3>1. arg \in Seq(Value) /\ Len(arg) = 1 /\ asize \in Nat
      BY <1>17 DEF UnshiftEnds, IInv, TypeOK, LoopOK
    <3> QED BY <3>1, FirstOfOne
  <2>2. Store(0, arg[1]) /\ UNCHANGED <<dv, stack, copies>>
    BY <1>17 DEF UnshiftEnds
  <2>3. /\ asize' \in Nat \ {0} /\ usize' \in 0 .. asize'
        /\ usize <= usize'
        /\ ae' \in [Slots' -> Value]
        /\ dv' \in Value
        /\ SpareIsDefault'
        /\ \A c \in copies' : IsCopy(c) /\ c.len <= asize'
    BY <2>1, <2>2, StoreKeeps
  <2> QED BY <1>17, <2>1, <2>3 DEF UnshiftEnds, IInv, TypeOK, LoopOK, CopiesFit
<1>18. CASE Continuation
  <2> DEFINE new == [len |-> usize, elem |-> Elements]
  <2>1. IsCopy(new) /\ new.len <= asize
    BY DEF IInv, TypeOK, IsCopy, Elements, Slots
  <2>2. copies' = copies \cup {new}
    BY <1>18 DEF Continuation
  <2> HIDE DEF new
  <2>3. \A c \in copies' : IsCopy(c) /\ c.len <= asize
    BY <2>1, <2>2 DEF IInv, TypeOK, CopiesFit
  <2> QED BY <1>18, <2>3 DEF Continuation, IInv, TypeOK, LoopOK, SpareIsDefault,
                             CopiesFit, Slots
<1>19. ASSUME NEW c \in copies, Restore(c) PROVE IInv'
  <2>1. c.len \in Nat /\ c.len <= asize /\ c.elem \in [0 .. c.len - 1 -> Value]
    BY DEF IInv, TypeOK, CopiesFit, IsCopy
  <2>2. /\ usize' = c.len /\ op' = op /\ op = "none" /\ stack
        /\ ae' = [k \in Slots |-> IF k < c.len THEN c.elem[k] ELSE ae[k]]
        /\ UNCHANGED <<asize, dv, stack, at, arg, copies>> /\ out' = "unspec"
    BY <1>19, <2>1 DEF Restore
  <2>3. ae' \in [Slots -> Value]
    <3>1. \A k \in Slots : k < c.len => c.elem[k] \in Value
      <4>1. asize \in Nat
        BY DEF IInv, TypeOK
      <4>2. \A k \in Slots : k < c.len => k \in 0 .. c.len - 1
        BY <2>1, <4>1 DEF Slots
      <4> QED BY <2>1, <4>2
    <3> QED BY <2>2, <3>1 DEF IInv, TypeOK
  <2> QED BY <2>1, <2>2, <2>3 DEF IInv, TypeOK, LoopOK, SpareIsDefault, CopiesFit, Slots
<1>20. CASE UNCHANGED vars
  BY <1>20 DEF vars, IInv, TypeOK, LoopOK, SpareIsDefault, CopiesFit, Slots
<1> QED
  BY <1>1, <1>2, <1>3, <1>4, <1>5, <1>6, <1>7, <1>8, <1>9, <1>10, <1>11, <1>12, <1>13,
     <1>14, <1>15, <1>16, <1>17, <1>18, <1>19, <1>20 DEF Next

(* The invariant holds in every state, for every instance of the array.    *)
THEOREM IInvInvariant == Spec => []IInv
BY InitIInv, NextIInv, PTL DEF Spec

(* Sizes and slots keep their types; in particular the used size is never  *)
(* above the allocated one, as array.c asserts.                            *)
THEOREM TypeCorrect == Spec => []TypeOK
<1>1. IInv => TypeOK
  BY DEF IInv
<1> QED BY <1>1, IInvInvariant, PTL

(* Spare slots of data arrays hold the default value (idio_array_pop,      *)
(* idio_resize_array_to), so an extension never shows an old element.      *)
THEOREM SpareDefault == Spec => []SpareIsDefault
<1>1. IInv => SpareIsDefault
  BY DEF IInv
<1> QED BY <1>1, IInvInvariant, PTL

(* Every saved stack fits in the slots of the stack it goes back to, so    *)
(* idio_duplicate_array never reallocates.                                 *)
THEOREM CopiesAlwaysFit == Spec => []CopiesFit
<1>1. IInv => CopiesFit
  BY DEF IInv
<1> QED BY <1>1, IInvInvariant, PTL

-----------------------------------------------------------------------------
(* Every array is the vector of its elements: each step of `Array' is a    *)
(* step of `Vector' on the elements Len0 and Elem0 make, or leaves them as *)
(* they are.  A loop takes effect when it ends.                            *)

elem0 == [k \in 0 .. Len0 - 1 |-> Elem0(k)]

(* Unless elements are being moved, they are in the slots in use.          *)
LEMMA Settled ==
    ASSUME op \notin {"shift", "unshift"}
    PROVE  Len0 = usize /\ elem0 = Elements
BY DEF Len0, elem0, Elem0, Elements

(* The elements an extension makes on the way have slots.                  *)
LEMMA GapInside ==
    ASSUME NEW used \in Nat, NEW i \in Nat, NEW end \in Nat, i <= end
    PROVE  \A k \in used .. i : k # i => k \in used .. end - 1
OBVIOUS

(* idio_array_insert_index sets one element and makes those before it.     *)
LEMMA StoreIsPut ==
    ASSUME IInv, op = "none", op' = "none", UNCHANGED dv,
           NEW i \in 0 .. asize, NEW v \in Value, Store(i, v),
           stack => i <= usize
    PROVE  V!Put(i, v)
<1>1. /\ Len0 = usize /\ elem0 = Elements
      /\ Len0' = usize' /\ elem0' = Elements'
  BY DEF Len0, elem0, Elem0, Elements
<1>2. /\ asize' \in Nat \ {0} /\ asize' >= asize
      /\ usize' = (IF i < usize THEN usize ELSE i + 1)
      /\ ae'[i] = v
      /\ \A k \in 0 .. usize - 1 : k # i => ae'[k] = ae[k]
      /\ (\A k \in usize .. asize - 1 : ae[k] = dv)
            => \A k \in usize .. asize' - 1 : k # i => ae'[k] = dv
  BY StoreOK DEF IInv
<1>3. usize \in Nat /\ asize \in Nat /\ i \in Nat /\ asize' \in Nat /\ i <= asize'
  BY <1>2 DEF IInv, TypeOK
<1>4. \A k \in usize .. i : k # i => ae'[k] = dv
  <2>1. CASE stack
    BY <2>1, <1>3
  <2>2. CASE ~stack
    <3>1. \A k \in usize .. asize' - 1 : k # i => ae'[k] = dv
      BY <1>2, <2>2 DEF IInv, SpareIsDefault
    <3>2. \A k \in usize .. i : k # i => k \in usize .. asize' - 1
      BY <1>3, GapInside
    <3> QED BY <3>1, <3>2
  <2> QED BY <2>1, <2>2
<1>5. Elements' = [k \in 0 .. (IF i < usize THEN usize - 1 ELSE i) |->
                     IF k = i THEN v ELSE IF k < usize THEN Elements[k] ELSE dv]
  <2>1. \A k \in 0 .. usize - 1 : Elements[k] = ae[k]
    BY DEF Elements
  <2>2. \A k \in 0 .. (IF i < usize THEN usize - 1 ELSE i) :
           ae'[k] = IF k = i THEN v ELSE IF k < usize THEN Elements[k] ELSE dv
    BY <1>2, <1>3, <1>4, <2>1
  <2>3. 0 .. usize' - 1 = 0 .. (IF i < usize THEN usize - 1 ELSE i)
    BY <1>2, <1>3
  <2> QED BY <2>2, <2>3 DEF Elements
<1>6. usize' = IF i < usize THEN usize ELSE i + 1
  BY <1>2
<1> QED BY <1>1, <1>5, <1>6 DEF V!Put, V!Becomes, elem0

(* The vector is left alone.                                               *)
Same == UNCHANGED <<Len0, elem0, dv, stack, call, out, copies>>

(* A loop that starts, or goes on, is not seen.                            *)
LEMMA PushGrowSame ==
    ASSUME IInv, PushGrow
    PROVE  Same
<1>1. \A k \in 0 .. usize - 1 : Resized(Grown(asize))[k] = ae[k]
  BY ResizedKeeps DEF IInv
<1>2. Elements' = Elements /\ usize' = usize
  BY <1>1 DEF PushGrow, Elements
<1>3. Len0 = usize /\ elem0 = Elements /\ Len0' = usize' /\ elem0' = Elements'
  BY DEF PushGrow, loop, Len0, elem0, Elem0, Elements
<1> QED BY <1>2, <1>3 DEF PushGrow, Same

LEMMA ShiftOneSame ==
    ASSUME IInv, ShiftOne
    PROVE  Same
<1>1. /\ op = "shift" /\ op' = "shift" /\ arg' = arg /\ at' = at + 1
      /\ UNCHANGED <<dv, stack, call, out, copies>>
      /\ at \in Nat /\ usize \in Nat /\ asize \in Nat /\ at < usize - 1
      /\ usize <= asize /\ Store(at, ae[at + 1])
  BY DEF ShiftOne, IInv, TypeOK
<1>2. at \in 0 .. asize /\ ae[at + 1] \in Value
  BY <1>1 DEF IInv, TypeOK, Slots
<1>3. /\ usize' = usize
      /\ ae'[at] = ae[at + 1]
      /\ \A k \in 0 .. usize - 1 : k # at => ae'[k] = ae[k]
  BY <1>1, <1>2, StoreOK DEF IInv
<1>4. Len0 = usize /\ Len0' = usize
  BY <1>1, <1>3 DEF Len0
<1>5. \A k \in 0 .. usize - 1 : Elem0(k)' = Elem0(k)
  <2> TAKE k \in 0 .. usize - 1
  <2>1. Elem0(k) = IF k = 0 THEN arg[1] ELSE IF k <= at THEN ae[k - 1] ELSE ae[k]
    BY <1>1 DEF Elem0
  <2>2. Elem0(k)' = IF k = 0 THEN arg[1] ELSE IF k <= at + 1 THEN ae'[k - 1] ELSE ae'[k]
    BY <1>1 DEF Elem0
  <2>3. CASE k = 0
    BY <2>1, <2>2, <2>3
  <2>4. CASE k # 0 /\ k <= at
    BY <1>1, <1>3, <2>1, <2>2, <2>4
  <2>5. CASE k = at + 1
    BY <1>1, <1>3, <2>1, <2>2, <2>5
  <2>6. CASE k > at + 1
    BY <1>1, <1>3, <2>1, <2>2, <2>6
  <2> QED BY <1>1, <2>3, <2>4, <2>5, <2>6
<1>6. elem0' = elem0
  BY <1>4, <1>5 DEF elem0
<1> QED BY <1>1, <1>4, <1>6 DEF Same

LEMMA UnshiftOneSame ==
    ASSUME IInv, UnshiftOne
    PROVE  Same
<1>1. /\ op = "unshift" /\ op' = "unshift" /\ at' = at - 1
      /\ UNCHANGED <<dv, stack, call, out, copies>>
      /\ at \in Nat /\ usize \in Nat /\ asize \in Nat /\ 0 < at /\ at <= usize
      /\ usize <= asize /\ Store(at, ae[at - 1])
  BY DEF UnshiftOne, IInv, TypeOK
<1>2. at \in 0 .. asize /\ ae[at - 1] \in Value
  BY <1>1 DEF IInv, TypeOK, Slots
<1>3. /\ usize' = (IF at < usize THEN usize ELSE at + 1)
      /\ ae'[at] = ae[at - 1]
      /\ \A k \in 0 .. usize - 1 : k # at => ae'[k] = ae[k]
  BY <1>1, <1>2, StoreOK DEF IInv
<1>4. /\ Len0 = (IF at < usize THEN usize - 1 ELSE usize)
      /\ Len0' = (IF at - 1 < usize' THEN usize' - 1 ELSE usize')
  BY <1>1 DEF Len0
<1>5. Len0' = Len0 /\ Len0 \in Nat
  BY <1>1, <1>3, <1>4
<1>6. \A k \in 0 .. Len0 - 1 : Elem0(k)' = Elem0(k)
  <2> TAKE k \in 0 .. Len0 - 1
  <2>1. Elem0(k) = IF k < at THEN ae[k] ELSE ae[k + 1]
    BY <1>1 DEF Elem0
  <2>2. Elem0(k)' = IF k < at - 1 THEN ae'[k] ELSE ae'[k + 1]
    BY <1>1 DEF Elem0
  <2>3. CASE k < at - 1
    BY <1>1, <1>3, <1>4, <2>1, <2>2, <2>3
  <2>4. CASE k = at - 1
    BY <1>1, <1>3, <2>1, <2>2, <2>4
  <2>5. CASE k > at - 1
    <3>1. at < usize /\ k + 1 \in 0 .. usize - 1 /\ k + 1 # at /\ ~(k < at)
      BY <1>1, <1>4, <2>5
    <3> QED BY <1>1, <1>3, <2>1, <2>2, <2>5, <3>1
  <2> QED BY <1>1, <2>3, <2>4, <2>5
<1>7. elem0' = elem0
  BY <1>5, <1>6 DEF elem0
<1> QED BY <1>1, <1>5, <1>7 DEF Same

-----------------------------------------------------------------------------
(* A loop that ends takes effect at once.                                  *)

LEMMA PushStoreIsPushN ==
    ASSUME IInv, PushStore
    PROVE  V!PushN(Len(arg), arg)
<1>1. /\ usize \in Nat /\ Len(arg) \in Nat /\ usize + Len(arg) < asize /\ asize \in Nat
      /\ usize' = usize + Len(arg)
      /\ ae' = [k \in Slots |-> IF k \in usize .. usize + Len(arg) - 1
                                 THEN arg[k - usize + 1] ELSE ae[k]]
      /\ UNCHANGED <<dv, stack, copies>> /\ out' = "unspec" /\ call' = <<"push_n", arg>>
  BY DEF PushStore, Done, IInv, TypeOK
<1>2. Len0 = usize /\ elem0 = Elements /\ Len0' = usize' /\ elem0' = Elements'
  BY DEF PushStore, Len0, elem0, Elem0, Elements
<1>3. \A k \in 0 .. usize + Len(arg) - 1 :
         ae'[k] = IF k < usize THEN Elements[k] ELSE arg[k - usize + 1]
  BY <1>1 DEF Slots, Elements
<1>4. Elements' = [k \in 0 .. usize + Len(arg) - 1 |->
                     IF k < usize THEN Elements[k] ELSE arg[k - usize + 1]]
  <2>1. Elements' = [k \in 0 .. usize + Len(arg) - 1 |-> ae'[k]]
    BY <1>1 DEF Elements
  <2> QED BY <1>3, <2>1
<1> QED BY <1>1, <1>2, <1>4 DEF V!PushN, V!Becomes, V!Done, elem0

LEMMA ShiftEndsIsShift ==
    ASSUME IInv, ShiftEnds
    PROVE  V!Shift
<1>1. /\ op = "shift" /\ op' = "none" /\ usize \in Nat /\ at \in Nat /\ at = usize - 1
      /\ usize > 0 /\ usize <= asize /\ asize \in Nat
      /\ usize' = usize - 1 /\ ae' = [ae EXCEPT ![usize - 1] = dv]
      /\ ae \in [Slots -> Value]
      /\ out' = arg[1] /\ call' = <<"shift">> /\ UNCHANGED <<dv, stack, copies>>
  BY DEF ShiftEnds, Done, DropLast, IInv, TypeOK
<1>2. Len0 = usize /\ Len0' = usize - 1 /\ elem0' = Elements'
  BY <1>1 DEF Len0, elem0, Elem0, Elements
<1>3. elem0[0] = arg[1]
  BY <1>1, <1>2 DEF elem0, Elem0
<1>4. \A k \in 0 .. usize - 2 : ae'[k] = elem0[k + 1]
  <2> TAKE k \in 0 .. usize - 2
  <2>1. ae'[k] = ae[k]
    BY <1>1 DEF Slots
  <2>2. k + 1 \in 0 .. Len0 - 1 /\ k + 1 # 0 /\ k + 1 <= at
    BY <1>1, <1>2
  <2>3. elem0[k + 1] = ae[k]
    BY <1>1, <2>2 DEF elem0, Elem0
  <2> QED BY <2>1, <2>3
<1>5. elem0' = [k \in 0 .. Len0 - 2 |-> elem0[k + 1]]
  BY <1>1, <1>2, <1>4 DEF Elements
<1> QED BY <1>1, <1>2, <1>3, <1>5 DEF V!Shift, V!Becomes, V!Done, elem0

LEMMA UnshiftEndsIsUnshift ==
    ASSUME IInv, UnshiftEnds
    PROVE  V!Unshift(arg[1])
<1>1. /\ op = "unshift" /\ op' = "none" /\ at = 0 /\ out' = "unspec"
      /\ call' = <<"unshift", arg[1]>>
      /\ usize \in Nat /\ asize \in Nat /\ usize <= asize
      /\ Store(0, arg[1]) /\ UNCHANGED <<dv, stack, copies>>
      /\ arg \in Seq(Value) /\ Len(arg) = 1
  BY DEF UnshiftEnds, Done, IInv, TypeOK, LoopOK
<1>2. 0 \in 0 .. asize /\ arg[1] \in Value
  BY <1>1, FirstOfOne
<1>3. /\ usize' = (IF 0 < usize THEN usize ELSE 1)
      /\ ae'[0] = arg[1]
      /\ \A k \in 0 .. usize - 1 : k # 0 => ae'[k] = ae[k]
  BY <1>1, <1>2, StoreOK DEF IInv
<1>4. /\ Len0 = (IF 0 < usize THEN usize - 1 ELSE usize)
      /\ Len0' = usize' /\ elem0' = Elements'
  BY <1>1 DEF Len0, elem0, Elem0, Elements
<1>5. Len0' = Len0 + 1 /\ Len0 \in Nat
  BY <1>1, <1>3, <1>4
<1>6. \A k \in 0 .. Len0 : ae'[k] = IF k = 0 THEN arg[1] ELSE elem0[k - 1]
  <2> TAKE k \in 0 .. Len0
  <2>1. CASE k = 0
    BY <1>3, <2>1
  <2>2. CASE k # 0
    <3>1. k - 1 \in 0 .. Len0 - 1 /\ k \in 0 .. usize - 1 /\ k - 1 + 1 = k
      BY <1>1, <1>4, <1>5, <2>2
    <3>2. elem0[k - 1] = ae[k]
      BY <1>1, <3>1 DEF elem0, Elem0
    <3> QED BY <1>3, <2>2, <3>1, <3>2
  <2> QED BY <2>1, <2>2
<1>7. elem0' = [k \in 0 .. Len0 |-> IF k = 0 THEN arg[1] ELSE elem0[k - 1]]
  <2>1. usize' - 1 = Len0
    BY <1>4, <1>5
  <2>2. elem0' = [k \in 0 .. Len0 |-> ae'[k]]
    BY <1>4, <2>1 DEF Elements
  <2> QED BY <1>6, <2>2
<1> QED BY <1>1, <1>5, <1>7 DEF V!Unshift, V!Becomes, V!Done, elem0

LEMMA PopIsPop ==
    ASSUME IInv, Pop
    PROVE  V!TakeNone(<<"pop">>) \/ V!Pop
<1>1. /\ op = "none" /\ op' = "none" /\ usize \in Nat /\ UNCHANGED <<dv, stack, copies>>
      /\ ae \in [Slots -> Value] /\ asize \in Nat /\ usize <= asize
  BY DEF Pop, loop, IInv, TypeOK
<1>2. Len0 = usize /\ elem0 = Elements /\ Len0' = usize' /\ elem0' = Elements'
  BY <1>1 DEF Len0, elem0, Elem0, Elements
<1>3. CASE usize < 1
  <2>1. usize' = usize /\ ae' = ae /\ out' = "nil" /\ usize = 0 /\ call' = <<"pop">>
    BY <1>1, <1>3 DEF Pop, Done
  <2>2. Elements' = Elements
    BY <2>1 DEF Elements
  <2> QED BY <1>1, <1>2, <2>1, <2>2 DEF V!TakeNone, V!Done, elem0
<1>4. CASE ~(usize < 1)
  <2>1. /\ usize' = usize - 1 /\ ae' = [ae EXCEPT ![usize - 1] = dv]
        /\ out' = ae[usize - 1] /\ call' = <<"pop">>
    BY <1>4 DEF Pop, Done, DropLast
  <2>2. Elements[usize - 1] = ae[usize - 1]
    BY <1>1, <1>4 DEF Elements
  <2>3. \A k \in 0 .. usize - 2 : ae'[k] = Elements[k]
    BY <1>1, <2>1 DEF Slots, Elements
  <2>4. Elements' = [k \in 0 .. usize - 2 |-> Elements[k]]
    BY <1>1, <2>1, <2>3 DEF Elements
  <2> QED BY <1>1, <1>2, <1>4, <2>1, <2>2, <2>4 DEF V!Pop, V!Becomes, V!Done, elem0
<1> QED BY <1>3, <1>4

-----------------------------------------------------------------------------
(* Setting an element, by array-set! or by the VM.                         *)
LEMMA SettingIsSetting ==
    ASSUME IInv, NEW i \in Index, NEW v \in Value,
           InsertIndex(i, v) \/ ArraySet(i, v)
    PROVE  V!Set(i, v) \/ V!Extend(i, v) \/ V!Refuse(i, v)
<1>1. /\ op = "none" /\ op' = "none" /\ UNCHANGED <<dv, stack, copies>>
      /\ usize \in Nat /\ asize \in Nat /\ usize <= asize /\ i \in Int
      /\ call' = <<"set", i, v>>
      /\ stack => Abs(i) < usize
  BY ArrayAssumption DEF ArrayAssumption, Done, InsertIndex, ArraySet, loop, IInv, TypeOK
<1>2. Abs(i) \in Int
  BY <1>1 DEF Abs
<1>3. /\ Len0 = usize /\ elem0 = Elements /\ Len0' = usize' /\ elem0' = Elements'
      /\ V!At(i) = Abs(i)
  BY <1>1 DEF Len0, elem0, Elem0, Elements, V!At, Abs
<1>4. CASE Abs(i) \in 0 .. asize /\ Store(Abs(i), v) /\ out' = "unspec"
  <2> DEFINE j == Abs(i)
  <2>1. j \in 0 .. asize /\ Store(j, v) /\ (stack => j <= usize)
    BY <1>1, <1>2, <1>4
  <2>2. V!At(i) = j
    BY <1>3
  <2> HIDE DEF j
  <2>3. V!Put(j, v)
    BY <1>1, <2>1, StoreIsPut
  <2>4. j \in 0 .. usize \/ j > usize
    BY <1>1, <2>1
  <2> QED BY <1>1, <1>3, <1>4, <2>2, <2>3, <2>4 DEF V!Set, V!Extend, V!Done
<1>5. CASE Abs(i) \notin 0 .. usize /\ out' = "bounds" /\ UNCHANGED <<asize, usize, ae>>
  <2>1. Abs(i) < 0 \/ Abs(i) > usize
    BY <1>1, <1>2, <1>5
  <2>2. Elements' = Elements
    BY <1>5 DEF Elements
  <2> QED BY <1>1, <1>3, <1>5, <2>1, <2>2 DEF V!Refuse, V!Done, elem0
<1> QED BY <1>1, <1>2, <1>4, <1>5 DEF InsertIndex, ArraySet, Done

-----------------------------------------------------------------------------
(* Every step of an array is a step of its vector, or is not seen.         *)
LEMMA NextRefines ==
    ASSUME IInv, [Next]_vars
    PROVE  [V!Next]_(V!vars)
<1> DEFINE Step == V!Next \/ Same
<1>0. SUFFICES Step
  BY DEF Same, V!vars, elem0
<1> USE ArrayAssumption DEF ArrayAssumption, loop, Done, V!Done
<1>1. ASSUME NEW i \in Index, ArrayRef(i) PROVE Step
  <2>1. /\ Len0 = usize /\ elem0 = Elements /\ Len0' = usize /\ elem0' = Elements
        /\ V!At(i) = Abs(i)
    BY <1>1 DEF ArrayRef, Len0, elem0, Elem0, Elements, V!At, Abs
  <2>2. out' = IF Abs(i) \in 0 .. usize - 1 THEN Elements[Abs(i)] ELSE "bounds"
    BY <1>1 DEF ArrayRef, Elements
  <2>3. V!Ref(i)
    BY <1>1, <2>1, <2>2 DEF ArrayRef, V!Ref, elem0
  <2> QED BY <2>3 DEF V!Next
<1>2. ASSUME NEW i \in Index, NEW v \in Value, InsertIndex(i, v) \/ ArraySet(i, v)
      PROVE  Step
  BY <1>2, SettingIsSetting DEF V!Next
<1>3. ASSUME NEW v \in Value, Push(v) PROVE Step
  <2>1. /\ op = "none" /\ op' = "none" /\ UNCHANGED <<dv, stack, copies>> /\ out' = "unspec"
        /\ call' = <<"push", v>> /\ usize \in 0 .. asize /\ Store(usize, v) /\ usize <= usize
        /\ usize \in Nat
    BY <1>3 DEF Push, IInv, TypeOK
  <2>2. V!Put(usize, v)
    BY <2>1, StoreIsPut
  <2>3. /\ Len0 = usize /\ Len0' = usize' /\ usize' = usize + 1
        /\ elem0 = Elements /\ elem0' = Elements'
    BY <2>1 DEF Len0, elem0, Elem0, Elements, Store
  <2>4. V!Push(v)
    BY <2>1, <2>2, <2>3 DEF V!Push
  <2> QED BY <2>4 DEF V!Next
<1>4. ASSUME NEW v \in Value, Unshift(v) PROVE Step
  <2>1. /\ op = "none" /\ op' = "unshift" /\ at' = usize
        /\ usize \in Nat /\ UNCHANGED <<usize, ae, dv, stack, call, out, copies>>
    BY <1>4 DEF Unshift, IInv, TypeOK
  <2>2. Len0 = usize /\ Len0' = usize
    BY <2>1 DEF Len0
  <2>3. \A k \in 0 .. usize - 1 : Elem0(k)' = Elem0(k)
    BY <2>1 DEF Elem0
  <2> QED BY <2>1, <2>2, <2>3 DEF Same, elem0
<1>5. ASSUME NEW v \in Value, ArrayFill(v) PROVE Step
  <2>1. /\ op = "none" /\ op' = "none" /\ usize \in Nat /\ asize \in Nat
        /\ usize <= asize /\ UNCHANGED <<usize, dv, stack, copies>> /\ out' = "unspec"
        /\ call' = <<"fill", v>>
        /\ ae' = [k \in Slots |-> IF k < usize THEN v ELSE ae[k]]
    BY <1>5 DEF ArrayFill, loop, IInv, TypeOK
  <2>2. Len0 = usize /\ Len0' = usize /\ elem0' = Elements'
    BY <2>1 DEF Len0, elem0, Elem0, Elements
  <2>3. \A k \in 0 .. usize - 1 : ae'[k] = v
    BY <2>1 DEF Slots
  <2>4. Elements' = [k \in 0 .. usize - 1 |-> v]
    BY <2>1, <2>3 DEF Elements
  <2>5. V!Fill(v)
    BY <2>1, <2>2, <2>4 DEF V!Fill, V!Becomes, elem0
  <2> QED BY <2>5 DEF V!Next
<1>6. ASSUME NEW n \in Size, CopyArray(n) PROVE Step
  <2>1. /\ op = "none" /\ op' = "none" /\ usize \in Nat /\ n \in Nat
        /\ UNCHANGED <<usize, dv, stack, copies>> /\ out' = "unspec"
        /\ call' = <<"copy">>
        /\ asize' = (IF usize + n = 0 THEN 1 ELSE usize + n)
        /\ ae' = [k \in 0 .. asize' - 1 |-> IF k < usize THEN ae[k] ELSE dv]
    BY <1>6, ArrayAssumption DEF ArrayAssumption, CopyArray, loop, IInv, TypeOK
  <2>2. Len0 = usize /\ Len0' = usize /\ elem0 = Elements /\ elem0' = Elements'
    BY <2>1 DEF Len0, elem0, Elem0, Elements
  <2>3. \A k \in 0 .. usize - 1 : ae'[k] = ae[k]
    BY <2>1
  <2>4. Elements' = Elements
    BY <2>1, <2>3 DEF Elements
  <2>5. V!Copy
    BY <2>1, <2>2, <2>4 DEF V!Copy, elem0
  <2> QED BY <2>5 DEF V!Next
<1>7. ASSUME NEW n \in Size, Truncate(n) PROVE Step
  <2>1. /\ op = "none" /\ op' = "none" /\ usize \in Nat /\ n \in Nat /\ n <= usize
        /\ usize' = n /\ UNCHANGED <<ae, dv, stack, copies>>
        /\ call' = <<"truncate", n>> /\ out' = "unspec"
    BY <1>7, ArrayAssumption DEF ArrayAssumption, Truncate, loop, IInv, TypeOK
  <2>2. Len0 = usize /\ Len0' = n /\ elem0 = Elements /\ elem0' = Elements'
    BY <2>1 DEF Len0, elem0, Elem0, Elements
  <2>3. Elements' = [k \in 0 .. n - 1 |-> Elements[k]]
    BY <2>1 DEF Elements
  <2>4. V!Truncate(n)
    BY <1>7, <2>1, <2>2, <2>3 DEF V!Truncate, V!Becomes, elem0
  <2> QED BY <2>4 DEF V!Next
<1>8. ASSUME NEW n \in Size \ {0}, NEW vs \in [1 .. n -> Value], PushN(vs) PROVE Step
  <2>1. op = "none" /\ op' = "push" /\ UNCHANGED <<usize, ae, dv, stack, call, out, copies>>
    BY <1>8 DEF PushN
  <2> QED BY <2>1 DEF Same, Len0, elem0, Elem0
<1>9. CASE Pop
  BY <1>9, PopIsPop DEF V!Next
<1>10. CASE Shift
  <2>1. /\ op = "none" /\ usize \in Nat /\ UNCHANGED <<usize, ae, dv, stack, copies>>
    BY <1>10 DEF Shift, IInv, TypeOK
  <2>2. CASE usize < 1
    <3>1. op' = op /\ out' = "nil" /\ call' = <<"shift">>
      BY <1>10, <2>2 DEF Shift, loop
    <3>2. /\ Len0 = usize /\ Len0' = usize /\ elem0 = Elements /\ elem0' = Elements
      BY <2>1, <3>1 DEF Len0, elem0, Elem0, Elements
    <3>3. V!TakeNone(<<"shift">>)
      BY <2>1, <2>2, <3>1, <3>2 DEF V!TakeNone, elem0
    <3> QED BY <3>3 DEF V!Next
  <2>3. CASE ~(usize < 1)
    <3>1. op' = "shift" /\ at' = 0 /\ arg' = <<ae[0]>> /\ UNCHANGED <<call, out>>
      BY <1>10, <2>3 DEF Shift
    <3>2. Len0 = usize /\ Len0' = usize
      BY <2>1, <3>1 DEF Len0
    <3>3. \A k \in 0 .. usize - 1 : Elem0(k)' = Elem0(k)
      BY <2>1, <3>1 DEF Elem0
    <3> QED BY <2>1, <3>1, <3>2, <3>3 DEF Same, elem0
  <2> QED BY <2>2, <2>3
<1>11. CASE PushGrow
  BY <1>11, PushGrowSame
<1>12. CASE PushStore
  <2>1. /\ Len(arg) \in Size \ {0} /\ arg \in [1 .. Len(arg) -> Value]
    BY <1>12 DEF PushStore, IInv, TypeOK, LoopOK
  <2>2. V!PushN(Len(arg), arg)
    BY <1>12, PushStoreIsPushN
  <2> QED BY <2>1, <2>2 DEF V!Next
<1>13. CASE ShiftOne
  BY <1>13, ShiftOneSame
<1>14. CASE ShiftEnds
  BY <1>14, ShiftEndsIsShift DEF V!Next
<1>15. CASE UnshiftOne
  BY <1>15, UnshiftOneSame
<1>16. CASE UnshiftEnds
  <2>1. arg \in Seq(Value) /\ Len(arg) = 1
    BY <1>16 DEF UnshiftEnds, IInv, TypeOK, LoopOK
  <2>2. arg[1] \in Value
    BY <2>1, FirstOfOne
  <2>3. V!Unshift(arg[1])
    BY <1>16, UnshiftEndsIsUnshift
  <2> QED BY <2>2, <2>3 DEF V!Next
<1>17. CASE Continuation
  <2>1. /\ op = "none" /\ op' = "none" /\ UNCHANGED <<usize, ae, dv, stack>>
        /\ call' = <<"save">> /\ out' = "unspec"
        /\ copies' = copies \cup {[len |-> usize, elem |-> Elements]}
    BY <1>17 DEF Continuation, loop
  <2>2. /\ Len0 = usize /\ Len0' = usize /\ elem0 = Elements /\ elem0' = Elements
    BY <2>1 DEF Len0, elem0, Elem0, Elements
  <2>3. V!Save
    BY <2>1, <2>2 DEF V!Save, elem0
  <2> QED BY <2>3 DEF V!Next
<1>18. ASSUME NEW c \in copies, Restore(c) PROVE Step
  <2>1. /\ c.len <= asize /\ c.len \in Nat /\ asize \in Nat
        /\ c.elem = [k \in 0 .. c.len - 1 |-> c.elem[k]]
    BY DEF IInv, TypeOK, CopiesFit, IsCopy
  <2>2. /\ op = "none" /\ op' = "none" /\ usize' = c.len
        /\ ae' = [k \in Slots |-> IF k < c.len THEN c.elem[k] ELSE ae[k]]
        /\ call' = <<"restore", c>> /\ out' = "unspec" /\ UNCHANGED <<dv, stack, copies>>
    BY <1>18, <2>1 DEF Restore
  <2>3. Len0' = c.len /\ elem0' = Elements'
    BY <2>2 DEF Len0, elem0, Elem0, Elements
  <2>4. \A k \in 0 .. c.len - 1 : ae'[k] = c.elem[k]
    BY <2>1, <2>2 DEF Slots
  <2>5. Elements' = [k \in 0 .. c.len - 1 |-> c.elem[k]]
    BY <2>2, <2>4 DEF Elements
  <2>6. V!Restore(c)
    BY <1>18, <2>1, <2>2, <2>3, <2>5 DEF V!Restore, V!Becomes, elem0
  <2> QED BY <2>6 DEF V!Next
<1>19. CASE UNCHANGED vars
  BY <1>19 DEF vars, Same, Len0, elem0, Elem0
<1> QED
  BY <1>1, <1>2, <1>3, <1>4, <1>5, <1>6, <1>7, <1>8, <1>9, <1>10, <1>11, <1>12,
     <1>13, <1>14, <1>15, <1>16, <1>17, <1>18, <1>19 DEF Next

-----------------------------------------------------------------------------
(* make-array and an empty stack are vectors to begin with.                *)
LEMMA InitRefines ==
    ASSUME Init
    PROVE  V!Init
<1>1. PICK n \in Size, d \in Value :
         /\ asize = IF n = 0 THEN 1 ELSE n
         /\ usize \in IF stack THEN {0} ELSE {0, n}
         /\ ae = [k \in Slots |-> d]
         /\ dv = d
  BY DEF Init
<1>2. usize \in Size /\ usize \in Nat /\ usize <= asize /\ asize \in Nat
  BY <1>1, ArrayAssumption DEF ArrayAssumption
<1>3. Len0 = usize /\ elem0 = Elements
  BY Settled DEF Init
<1>4. \A k \in 0 .. usize - 1 : ae[k] = d
  BY <1>1, <1>2 DEF Slots
<1>5. Elements = [k \in 0 .. usize - 1 |-> d]
  BY <1>4 DEF Elements
<1> QED BY <1>1, <1>2, <1>3, <1>5 DEF Init, V!Init, elem0

(* An array implements a vector, for every set of values, size, growth     *)
(* step and stack: no move loses, doubles or reorders elements, growing    *)
(* keeps them, and a stack that is put back is the one that was saved.     *)
THEOREM Refines == Spec => IsVector
<1>1. Init => V!Init
  BY InitRefines
<1>2. IInv /\ [Next]_vars => [V!Next]_(V!vars)
  BY NextRefines
<1> QED BY <1>1, <1>2, IInvInvariant, PTL DEF Spec, IsVector, V!Spec
=============================================================================
