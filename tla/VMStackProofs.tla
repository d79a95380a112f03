---------------------------- MODULE VMStackProofs ----------------------------
(***************************************************************************)
(* Proofs about VMStack.  The invariant says what the stack of the VM and  *)
(* the records C keeps of it have to do with each other: every hole of a   *)
(* prompt has the prompt's address on the stack and every such address its *)
(* hole; so have the C runs and their FINISH addresses; the code at an     *)
(* address needs no prompt and no run that is not below it; and every      *)
(* continuation that may be restored is of a lower part of the stack as it *)
(* is now, with the holes and the runs that are below.  So restoring one   *)
(* cuts the stack, the holes and the runs at one place.  The frames        *)
(* themselves only ever change at the top: Cut, Drop and Back take frames  *)
(* off a sound stack, Grow puts one on it.                                 *)
(***************************************************************************)
EXTENDS VMStackLemmas

(***************************************************************************)
(* The inductive invariant.                                                *)
(***************************************************************************)

TOP == << <<"ABORT-TOP">> >>
Kinds == {"trap", "return", "state", "all-state", "dynamic", "abort", "value"}

(* The instructions that leave their code for another.                     *)
Ends == {"RETURN", "TRAP-RETURN", "NON-CONT-ERR", "EXIT", "REPL", "INVOKE-C-DONE"}

(* Trap expressions name one condition type each.                          *)
Singles == \A form \in TrapForms : Len(form) = 1

(* Code of an activation: it ends by leaving, and has none of the          *)
(* instructions that stand for a prompt's end, a run's end and the         *)
(* evaluator.  The trap instructions have handlers of the program's.       *)
InstructionOK(ins) ==
    /\ ins[1] \notin {"ABORT-TOP", "FINISH", "EVALUATE", "PUSH-ABORT"}
    /\ ins[1] = "PUSH-TRAP" => ins[3] \in Handlers /\ (Singles => ins[4] = 0)
    /\ ins[1] = "PROMPT" => ins[2] \in TrapForms /\ ins[3] \in Handlers
Plain(c) ==
    /\ IsSeq(c) /\ c # << >>
    /\ \A i \in 1 .. Len(c) : InstructionOK(c[i])
    /\ c[Len(c)][1] \in Ends

Has(c, ops) == \E i \in 1 .. Len(c) : c[i][1] \in ops

(* Where a hole's prompt has its address.                                  *)
HolePos(hs, j) == Len(hs[j].stack) + 1
PromptBelow(hs, i) == hs # << >> /\ HolePos(hs, 1) < i
RunBelow(rs, i) == rs # << >> /\ rs[1].ss0 + 1 < i

(* Code that may stand at position i: trap handlers and their trap-return  *)
(* have a prompt below, the code of a loaded expression its run.           *)
Fits(c, hs, rs, i) ==
    /\ Plain(c)
    /\ Has(c, {"TRAP-RETURN", "PUSH-TRAP"}) => PromptBelow(hs, i)
    /\ Has(c, {"POP-ABORT"}) => RunBelow(rs, i)
Stands(c, hs, rs, i) == c = TOP \/ c = FIN \/ Fits(c, hs, rs, i)

(* The code at position p: that of a return frame, or the one running,     *)
(* above the stack.                                                        *)
CodeAt(s, c, p) ==
    IF p = Len(s) + 1 THEN c
    ELSE IF s[p].m = "return" THEN s[p].code ELSE << >>

(* The evaluator runs above the three frames load pushed.                  *)
Evaluating(s, c, hs, rs) ==
    /\ IsSeq(c) /\ c # << >> /\ c[1][1] = "EVALUATE"
    /\ Fits(Tail(c), hs, rs, Len(s) + 1)
    /\ Len(s) >= Len(Base) + 3
    /\ \A p \in Len(s) - 2 .. Len(s) : CodeAt(s, c, p) \notin {TOP, FIN}

(* The code of an expression that is loaded, at its start.                 *)
Loaded == << <<"PUSH-ABORT">>, <<"EXPR", 0>>, <<"POP-ABORT">>, <<"RETURN">> >>
Starting(c, rs, i) == c = Loaded /\ RunBelow(rs, i)

(* m of the holes, and r of the runs, are below position i.                *)
HolesBelow(hs, i, m) ==
    m \in 0 .. Len(hs) /\ \A j \in 1 .. Len(hs) : j <= m <=> HolePos(hs, j) < i
RunsBelow(rs, i, m) ==
    m \in 0 .. Len(rs) /\ \A r \in 1 .. Len(rs) : r <= m <=> rs[r].ss0 + 1 < i

(* A continuation made at position i: the stack below, the runs and the    *)
(* holes that were there.                                                  *)
ContinuationOK(k, s, hs, rs, i) ==
    /\ k.stack = SubSeq(s, 1, i - 1)
    /\ Fits(k.code, hs, rs, i)
    /\ k.frame \in Nat
    /\ RunsBelow(rs, i, k.run)
    /\ \E m \in 0 .. Len(hs) : HolesBelow(hs, i, m) /\ k.holes = SubSeq(hs, 1, m)

TrapOK(s, hs, i) ==
    s[i].m = "trap" =>
        /\ i > 1 => s[i].next \in 1 .. i - 1 /\ s[s[i].next].m = "trap"
        /\ s[i].h \in Handlers => PromptBelow(hs, i)
ReturnOK(s, hs, rs, i) ==
    s[i].m = "return" => Stands(s[i].code, hs, rs, i)
SavedOK(s, i) ==
    /\ s[i].m \in {"state", "all-state"} => s[i].frame \in Nat
    /\ s[i].m = "all-state" => s[i].regs \in Registers
ChainOK(s, i) ==
    s[i].m \in {"dynamic", "abort"} =>
        s[i].next = FindMarker(SubSeq(s, 1, i - 1), s[i].m)
AbortOK(s, hs, rs, i) ==
    s[i].m = "abort" /\ i > Len(Base) => ContinuationOK(s[i].k, s, hs, rs, i)

FrameOK(s, hs, rs, i) ==
    /\ s[i].m \in Kinds
    /\ TrapOK(s, hs, i) /\ ReturnOK(s, hs, rs, i) /\ SavedOK(s, i)
    /\ ChainOK(s, i) /\ AbortOK(s, hs, rs, i)

(* Each hole has its prompt's address on the stack, and each address its   *)
(* hole; in the same order.                                                *)
HoleOK(s, c, hs, rs, j) ==
    /\ IsSeq(hs[j].stack)
    /\ HolePos(hs, j) \in Len(Base) + 1 .. Len(s) + 1
    /\ CodeAt(s, c, HolePos(hs, j)) = TOP
    /\ hs[j].code = << <<"RETURN">> >>
    /\ hs[j].holes = SubSeq(hs, 1, j - 1)
    /\ \A l \in 1 .. Len(hs) : j <= l <=> HolePos(hs, j) <= HolePos(hs, l)
    /\ ContinuationOK(hs[j], s, hs, rs, HolePos(hs, j))
HolesOK(s, c, hs, rs) ==
    /\ \A j \in 1 .. Len(hs) : HoleOK(s, c, hs, rs, j)
    /\ \A p \in 1 .. Len(s) + 1 :
          CodeAt(s, c, p) = TOP => \E j \in 1 .. Len(hs) : HolePos(hs, j) = p

(* So has each run of the VM.                                              *)
RunOK(s, c, hs, rs, r) ==
    /\ rs[r].ss0 \in Len(Base) .. Len(s)
    /\ CodeAt(s, c, rs[r].ss0 + 1) = FIN
    /\ rs[r].pause = 0
    /\ Fits(rs[r].after, hs, rs, rs[r].ss0 + 1)
    /\ \A q \in 1 .. Len(rs) : r <= q <=> rs[r].ss0 <= rs[q].ss0
RunsOK(s, c, hs, rs) ==
    /\ \A r \in 1 .. Len(rs) : RunOK(s, c, hs, rs, r)
    /\ \A p \in 1 .. Len(s) + 1 :
          CodeAt(s, c, p) = FIN => \E r \in 1 .. Len(rs) : rs[r].ss0 + 1 = p
    /\ \A p \in 1 .. Len(s) :
          s[p].m = "return" /\ s[p].run > 0 =>
              s[p].run \in 1 .. Len(rs) /\ p = rs[s[p].run].ss0 + 1

Sound(s, c, hs, rs) ==
    /\ IsSeq(s) /\ IsSeq(hs) /\ IsSeq(rs)
    /\ Len(s) >= Len(Base) /\ \A i \in 1 .. Len(Base) : s[i] = Base[i]
    /\ \A i \in 1 .. Len(s) : FrameOK(s, hs, rs, i)
    /\ \/ Stands(c, hs, rs, Len(s) + 1)
       \/ Starting(c, rs, Len(s) + 1)
       \/ Evaluating(s, c, hs, rs)
    /\ HolesOK(s, c, hs, rs)
    /\ RunsOK(s, c, hs, rs)

(* main's continuation has been restored.                                  *)
Leaving(s, c, hs, rs) ==
    s = << >> /\ c = << <<"EXIT">> >> /\ hs = << >> /\ rs = << >>

IInv ==
    /\ TypeOK
    /\ mode = "run" =>
          /\ Sound(stack, code, holes, runs) \/ Leaving(stack, code, holes, runs)
          /\ PauseBalanced

-----------------------------------------------------------------------------
(* Code.                                                                   *)

(* Code of an activation is neither a prompt's end nor a run's.            *)
LEMMA PlainIsNeither ==
    ASSUME NEW c, Plain(c)
    PROVE  /\ c # TOP /\ c # FIN
           /\ c[1][1] \notin {"ABORT-TOP", "FINISH", "EVALUATE", "PUSH-ABORT"}
<1>1. Len(c) \in Nat /\ Len(c) # 0
  <2>1. PICK S : c \in Seq(S)
    BY DEF Plain, IsSeq
  <2> QED BY <2>1 DEF Plain
<1>2. c[1][1] \notin {"ABORT-TOP", "FINISH", "EVALUATE", "PUSH-ABORT"}
  BY <1>1 DEF Plain, InstructionOK
<1>3. TOP[1][1] = "ABORT-TOP" /\ FIN[1][1] = "FINISH"
  BY DEF TOP, FIN
<1> QED BY <1>2, <1>3

(* The rest of an activation's code after an instruction that does not     *)
(* leave it.                                                               *)
LEMMA RestFits ==
    ASSUME NEW c, NEW hs, NEW rs, NEW i, Fits(c, hs, rs, i), c[1][1] \notin Ends
    PROVE  Fits(Tail(c), hs, rs, i)
<1>1. IsSeq(c) /\ c # << >> /\ Plain(c)
  BY DEF Fits, Plain
<1>2. Len(c) \in Nat /\ Len(c) # 0
  <2>1. PICK S : c \in Seq(S)
    BY <1>1 DEF IsSeq
  <2> QED BY <1>1, <2>1
<1>3. c[Len(c)][1] \in Ends
  BY DEF Fits, Plain
<1>4. Len(c) # 1
  BY <1>3
<1> DEFINE t == Tail(c)
<1>5. IsSeq(t) /\ Len(t) = Len(c) - 1 /\ \A j \in 1 .. Len(c) - 1 : t[j] = c[j + 1]
  BY <1>1, SeqTail
<1> HIDE DEF t
<1>6. t # << >>
  BY <1>2, <1>4, <1>5, SeqShort
<1>7. \A j \in 1 .. Len(t) : t[j] = c[j + 1] /\ j + 1 \in 1 .. Len(c)
  BY <1>2, <1>5
<1>8. t[Len(t)] = c[Len(c)]
  <2>1. Len(t) \in 1 .. Len(c) - 1 /\ Len(t) + 1 = Len(c)
    BY <1>2, <1>4, <1>5
  <2> QED BY <1>5, <2>1
<1>9. Plain(t)
  BY <1>1, <1>3, <1>5, <1>6, <1>7, <1>8 DEF Plain
<1>10. \A ops : Has(t, ops) => Has(c, ops)
  BY <1>7 DEF Has
<1> QED BY <1>9, <1>10 DEF Fits, t

(* Code put before it, of instructions that need nothing below.            *)
Easy(ins) ==
    InstructionOK(ins) /\ ins[1] \notin {"TRAP-RETURN", "PUSH-TRAP", "POP-ABORT"}
Harmless(t) == IsSeq(t) /\ \A j \in 1 .. Len(t) : Easy(t[j])

(* Instructions that need nothing below may come before code that fits.    *)
LEMMA MoreFits ==
    ASSUME NEW c, NEW hs, NEW rs, NEW i, Fits(c, hs, rs, i), NEW t, Harmless(t)
    PROVE  Fits(t \o c, hs, rs, i)
<1>1. IsSeq(c) /\ c # << >> /\ Plain(c) /\ IsSeq(t)
  BY DEF Fits, Plain, Harmless
<1>2. Len(c) \in Nat /\ Len(c) # 0 /\ Len(t) \in Nat
  <2>1. PICK S : c \in Seq(S)
    BY <1>1 DEF IsSeq
  <2> QED BY <1>1, <2>1, SeqLen
<1> DEFINE u == t \o c
<1>3. /\ IsSeq(u) /\ Len(u) = Len(t) + Len(c)
      /\ \A j \in 1 .. Len(t) : u[j] = t[j]
      /\ \A j \in 1 .. Len(c) : u[Len(t) + j] = c[j]
      /\ \A j \in 1 .. Len(t) + Len(c) : j <= Len(t) \/ \E l \in 1 .. Len(c) : j = Len(t) + l
  BY <1>1, SeqConcat
<1> HIDE DEF u
<1>4. u # << >>
  BY <1>2, <1>3, SeqShort
<1>5. \A j \in 1 .. Len(u) : \/ j \in 1 .. Len(t) /\ u[j] = t[j]
                             \/ \E l \in 1 .. Len(c) : u[j] = c[l]
  <2> SUFFICES ASSUME NEW j \in 1 .. Len(u), j \notin 1 .. Len(t)
               PROVE  \E l \in 1 .. Len(c) : u[j] = c[l]
    BY <1>3
  <2>1. j \in 1 .. Len(t) + Len(c) /\ ~(j <= Len(t))
    BY <1>2, <1>3
  <2>2. PICK l \in 1 .. Len(c) : j = Len(t) + l
    BY <1>3, <2>1
  <2> QED BY <1>3, <2>2
<1>6. u[Len(u)] = c[Len(c)]
  BY <1>2, <1>3
<1>7. Plain(u)
  BY <1>1, <1>3, <1>4, <1>5, <1>6 DEF Plain, Harmless, Easy
<1>8. /\ Has(u, {"TRAP-RETURN", "PUSH-TRAP"}) => Has(c, {"TRAP-RETURN", "PUSH-TRAP"})
      /\ Has(u, {"POP-ABORT"}) => Has(c, {"POP-ABORT"})
  BY <1>5 DEF Has, Harmless, Easy
<1> QED BY <1>7, <1>8 DEF Fits, u

(* Codes of one, two or three instructions.                                *)
LEMMA HarmlessShort ==
    /\ Harmless(<< >>)
    /\ \A x : Easy(x)
                  => Harmless(<<x>>)
    /\ \A x, y, z : Easy(x) /\ Easy(y) /\ Easy(z) => Harmless(<<x, y, z>>)
<1>1. \A j \in 1 .. 3 : j = 1 \/ j = 2 \/ j = 3
  OBVIOUS
<1>2. \A j \in 1 .. 1 : j = 1
  OBVIOUS
<1>3. \A j \in 1 .. 0 : FALSE
  OBVIOUS
<1>4. Harmless(<< >>)
  BY <1>3, SeqShort DEF Harmless
<1>5. ASSUME NEW x, Easy(x)
      PROVE  Harmless(<<x>>)
  <2> DEFINE t == <<x>>
  <2>1. IsSeq(t) /\ Len(t) = 1 /\ t[1] = x
    BY SeqShort
  <2> HIDE DEF t
  <2>2. Harmless(t)
    BY <1>2, <1>5, <2>1 DEF Harmless
  <2> QED BY <2>2 DEF t
<1>6. ASSUME NEW x, Easy(x),
             NEW y, Easy(y),
             NEW z, Easy(z)
      PROVE  Harmless(<<x, y, z>>)
  <2> DEFINE t == <<x, y, z>>
  <2>1. IsSeq(t) /\ Len(t) = 3 /\ t[1] = x /\ t[2] = y /\ t[3] = z
    BY SeqShort
  <2> HIDE DEF t
  <2>2. Harmless(t)
    BY <1>1, <1>6, <2>1 DEF Harmless
  <2> QED BY <2>2 DEF t
<1> QED BY <1>4, <1>5, <1>6

(* One instruction that leaves.                                            *)
LEMMA LeavesFits ==
    ASSUME NEW hs, NEW rs, NEW i, NEW ins, InstructionOK(ins), ins[1] \in Ends,
           ins[1] = "TRAP-RETURN" => PromptBelow(hs, i)
    PROVE  Fits(<<ins>>, hs, rs, i)
<1> DEFINE c == <<ins>>
<1>1. IsSeq(c) /\ Len(c) = 1 /\ c[1] = ins
  BY SeqShort
<1> HIDE DEF c
<1>2. c # << >>
  BY <1>1, SeqShort
<1>3. \A j \in 1 .. Len(c) : c[j] = ins
  <2>1. \A j \in 1 .. 1 : j = 1
    OBVIOUS
  <2> QED BY <1>1, <2>1
<1>4. Plain(c)
  BY <1>1, <1>2, <1>3 DEF Plain
<1>5. Has(c, {"TRAP-RETURN", "PUSH-TRAP"}) => ins[1] = "TRAP-RETURN"
  BY <1>3 DEF Has, Ends
<1>6. ~Has(c, {"POP-ABORT"})
  BY <1>3 DEF Has, Ends
<1> QED BY <1>4, <1>5, <1>6 DEF Fits, c

(* An expression, or a primitive, and an instruction that leaves.          *)
LEMMA TwoFit ==
    ASSUME NEW hs, NEW rs, NEW i, NEW x, NEW ins,
           Easy(x),
           InstructionOK(ins), ins[1] \in Ends,
           ins[1] = "TRAP-RETURN" => PromptBelow(hs, i)
    PROVE  Fits(<<x, ins>>, hs, rs, i)
<1>1. Fits(<<ins>>, hs, rs, i)
  BY LeavesFits
<1>2. Harmless(<<x>>)
  BY HarmlessShort
<1>3. <<x>> \o <<ins>> = <<x, ins>>
  <2>1. IsSeq(<<x>>) /\ <<x>> \o <<ins>> = Append(<<x>>, ins)
    BY SeqShort, SeqAppends
  <2>2. /\ IsSeq(Append(<<x>>, ins)) /\ Len(Append(<<x>>, ins)) = 2
        /\ Append(<<x>>, ins)[1] = x /\ Append(<<x>>, ins)[2] = ins
    BY <2>1, SeqShort, SeqAppend
  <2>3. \A j \in 1 .. 2 : j = 1 \/ j = 2
    OBVIOUS
  <2>4. /\ IsSeq(<<x, ins>>) /\ Len(<<x, ins>>) = 2
        /\ <<x, ins>>[1] = x /\ <<x, ins>>[2] = ins
    BY SeqShort
  <2>5. Append(<<x>>, ins) = <<x, ins>>
    BY <2>2, <2>3, <2>4, SeqSame
  <2> QED BY <2>1, <2>5
<1> QED BY <1>1, <1>2, <1>3, MoreFits

(* Code that stands on no less.                                            *)
LEMMA FitsThere ==
    ASSUME NEW c, NEW hs, NEW rs, NEW i, NEW hs2, NEW rs2, NEW i2, Fits(c, hs, rs, i),
           PromptBelow(hs, i) => PromptBelow(hs2, i2),
           RunBelow(rs, i) => RunBelow(rs2, i2)
    PROVE  Fits(c, hs2, rs2, i2)
BY DEF Fits

-----------------------------------------------------------------------------
(* What is below a position.                                               *)

SameHoles(hs, hs2, i) ==
    \E m \in Nat : /\ HolesBelow(hs, i, m) /\ HolesBelow(hs2, i, m)
                   /\ SubSeq(hs2, 1, m) = SubSeq(hs, 1, m)
SameRuns(rs, rs2, i) ==
    \E m \in Nat : /\ RunsBelow(rs, i, m) /\ RunsBelow(rs2, i, m)
                   /\ SubSeq(rs2, 1, m) = SubSeq(rs, 1, m)

(* How many are below is unambiguous.                                      *)
LEMMA BelowUnique ==
    /\ \A hs, i, m, n : IsSeq(hs) /\ HolesBelow(hs, i, m) /\ HolesBelow(hs, i, n) => m = n
    /\ \A rs, i, m, n : IsSeq(rs) /\ RunsBelow(rs, i, m) /\ RunsBelow(rs, i, n) => m = n
<1>1. ASSUME NEW N \in Nat, NEW m \in 0 .. N, NEW n \in 0 .. N,
             \A j \in 1 .. N : j <= m <=> j <= n
      PROVE  m = n
  <2>1. CASE m < n
    <3>1. n \in 1 .. N /\ ~(n <= m)
      BY <2>1
    <3> QED BY <1>1, <3>1
  <2>2. CASE n < m
    <3>1. m \in 1 .. N /\ ~(m <= n)
      BY <2>2
    <3> QED BY <1>1, <3>1
  <2> QED BY <2>1, <2>2
<1>2. ASSUME NEW hs, NEW i, NEW m, NEW n, IsSeq(hs), HolesBelow(hs, i, m), HolesBelow(hs, i, n)
      PROVE  m = n
  <2>1. Len(hs) \in Nat
    BY <1>2, SeqLen
  <2>2. m \in 0 .. Len(hs) /\ n \in 0 .. Len(hs) /\ \A j \in 1 .. Len(hs) : j <= m <=> j <= n
    BY <1>2 DEF HolesBelow
  <2> QED BY <1>1, <2>1, <2>2
<1>3. ASSUME NEW rs, NEW i, NEW m, NEW n, IsSeq(rs), RunsBelow(rs, i, m), RunsBelow(rs, i, n)
      PROVE  m = n
  <2>1. Len(rs) \in Nat
    BY <1>3, SeqLen
  <2>2. m \in 0 .. Len(rs) /\ n \in 0 .. Len(rs) /\ \A j \in 1 .. Len(rs) : j <= m <=> j <= n
    BY <1>3 DEF RunsBelow
  <2> QED BY <1>1, <2>1, <2>2
<1> QED BY <1>2, <1>3, Zenon

(* A number of them is below any position, since they are in order.        *)
LEMMA HolesSplit ==
    ASSUME NEW hs, IsSeq(hs), NEW i \in Int,
           \A j \in 1 .. Len(hs) : HolePos(hs, j) \in Int,
           \A j, l \in 1 .. Len(hs) : j <= l <=> HolePos(hs, j) <= HolePos(hs, l)
    PROVE  \E m \in 0 .. Len(hs) : HolesBelow(hs, i, m)
<1>1. Len(hs) \in Nat
  BY SeqLen
<1> DEFINE T == {0} \cup {j \in 1 .. Len(hs) : HolePos(hs, j) < i}
           m == Max(T)
<1>2. T \in SUBSET (0 .. Len(hs)) /\ T # {}
  BY <1>1
<1>3. \A j \in 1 .. Len(hs) : j \in T <=> HolePos(hs, j) < i
  OBVIOUS
<1> HIDE DEF T
<1>4. m \in T /\ \A j \in T : j <= m
  BY <1>1, <1>2, Greatest
<1> HIDE DEF m
<1>5. ASSUME NEW j \in 1 .. Len(hs), j <= m PROVE HolePos(hs, j) < i
  <2>1. m \in 1 .. Len(hs)
    BY <1>1, <1>2, <1>4, <1>5
  <2>2. HolePos(hs, m) < i /\ HolePos(hs, j) <= HolePos(hs, m)
    BY <1>3, <1>4, <1>5, <2>1
  <2> QED BY <2>1, <2>2
<1>6. ASSUME NEW j \in 1 .. Len(hs), HolePos(hs, j) < i PROVE j <= m
  BY <1>3, <1>4, <1>6
<1> QED BY <1>2, <1>4, <1>5, <1>6 DEF HolesBelow

(* So it is with the runs.                                                 *)
LEMMA RunsSplit ==
    ASSUME NEW rs, IsSeq(rs), NEW i \in Int,
           \A r \in 1 .. Len(rs) : rs[r].ss0 \in Int,
           \A r, q \in 1 .. Len(rs) : r <= q <=> rs[r].ss0 <= rs[q].ss0
    PROVE  \E m \in 0 .. Len(rs) : RunsBelow(rs, i, m)
<1>1. Len(rs) \in Nat
  BY SeqLen
<1> DEFINE T == {0} \cup {r \in 1 .. Len(rs) : rs[r].ss0 + 1 < i}
           m == Max(T)
<1>2. T \in SUBSET (0 .. Len(rs)) /\ T # {}
  BY <1>1
<1>3. \A r \in 1 .. Len(rs) : r \in T <=> rs[r].ss0 + 1 < i
  OBVIOUS
<1> HIDE DEF T
<1>4. m \in T /\ \A r \in T : r <= m
  BY <1>1, <1>2, Greatest
<1> HIDE DEF m
<1>5. ASSUME NEW r \in 1 .. Len(rs), r <= m PROVE rs[r].ss0 + 1 < i
  <2>1. m \in 1 .. Len(rs)
    BY <1>1, <1>2, <1>4, <1>5
  <2>2. rs[m].ss0 + 1 < i /\ rs[r].ss0 <= rs[m].ss0
    BY <1>3, <1>4, <1>5, <2>1
  <2>3. rs[m].ss0 \in Int /\ rs[r].ss0 \in Int
    BY <2>1
  <2> QED BY <2>2, <2>3
<1>6. ASSUME NEW r \in 1 .. Len(rs), rs[r].ss0 + 1 < i PROVE r <= m
  BY <1>3, <1>4, <1>6
<1> QED BY <1>2, <1>4, <1>5, <1>6 DEF RunsBelow

(* What is below i stays the same when holes and runs above are dropped,   *)
(* or added.                                                               *)
LEMMA HolesDropped ==
    ASSUME NEW i \in Int, NEW x \in Int, i <= x, NEW m, NEW n, NEW hs, IsSeq(hs),
           \A j \in 1 .. Len(hs) : HolePos(hs, j) \in Int,
           HolesBelow(hs, i, m), HolesBelow(hs, x, n)
    PROVE  SameHoles(hs, SubSeq(hs, 1, n), i)
<1>1. Len(hs) \in Nat /\ m \in 0 .. Len(hs) /\ n \in 0 .. Len(hs)
  BY SeqLen DEF HolesBelow
<1>2. m <= n
  <2>1. CASE m = 0
    BY <1>1, <2>1
  <2>2. CASE m # 0
    <3>1. m \in 1 .. Len(hs) /\ m <= m
      BY <1>1, <2>2
    <3>2. HolePos(hs, m) < i /\ HolePos(hs, m) \in Int
      BY <3>1 DEF HolesBelow
    <3>3. HolePos(hs, m) < x
      BY <3>2
    <3> QED BY <3>1, <3>3 DEF HolesBelow
  <2> QED BY <2>1, <2>2
<1> DEFINE h == SubSeq(hs, 1, n)
<1>3. IsSeq(h) /\ Len(h) = n /\ \A j \in 1 .. n : h[j] = hs[j]
  BY <1>1, SeqCut
<1>4. SubSeq(h, 1, m) = SubSeq(hs, 1, m)
  <2>1. m \in 0 .. n
    BY <1>1, <1>2
  <2> QED BY <1>1, <2>1, SeqCutCut
<1>6. m \in Nat
  BY <1>1
<1> HIDE DEF h
<1>5. HolesBelow(h, i, m)
  BY <1>1, <1>2, <1>3 DEF HolesBelow, HolePos
<1> QED BY <1>1, <1>4, <1>5, <1>6 DEF SameHoles, h

(* The runs below i stay the same when those above x, not under i, are     *)
(* dropped.                                                                *)
LEMMA RunsDropped ==
    ASSUME NEW i \in Int, NEW x \in Int, i <= x, NEW m, NEW n, NEW rs, IsSeq(rs),
           \A r \in 1 .. Len(rs) : rs[r].ss0 \in Int,
           RunsBelow(rs, i, m), RunsBelow(rs, x, n)
    PROVE  SameRuns(rs, SubSeq(rs, 1, n), i)
<1>1. Len(rs) \in Nat /\ m \in 0 .. Len(rs) /\ n \in 0 .. Len(rs)
  BY SeqLen DEF RunsBelow
<1>2. m <= n
  <2>1. CASE m = 0
    BY <1>1, <2>1
  <2>2. CASE m # 0
    <3>1. m \in 1 .. Len(rs) /\ m <= m
      BY <1>1, <2>2
    <3>2. rs[m].ss0 + 1 < i /\ rs[m].ss0 \in Int
      BY <3>1 DEF RunsBelow
    <3>3. rs[m].ss0 + 1 < x
      BY <3>2
    <3> QED BY <3>1, <3>3 DEF RunsBelow
  <2> QED BY <2>1, <2>2
<1> DEFINE h == SubSeq(rs, 1, n)
<1>3. IsSeq(h) /\ Len(h) = n /\ \A j \in 1 .. n : h[j] = rs[j]
  BY <1>1, SeqCut
<1>4. SubSeq(h, 1, m) = SubSeq(rs, 1, m)
  <2>1. m \in 0 .. n
    BY <1>1, <1>2
  <2> QED BY <1>1, <2>1, SeqCutCut
<1>6. m \in Nat
  BY <1>1
<1> HIDE DEF h
<1>5. RunsBelow(h, i, m)
  BY <1>1, <1>2, <1>3 DEF RunsBelow
<1> QED BY <1>1, <1>4, <1>5, <1>6 DEF SameRuns, h

(* The holes below i stay the same when one is added that is not below it. *)
LEMMA HolesAdded ==
    ASSUME NEW i \in Int, NEW m, NEW hs, IsSeq(hs), HolesBelow(hs, i, m),
           NEW k, ~(Len(k.stack) + 1 < i)
    PROVE  SameHoles(hs, hs, i) /\ SameHoles(hs, Append(hs, k), i)
<1>1. Len(hs) \in Nat /\ m \in 0 .. Len(hs)
  BY SeqLen DEF HolesBelow
<1> DEFINE h == Append(hs, k)
<1>2. /\ IsSeq(h) /\ Len(h) = Len(hs) + 1 /\ h[Len(hs) + 1] = k
      /\ \A j \in 1 .. Len(hs) : h[j] = hs[j]
      /\ SubSeq(h, 1, m) = SubSeq(hs, 1, m)
  BY <1>1, SeqAppend
<1> HIDE DEF h
<1>3. \A j \in 1 .. Len(h) : j \in 1 .. Len(hs) \/ j = Len(hs) + 1
  BY <1>1, <1>2
<1>4. \A j \in 1 .. Len(h) : j <= m <=> HolePos(h, j) < i
  <2>1. ~(Len(hs) + 1 <= m) /\ ~(HolePos(h, Len(hs) + 1) < i)
    BY <1>1, <1>2 DEF HolePos
  <2>2. \A j \in 1 .. Len(hs) : j <= m <=> HolePos(h, j) < i
    BY <1>2 DEF HolesBelow, HolePos
  <2> QED BY <1>3, <2>1, <2>2
<1>5. HolesBelow(h, i, m)
  BY <1>1, <1>2, <1>4 DEF HolesBelow
<1> QED BY <1>1, <1>2, <1>5 DEF SameHoles, h

(* So do the runs.                                                         *)
LEMMA RunsAdded ==
    ASSUME NEW i \in Int, NEW m, NEW rs, IsSeq(rs), RunsBelow(rs, i, m),
           NEW a, ~(a.ss0 + 1 < i)
    PROVE  SameRuns(rs, rs, i) /\ SameRuns(rs, Append(rs, a), i)
<1>1. Len(rs) \in Nat /\ m \in 0 .. Len(rs)
  BY SeqLen DEF RunsBelow
<1> DEFINE h == Append(rs, a)
<1>2. /\ IsSeq(h) /\ Len(h) = Len(rs) + 1 /\ h[Len(rs) + 1] = a
      /\ \A j \in 1 .. Len(rs) : h[j] = rs[j]
      /\ SubSeq(h, 1, m) = SubSeq(rs, 1, m)
  BY <1>1, SeqAppend
<1> HIDE DEF h
<1>3. \A j \in 1 .. Len(h) : j \in 1 .. Len(rs) \/ j = Len(rs) + 1
  BY <1>1, <1>2
<1>4. \A j \in 1 .. Len(h) : j <= m <=> h[j].ss0 + 1 < i
  <2>1. ~(Len(rs) + 1 <= m) /\ ~(h[Len(rs) + 1].ss0 + 1 < i)
    BY <1>1, <1>2
  <2>2. \A j \in 1 .. Len(rs) : j <= m <=> h[j].ss0 + 1 < i
    BY <1>2 DEF RunsBelow
  <2> QED BY <1>3, <2>1, <2>2
<1>5. RunsBelow(h, i, m)
  BY <1>1, <1>2, <1>4 DEF RunsBelow
<1> QED BY <1>1, <1>2, <1>5 DEF SameRuns, h

(* With the same below, the same stands at a position.                     *)
LEMMA FitsSame ==
    ASSUME NEW hs, NEW rs, NEW hs2, NEW rs2, NEW i, IsSeq(hs), IsSeq(rs), IsSeq(hs2), IsSeq(rs2),
           SameHoles(hs, hs2, i), SameRuns(rs, rs2, i)
    PROVE  /\ PromptBelow(hs, i) => PromptBelow(hs2, i)
           /\ \A c : Fits(c, hs, rs, i) => Fits(c, hs2, rs2, i)
<1>1. ASSUME PromptBelow(hs, i) PROVE PromptBelow(hs2, i)
  <2>1. PICK m \in Nat : /\ HolesBelow(hs, i, m) /\ HolesBelow(hs2, i, m)
                         /\ SubSeq(hs2, 1, m) = SubSeq(hs, 1, m)
    BY DEF SameHoles
  <2>2. Len(hs) \in Nat /\ Len(hs) # 0 /\ Len(hs2) \in Nat
    <3>1. PICK S : hs \in Seq(S)
      BY DEF IsSeq
    <3> QED BY <1>1, <3>1, SeqLen DEF PromptBelow
  <2>3. 1 <= m /\ m \in 0 .. Len(hs) /\ m \in 0 .. Len(hs2)
    BY <1>1, <2>1, <2>2 DEF PromptBelow, HolesBelow
  <2>4. SubSeq(hs2, 1, m)[1] = hs2[1] /\ SubSeq(hs, 1, m)[1] = hs[1]
    <3>1. 1 \in 1 .. m
      BY <2>3
    <3> QED BY <2>3, <3>1, SeqCut
  <2>5. hs2 # << >>
    BY <2>3, SeqShort
  <2> QED BY <1>1, <2>1, <2>4, <2>5 DEF PromptBelow, HolePos
<1>2. ASSUME RunBelow(rs, i) PROVE RunBelow(rs2, i)
  <2>1. PICK m \in Nat : /\ RunsBelow(rs, i, m) /\ RunsBelow(rs2, i, m)
                         /\ SubSeq(rs2, 1, m) = SubSeq(rs, 1, m)
    BY DEF SameRuns
  <2>2. Len(rs) \in Nat /\ Len(rs) # 0 /\ Len(rs2) \in Nat
    <3>1. PICK S : rs \in Seq(S)
      BY DEF IsSeq
    <3> QED BY <1>2, <3>1, SeqLen DEF RunBelow
  <2>3. 1 <= m /\ m \in 0 .. Len(rs) /\ m \in 0 .. Len(rs2)
    BY <1>2, <2>1, <2>2 DEF RunBelow, RunsBelow
  <2>4. SubSeq(rs2, 1, m)[1] = rs2[1] /\ SubSeq(rs, 1, m)[1] = rs[1]
    <3>1. 1 \in 1 .. m
      BY <2>3
    <3> QED BY <2>3, <3>1, SeqCut
  <2>5. rs2 # << >>
    BY <2>3, SeqShort
  <2> QED BY <1>2, <2>1, <2>4, <2>5 DEF RunBelow
<1> QED BY <1>1, <1>2 DEF Fits

(* A continuation is about what is below it only.                          *)
LEMMA ContinuationSame ==
    ASSUME NEW s, NEW hs, NEW rs, NEW s2, NEW hs2, NEW rs2, NEW i,
           IsSeq(hs), IsSeq(rs), IsSeq(hs2), IsSeq(rs2),
           SameHoles(hs, hs2, i), SameRuns(rs, rs2, i),
           SubSeq(s2, 1, i - 1) = SubSeq(s, 1, i - 1),
           NEW k, ContinuationOK(k, s, hs, rs, i)
    PROVE  ContinuationOK(k, s2, hs2, rs2, i)
<1>1. Fits(k.code, hs2, rs2, i)
  BY FitsSame DEF ContinuationOK
<1>2. RunsBelow(rs2, i, k.run)
  <2>1. PICK m \in Nat : RunsBelow(rs, i, m) /\ RunsBelow(rs2, i, m)
    BY DEF SameRuns
  <2>2. RunsBelow(rs, i, k.run)
    BY DEF ContinuationOK
  <2>3. k.run = m
    BY <2>1, <2>2, BelowUnique
  <2> QED BY <2>1, <2>3
<1>3. \E m \in 0 .. Len(hs2) : HolesBelow(hs2, i, m) /\ k.holes = SubSeq(hs2, 1, m)
  <2>1. PICK m \in Nat : /\ HolesBelow(hs, i, m) /\ HolesBelow(hs2, i, m)
                         /\ SubSeq(hs2, 1, m) = SubSeq(hs, 1, m)
    BY DEF SameHoles
  <2>2. PICK n \in 0 .. Len(hs) : HolesBelow(hs, i, n) /\ k.holes = SubSeq(hs, 1, n)
    BY DEF ContinuationOK
  <2>3. n = m
    BY <2>1, <2>2, BelowUnique
  <2>4. m \in 0 .. Len(hs2)
    BY <2>1 DEF HolesBelow
  <2> QED BY <2>1, <2>2, <2>3, <2>4
<1> QED BY <1>1, <1>2, <1>3 DEF ContinuationOK

(* So is a frame.                                                          *)
LEMMA FrameSame ==
    ASSUME NEW s, NEW hs, NEW rs, NEW s2, NEW hs2, NEW rs2, NEW i \in Nat,
           IsSeq(hs), IsSeq(rs), IsSeq(hs2), IsSeq(rs2),
           SameHoles(hs, hs2, i), SameRuns(rs, rs2, i),
           SubSeq(s2, 1, i - 1) = SubSeq(s, 1, i - 1),
           \A j \in 1 .. i : s2[j] = s[j], i > 0,
           FrameOK(s, hs, rs, i)
    PROVE  FrameOK(s2, hs2, rs2, i)
<1>1. s2[i] = s[i]
  OBVIOUS
<1>2. TrapOK(s2, hs2, i)
  <2>1. SUFFICES ASSUME s[i].m = "trap" PROVE TrapOK(s2, hs2, i)
    BY <1>1 DEF TrapOK
  <2>2. i > 1 => s[i].next \in 1 .. i - 1 /\ s[s[i].next].m = "trap"
    BY <2>1 DEF FrameOK, TrapOK
  <2>3. i > 1 => s[i].next \in 1 .. i
    BY <2>2
  <2>4. s[i].h \in Handlers => PromptBelow(hs2, i)
    BY <2>1, FitsSame DEF FrameOK, TrapOK
  <2> QED BY <1>1, <2>2, <2>3, <2>4 DEF TrapOK
<1>3. ReturnOK(s2, hs2, rs2, i)
  BY <1>1, FitsSame DEF FrameOK, ReturnOK, Stands
<1>4. AbortOK(s2, hs2, rs2, i)
  BY <1>1, ContinuationSame DEF FrameOK, AbortOK
<1>5. SavedOK(s2, i) /\ ChainOK(s2, i) /\ s2[i].m \in Kinds
  BY <1>1 DEF FrameOK, SavedOK, ChainOK
<1> QED BY <1>2, <1>3, <1>4, <1>5 DEF FrameOK

(* The holes and the runs of a sound state are in order.                   *)
LEMMA Orders ==
    ASSUME NEW s, NEW c, NEW hs, NEW rs, IsSeq(s), IsSeq(hs), IsSeq(rs),
           HolesOK(s, c, hs, rs), RunsOK(s, c, hs, rs)
    PROVE  /\ \A j \in 1 .. Len(hs) : HolePos(hs, j) \in Nat /\ IsSeq(hs[j].stack)
           /\ \A r \in 1 .. Len(rs) : rs[r].ss0 \in Nat
           /\ \A i \in Int : /\ \E m \in 0 .. Len(hs) : HolesBelow(hs, i, m)
                             /\ \E m \in 0 .. Len(rs) : RunsBelow(rs, i, m)
<1>1. Len(Base) = 5
  BY DEF Base
<1>2. \A j \in 1 .. Len(hs) : /\ HolePos(hs, j) \in Nat /\ IsSeq(hs[j].stack)
                              /\ \A l \in 1 .. Len(hs) : j <= l <=> HolePos(hs, j) <= HolePos(hs, l)
  <2> TAKE j \in 1 .. Len(hs)
  <2>1. HolePos(hs, j) \in Len(Base) + 1 .. Len(s) + 1 /\ IsSeq(hs[j].stack)
    BY DEF HolesOK, HoleOK
  <2>2. \A l \in 1 .. Len(hs) : j <= l <=> HolePos(hs, j) <= HolePos(hs, l)
    BY DEF HolesOK, HoleOK
  <2> QED BY <1>1, <2>1, <2>2, SeqLen
<1>3. \A r \in 1 .. Len(rs) : /\ rs[r].ss0 \in Nat
                              /\ \A q \in 1 .. Len(rs) : r <= q <=> rs[r].ss0 <= rs[q].ss0
  <2> TAKE r \in 1 .. Len(rs)
  <2>1. rs[r].ss0 \in Len(Base) .. Len(s)
    BY DEF RunsOK, RunOK
  <2>2. \A q \in 1 .. Len(rs) : r <= q <=> rs[r].ss0 <= rs[q].ss0
    BY DEF RunsOK, RunOK
  <2> QED BY <1>1, <2>1, <2>2, SeqLen
<1>4. ASSUME NEW i \in Int PROVE \E m \in 0 .. Len(hs) : HolesBelow(hs, i, m)
  BY <1>2, HolesSplit
<1>5. ASSUME NEW i \in Int PROVE \E m \in 0 .. Len(rs) : RunsBelow(rs, i, m)
  <2>1. /\ \A r \in 1 .. Len(rs) : rs[r].ss0 \in Int
        /\ \A r, q \in 1 .. Len(rs) : r <= q <=> rs[r].ss0 <= rs[q].ss0
    BY <1>3
  <2> QED BY <2>1, RunsSplit
<1> QED BY <1>2, <1>3, <1>4, <1>5

-----------------------------------------------------------------------------
(* What the steps do to the stack.                                         *)

(* A cut to n frames: the code that goes on is an activation's, and the    *)
(* holes and runs above are dropped; or it is that of the return frame     *)
(* above the cut, which may be a prompt's end or a run's.                  *)
LEMMA Cut ==
    ASSUME NEW s, NEW c, NEW hs, NEW rs, Sound(s, c, hs, rs),
           NEW n \in 5 .. Len(s), NEW c2, NEW x, NEW m, NEW q,
           HolesBelow(hs, x, m), RunsBelow(rs, x, q),
           \/ x = n + 1 /\ Fits(c2, hs, rs, n + 1)
           \/ x = n + 2 /\ n < Len(s) /\ s[n + 1].m = "return" /\ c2 = s[n + 1].code
    PROVE  Sound(SubSeq(s, 1, n), c2, SubSeq(hs, 1, m), SubSeq(rs, 1, q))
<1> DEFINE s2 == SubSeq(s, 1, n)
           hs2 == SubSeq(hs, 1, m)
           rs2 == SubSeq(rs, 1, q)
<1>1. /\ IsSeq(s) /\ IsSeq(hs) /\ IsSeq(rs) /\ HolesOK(s, c, hs, rs) /\ RunsOK(s, c, hs, rs)
      /\ Len(s) \in Nat /\ Len(hs) \in Nat /\ Len(rs) \in Nat
      /\ m \in 0 .. Len(hs) /\ q \in 0 .. Len(rs) /\ n \in Nat
  BY SeqLen DEF Sound, HolesBelow, RunsBelow
<1>2. Len(Base) = 5
  BY DEF Base
<1>3. IsSeq(s2) /\ Len(s2) = n /\ \A i \in 1 .. n : s2[i] = s[i]
  <2>1. n \in 0 .. Len(s)
    BY <1>1
  <2> QED BY <1>1, <2>1, SeqCut
<1>4. \A i \in 1 .. n + 1 : SubSeq(s2, 1, i - 1) = SubSeq(s, 1, i - 1)
  <2> TAKE i \in 1 .. n + 1
  <2>1. n \in 0 .. Len(s) /\ i - 1 \in 0 .. n
    BY <1>1
  <2> QED BY <1>1, <2>1, SeqCutCut
<1>5. IsSeq(hs2) /\ Len(hs2) = m /\ \A j \in 1 .. m : hs2[j] = hs[j]
  BY <1>1, SeqCut
<1>6. IsSeq(rs2) /\ Len(rs2) = q /\ \A r \in 1 .. q : rs2[r] = rs[r]
  BY <1>1, SeqCut
<1>7. /\ \A j \in 1 .. Len(hs) : HolePos(hs, j) \in Nat /\ IsSeq(hs[j].stack)
      /\ \A r \in 1 .. Len(rs) : rs[r].ss0 \in Nat
  BY <1>1, Orders
<1>8. x \in Int /\ (x = n + 1 \/ x = n + 2)
  BY <1>1
<1>9. ASSUME NEW i \in Int, i <= x PROVE SameHoles(hs, hs2, i) /\ SameRuns(rs, rs2, i)
  <2>1. PICK a \in 0 .. Len(hs) : HolesBelow(hs, i, a)
    BY <1>1, Orders
  <2>2. PICK b \in 0 .. Len(rs) : RunsBelow(rs, i, b)
    BY <1>1, Orders
  <2>3. /\ \A j \in 1 .. Len(hs) : HolePos(hs, j) \in Int
        /\ \A r \in 1 .. Len(rs) : rs[r].ss0 \in Int
    BY <1>7
  <2>4. SameHoles(hs, hs2, i)
    BY <1>1, <1>8, <1>9, <2>1, <2>3, HolesDropped
  <2>5. SameRuns(rs, rs2, i)
    BY <1>1, <1>8, <1>9, <2>2, <2>3, RunsDropped
  <2> QED BY <2>4, <2>5
<1> HIDE DEF s2, hs2, rs2
<1>10. ASSUME NEW i \in 1 .. n PROVE FrameOK(s2, hs2, rs2, i)
  <2>1. i \in Nat /\ i \in Int /\ i <= x /\ i > 0 /\ i \in 1 .. n + 1 /\ i \in 1 .. Len(s)
    BY <1>1, <1>8
  <2>2. FrameOK(s, hs, rs, i)
    BY <2>1 DEF Sound
  <2>3. SameHoles(hs, hs2, i) /\ SameRuns(rs, rs2, i) /\ SubSeq(s2, 1, i - 1) = SubSeq(s, 1, i - 1)
    BY <1>4, <1>9, <2>1
  <2>4. \A j \in 1 .. i : s2[j] = s[j]
    BY <1>1, <1>3
  <2> QED BY <1>1, <1>5, <1>6, <2>1, <2>2, <2>3, <2>4, FrameSame
<1>11. Stands(c2, hs2, rs2, n + 1)
  <2>1. n + 1 \in Int /\ n + 1 <= x
    BY <1>1, <1>8
  <2>2. SameHoles(hs, hs2, n + 1) /\ SameRuns(rs, rs2, n + 1)
    BY <1>9, <2>1
  <2>3. Stands(c2, hs, rs, n + 1)
    <3>1. CASE x = n + 1
      BY <1>1, <3>1 DEF Stands
    <3>2. CASE x = n + 2
      <4>1. n < Len(s) /\ s[n + 1].m = "return" /\ c2 = s[n + 1].code
        BY <1>1, <3>2
      <4>2. n + 1 \in 1 .. Len(s)
        BY <1>1, <4>1
      <4>3. FrameOK(s, hs, rs, n + 1)
        BY <4>2 DEF Sound
      <4> QED BY <4>1, <4>3 DEF FrameOK, ReturnOK
    <3> QED BY <1>8, <3>1, <3>2
  <2> QED BY <1>1, <1>5, <1>6, <2>2, <2>3, FitsSame DEF Stands
<1>12. CodeAt(s2, c2, n + 1) = c2 /\ \A p \in 1 .. n : CodeAt(s2, c2, p) = CodeAt(s, c, p)
  <2>1. CodeAt(s2, c2, n + 1) = c2
    BY <1>3 DEF CodeAt
  <2>2. ASSUME NEW p \in 1 .. n PROVE CodeAt(s2, c2, p) = CodeAt(s, c, p)
    <3>1. p # n + 1 /\ p # Len(s) + 1
      BY <1>1
    <3> QED BY <1>3, <3>1 DEF CodeAt
  <2> QED BY <2>1, <2>2
<1>13. \/ x = n + 1 /\ c2 # TOP /\ c2 # FIN
       \/ x = n + 2 /\ CodeAt(s, c, n + 1) = c2
  <2>1. CASE x = n + 1
    <3>1. Fits(c2, hs, rs, n + 1)
      BY <1>1, <2>1
    <3> QED BY <2>1, <3>1, PlainIsNeither DEF Fits
  <2>2. CASE x = n + 2
    <3>1. n < Len(s) /\ s[n + 1].m = "return" /\ c2 = s[n + 1].code
      BY <1>1, <2>2
    <3> QED BY <1>1, <2>2, <3>1 DEF CodeAt
  <2> QED BY <1>8, <2>1, <2>2
<1>14. \A p \in 1 .. n + 1 : p < x => CodeAt(s2, c2, p) = CodeAt(s, c, p)
  <2>1. \A p \in 1 .. n + 1 : p \in 1 .. n \/ p = n + 1
    BY <1>1
  <2> QED BY <1>1, <1>12, <1>13, <2>1
<1>15. \A p \in 1 .. n + 1 : CodeAt(s2, c2, p) \in {TOP, FIN} => p < x /\ CodeAt(s2, c2, p) = CodeAt(s, c, p)
  <2>1. \A p \in 1 .. n + 1 : p \in 1 .. n \/ p = n + 1
    BY <1>1
  <2> QED BY <1>1, <1>8, <1>12, <1>13, <2>1
<1>16. HolesOK(s2, c2, hs2, rs2)
  <2>1. ASSUME NEW j \in 1 .. m PROVE HoleOK(s2, c2, hs2, rs2, j)
    <3>1. j \in 1 .. Len(hs) /\ j <= m /\ hs2[j] = hs[j] /\ j \in 1 .. m
      BY <1>1, <1>5
    <3>2. HoleOK(s, c, hs, rs, j)
      BY <1>1, <3>1 DEF HolesOK
    <3> DEFINE p == HolePos(hs, j)
    <3>3. p < x /\ p \in 6 .. Len(s) + 1 /\ HolePos(hs2, j) = p /\ p \in Nat
      BY <1>2, <1>7, <3>1, <3>2 DEF HolesBelow, HoleOK, HolePos
    <3> HIDE DEF p
    <3>4. p \in 6 .. n + 1 /\ p \in Int /\ p <= x /\ p \in 1 .. n + 1
      BY <1>1, <1>8, <3>3
    <3>5. CodeAt(s2, c2, p) = TOP
      BY <1>14, <3>2, <3>3, <3>4 DEF HoleOK, p
    <3>6. ContinuationOK(hs2[j], s2, hs2, rs2, p)
      <4>1. SameHoles(hs, hs2, p) /\ SameRuns(rs, rs2, p) /\ SubSeq(s2, 1, p - 1) = SubSeq(s, 1, p - 1)
        BY <1>4, <1>9, <3>4
      <4>2. ContinuationOK(hs[j], s, hs, rs, p)
        BY <3>2 DEF HoleOK, p
      <4> QED BY <1>1, <1>5, <1>6, <3>1, <4>1, <4>2, ContinuationSame
    <3>7. SubSeq(hs2, 1, j - 1) = SubSeq(hs, 1, j - 1)
      <4>1. j - 1 \in 0 .. m
        BY <1>1, <3>1
      <4> QED BY <1>1, <4>1, SeqCutCut DEF hs2
    <3>8. \A l \in 1 .. Len(hs2) : j <= l <=> p <= HolePos(hs2, l)
      <4> TAKE l \in 1 .. Len(hs2)
      <4>1. l \in 1 .. Len(hs) /\ HolePos(hs2, l) = HolePos(hs, l)
        BY <1>1, <1>5 DEF HolePos
      <4> QED BY <3>2, <4>1 DEF HoleOK, p
    <3> QED BY <1>2, <1>3, <3>1, <3>2, <3>3, <3>4, <3>5, <3>6, <3>7, <3>8 DEF HoleOK
  <2>2. ASSUME NEW p \in 1 .. n + 1, CodeAt(s2, c2, p) = TOP
        PROVE  \E j \in 1 .. m : HolePos(hs2, j) = p
    <3>1. p < x /\ CodeAt(s, c, p) = TOP
      BY <1>15, <2>2
    <3>2. p \in 1 .. Len(s) + 1
      BY <1>1
    <3>3. PICK j \in 1 .. Len(hs) : HolePos(hs, j) = p
      BY <1>1, <3>1, <3>2 DEF HolesOK
    <3>4. j <= m
      BY <3>1, <3>3 DEF HolesBelow
    <3>5. j \in 1 .. m /\ hs2[j] = hs[j]
      BY <1>1, <1>5, <3>4
    <3> QED BY <3>3, <3>5 DEF HolePos
  <2> QED BY <1>3, <1>5, <2>1, <2>2 DEF HolesOK
<1>17. RunsOK(s2, c2, hs2, rs2)
  <2>1. ASSUME NEW r \in 1 .. q PROVE RunOK(s2, c2, hs2, rs2, r)
    <3>1. r \in 1 .. Len(rs) /\ r <= q /\ rs2[r] = rs[r]
      BY <1>1, <1>6
    <3>2. RunOK(s, c, hs, rs, r)
      BY <1>1, <3>1 DEF RunsOK
    <3> DEFINE p == rs[r].ss0 + 1
    <3>3. p < x /\ rs[r].ss0 \in 5 .. Len(s) /\ p \in Nat
      BY <1>2, <1>7, <3>1, <3>2 DEF RunsBelow, RunOK
    <3>4. rs[r].ss0 \in 5 .. n /\ p \in 1 .. n + 1 /\ p \in Int /\ p <= x
      <4> DEFINE z == rs[r].ss0
                 e == Len(s)
      <4>1. n \in Nat /\ e \in Nat /\ (x = n + 1 \/ x = n + 2) /\ z \in 5 .. e /\ z + 1 < x
        BY <1>1, <1>8, <3>3
      <4> HIDE DEF z, e
      <4>2. z \in 5 .. n /\ z + 1 \in 1 .. n + 1 /\ z + 1 \in Int /\ z + 1 <= x
        BY <4>1
      <4> QED BY <4>2 DEF z
    <3>5. CodeAt(s2, c2, p) = FIN
      BY <1>14, <3>2, <3>3, <3>4 DEF RunOK
    <3>6. Fits(rs[r].after, hs2, rs2, p)
      <4>1. SameHoles(hs, hs2, p) /\ SameRuns(rs, rs2, p)
        BY <1>9, <3>4
      <4>2. Fits(rs[r].after, hs, rs, p)
        BY <3>2 DEF RunOK
      <4> QED BY <1>1, <1>5, <1>6, <4>1, <4>2, FitsSame
    <3>7. \A l \in 1 .. Len(rs2) : r <= l <=> rs[r].ss0 <= rs2[l].ss0
      <4> TAKE l \in 1 .. Len(rs2)
      <4>1. l \in 1 .. Len(rs) /\ rs2[l] = rs[l]
        BY <1>1, <1>6
      <4> QED BY <3>2, <4>1 DEF RunOK
    <3> QED BY <1>2, <1>3, <3>1, <3>2, <3>4, <3>5, <3>6, <3>7 DEF RunOK
  <2>2. ASSUME NEW p \in 1 .. n + 1, CodeAt(s2, c2, p) = FIN
        PROVE  \E r \in 1 .. q : rs2[r].ss0 + 1 = p
    <3>1. p < x /\ CodeAt(s, c, p) = FIN
      BY <1>15, <2>2
    <3>2. p \in 1 .. Len(s) + 1
      BY <1>1
    <3>3. PICK r \in 1 .. Len(rs) : rs[r].ss0 + 1 = p
      BY <1>1, <3>1, <3>2 DEF RunsOK
    <3>4. r <= q
      BY <3>1, <3>3 DEF RunsBelow
    <3>5. r \in 1 .. q /\ rs2[r] = rs[r]
      BY <1>1, <1>6, <3>4
    <3> QED BY <3>3, <3>5
  <2>3. ASSUME NEW p \in 1 .. n, s2[p].m = "return", s2[p].run > 0
        PROVE  s2[p].run \in 1 .. q /\ p = rs2[s2[p].run].ss0 + 1
    <3>1. s2[p] = s[p] /\ p \in 1 .. Len(s) /\ p < x
      BY <1>1, <1>3, <1>8
    <3>2. s[p].run \in 1 .. Len(rs) /\ p = rs[s[p].run].ss0 + 1
      BY <1>1, <2>3, <3>1 DEF RunsOK
    <3>3. s[p].run <= q
      BY <3>1, <3>2 DEF RunsBelow
    <3>4. s[p].run \in 1 .. q
      BY <1>1, <3>2, <3>3
    <3> QED BY <1>6, <3>1, <3>2, <3>4
  <2> QED BY <1>3, <1>6, <2>1, <2>2, <2>3 DEF RunsOK
<1>18. Len(s2) >= Len(Base) /\ \A i \in 1 .. Len(Base) : s2[i] = Base[i]
  <2>1. \A i \in 1 .. Len(Base) : i \in 1 .. n /\ s[i] = Base[i]
    BY <1>1, <1>2 DEF Sound
  <2> QED BY <1>1, <1>2, <1>3, <2>1
<1>19. Sound(s2, c2, hs2, rs2)
  BY <1>3, <1>5, <1>6, <1>10, <1>11, <1>16, <1>17, <1>18 DEF Sound
<1> QED BY <1>19 DEF s2, hs2, rs2

(* A sequence cut at its length is itself.                                 *)
LEMMA SeqWhole ==
    ASSUME NEW s, IsSeq(s)
    PROVE  SubSeq(s, 1, Len(s)) = s
<1>1. Len(s) \in Nat /\ Len(s) \in 0 .. Len(s)
  BY SeqLen
<1>2. IsSeq(SubSeq(s, 1, Len(s))) /\ Len(SubSeq(s, 1, Len(s))) = Len(s)
      /\ \A i \in 1 .. Len(s) : SubSeq(s, 1, Len(s))[i] = s[i]
  BY <1>1, SeqCut
<1> QED BY <1>2, SeqSame

(* What a sound stack says of its lengths, its holes and its runs.         *)
LEMMA SoundFacts ==
    ASSUME NEW s, NEW c, NEW hs, NEW rs, Sound(s, c, hs, rs)
    PROVE  /\ IsSeq(s) /\ IsSeq(hs) /\ IsSeq(rs)
           /\ Len(s) \in Nat /\ Len(hs) \in Nat /\ Len(rs) \in Nat /\ Len(s) >= 5
           /\ \A j \in 1 .. Len(hs) : HolePos(hs, j) \in 6 .. Len(s) + 1
           /\ \A r \in 1 .. Len(rs) : rs[r].ss0 \in 5 .. Len(s)
           /\ \A j \in 1 .. Len(hs) : CodeAt(s, c, HolePos(hs, j)) = TOP
           /\ \A r \in 1 .. Len(rs) : CodeAt(s, c, rs[r].ss0 + 1) = FIN
           /\ CodeAt(s, c, Len(s) + 1) = c
           /\ \A i \in Int : /\ \E m \in 0 .. Len(hs) : HolesBelow(hs, i, m)
                             /\ \E m \in 0 .. Len(rs) : RunsBelow(rs, i, m)
<1>1. Len(Base) = 5
  BY DEF Base
<1>2. /\ IsSeq(s) /\ IsSeq(hs) /\ IsSeq(rs) /\ HolesOK(s, c, hs, rs) /\ RunsOK(s, c, hs, rs)
      /\ Len(s) >= 5
  BY <1>1 DEF Sound
<1>3. /\ \A j \in 1 .. Len(hs) : HolePos(hs, j) \in 6 .. Len(s) + 1
      /\ \A r \in 1 .. Len(rs) : rs[r].ss0 \in 5 .. Len(s)
      /\ \A j \in 1 .. Len(hs) : CodeAt(s, c, HolePos(hs, j)) = TOP
      /\ \A r \in 1 .. Len(rs) : CodeAt(s, c, rs[r].ss0 + 1) = FIN
  BY <1>1, <1>2 DEF HolesOK, HoleOK, RunsOK, RunOK
<1>4. \A i \in Int : /\ \E m \in 0 .. Len(hs) : HolesBelow(hs, i, m)
                     /\ \E m \in 0 .. Len(rs) : RunsBelow(rs, i, m)
  BY <1>2, Orders
<1>5. CodeAt(s, c, Len(s) + 1) = c
  BY DEF CodeAt
<1> QED BY <1>2, <1>3, <1>4, <1>5, SeqLen

(* All holes and runs are below the prompts' ends and runs' ends that are  *)
(* not there.                                                              *)
LEMMA AllBelow ==
    ASSUME NEW s, NEW c, NEW hs, NEW rs, Sound(s, c, hs, rs), NEW n \in 0 .. Len(s)
    PROVE  /\ (\A p \in n + 1 .. Len(s) + 1 : CodeAt(s, c, p) # TOP)
                  => HolesBelow(hs, n + 1, Len(hs))
           /\ (\A p \in n + 1 .. Len(s) + 1 : CodeAt(s, c, p) # FIN)
                  => RunsBelow(rs, n + 1, Len(rs))
<1>1. /\ Len(s) \in Nat /\ Len(hs) \in Nat /\ Len(rs) \in Nat
      /\ \A j \in 1 .. Len(hs) : HolePos(hs, j) \in 6 .. Len(s) + 1
      /\ \A j \in 1 .. Len(hs) : CodeAt(s, c, HolePos(hs, j)) = TOP
      /\ \A r \in 1 .. Len(rs) : rs[r].ss0 \in 5 .. Len(s)
      /\ \A r \in 1 .. Len(rs) : CodeAt(s, c, rs[r].ss0 + 1) = FIN
  <2>1. Len(s) \in Nat /\ Len(hs) \in Nat /\ Len(rs) \in Nat
    BY SoundFacts
  <2>2. \A j \in 1 .. Len(hs) : HolePos(hs, j) \in 6 .. Len(s) + 1
    BY SoundFacts
  <2>3. \A j \in 1 .. Len(hs) : CodeAt(s, c, HolePos(hs, j)) = TOP
    BY SoundFacts
  <2>4. \A r \in 1 .. Len(rs) : rs[r].ss0 \in 5 .. Len(s)
    BY SoundFacts
  <2>5. \A r \in 1 .. Len(rs) : CodeAt(s, c, rs[r].ss0 + 1) = FIN
    BY SoundFacts
  <2> QED BY <2>1, <2>2, <2>3, <2>4, <2>5
<1>2. ASSUME \A p \in n + 1 .. Len(s) + 1 : CodeAt(s, c, p) # TOP
      PROVE  HolesBelow(hs, n + 1, Len(hs))
  <2>1. \A j \in 1 .. Len(hs) : HolePos(hs, j) < n + 1
    <3> SUFFICES ASSUME NEW j \in 1 .. Len(hs), ~(HolePos(hs, j) < n + 1) PROVE FALSE
      OBVIOUS
    <3>1. HolePos(hs, j) \in n + 1 .. Len(s) + 1
      BY <1>1
    <3> QED BY <1>1, <1>2, <3>1
  <2> QED BY <1>1, <2>1 DEF HolesBelow
<1>3. ASSUME \A p \in n + 1 .. Len(s) + 1 : CodeAt(s, c, p) # FIN
      PROVE  RunsBelow(rs, n + 1, Len(rs))
  <2>1. \A r \in 1 .. Len(rs) : rs[r].ss0 + 1 < n + 1
    <3> SUFFICES ASSUME NEW r \in 1 .. Len(rs), ~(rs[r].ss0 + 1 < n + 1) PROVE FALSE
      OBVIOUS
    <3>1. rs[r].ss0 + 1 \in n + 1 .. Len(s) + 1
      BY <1>1
    <3> QED BY <1>1, <1>3, <3>1
  <2> QED BY <1>1, <2>1 DEF RunsBelow
<1> QED BY <1>2, <1>3

(* Pops of frames that are neither: the code that goes on needs no more    *)
(* than it did.                                                            *)
LEMMA Drop ==
    ASSUME NEW s, NEW c, NEW hs, NEW rs, Sound(s, c, hs, rs), NEW n \in 5 .. Len(s),
           \A p \in n + 1 .. Len(s) + 1 : CodeAt(s, c, p) # TOP /\ CodeAt(s, c, p) # FIN,
           NEW c2, Fits(c2, hs, rs, Len(s) + 1)
    PROVE  Fits(c2, hs, rs, n + 1) /\ Sound(SubSeq(s, 1, n), c2, hs, rs)
<1>1. IsSeq(s) /\ IsSeq(hs) /\ IsSeq(rs) /\ Len(s) \in Nat /\ Len(hs) \in Nat /\ Len(rs) \in Nat
      /\ n \in 0 .. Len(s)
  BY SoundFacts
<1>2. HolesBelow(hs, n + 1, Len(hs)) /\ RunsBelow(rs, n + 1, Len(rs))
  BY <1>1, AllBelow
<1>3. PromptBelow(hs, Len(s) + 1) => PromptBelow(hs, n + 1)
  <2>1. ASSUME hs # << >> PROVE HolePos(hs, 1) < n + 1
    <3>1. Len(hs) # 0
      <4>1. PICK S : hs \in Seq(S)
        BY <1>1 DEF IsSeq
      <4> QED BY <2>1, <4>1
    <3>2. 1 \in 1 .. Len(hs) /\ 1 <= Len(hs)
      BY <1>1, <3>1
    <3> QED BY <1>2, <3>2 DEF HolesBelow
  <2> QED BY <2>1 DEF PromptBelow
<1>4. RunBelow(rs, Len(s) + 1) => RunBelow(rs, n + 1)
  <2>1. ASSUME rs # << >> PROVE rs[1].ss0 + 1 < n + 1
    <3>1. Len(rs) # 0
      <4>1. PICK S : rs \in Seq(S)
        BY <1>1 DEF IsSeq
      <4> QED BY <2>1, <4>1
    <3>2. 1 \in 1 .. Len(rs) /\ 1 <= Len(rs)
      BY <1>1, <3>1
    <3> QED BY <1>2, <3>2 DEF RunsBelow
  <2> QED BY <2>1 DEF RunBelow
<1>5. Fits(c2, hs, rs, n + 1)
  BY <1>3, <1>4, FitsThere
<1>6. Sound(SubSeq(s, 1, n), c2, SubSeq(hs, 1, Len(hs)), SubSeq(rs, 1, Len(rs)))
  BY <1>2, <1>5, Cut
<1> QED BY <1>1, <1>5, <1>6, SeqWhole

(* Other code goes on where it was.                                        *)
LEMMA Continue ==
    ASSUME NEW s, NEW c, NEW hs, NEW rs, Sound(s, c, hs, rs), c # TOP, c # FIN,
           NEW c2, Fits(c2, hs, rs, Len(s) + 1)
    PROVE  Sound(s, c2, hs, rs)
<1>1. IsSeq(s) /\ Len(s) \in Nat /\ Len(s) \in 5 .. Len(s) /\ CodeAt(s, c, Len(s) + 1) = c
  BY SoundFacts
<1>2. \A p \in Len(s) + 1 .. Len(s) + 1 : CodeAt(s, c, p) # TOP /\ CodeAt(s, c, p) # FIN
  BY <1>1
<1>3. Sound(SubSeq(s, 1, Len(s)), c2, hs, rs)
  BY <1>1, <1>2, Drop
<1> QED BY <1>1, <1>3, SeqWhole

(* RETURN, and C's return from a function it called.                       *)
LEMMA Back ==
    ASSUME NEW s, NEW c, NEW hs, NEW rs, Sound(s, c, hs, rs), NEW n \in 5 .. Len(s) - 1,
           s[n + 1].m = "return",
           \A p \in n + 2 .. Len(s) + 1 : CodeAt(s, c, p) # TOP /\ CodeAt(s, c, p) # FIN
    PROVE  Sound(SubSeq(s, 1, n), s[n + 1].code, hs, rs)
<1>1. /\ IsSeq(s) /\ IsSeq(hs) /\ IsSeq(rs) /\ Len(s) \in Nat /\ Len(hs) \in Nat /\ Len(rs) \in Nat
      /\ n + 1 \in 0 .. Len(s) /\ n \in 5 .. Len(s) /\ (n + 1) + 1 = n + 2 /\ n < Len(s)
  <2>1. IsSeq(s) /\ IsSeq(hs) /\ IsSeq(rs) /\ Len(s) \in Nat /\ Len(hs) \in Nat /\ Len(rs) \in Nat
    BY SoundFacts
  <2> QED BY <2>1
<1>2. HolesBelow(hs, n + 2, Len(hs)) /\ RunsBelow(rs, n + 2, Len(rs))
  <2> DEFINE l == n + 1
  <2>1. l \in 0 .. Len(s) /\ l + 1 = n + 2
    BY <1>1
  <2> HIDE DEF l
  <2>2. HolesBelow(hs, l + 1, Len(hs)) /\ RunsBelow(rs, l + 1, Len(rs))
    BY <2>1, AllBelow
  <2> QED BY <2>1, <2>2
<1>3. Sound(SubSeq(s, 1, n), s[n + 1].code, SubSeq(hs, 1, Len(hs)), SubSeq(rs, 1, Len(rs)))
  BY <1>1, <1>2, Cut
<1> QED BY <1>1, <1>3, SeqWhole

(* A continuation is restored.                                             *)
LEMMA Restored ==
    ASSUME NEW s, NEW c, NEW hs, NEW rs, Sound(s, c, hs, rs), NEW i \in 6 .. Len(s) + 1,
           NEW k, ContinuationOK(k, s, hs, rs, i)
    PROVE  Sound(k.stack, k.code, k.holes, SubSeq(rs, 1, k.run))
<1> DEFINE n == i - 1
<1>1. Len(s) \in Nat
  BY SoundFacts
<1>2. n \in 5 .. Len(s) /\ i = n + 1
  BY <1>1
<1>3. PICK m \in 0 .. Len(hs) : HolesBelow(hs, i, m) /\ k.holes = SubSeq(hs, 1, m)
  BY DEF ContinuationOK
<1>4. RunsBelow(rs, i, k.run) /\ Fits(k.code, hs, rs, i) /\ k.stack = SubSeq(s, 1, n)
  BY DEF ContinuationOK
<1> HIDE DEF n
<1>5. Fits(k.code, hs, rs, n + 1)
  BY <1>2, <1>4
<1>6. Sound(SubSeq(s, 1, n), k.code, SubSeq(hs, 1, m), SubSeq(rs, 1, k.run))
  BY <1>2, <1>3, <1>4, <1>5, Cut
<1> QED BY <1>3, <1>4, <1>6

(* A run ends: it is the last, and the stack is as it found it.            *)
LEMMA RunEnds ==
    ASSUME NEW s, NEW hs, NEW rs, Sound(s, FIN, hs, rs)
    PROVE  /\ rs # << >> /\ rs[Len(rs)].ss0 = Len(s)
           /\ Sound(s, rs[Len(rs)].after, hs, SubSeq(rs, 1, Len(rs) - 1))
<1>1. /\ IsSeq(s) /\ IsSeq(hs) /\ IsSeq(rs) /\ Len(s) \in Nat /\ Len(hs) \in Nat /\ Len(rs) \in Nat
      /\ Len(s) \in 5 .. Len(s) /\ Len(s) \in 0 .. Len(s) /\ CodeAt(s, FIN, Len(s) + 1) = FIN
      /\ \A r \in 1 .. Len(rs) : rs[r].ss0 \in 5 .. Len(s)
  BY SoundFacts
<1>2. RunsOK(s, FIN, hs, rs)
  BY DEF Sound
<1>3. PICK r \in 1 .. Len(rs) : rs[r].ss0 + 1 = Len(s) + 1
  <2>1. Len(s) + 1 \in 1 .. Len(s) + 1
    BY <1>1
  <2> QED BY <1>1, <1>2, <2>1 DEF RunsOK
<1> DEFINE l == Len(rs)
<1>4. l \in 1 .. Len(rs) /\ r <= l /\ l \in Nat
  BY <1>1
<1>5. \A a, b \in 1 .. Len(rs) : a <= b <=> rs[a].ss0 <= rs[b].ss0
  BY <1>2 DEF RunsOK, RunOK
<1>6. rs[r].ss0 = Len(s) /\ rs[l].ss0 <= Len(s)
  BY <1>1, <1>3, <1>4
<1>7. r = l
  <2>1. l <= r
    BY <1>4, <1>5, <1>6
  <2> QED BY <1>1, <1>4, <2>1
<1>8. RunsBelow(rs, Len(s) + 1, l - 1)
  <2>1. \A a \in 1 .. Len(rs) : a <= l - 1 <=> rs[a].ss0 + 1 < Len(s) + 1
    <3> TAKE a \in 1 .. Len(rs)
    <3>1. l <= a <=> rs[l].ss0 <= rs[a].ss0
      BY <1>4, <1>5
    <3>2. rs[a].ss0 \in Nat /\ a \in Nat
      BY <1>1
    <3> QED BY <1>1, <1>4, <1>6, <1>7, <3>1, <3>2
  <2> QED BY <1>1, <1>4, <2>1 DEF RunsBelow
<1>9. HolesBelow(hs, Len(s) + 1, Len(hs))
  <2>1. \A p \in Len(s) + 1 .. Len(s) + 1 : CodeAt(s, FIN, p) # TOP
    <3>1. FIN # TOP
      <4>1. FIN[1][1] = "FINISH" /\ TOP[1][1] = "ABORT-TOP"
        BY DEF FIN, TOP
      <4> QED BY <4>1
    <3> QED BY <1>1, <3>1
  <2> QED BY <1>1, <2>1, AllBelow
<1>10. Fits(rs[l].after, hs, rs, Len(s) + 1)
  BY <1>2, <1>4, <1>6, <1>7 DEF RunsOK, RunOK
<1>11. Sound(SubSeq(s, 1, Len(s)), rs[l].after, SubSeq(hs, 1, Len(hs)), SubSeq(rs, 1, l - 1))
  BY <1>1, <1>8, <1>9, <1>10, Cut
<1>12. rs # << >>
  BY <1>1, <1>4, SeqShort
<1> QED BY <1>1, <1>6, <1>7, <1>11, <1>12, SeqWhole

(* One more frame.  It is a prompt's end, or a run's, if the code running  *)
(* was, whose address it then is, or if a hole, or a run, comes with it.   *)
NoHole(hs, hs2, c, f) ==
    hs2 = hs /\ (c = TOP <=> f.m = "return" /\ f.code = TOP)
NewHole(s, hs, rs, hs2, rs2, c, f) ==
    /\ c # TOP /\ c # FIN /\ rs2 = rs
    /\ f.m = "return" /\ f.code = TOP
    /\ \E k : /\ hs2 = Append(hs, k) /\ k.stack = s /\ k.code = << <<"RETURN">> >>
              /\ k.holes = hs /\ k.run = Len(rs) /\ k.frame \in Nat
NoRun(rs, rs2, c, f) ==
    /\ rs2 = rs /\ (c = FIN <=> f.m = "return" /\ f.code = FIN)
    /\ f.m = "return" => ~(f.run > 0)
NewRun(s, hs, rs, hs2, rs2, c, f) ==
    /\ c # TOP /\ c # FIN /\ hs2 = hs
    /\ f.m = "return" /\ f.code = FIN /\ f.run = Len(rs) + 1
    /\ \E a : /\ rs2 = Append(rs, a) /\ a.ss0 = Len(s) /\ a.pause = 0
              /\ Fits(a.after, hs, rs, Len(s) + 1)

(* What makes a continuation.                                              *)
LEMMA ContinuationIs ==
    ASSUME NEW k, NEW s, NEW hs, NEW rs, NEW i,
           k.stack = SubSeq(s, 1, i - 1), Fits(k.code, hs, rs, i), k.frame \in Nat,
           RunsBelow(rs, i, k.run),
           NEW m \in 0 .. Len(hs), HolesBelow(hs, i, m), k.holes = SubSeq(hs, 1, m)
    PROVE  ContinuationOK(k, s, hs, rs, i)
BY DEF ContinuationOK

(* The stack grows by a frame.                                             *)
LEMMA Grow ==
    ASSUME NEW s, NEW c, NEW hs, NEW rs, Sound(s, c, hs, rs),
           NEW f, NEW c2, NEW hs2, NEW rs2,
           FrameOK(Append(s, f), hs2, rs2, Len(s) + 1),
           Fits(c2, hs2, rs2, Len(s) + 2) \/ Starting(c2, rs2, Len(s) + 2),
           NoHole(hs, hs2, c, f) \/ NewHole(s, hs, rs, hs2, rs2, c, f),
           NoRun(rs, rs2, c, f) \/ NewRun(s, hs, rs, hs2, rs2, c, f)
    PROVE  Sound(Append(s, f), c2, hs2, rs2)
<1> DEFINE s2 == Append(s, f)
           n == Len(s)
<1>1. /\ IsSeq(s) /\ IsSeq(hs) /\ IsSeq(rs)
      /\ n \in Nat /\ Len(hs) \in Nat /\ Len(rs) \in Nat /\ n >= 5
  BY SoundFacts
<1>2. /\ \A j \in 1 .. Len(hs) : HolePos(hs, j) \in 6 .. n + 1
      /\ \A r \in 1 .. Len(rs) : rs[r].ss0 \in 5 .. n
  BY SoundFacts
<1>3. HolesOK(s, c, hs, rs) /\ RunsOK(s, c, hs, rs)
  BY DEF Sound
<1>4. Len(Base) = 5
  BY DEF Base
<1>5. /\ IsSeq(s2) /\ Len(s2) = n + 1 /\ s2[n + 1] = f
      /\ \A i \in 1 .. n : s2[i] = s[i]
      /\ \A i \in 0 .. n : SubSeq(s2, 1, i) = SubSeq(s, 1, i)
  BY <1>1, SeqAppend
<1>6. /\ c2 # TOP /\ c2 # FIN
      /\ \/ Stands(c2, hs2, rs2, n + 2)
         \/ Starting(c2, rs2, n + 2)
  <2>1. Loaded # TOP /\ Loaded # FIN
    <3>1. Loaded[1][1] = "PUSH-ABORT" /\ FIN[1][1] = "FINISH" /\ TOP[1][1] = "ABORT-TOP"
      BY DEF Loaded, FIN, TOP
    <3> QED BY <3>1
  <2> QED BY <2>1, PlainIsNeither DEF Fits, Starting, Stands
<1>7. FrameOK(s2, hs2, rs2, n + 1)
  OBVIOUS
<1>8. IsSeq(hs2) /\ IsSeq(rs2)
  <2>1. /\ \A k : IsSeq(Append(hs, k))
        /\ \A a : IsSeq(Append(rs, a))
    BY <1>1, SeqAppend
  <2>2. hs2 = hs \/ \E k : hs2 = Append(hs, k)
    BY DEF NoHole, NewHole
  <2>3. rs2 = rs \/ \E a : rs2 = Append(rs, a)
    BY DEF NoRun, NewRun
  <2> QED BY <1>1, <2>1, <2>2, <2>3
<1> HIDE DEF s2
<1>9. ASSUME NEW i \in Int, i <= n + 1 PROVE SameHoles(hs, hs2, i) /\ SameRuns(rs, rs2, i)
  <2>1. PICK a \in 0 .. Len(hs) : HolesBelow(hs, i, a)
    BY SoundFacts
  <2>2. PICK b \in 0 .. Len(rs) : RunsBelow(rs, i, b)
    BY SoundFacts
  <2>3. SameHoles(hs, hs2, i)
    <3>1. CASE NoHole(hs, hs2, c, f)
      <4>1. a \in Nat
        BY <1>1
      <4> QED BY <2>1, <3>1, <4>1 DEF SameHoles, NoHole
    <3>2. CASE NewHole(s, hs, rs, hs2, rs2, c, f)
      <4>1. PICK k : hs2 = Append(hs, k) /\ k.stack = s
        BY <3>2 DEF NewHole
      <4>2. ~(Len(k.stack) + 1 < i)
        BY <1>1, <1>9, <4>1
      <4> QED BY <1>1, <2>1, <4>1, <4>2, HolesAdded
    <3> QED BY <3>1, <3>2
  <2>4. SameRuns(rs, rs2, i)
    <3>1. CASE NoRun(rs, rs2, c, f)
      <4>1. b \in Nat
        BY <1>1
      <4> QED BY <2>2, <3>1, <4>1 DEF SameRuns, NoRun
    <3>2. CASE NewRun(s, hs, rs, hs2, rs2, c, f)
      <4>1. PICK a2 : rs2 = Append(rs, a2) /\ a2.ss0 = Len(s)
        BY <3>2 DEF NewRun
      <4>2. ~(a2.ss0 + 1 < i)
        BY <1>1, <1>9, <4>1
      <4> QED BY <1>1, <2>2, <4>1, <4>2, RunsAdded
    <3> QED BY <3>1, <3>2
  <2> QED BY <2>3, <2>4
<1>10. ASSUME NEW i \in 1 .. n + 1 PROVE FrameOK(s2, hs2, rs2, i)
  <2>1. CASE i = n + 1
    BY <1>7, <2>1
  <2>2. CASE i # n + 1
    <3>1. i \in Nat /\ i \in Int /\ i <= n + 1 /\ i > 0 /\ i \in 1 .. n /\ i - 1 \in 0 .. n
      BY <1>1, <2>2
    <3>2. FrameOK(s, hs, rs, i)
      BY <3>1 DEF Sound
    <3>3. SameHoles(hs, hs2, i) /\ SameRuns(rs, rs2, i) /\ SubSeq(s2, 1, i - 1) = SubSeq(s, 1, i - 1)
      BY <1>5, <1>9, <3>1
    <3>4. \A j \in 1 .. i : s2[j] = s[j]
      BY <1>1, <1>5, <3>1
    <3> QED BY <1>1, <1>8, <3>1, <3>2, <3>3, <3>4, FrameSame
  <2> QED BY <2>1, <2>2
<1>11. /\ \A p \in 1 .. n : CodeAt(s2, c2, p) = CodeAt(s, c, p)
       /\ CodeAt(s, c, n + 1) = c
       /\ CodeAt(s2, c2, n + 1) = IF f.m = "return" THEN f.code ELSE << >>
       /\ CodeAt(s2, c2, n + 2) = c2
  <2>1. ASSUME NEW p \in 1 .. n PROVE CodeAt(s2, c2, p) = CodeAt(s, c, p)
    <3>1. p # n + 1 /\ p # n + 2 /\ Len(s2) + 1 = n + 2
      BY <1>1, <1>5
    <3> QED BY <1>5, <3>1 DEF CodeAt
  <2>2. Len(s2) + 1 = n + 2 /\ n + 1 # n + 2
    BY <1>1, <1>5
  <2> QED BY <1>5, <2>1, <2>2 DEF CodeAt
<1>12. << >> # TOP /\ << >> # FIN /\ TOP # FIN
  <2>1. Len(TOP) = 1 /\ Len(FIN) = 1 /\ FIN[1][1] = "FINISH" /\ TOP[1][1] = "ABORT-TOP"
    BY DEF TOP, FIN
  <2> QED BY <2>1
<1>13. \A p \in 1 .. n + 2 : p \in 1 .. n \/ p = n + 1 \/ p = n + 2
  BY <1>1
<1>14. HolesOK(s2, c2, hs2, rs2)
  <2>1. ASSUME NEW j \in 1 .. Len(hs), hs2[j] = hs[j], CodeAt(s2, c2, HolePos(hs, j)) = TOP,
               \A l \in 1 .. Len(hs2) : j <= l <=> HolePos(hs, j) <= HolePos(hs2, l),
               SubSeq(hs2, 1, j - 1) = SubSeq(hs, 1, j - 1)
        PROVE  HoleOK(s2, c2, hs2, rs2, j)
    <3> DEFINE p == HolePos(hs, j)
    <3>1. HoleOK(s, c, hs, rs, j)
      BY <1>3 DEF HolesOK
    <3>2. p \in 6 .. n + 1 /\ HolePos(hs2, j) = p
      BY <1>2, <2>1 DEF HolePos
    <3> HIDE DEF p
    <3>3. p \in Int /\ p <= n + 1 /\ p - 1 \in 0 .. n /\ p \in 6 .. (n + 1) + 1
      BY <1>1, <3>2
    <3>4. ContinuationOK(hs2[j], s2, hs2, rs2, p)
      <4>1. SameHoles(hs, hs2, p) /\ SameRuns(rs, rs2, p) /\ SubSeq(s2, 1, p - 1) = SubSeq(s, 1, p - 1)
        BY <1>5, <1>9, <3>3
      <4>2. ContinuationOK(hs[j], s, hs, rs, p)
        BY <3>1 DEF HoleOK, p
      <4> QED BY <1>1, <1>8, <2>1, <4>1, <4>2, ContinuationSame
    <3>5. CodeAt(s2, c2, p) = TOP /\ \A l \in 1 .. Len(hs2) : j <= l <=> p <= HolePos(hs2, l)
      BY <2>1 DEF p
    <3>6. hs[j].holes = SubSeq(hs, 1, j - 1) /\ hs[j].code = << <<"RETURN">> >> /\ IsSeq(hs[j].stack)
      BY <3>1 DEF HoleOK
    <3> QED BY <1>4, <1>5, <2>1, <3>2, <3>3, <3>4, <3>5, <3>6 DEF HoleOK
  <2>2. CASE NoHole(hs, hs2, c, f)
    <3>1. hs2 = hs
      BY <2>2 DEF NoHole
    <3>2. \A p \in 1 .. n + 1 : CodeAt(s2, c2, p) = TOP <=> CodeAt(s, c, p) = TOP
      <4>1. CodeAt(s2, c2, n + 1) = TOP <=> CodeAt(s, c, n + 1) = TOP
        BY <1>11, <1>12, <2>2 DEF NoHole
      <4> QED BY <1>1, <1>11, <4>1
    <3>3. ASSUME NEW j \in 1 .. Len(hs) PROVE HoleOK(s2, c2, hs2, rs2, j)
      <4>1. HoleOK(s, c, hs, rs, j)
        BY <1>3 DEF HolesOK
      <4>2. CodeAt(s2, c2, HolePos(hs, j)) = TOP
        <5>1. HolePos(hs, j) \in 1 .. n + 1
          BY <1>1, <1>2
        <5> QED BY <3>2, <4>1, <5>1 DEF HoleOK
      <4>3. \A l \in 1 .. Len(hs2) : j <= l <=> HolePos(hs, j) <= HolePos(hs2, l)
        BY <3>1, <4>1 DEF HoleOK
      <4> QED BY <2>1, <3>1, <4>2, <4>3
    <3>4. ASSUME NEW p \in 1 .. n + 2, CodeAt(s2, c2, p) = TOP
          PROVE  \E j \in 1 .. Len(hs) : HolePos(hs, j) = p
      <4>1. p \in 1 .. n + 1
        BY <1>1, <1>6, <1>11, <1>13, <3>4
      <4> QED BY <1>3, <3>2, <3>4, <4>1 DEF HolesOK
    <3> QED BY <1>1, <1>5, <3>1, <3>3, <3>4 DEF HolesOK
  <2>3. CASE NewHole(s, hs, rs, hs2, rs2, c, f)
    <3>1. PICK k : /\ hs2 = Append(hs, k) /\ k.stack = s /\ k.code = << <<"RETURN">> >>
                   /\ k.holes = hs /\ k.run = Len(rs) /\ k.frame \in Nat
      BY <2>3 DEF NewHole
    <3>2. c # TOP /\ c # FIN /\ rs2 = rs /\ f.m = "return" /\ f.code = TOP
      BY <2>3 DEF NewHole
    <3> DEFINE l2 == Len(hs) + 1
    <3>3. /\ Len(hs2) = l2 /\ hs2[l2] = k /\ \A j \in 1 .. Len(hs) : hs2[j] = hs[j]
          /\ \A i \in 0 .. Len(hs) : SubSeq(hs2, 1, i) = SubSeq(hs, 1, i)
      BY <1>1, <3>1, SeqAppend
    <3>4. l2 \in Nat /\ (\A j \in 1 .. l2 : j \in 1 .. Len(hs) \/ j = l2) /\ l2 \in 1 .. l2
      BY <1>1
    <3>5. HolePos(hs2, l2) = n + 1 /\ \A j \in 1 .. Len(hs) : HolePos(hs2, j) = HolePos(hs, j)
      BY <3>1, <3>3 DEF HolePos
    <3>6. HolesBelow(hs, n + 1, Len(hs)) /\ RunsBelow(rs, n + 1, Len(rs))
      <4>1. \A p \in n + 1 .. Len(s) + 1 : CodeAt(s, c, p) # TOP
        BY <1>1, <1>11, <3>2
      <4>2. \A p \in n + 1 .. Len(s) + 1 : CodeAt(s, c, p) # FIN
        BY <1>1, <1>11, <3>2
      <4>3. n \in 0 .. Len(s)
        BY <1>1
      <4> QED BY <4>1, <4>2, <4>3, AllBelow
    <3>7. \A j \in 1 .. Len(hs) : HolePos(hs, j) \in 6 .. n
      BY <1>1, <1>2, <3>6 DEF HolesBelow
    <3>8. ASSUME NEW j \in 1 .. Len(hs) PROVE HoleOK(s2, c2, hs2, rs2, j)
      <4>1. HoleOK(s, c, hs, rs, j)
        BY <1>3 DEF HolesOK
      <4>2. CodeAt(s2, c2, HolePos(hs, j)) = TOP
        <5>1. HolePos(hs, j) \in 1 .. n
          BY <1>1, <3>7
        <5> QED BY <1>11, <4>1, <5>1 DEF HoleOK
      <4>3. \A l \in 1 .. Len(hs2) : j <= l <=> HolePos(hs, j) <= HolePos(hs2, l)
        <5> TAKE l \in 1 .. Len(hs2)
        <5>1. CASE l \in 1 .. Len(hs)
          BY <3>5, <4>1, <5>1 DEF HoleOK
        <5>2. CASE l = l2
          <6>1. HolePos(hs, j) \in 6 .. n /\ HolePos(hs2, l) = n + 1 /\ j <= l
            BY <1>1, <3>5, <3>7, <5>2
          <6>2. HolePos(hs, j) <= HolePos(hs2, l)
            BY <1>1, <6>1
          <6> QED BY <6>1, <6>2
        <5> QED BY <3>3, <3>4, <5>1, <5>2
      <4>4. SubSeq(hs2, 1, j - 1) = SubSeq(hs, 1, j - 1)
        <5>1. j - 1 \in 0 .. Len(hs)
          BY <1>1
        <5> QED BY <3>3, <5>1
      <4> QED BY <2>1, <3>3, <4>2, <4>3, <4>4
    <3>9. HoleOK(s2, c2, hs2, rs2, l2)
      <4>1. ContinuationOK(k, s2, hs2, rs2, n + 1)
        <5>1. SubSeq(s2, 1, n) = s
          <6>1. n \in 0 .. n
            BY <1>1
          <6> QED BY <1>1, <1>5, <6>1, SeqWhole
        <5>2. Fits(<< <<"RETURN">> >>, hs2, rs2, n + 1)
          BY LeavesFits DEF InstructionOK, Ends
        <5>3. HolesBelow(hs2, n + 1, Len(hs))
          <6>1. \A j \in 1 .. l2 : j <= Len(hs) <=> HolePos(hs2, j) < n + 1
            <7> TAKE j \in 1 .. l2
            <7>1. CASE j \in 1 .. Len(hs)
              BY <1>1, <3>5, <3>7, <7>1
            <7>2. CASE j = l2
              BY <1>1, <3>5, <7>2
            <7> QED BY <3>4, <7>1, <7>2
          <6> QED BY <1>1, <3>3, <3>4, <6>1 DEF HolesBelow
        <5>4. Len(hs) \in 0 .. Len(hs2) /\ SubSeq(hs2, 1, Len(hs)) = hs
          <6>1. Len(hs) \in 0 .. Len(hs) /\ Len(hs) \in 0 .. Len(hs2)
            BY <1>1, <3>3
          <6> QED BY <1>1, <3>3, <6>1, SeqWhole
        <5>5. n + 1 - 1 = n
          BY <1>1
        <5>6. k.stack = SubSeq(s2, 1, n + 1 - 1)
          BY <3>1, <5>1, <5>5
        <5>7. Fits(k.code, hs2, rs2, n + 1) /\ k.frame \in Nat /\ RunsBelow(rs2, n + 1, k.run)
          BY <3>1, <3>2, <3>6, <5>2
        <5>8. k.holes = SubSeq(hs2, 1, Len(hs)) /\ Len(hs) \in 0 .. Len(hs2)
          BY <3>1, <5>4
        <5> DEFINE i == n + 1
               m == Len(hs)
        <5>9. /\ k.stack = SubSeq(s2, 1, i - 1) /\ Fits(k.code, hs2, rs2, i) /\ k.frame \in Nat
              /\ RunsBelow(rs2, i, k.run)
              /\ m \in 0 .. Len(hs2) /\ HolesBelow(hs2, i, m) /\ k.holes = SubSeq(hs2, 1, m)
          BY <5>3, <5>6, <5>7, <5>8
        <5> HIDE DEF i, m
        <5>10. ContinuationOK(k, s2, hs2, rs2, i)
          BY <5>9, ContinuationIs
        <5> QED BY <5>10 DEF i
      <4>2. \A l \in 1 .. Len(hs2) : l2 <= l <=> HolePos(hs2, l2) <= HolePos(hs2, l)
        <5> TAKE l \in 1 .. Len(hs2)
        <5>1. CASE l \in 1 .. Len(hs)
          <6>1. HolePos(hs2, l) \in 6 .. n
            BY <3>5, <3>7, <5>1
          <6> QED BY <1>1, <3>5, <5>1, <6>1
        <5>2. CASE l = l2
          BY <1>1, <3>4, <3>5, <5>2
        <5> QED BY <3>3, <3>4, <5>1, <5>2
      <4>3. CodeAt(s2, c2, n + 1) = TOP
        BY <1>11, <3>2
      <4>4. k.holes = SubSeq(hs2, 1, l2 - 1)
        <5>1. l2 - 1 = Len(hs) /\ Len(hs) \in 0 .. Len(hs)
          BY <1>1
        <5> QED BY <1>1, <3>1, <3>3, <5>1, SeqWhole
      <4>5. n + 1 \in Len(Base) + 1 .. Len(s2) + 1
        BY <1>1, <1>4, <1>5
      <4> QED BY <1>1, <3>1, <3>3, <3>5, <4>1, <4>2, <4>3, <4>4, <4>5 DEF HoleOK
    <3>10. ASSUME NEW p \in 1 .. n + 2, CodeAt(s2, c2, p) = TOP
           PROVE  \E j \in 1 .. l2 : HolePos(hs2, j) = p
      <4>1. CASE p \in 1 .. n
        <5>1. CodeAt(s, c, p) = TOP /\ p \in 1 .. Len(s) + 1
          BY <1>1, <1>11, <3>10, <4>1
        <5>2. PICK j \in 1 .. Len(hs) : HolePos(hs, j) = p
          BY <1>3, <5>1 DEF HolesOK
        <5>3. j \in 1 .. l2
          BY <1>1
        <5> QED BY <3>5, <5>2, <5>3
      <4>2. CASE p = n + 1
        BY <3>4, <3>5, <4>2
      <4>3. CASE p = n + 2
        BY <1>6, <1>11, <3>10, <4>3
      <4> QED BY <1>13, <4>1, <4>2, <4>3
    <3>11. \A j \in 1 .. Len(hs2) : HoleOK(s2, c2, hs2, rs2, j)
      BY <3>3, <3>4, <3>8, <3>9
    <3> QED BY <1>1, <1>5, <3>3, <3>10, <3>11 DEF HolesOK
  <2> QED BY <2>2, <2>3
<1>15. RunsOK(s2, c2, hs2, rs2)
  <2>1. ASSUME NEW r \in 1 .. Len(rs), rs2[r] = rs[r], CodeAt(s2, c2, rs[r].ss0 + 1) = FIN,
               \A l \in 1 .. Len(rs2) : r <= l <=> rs[r].ss0 <= rs2[l].ss0
        PROVE  RunOK(s2, c2, hs2, rs2, r)
    <3>1. RunOK(s, c, hs, rs, r)
      BY <1>3 DEF RunsOK
    <3> DEFINE p == rs[r].ss0 + 1
    <3>2. p \in Int /\ p <= n + 1 /\ rs[r].ss0 \in 5 .. n + 1
      BY <1>1, <1>2
    <3>3. SameHoles(hs, hs2, p) /\ SameRuns(rs, rs2, p)
      BY <1>9, <3>2
    <3>4. Fits(rs[r].after, hs, rs, p)
      BY <3>1 DEF RunOK
    <3> HIDE DEF p
    <3>5. Fits(rs[r].after, hs2, rs2, p)
      BY <1>1, <1>8, <3>3, <3>4, FitsSame
    <3> QED BY <1>4, <1>5, <2>1, <3>1, <3>2, <3>5 DEF RunOK, p
  <2>2. CASE NoRun(rs, rs2, c, f)
    <3>1. rs2 = rs
      BY <2>2 DEF NoRun
    <3>2. \A p \in 1 .. n + 1 : CodeAt(s2, c2, p) = FIN <=> CodeAt(s, c, p) = FIN
      <4>1. CodeAt(s2, c2, n + 1) = FIN <=> CodeAt(s, c, n + 1) = FIN
        BY <1>11, <1>12, <2>2 DEF NoRun
      <4> QED BY <1>1, <1>11, <4>1
    <3>3. ASSUME NEW r \in 1 .. Len(rs) PROVE RunOK(s2, c2, hs2, rs2, r)
      <4>1. RunOK(s, c, hs, rs, r)
        BY <1>3 DEF RunsOK
      <4>2. CodeAt(s2, c2, rs[r].ss0 + 1) = FIN
        <5>1. rs[r].ss0 + 1 \in 1 .. n + 1
          BY <1>1, <1>2
        <5> QED BY <3>2, <4>1, <5>1 DEF RunOK
      <4>3. \A l \in 1 .. Len(rs2) : r <= l <=> rs[r].ss0 <= rs2[l].ss0
        BY <3>1, <4>1 DEF RunOK
      <4> QED BY <2>1, <3>1, <4>2, <4>3
    <3>4. ASSUME NEW p \in 1 .. n + 2, CodeAt(s2, c2, p) = FIN
          PROVE  \E r \in 1 .. Len(rs) : rs[r].ss0 + 1 = p
      <4>1. p \in 1 .. n + 1
        BY <1>1, <1>6, <1>11, <1>13, <3>4
      <4> QED BY <1>3, <3>2, <3>4, <4>1 DEF RunsOK
    <3>5. ASSUME NEW p \in 1 .. n + 1, s2[p].m = "return", s2[p].run > 0
          PROVE  s2[p].run \in 1 .. Len(rs) /\ p = rs[s2[p].run].ss0 + 1
      <4>1. p # n + 1
        BY <1>5, <2>2, <3>5 DEF NoRun
      <4>2. p \in 1 .. n
        BY <1>1, <4>1
      <4> QED BY <1>3, <1>5, <3>5, <4>2 DEF RunsOK
    <3> QED BY <1>1, <1>5, <3>1, <3>3, <3>4, <3>5 DEF RunsOK
  <2>3. CASE NewRun(s, hs, rs, hs2, rs2, c, f)
    <3>1. PICK a : /\ rs2 = Append(rs, a) /\ a.ss0 = n /\ a.pause = 0
                   /\ Fits(a.after, hs, rs, n + 1)
      BY <2>3 DEF NewRun
    <3>2. c # TOP /\ c # FIN /\ hs2 = hs /\ f.m = "return" /\ f.code = FIN /\ f.run = Len(rs) + 1
      BY <2>3 DEF NewRun
    <3> DEFINE l2 == Len(rs) + 1
    <3>3. Len(rs2) = l2 /\ rs2[l2] = a /\ \A r \in 1 .. Len(rs) : rs2[r] = rs[r]
      BY <1>1, <3>1, SeqAppend
    <3>4. l2 \in Nat /\ (\A r \in 1 .. l2 : r \in 1 .. Len(rs) \/ r = l2) /\ l2 \in 1 .. l2
      BY <1>1
    <3>5. \A r \in 1 .. Len(rs) : rs[r].ss0 \in 5 .. n - 1
      <4>1. \A p \in n + 1 .. Len(s) + 1 : CodeAt(s, c, p) # FIN
        BY <1>1, <1>11, <3>2
      <4>2. n \in 0 .. Len(s)
        BY <1>1
      <4>3. RunsBelow(rs, n + 1, Len(rs))
        BY <4>1, <4>2, AllBelow
      <4> QED BY <1>1, <1>2, <4>3 DEF RunsBelow
    <3>6. ASSUME NEW r \in 1 .. Len(rs) PROVE RunOK(s2, c2, hs2, rs2, r)
      <4>1. RunOK(s, c, hs, rs, r)
        BY <1>3 DEF RunsOK
      <4>2. CodeAt(s2, c2, rs[r].ss0 + 1) = FIN
        <5>1. rs[r].ss0 + 1 \in 1 .. n
          BY <1>1, <3>5
        <5> QED BY <1>11, <4>1, <5>1 DEF RunOK
      <4>3. \A l \in 1 .. Len(rs2) : r <= l <=> rs[r].ss0 <= rs2[l].ss0
        <5> TAKE l \in 1 .. Len(rs2)
        <5>1. CASE l \in 1 .. Len(rs)
          BY <3>3, <4>1, <5>1 DEF RunOK
        <5>2. CASE l = l2
          <6>1. rs[r].ss0 \in 5 .. n - 1 /\ rs2[l].ss0 = n /\ r <= l
            BY <1>1, <3>1, <3>3, <3>5, <5>2
          <6>2. rs[r].ss0 <= rs2[l].ss0
            BY <1>1, <6>1
          <6> QED BY <6>1, <6>2
        <5> QED BY <3>3, <3>4, <5>1, <5>2
      <4> QED BY <2>1, <3>3, <4>2, <4>3
    <3>7. RunOK(s2, c2, hs2, rs2, l2)
      <4>1. Fits(a.after, hs2, rs2, n + 1)
        <5>1. SameHoles(hs, hs2, n + 1) /\ SameRuns(rs, rs2, n + 1)
          BY <1>1, <1>9
        <5> QED BY <1>1, <1>8, <3>1, <5>1, FitsSame
      <4>2. \A l \in 1 .. Len(rs2) : l2 <= l <=> n <= rs2[l].ss0
        <5> TAKE l \in 1 .. Len(rs2)
        <5>1. CASE l \in 1 .. Len(rs)
          <6>1. rs2[l].ss0 \in 5 .. n - 1
            BY <3>3, <3>5, <5>1
          <6> QED BY <1>1, <5>1, <6>1
        <5>2. CASE l = l2
          BY <1>1, <3>1, <3>3, <3>4, <5>2
        <5> QED BY <3>3, <3>4, <5>1, <5>2
      <4>3. CodeAt(s2, c2, n + 1) = FIN
        BY <1>11, <3>2
      <4>4. n \in Len(Base) .. Len(s2)
        BY <1>1, <1>4, <1>5
      <4> QED BY <1>1, <3>1, <3>3, <4>1, <4>2, <4>3, <4>4 DEF RunOK
    <3>8. ASSUME NEW p \in 1 .. n + 2, CodeAt(s2, c2, p) = FIN
          PROVE  \E r \in 1 .. l2 : rs2[r].ss0 + 1 = p
      <4>1. CASE p \in 1 .. n
        <5>1. CodeAt(s, c, p) = FIN /\ p \in 1 .. Len(s) + 1
          BY <1>1, <1>11, <3>8, <4>1
        <5>2. PICK r \in 1 .. Len(rs) : rs[r].ss0 + 1 = p
          BY <1>3, <5>1 DEF RunsOK
        <5>3. r \in 1 .. l2
          BY <1>1
        <5> QED BY <3>3, <5>2, <5>3
      <4>2. CASE p = n + 1
        BY <3>1, <3>3, <3>4, <4>2
      <4>3. CASE p = n + 2
        BY <1>6, <1>11, <3>8, <4>3
      <4> QED BY <1>13, <4>1, <4>2, <4>3
    <3>9. ASSUME NEW p \in 1 .. n + 1, s2[p].m = "return", s2[p].run > 0
          PROVE  s2[p].run \in 1 .. l2 /\ p = rs2[s2[p].run].ss0 + 1
      <4>1. CASE p = n + 1
        BY <1>5, <3>1, <3>2, <3>3, <3>4, <4>1
      <4>2. CASE p # n + 1
        <5>1. p \in 1 .. n
          BY <1>1, <4>2
        <5>2. s[p].run \in 1 .. Len(rs) /\ p = rs[s[p].run].ss0 + 1
          BY <1>3, <1>5, <3>9, <5>1 DEF RunsOK
        <5>3. s[p].run \in 1 .. l2
          BY <1>1, <5>2
        <5> QED BY <1>5, <3>3, <5>1, <5>2, <5>3
      <4> QED BY <4>1, <4>2
    <3>10. \A r \in 1 .. Len(rs2) : RunOK(s2, c2, hs2, rs2, r)
      BY <3>3, <3>4, <3>6, <3>7
    <3> QED BY <1>1, <1>5, <3>3, <3>8, <3>9, <3>10 DEF RunsOK
  <2> QED BY <2>2, <2>3
<1>16. Len(s2) >= Len(Base) /\ \A i \in 1 .. Len(Base) : s2[i] = Base[i]
  <2>1. \A i \in 1 .. Len(Base) : i \in 1 .. n /\ s[i] = Base[i]
    BY <1>1, <1>4 DEF Sound
  <2> QED BY <1>1, <1>4, <1>5, <2>1
<1>17. \/ Stands(c2, hs2, rs2, Len(s2) + 1)
       \/ Starting(c2, rs2, Len(s2) + 1)
  <2>1. Len(s2) + 1 = n + 2
    BY <1>1, <1>5
  <2> QED BY <1>6, <2>1
<1>18. \A i \in 1 .. Len(s2) : FrameOK(s2, hs2, rs2, i)
  BY <1>5, <1>10
<1>19. Sound(s2, c2, hs2, rs2)
  BY <1>5, <1>8, <1>14, <1>15, <1>16, <1>17, <1>18 DEF Sound
<1> QED BY <1>19 DEF s2

-----------------------------------------------------------------------------
(* The frames that are pushed.                                             *)

(* Frames the program pushes are as the invariant has them.                *)
LEMMA FrameMade ==
    ASSUME NEW s, IsSeq(s), NEW hs, NEW rs, NEW f,
           \/ f.m = "value"
           \/ f.m = "return" /\ Stands(f.code, hs, rs, Len(s) + 1)
           \/ f.m = "state" /\ f.frame \in Nat
           \/ f.m = "all-state" /\ f.frame \in Nat /\ f.regs \in Registers
           \/ f.m = "dynamic" /\ f.next = FindMarker(s, "dynamic")
           \/ /\ f.m = "abort" /\ f.next = FindMarker(s, "abort")
              /\ ContinuationOK(f.k, Append(s, f), hs, rs, Len(s) + 1)
           \/ /\ f.m = "trap" /\ f.next \in 1 .. Len(s) /\ s[f.next].m = "trap"
              /\ f.h \in Handlers => PromptBelow(hs, Len(s) + 1)
    PROVE  FrameOK(Append(s, f), hs, rs, Len(s) + 1)
<1> DEFINE t == Append(s, f)
           i == Len(s) + 1
<1>1. /\ Len(s) \in Nat /\ t[i] = f /\ \A j \in 1 .. Len(s) : t[j] = s[j]
      /\ SubSeq(t, 1, Len(s)) = SubSeq(s, 1, Len(s))
  BY SeqLen, SeqAppend
<1>2. i - 1 = Len(s) /\ SubSeq(t, 1, i - 1) = s
  BY <1>1, SeqWhole
<1> HIDE DEF t, i
<1>3. f.m \in Kinds
  BY DEF Kinds
<1>4. TrapOK(t, hs, i)
  <2>1. CASE f.m = "trap"
    <3>1. f.next \in 1 .. i - 1 /\ t[f.next].m = "trap" /\ (f.h \in Handlers => PromptBelow(hs, i))
      BY <1>1, <1>2, <2>1 DEF i
    <3> QED BY <1>1, <3>1 DEF TrapOK
  <2> QED BY <1>1, <2>1 DEF TrapOK
<1>5. ReturnOK(t, hs, rs, i) /\ SavedOK(t, i) /\ AbortOK(t, hs, rs, i)
  BY <1>1 DEF ReturnOK, SavedOK, AbortOK, t, i
<1>6. ChainOK(t, i)
  BY <1>1, <1>2 DEF ChainOK
<1>7. FrameOK(t, hs, rs, i)
  BY <1>1, <1>3, <1>4, <1>5, <1>6 DEF FrameOK
<1> QED BY <1>7 DEF t, i

(* A frame that is not an address is pushed.                               *)
LEMMA Push1 ==
    ASSUME NEW s, NEW c, NEW hs, NEW rs, Sound(s, c, hs, rs), c # TOP, c # FIN,
           NEW f, f.m # "return", FrameOK(Append(s, f), hs, rs, Len(s) + 1),
           NEW c2, Fits(c2, hs, rs, Len(s) + 2)
    PROVE  Sound(Append(s, f), c2, hs, rs)
<1>1. NoHole(hs, hs, c, f) /\ NoRun(rs, rs, c, f)
  BY DEF NoHole, NoRun
<1> QED BY <1>1, Grow

(* An address is pushed: that of the code that was running.                *)
LEMMA PushAddress ==
    ASSUME NEW s, NEW c, NEW hs, NEW rs, Sound(s, c, hs, rs), Stands(c, hs, rs, Len(s) + 1),
           NEW f, f.m = "return", f.code = c, ~(f.run > 0),
           NEW c2, Fits(c2, hs, rs, Len(s) + 2)
    PROVE  Sound(Append(s, f), c2, hs, rs)
<1>1. NoHole(hs, hs, c, f) /\ NoRun(rs, rs, c, f)
  BY DEF NoHole, NoRun
<1>2. IsSeq(s)
  BY DEF Sound
<1>3. FrameOK(Append(s, f), hs, rs, Len(s) + 1)
  BY <1>2, FrameMade
<1> QED BY <1>1, <1>3, Grow

(* What stands on a sound stack also stands higher.                        *)
LEMMA Higher ==
    ASSUME NEW c, NEW hs, NEW rs, NEW i \in Nat, NEW i2 \in Nat, i <= i2, Fits(c, hs, rs, i),
           \A j \in 1 .. Len(hs) : HolePos(hs, j) \in Nat,
           \A r \in 1 .. Len(rs) : rs[r].ss0 \in Nat,
           IsSeq(hs), IsSeq(rs)
    PROVE  Fits(c, hs, rs, i2)
<1>1. ASSUME PromptBelow(hs, i) PROVE PromptBelow(hs, i2)
  <2>1. Len(hs) \in Nat /\ Len(hs) # 0
    <3>1. PICK S : hs \in Seq(S)
      BY DEF IsSeq
    <3> QED BY <1>1, <3>1, SeqLen DEF PromptBelow
  <2>2. 1 \in 1 .. Len(hs)
    BY <2>1
  <2>3. HolePos(hs, 1) \in Nat
    BY <2>2
  <2> QED BY <1>1, <2>3 DEF PromptBelow
<1>2. ASSUME RunBelow(rs, i) PROVE RunBelow(rs, i2)
  <2>1. Len(rs) \in Nat /\ Len(rs) # 0
    <3>1. PICK S : rs \in Seq(S)
      BY DEF IsSeq
    <3> QED BY <1>2, <3>1, SeqLen DEF RunBelow
  <2>2. 1 \in 1 .. Len(rs)
    BY <2>1
  <2>3. rs[1].ss0 \in Nat
    BY <2>2
  <2> QED BY <1>2, <2>3 DEF RunBelow
<1> QED BY <1>1, <1>2, FitsThere

(* The chains of a sound stack.                                            *)
LEMMA Chains ==
    ASSUME NEW s, NEW c, NEW hs, NEW rs, Sound(s, c, hs, rs)
    PROVE  /\ \A p \in Positions(s, "trap") : /\ s[p].next \in Positions(s, "trap")
                                              /\ s[p].h \in Handlers => PromptBelow(hs, p)
           /\ \A p \in Positions(s, "trap") : p > 1 => s[p].next < p
           /\ 1 \in Positions(s, "trap") /\ s[1].type = "condition"
           /\ \A p \in Positions(s, "abort") :
                  s[p].next = 0 \/ (s[p].next \in Positions(s, "abort") /\ s[p].next < p)
           /\ 5 \in Positions(s, "abort") /\ s[5].k = MainK
           /\ \A p \in Positions(s, "abort") : p # 5 => p \in 6 .. Len(s) /\ ContinuationOK(s[p].k, s, hs, rs, p)
<1>1. /\ IsSeq(s) /\ Len(s) \in Nat /\ Len(s) >= 5 /\ DOMAIN s = 1 .. Len(s)
  BY SoundFacts, SeqLen
<1>2. Len(Base) = 5
  BY DEF Base
<1>3. s[1] = Base[1] /\ s[2] = Base[2] /\ s[3] = Base[3] /\ s[4] = Base[4] /\ s[5] = Base[5]
  BY <1>2 DEF Sound
<1>4. \A p \in 1 .. Len(s) : FrameOK(s, hs, rs, p)
  BY DEF Sound
<1>5. /\ Base[1].m = "trap" /\ Base[1].next = 1 /\ Base[1].type = "condition"
      /\ Base[2].m = "trap" /\ Base[3].m = "trap" /\ Base[4].m = "trap"
      /\ Base[5].m = "abort" /\ Base[5].k = MainK
  BY DEF Base, Trap, Abort
<1>6. \A p, m : p \in Positions(s, m) <=> p \in 1 .. Len(s) /\ s[p].m = m
  BY <1>1 DEF Positions
<1>7. 1 \in Positions(s, "trap") /\ s[1].type = "condition"
  BY <1>1, <1>3, <1>5, <1>6
<1>8. ASSUME NEW p \in Positions(s, "trap")
      PROVE  /\ s[p].next \in Positions(s, "trap")
             /\ s[p].h \in Handlers => PromptBelow(hs, p)
             /\ p > 1 => s[p].next < p
  <2>1. p \in 1 .. Len(s) /\ s[p].m = "trap" /\ TrapOK(s, hs, p)
    BY <1>4, <1>6 DEF FrameOK
  <2>2. s[p].h \in Handlers => PromptBelow(hs, p)
    BY <2>1 DEF TrapOK
  <2>3. CASE p = 1
    BY <1>3, <1>5, <1>7, <2>2, <2>3
  <2>4. CASE p # 1
    <3>1. s[p].next \in 1 .. p - 1 /\ s[s[p].next].m = "trap"
      BY <1>1, <2>1, <2>4 DEF TrapOK
    <3>2. s[p].next \in 1 .. Len(s) /\ s[p].next < p
      BY <1>1, <2>1, <3>1
    <3> QED BY <1>6, <2>2, <3>1, <3>2
  <2> QED BY <2>3, <2>4
<1>9. 5 \in Positions(s, "abort") /\ s[5].k = MainK
  BY <1>1, <1>3, <1>5, <1>6
<1>10. ASSUME NEW p \in Positions(s, "abort")
       PROVE  s[p].next = 0 \/ (s[p].next \in Positions(s, "abort") /\ s[p].next < p)
  <2>1. p \in 1 .. Len(s) /\ s[p].m = "abort" /\ ChainOK(s, p)
    BY <1>4, <1>6 DEF FrameOK
  <2>2. p - 1 \in 0 .. Len(s)
    BY <1>1, <2>1
  <2> DEFINE t == SubSeq(s, 1, p - 1)
  <2>3. IsSeq(t) /\ Len(t) = p - 1 /\ \A i \in 1 .. p - 1 : t[i] = s[i]
    BY <1>1, <2>2, SeqCut
  <2>4. s[p].next = FindMarker(t, "abort")
    BY <2>1 DEF ChainOK
  <2> HIDE DEF t
  <2>5. s[p].next \in 0 .. p - 1 /\ (s[p].next # 0 => t[s[p].next].m = "abort")
    BY <2>3, <2>4, Marker
  <2>6. CASE s[p].next # 0
    <3>1. s[p].next \in 1 .. p - 1 /\ s[p].next \in 1 .. Len(s) /\ s[p].next < p
      BY <1>1, <2>1, <2>5, <2>6
    <3>2. s[s[p].next].m = "abort"
      BY <2>3, <2>5, <2>6, <3>1
    <3> QED BY <1>6, <3>1, <3>2
  <2> QED BY <2>6
<1>11. ASSUME NEW p \in Positions(s, "abort"), p # 5
       PROVE  p \in 6 .. Len(s) /\ ContinuationOK(s[p].k, s, hs, rs, p)
  <2>1. p \in 1 .. Len(s) /\ s[p].m = "abort" /\ AbortOK(s, hs, rs, p)
    BY <1>4, <1>6 DEF FrameOK
  <2>2. p # 1 /\ p # 2 /\ p # 3 /\ p # 4
    BY <1>3, <1>5, <2>1
  <2>3. p \in 6 .. Len(s)
    BY <1>1, <1>11, <2>1, <2>2
  <2> QED BY <1>2, <2>1, <2>3 DEF AbortOK
<1> QED BY <1>7, <1>8, <1>9, <1>10, <1>11

-----------------------------------------------------------------------------
(* Codes the steps make.                                                   *)

(* The ways back from a handler.                                           *)
LEMMA WaysBack ==
    ASSUME NEW hs, NEW rs, NEW i
    PROVE  Fits(CHR, hs, rs, i) /\ Fits(IHR, hs, rs, i) /\ Fits(NCE, hs, rs, i)
<1>1. ASSUME NEW x, NEW y, Easy(<<x>>), Easy(<<y>>)
      PROVE  Fits(<< <<x>>, <<y>>, <<"RETURN">> >>, hs, rs, i)
  <2>1. Fits(<< <<y>>, <<"RETURN">> >>, hs, rs, i)
    BY <1>1, TwoFit DEF InstructionOK, Ends
  <2>2. Harmless(<< <<x>> >>)
    BY <1>1, HarmlessShort
  <2>3. << <<x>> >> \o << <<y>>, <<"RETURN">> >> = << <<x>>, <<y>>, <<"RETURN">> >>
    <3> DEFINE a == << <<x>> >>
               u == a \o << <<y>>, <<"RETURN">> >>
               v == << <<x>>, <<y>>, <<"RETURN">> >>
    <3>1. IsSeq(a) /\ Len(a) = 1 /\ a[1] = <<x>>
      BY SeqShort
    <3>2. /\ IsSeq(v) /\ Len(v) = 3 /\ v[1] = <<x>> /\ v[2] = <<y>> /\ v[3] = <<"RETURN">>
      BY SeqShort
    <3> DEFINE w == Append(a, <<y>>)
    <3>3. u = Append(w, <<"RETURN">>)
      BY <3>1, SeqAppends
    <3> HIDE DEF a, u, v
    <3>4. IsSeq(w) /\ Len(w) = 2 /\ w[2] = <<y>> /\ w[1] = <<x>>
      BY <3>1, SeqAppend
    <3> HIDE DEF w
    <3>5. IsSeq(u) /\ Len(u) = 3 /\ u[3] = <<"RETURN">> /\ u[1] = <<x>> /\ u[2] = <<y>>
      BY <3>3, <3>4, SeqAppend
    <3>6. \A j \in 1 .. 3 : j = 1 \/ j = 2 \/ j = 3
      OBVIOUS
    <3>7. u = v
      BY <3>2, <3>5, <3>6, SeqSame
    <3> QED BY <3>7 DEF u, v, a
  <2> QED BY <2>1, <2>2, <2>3, MoreFits
<1>2. Easy(<<"POP-TRAP">>) /\ Easy(<<"RESTORE-STATE">>) /\ Easy(<<"RESTORE-ALL-STATE">>)
  BY DEF Easy, InstructionOK
<1>3. Fits(NCE, hs, rs, i)
  BY LeavesFits DEF InstructionOK, Ends, NCE
<1> QED BY <1>1, <1>2, <1>3 DEF CHR, IHR

(* What is running, by its instruction.                                    *)
LEMMA Running ==
    ASSUME NEW s, NEW c, NEW hs, NEW rs, Sound(s, c, hs, rs)
    PROVE  /\ c[1][1] = "ABORT-TOP" => c = TOP
           /\ c[1][1] = "FINISH" => c = FIN
           /\ c[1][1] = "PUSH-ABORT" => Starting(c, rs, Len(s) + 1)
           /\ c[1][1] = "EVALUATE" => Evaluating(s, c, hs, rs)
           /\ c[1][1] \notin {"ABORT-TOP", "FINISH", "PUSH-ABORT", "EVALUATE"}
                  => Fits(c, hs, rs, Len(s) + 1) /\ c # TOP /\ c # FIN
<1>1. /\ TOP[1][1] = "ABORT-TOP" /\ FIN[1][1] = "FINISH" /\ Loaded[1][1] = "PUSH-ABORT"
  BY DEF TOP, FIN, Loaded
<1>2. Fits(c, hs, rs, Len(s) + 1)
          => c[1][1] \notin {"ABORT-TOP", "FINISH", "EVALUATE", "PUSH-ABORT"}
  BY PlainIsNeither DEF Fits
<1>3. Starting(c, rs, Len(s) + 1) => c[1][1] = "PUSH-ABORT"
  BY <1>1 DEF Starting
<1>4. Evaluating(s, c, hs, rs) => c[1][1] = "EVALUATE"
  BY DEF Evaluating
<1>5. \/ c = TOP \/ c = FIN \/ Fits(c, hs, rs, Len(s) + 1)
      \/ Starting(c, rs, Len(s) + 1) \/ Evaluating(s, c, hs, rs)
  BY DEF Sound, Stands
<1> QED BY <1>1, <1>2, <1>3, <1>4, <1>5

(* Code that stands somewhere is not the evaluator's.                      *)
LEMMA Quiet ==
    ASSUME NEW c, NEW hs, NEW rs, NEW i, Stands(c, hs, rs, i) \/ Starting(c, rs, i)
    PROVE  c[1][1] # "EVALUATE"
<1>1. /\ TOP[1][1] = "ABORT-TOP" /\ FIN[1][1] = "FINISH" /\ Loaded[1][1] = "PUSH-ABORT"
  BY DEF TOP, FIN, Loaded
<1> QED BY <1>1, PlainIsNeither DEF Fits, Starting, Stands

(* The search for a handler ends at a trap: the base has one for every     *)
(* condition.                                                              *)
LEMMA Matched ==
    ASSUME NEW s, NEW pc, NEW hs, NEW rs, Sound(s, pc, hs, rs), NEW kind, NEW c
    PROVE  Match(s, IF kind = "raise" THEN FindMarker(s, "trap") ELSE FindMaxTrap(s), c)
               \in Positions(s, "trap")
<1>0. IsSeq(s) /\ Len(s) \in Nat /\ Len(s) >= 5 /\ DOMAIN s = 1 .. Len(s)
  <2>1. IsSeq(s) /\ Len(s) \in Nat /\ Len(s) >= 5
    BY SoundFacts
  <2> QED BY <2>1, SeqLen
<1>1. /\ \A q \in Positions(s, "trap") : s[q].next \in Positions(s, "trap")
      /\ \A q \in Positions(s, "trap") : q > 1 => s[q].next < q
      /\ 1 \in Positions(s, "trap") /\ s[1].type = "condition"
  BY Chains
<1>2. ASSUME NEW q \in Positions(s, "trap")
      PROVE  InstanceIsa(c, s[q].type) \/ (s[q].next \in Positions(s, "trap") /\ s[q].next < q)
  <2>1. q \in 1 .. Len(s)
    BY <1>0 DEF Positions
  <2>2. CASE q = 1
    BY <1>1, <2>2 DEF InstanceIsa
  <2>3. CASE q # 1
    BY <1>1, <2>1, <2>3
  <2> QED BY <2>2, <2>3
<1>3. FindMarker(s, "trap") \in Positions(s, "trap")
  <2>1. 1 \in 1 .. Len(s) /\ s[1].m = "trap"
    BY <1>0, <1>1 DEF Positions
  <2>2. FindMarker(s, "trap") # 0 /\ FindMarker(s, "trap") \in 0 .. Len(s)
        /\ s[FindMarker(s, "trap")].m = "trap"
    BY <1>0, <2>1, Marker
  <2> QED BY <1>0, <2>2 DEF Positions
<1>4. FindMaxTrap(s) \in Positions(s, "trap")
  <2>1. \A q \in Positions(s, "trap") : s[q].next \in 0 .. Len(s)
    BY <1>0, <1>1 DEF Positions
  <2> QED BY <1>0, <1>1, <2>1, MaxTrap
<1> DEFINE start == IF kind = "raise" THEN FindMarker(s, "trap") ELSE FindMaxTrap(s)
<1>5. start \in Positions(s, "trap")
  BY <1>3, <1>4
<1> HIDE DEF start
<1>6. Match(s, start, c) \in Positions(s, "trap")
  BY <1>0, <1>2, <1>5, MatchFacts
<1> QED BY <1>6 DEF start

(* A condition is raised above a sound stack, to go on with pc.            *)
Raised(s, pc, s2, c2, hs, rs) ==
    Sound(s2, c2, hs, rs) /\ c2[1][1] # "EVALUATE"

(* Raising a condition leaves a sound stack, with the handler's code or the*)
(* base handler's above it.                                                *)
LEMMA RaiseSound ==
    ASSUME NEW s, NEW pc, TypeOK, mode = "run", Sound(s, pc, holes, runs),
           Stands(pc, holes, runs, Len(s) + 1),
           NEW kind \in {"raise", "reraise", "signal"}, NEW c, NEW continuable,
           NEW func \in BOOLEAN,
           Raise(kind, c, continuable, func, s, pc)
    PROVE  /\ Raised(s, pc, stack', code', holes', runs')
           /\ frame' \in Nat /\ regs' \in Registers /\ pause' = 0 /\ interactive' = interactive
           /\ mode' = "run"
<1> DEFINE p == Match(s, IF kind = "raise" THEN FindMarker(s, "trap") ELSE FindMaxTrap(s), c)
           w == IF kind = "signal" THEN <<frame, regs>> ELSE <<frame>>
           f1 == Return(pc, w)
           f2 == IF kind = "signal" THEN AllState(frame, regs) ELSE State(frame)
           f3 == NextInCare(s, p)
           back == IF kind = "signal" THEN IHR ELSE IF continuable THEN CHR ELSE NCE
           f4 == Return(back, << >>)
           sa == Append(s, f1)
           sb == Append(sa, f2)
           sc == Append(sb, f3)
           sd == Append(sc, f4)
           h == s[p].h
           a == Len(sc) + 1
           R == << <<"RETURN">> >>
           hand == << <<"EXPR", a>>, IF h \in Returners THEN <<"RETURN">>
                                     ELSE <<"TRAP-RETURN", s[p].hole>> >>
           prim == << <<"PRIMITIVE", h, c>> >> \o back
<1>1. /\ IsSeq(s) /\ Len(s) \in Nat /\ Len(s) >= 5 /\ DOMAIN s = 1 .. Len(s)
      /\ IsSeq(holes) /\ IsSeq(runs) /\ Len(runs) \in Nat /\ frame \in Nat /\ regs \in Registers
  <2>1. IsSeq(s) /\ Len(s) \in Nat /\ Len(s) >= 5 /\ IsSeq(holes) /\ IsSeq(runs) /\ Len(runs) \in Nat
    BY SoundFacts
  <2> QED BY <2>1, SeqLen DEF TypeOK
<1>2. p \in Positions(s, "trap")
  BY Matched
<1> HIDE DEF p
<1>3. /\ p \in 1 .. Len(s) /\ s[p].next \in 1 .. Len(s) /\ s[s[p].next].next \in 1 .. Len(s)
      /\ s[s[s[p].next].next].m = "trap"
      /\ h \in Handlers => PromptBelow(holes, p)
      /\ s[s[p].next].h \in Handlers => PromptBelow(holes, s[p].next)
  <2>1. \A q \in Positions(s, "trap") : /\ s[q].next \in Positions(s, "trap")
                                        /\ s[q].h \in Handlers => PromptBelow(holes, q)
    BY Chains
  <2>2. \A q : q \in Positions(s, "trap") <=> q \in 1 .. Len(s) /\ s[q].m = "trap"
    BY <1>1 DEF Positions
  <2> QED BY <1>2, <2>1, <2>2
<1>4. ASSUME NEW i \in 1 .. Len(s), NEW i2 \in Nat, i <= i2, PromptBelow(holes, i)
      PROVE  PromptBelow(holes, i2)
  <2>1. Len(holes) \in Nat /\ Len(holes) # 0
    <3>1. PICK S : holes \in Seq(S)
      BY <1>1 DEF IsSeq
    <3> QED BY <1>1, <1>4, <3>1, SeqLen DEF PromptBelow
  <2>2. 1 \in 1 .. Len(holes)
    BY <2>1
  <2>3. HolePos(holes, 1) \in 6 .. Len(s) + 1
    BY <2>2, SoundFacts
  <2> QED BY <1>1, <1>4, <2>3 DEF PromptBelow
<1>5. \A i : Fits(R, holes, runs, i) /\ R # TOP /\ R # FIN
  <2>1. \A i : Fits(R, holes, runs, i)
    BY LeavesFits DEF InstructionOK, Ends
  <2> QED BY <2>1, PlainIsNeither DEF Fits
<1>6. \A i : Fits(back, holes, runs, i) /\ back # TOP /\ back # FIN
  <2>1. \A i : Fits(back, holes, runs, i)
    BY WaysBack
  <2> QED BY <2>1, PlainIsNeither DEF Fits
<1> HIDE DEF R, back, w
<1>7. Sound(sa, R, holes, runs) /\ IsSeq(sa) /\ Len(sa) = Len(s) + 1 /\ \A j \in 1 .. Len(s) : sa[j] = s[j]
  <2>1. f1.m = "return" /\ f1.code = pc /\ ~(f1.run > 0)
    BY DEF Return
  <2> HIDE DEF f1
  <2>2. Sound(sa, R, holes, runs)
    BY <1>5, <2>1, PushAddress
  <2> QED BY <1>1, <2>2, SeqAppend
<1> HIDE DEF sa, f1
<1>8. Sound(sb, R, holes, runs) /\ IsSeq(sb) /\ Len(sb) = Len(s) + 2 /\ \A j \in 1 .. Len(s) : sb[j] = s[j]
  <2>1. f2.m # "return" /\ (\/ f2.m = "state" /\ f2.frame \in Nat
                            \/ f2.m = "all-state" /\ f2.frame \in Nat /\ f2.regs \in Registers)
    BY <1>1 DEF State, AllState
  <2> HIDE DEF f2
  <2>2. FrameOK(sb, holes, runs, Len(sa) + 1)
    BY <1>7, <2>1, FrameMade
  <2>3. Sound(sb, R, holes, runs)
    BY <1>5, <1>7, <2>1, <2>2, Push1
  <2>4. Len(s) + 1 + 1 = Len(s) + 2 /\ \A j \in 1 .. Len(s) : j \in 1 .. Len(s) + 1
    BY <1>1
  <2> QED BY <1>7, <2>3, <2>4, SeqAppend
<1> HIDE DEF sb, f2
<1>9. /\ IsSeq(sc) /\ Len(sc) = Len(s) + 3
      /\ \A x : Fits(x, holes, runs, Len(s) + 4) => Sound(sc, x, holes, runs)
  <2>1. /\ f3.m = "trap" /\ f3.next = s[s[p].next].next /\ f3.h = s[s[p].next].h
    BY DEF NextInCare, Trap
  <2> HIDE DEF f3
  <2>2. f3.next \in 1 .. Len(sb) /\ sb[f3.next].m = "trap"
    BY <1>1, <1>3, <1>8, <2>1
  <2>3. f3.h \in Handlers => PromptBelow(holes, Len(sb) + 1)
    <3>1. Len(sb) + 1 \in Nat /\ s[p].next <= Len(sb) + 1
      BY <1>1, <1>3, <1>8
    <3> QED BY <1>3, <1>4, <2>1, <3>1
  <2>4. FrameOK(sc, holes, runs, Len(sb) + 1)
    BY <1>8, <2>1, <2>2, <2>3, FrameMade
  <2>5. Len(sb) + 2 = Len(s) + 4 /\ Len(s) + 2 + 1 = Len(s) + 3
    BY <1>1, <1>8
  <2>6. ASSUME NEW x, Fits(x, holes, runs, Len(s) + 4) PROVE Sound(sc, x, holes, runs)
    <3>1. Fits(x, holes, runs, Len(sb) + 2)
      BY <2>5, <2>6
    <3> QED BY <1>5, <1>8, <2>1, <2>4, <3>1, Push1
  <2> QED BY <1>8, <2>5, <2>6, SeqAppend
<1> HIDE DEF sc, f3
<1>10. /\ runs' = runs /\ holes' = holes /\ interactive' = interactive /\ mode' = "run" /\ regs' = Regs(a, func)
       /\ pause' = PauseOf(Len(runs))
       /\ IF h \in Handlers THEN stack' = sd /\ code' = hand /\ frame' = a
                            ELSE stack' = sc /\ code' = prim /\ frame' = frame
  <2>1. s \o <<Return(pc, <<frame, regs>>), AllState(frame, regs)>>
            = Append(Append(s, Return(pc, <<frame, regs>>)), AllState(frame, regs))
    BY <1>1, SeqAppends
  <2>2. s \o <<Return(pc, <<frame>>), State(frame)>>
            = Append(Append(s, Return(pc, <<frame>>)), State(frame))
    BY <1>1, SeqAppends
  <2>3. (IF kind = "signal"
         THEN s \o <<Return(pc, <<frame, regs>>), AllState(frame, regs)>>
         ELSE s \o <<Return(pc, <<frame>>), State(frame)>>) = sb
    BY <2>1, <2>2 DEF sb, sa, f1, f2, w
  <2> QED BY <2>3 DEF Raise, p, sc, f3, back
<1>11. a \in Nat /\ regs' \in Registers
  BY <1>1, <1>9, <1>10 DEF Regs, Registers
<1>12. pause' = 0
  <2>1. RunsOK(s, pc, holes, runs)
    BY DEF Sound
  <2>2. \A r \in 1 .. Len(runs) : runs[r].pause = 0
    BY <2>1 DEF RunsOK, RunOK
  <2>3. Len(runs) # 0 => Len(runs) \in 1 .. Len(runs)
    BY <1>1
  <2> QED BY <1>10, <2>2, <2>3 DEF PauseOf
<1>13. CASE h \in Handlers
  <2>1. Len(s) + 5 \in Nat /\ Len(s) + 4 \in Nat
    BY <1>1
  <2>2. Fits(hand, holes, runs, Len(s) + 5)
    <3>1. Easy(<<"EXPR", a>>)
      BY DEF Easy, InstructionOK
    <3>2. PromptBelow(holes, Len(s) + 5)
      <4>1. p <= Len(s) + 5
        BY <1>1, <1>3
      <4> QED BY <1>3, <1>4, <1>13, <2>1, <4>1
    <3> DEFINE last == IF h \in Returners THEN <<"RETURN">> ELSE <<"TRAP-RETURN", s[p].hole>>
    <3>3. InstructionOK(last) /\ last[1] \in Ends
      BY DEF InstructionOK, Ends
    <3> HIDE DEF last
    <3>4. Fits(<< <<"EXPR", a>>, last>>, holes, runs, Len(s) + 5)
      BY <3>1, <3>2, <3>3, TwoFit
    <3> QED BY <3>4 DEF last
  <2>3. Sound(sc, back, holes, runs)
    BY <1>6, <1>9
  <2>4. Stands(back, holes, runs, Len(sc) + 1)
    BY <1>6 DEF Stands
  <2>5. f4.m = "return" /\ f4.code = back /\ ~(f4.run > 0)
    BY DEF Return
  <2>6. Len(sc) + 2 = Len(s) + 5
    BY <1>1, <1>9
  <2> HIDE DEF f4, hand
  <2>7. Fits(hand, holes, runs, Len(sc) + 2)
    BY <2>2, <2>6
  <2>8. Sound(sd, hand, holes, runs)
    BY <2>3, <2>4, <2>5, <2>7, PushAddress
  <2>9. hand[1][1] # "EVALUATE"
    BY <2>2, Quiet DEF Stands
  <2> QED BY <1>10, <1>11, <1>12, <1>13, <2>8, <2>9 DEF Raised
<1>14. CASE h \notin Handlers
  <2>1. Fits(prim, holes, runs, Len(s) + 4)
    <3>1. Easy(<<"PRIMITIVE", h, c>>)
      BY DEF Easy, InstructionOK
    <3>2. Harmless(<< <<"PRIMITIVE", h, c>> >>)
      BY <3>1, HarmlessShort
    <3> QED BY <1>6, <3>2, MoreFits
  <2> HIDE DEF prim
  <2>2. Sound(sc, prim, holes, runs) /\ prim[1][1] # "EVALUATE"
    BY <1>9, <2>1, Quiet DEF Stands
  <2> QED BY <1>1, <1>10, <1>11, <1>12, <1>14, <2>2 DEF Raised
<1> QED BY <1>13, <1>14

-----------------------------------------------------------------------------
(* The steps.                                                              *)

WellTyped ==
    /\ frame \in Nat /\ regs \in Registers /\ interactive \in BOOLEAN
    /\ bound \in [forms : SUBSET Forms, stack : Nat, file : Nat, signals : Nat]
Steady ==
    /\ mode = "run" /\ WellTyped /\ Sound(stack, code, holes, runs)
    /\ pause = IF code[1][1] = "EVALUATE" THEN 1 ELSE 0
Special == {"ABORT-TOP", "FINISH", "EVALUATE", "PUSH-ABORT"}

(* A sound stack is of the right type.                                     *)
LEMMA SoundTypes ==
    ASSUME NEW s, NEW c, NEW hs, NEW rs, Sound(s, c, hs, rs)
    PROVE  /\ \A i \in DOMAIN s : s[i].m \in Kinds
           /\ \A i \in DOMAIN rs : rs[i].ss0 \in Nat /\ rs[i].pause = 0
<1>1. IsSeq(s) /\ IsSeq(rs) /\ DOMAIN s = 1 .. Len(s) /\ DOMAIN rs = 1 .. Len(rs) /\ Len(s) \in Nat
  BY SoundFacts, SeqLen
<1>2. \A i \in 1 .. Len(s) : s[i].m \in Kinds
  BY DEF Sound, FrameOK
<1>3. \A r \in 1 .. Len(rs) : rs[r].ss0 \in 5 .. Len(s)
  BY SoundFacts
<1>4. \A r \in 1 .. Len(rs) : rs[r].pause = 0
  BY DEF Sound, RunsOK, RunOK
<1> QED BY <1>1, <1>2, <1>3, <1>4

(* What the invariant is while the VM runs.                                *)
LEMMA SteadyHolds ==
    ASSUME Steady
    PROVE  IInv
<1>1. /\ \A i \in DOMAIN stack : stack[i].m \in Kinds
      /\ \A i \in DOMAIN runs : runs[i].ss0 \in Nat /\ runs[i].pause = 0
  BY SoundTypes DEF Steady
<1>2. TypeOK
  BY <1>1 DEF Steady, WellTyped, TypeOK, Kinds
<1>3. PauseBalanced
  BY DEF Steady, PauseBalanced, At
<1> QED BY <1>2, <1>3 DEF IInv, Steady

(* The same after a step.                                                  *)
LEMMA SteadyNext ==
    ASSUME Steady'
    PROVE  IInv'
<1>1. /\ \A i \in DOMAIN stack' : stack'[i].m \in Kinds
      /\ \A i \in DOMAIN runs' : runs'[i].ss0 \in Nat /\ runs'[i].pause = 0
  BY SoundTypes DEF Steady
<1>2. TypeOK'
  BY <1>1 DEF Steady, WellTyped, TypeOK, Kinds
<1>3. PauseBalanced'
  BY DEF Steady, PauseBalanced, At
<1> QED BY <1>2, <1>3 DEF IInv, Steady

(* While the VM runs and is not about to exit.                             *)
LEMMA AtSteady ==
    ASSUME IInv, mode = "run", code[1][1] # "EXIT" \/ runs # << >>
    PROVE  Steady
<1>1. Sound(stack, code, holes, runs) \/ Leaving(stack, code, holes, runs)
  BY DEF IInv
<1>2. ~Leaving(stack, code, holes, runs)
  BY DEF Leaving
<1>3. WellTyped /\ pause = IF code[1][1] = "EVALUATE" THEN 1 ELSE 0
  BY DEF IInv, TypeOK, WellTyped, PauseBalanced, At
<1> QED BY <1>1, <1>2, <1>3 DEF Steady

(* The code running is an activation's.                                    *)
LEMMA Ordinary ==
    ASSUME Steady, code[1][1] \notin Special
    PROVE  /\ Fits(code, holes, runs, Len(stack) + 1) /\ code # TOP /\ code # FIN
           /\ pause = 0
           /\ IsSeq(stack) /\ Len(stack) \in Nat /\ Len(stack) >= 5
           /\ IsSeq(holes) /\ Len(holes) \in Nat /\ IsSeq(runs) /\ Len(runs) \in Nat
           /\ code[1][1] \notin Ends => Fits(Rest, holes, runs, Len(stack) + 1)
<1>1. Fits(code, holes, runs, Len(stack) + 1) /\ code # TOP /\ code # FIN
  BY Running DEF Steady, Special
<1>2. pause = 0
  BY DEF Steady, Special
<1>3. /\ IsSeq(stack) /\ Len(stack) \in Nat /\ Len(stack) >= 5
      /\ IsSeq(holes) /\ Len(holes) \in Nat /\ IsSeq(runs) /\ Len(runs) \in Nat
  BY SoundFacts DEF Steady
<1>4. code[1][1] \notin Ends => Fits(Rest, holes, runs, Len(stack) + 1)
  BY <1>1, RestFits DEF Rest
<1> QED BY <1>1, <1>2, <1>3, <1>4

(* Steps that only change the code.                                        *)
LEMMA Recoded ==
    ASSUME Steady, code[1][1] \notin Special, Fits(code', holes, runs, Len(stack) + 1),
           UNCHANGED <<stack, frame, regs, holes, runs, pause, interactive, bound, mode>>
    PROVE  Steady'
<1>1. Sound(stack, code', holes, runs)
  BY Ordinary, Continue DEF Steady
<1>2. code'[1][1] # "EVALUATE"
  BY Quiet DEF Stands
<1> QED BY <1>1, <1>2, Ordinary DEF Steady, WellTyped

(* Harmless codes joined.                                                  *)
LEMMA HarmlessJoin ==
    ASSUME NEW t, NEW u, Harmless(t), Harmless(u)
    PROVE  Harmless(t \o u)
<1> DEFINE v == t \o u
<1>1. IsSeq(t) /\ IsSeq(u) /\ Len(t) \in Nat /\ Len(u) \in Nat
  BY SeqLen DEF Harmless
<1>2. /\ IsSeq(v) /\ Len(v) = Len(t) + Len(u)
      /\ \A j \in 1 .. Len(t) : v[j] = t[j]
      /\ \A j \in 1 .. Len(u) : v[Len(t) + j] = u[j]
      /\ \A j \in 1 .. Len(t) + Len(u) : j <= Len(t) \/ \E l \in 1 .. Len(u) : j = Len(t) + l
  BY <1>1, SeqConcat
<1> HIDE DEF v
<1>3. ASSUME NEW j \in 1 .. Len(v) PROVE Easy(v[j])
  <2>1. CASE j \in 1 .. Len(t)
    BY <1>2, <2>1 DEF Harmless
  <2>2. CASE j \notin 1 .. Len(t)
    <3>1. PICK l \in 1 .. Len(u) : j = Len(t) + l
      BY <1>1, <1>2, <2>2
    <3> QED BY <1>2, <3>1 DEF Harmless
  <2> QED BY <2>1, <2>2
<1>4. Harmless(v)
  BY <1>2, <1>3 DEF Harmless
<1> QED BY <1>4 DEF v

(* What the evaluator makes of an expression.                              *)
LEMMA ExpandSteps ==
    ASSUME IInv, Value \/ Application \/ TrapForm \/ DynamicForm \/ LoadForm
    PROVE  Steady'
<1>1. At("EXPR")
  BY DEF Value, Application, TrapForm, DynamicForm, LoadForm, Expands
<1>2. Steady /\ code[1][1] \notin Special /\ code[1][1] \notin Ends
  BY <1>1, AtSteady DEF At, Special, Ends
<1>3. ASSUME NEW to, Harmless(to), Expands(to) PROVE Steady'
  <2>1. Fits(to \o Rest, holes, runs, Len(stack) + 1)
    BY <1>2, <1>3, Ordinary, MoreFits
  <2>2. code' = to \o Rest
    BY <1>3 DEF Expands
  <2> QED BY <1>2, <1>3, <2>1, <2>2, Recoded DEF Expands
<1>4. Harmless(Reference)
  <2>1. Easy(<<"REF", Self>>)
    BY DEF Easy, InstructionOK
  <2> QED BY <2>1, HarmlessShort DEF Reference
<1>5. ASSUME NEW x, NEW y, NEW z, Easy(x), Easy(y), Easy(z)
      PROVE  Harmless(<<x, y, z>> \o Reference) /\ Harmless(<<x, y, z>>)
  BY <1>4, <1>5, HarmlessShort, HarmlessJoin
<1>6. CASE Value
  BY <1>3, <1>6, HarmlessShort DEF Value
<1>7. Easy(<<"PRESERVE-STATE">>) /\ Easy(<<"RESTORE-STATE">>)
  BY DEF Easy, InstructionOK
<1>8. CASE Application
  <2>1. Easy(<<"CALL">>)
    BY DEF Easy, InstructionOK
  <2> QED BY <1>3, <1>5, <1>7, <1>8, <2>1 DEF Application
<1>9. CASE TrapForm
  <2>1. PICK form \in TrapForms, h \in Handlers :
            Expands(<< <<"PRESERVE-STATE">>, <<"PROMPT", form, h>>, <<"RESTORE-STATE">> >> \o Reference)
    BY <1>9 DEF TrapForm
  <2>2. Easy(<<"PROMPT", form, h>>)
    BY DEF Easy, InstructionOK
  <2> QED BY <1>3, <1>5, <1>7, <2>1, <2>2
<1>10. CASE DynamicForm
  <2>1. PICK v \in Vars :
            Expands(<< <<"PUSH-DYNAMIC", v>>, <<"EXPR", Self>>, <<"POP-DYNAMIC">> >>)
    BY <1>10 DEF DynamicForm
  <2>2. Easy(<<"PUSH-DYNAMIC", v>>) /\ Easy(<<"EXPR", Self>>) /\ Easy(<<"POP-DYNAMIC">>)
    BY DEF Easy, InstructionOK
  <2> QED BY <1>3, <1>5, <2>1, <2>2
<1>11. CASE LoadForm
  <2>1. Easy(<<"LOAD-FILE">>)
    BY DEF Easy, InstructionOK
  <2> QED BY <1>3, <1>5, <1>7, <1>11, <2>1 DEF LoadForm
<1> QED BY <1>6, <1>8, <1>9, <1>10, <1>11

(* A reference changes the code only.                                      *)
LEMMA RefSteady ==
    ASSUME IInv, Ref
    PROVE  Steady'
<1>1. Steady /\ code[1][1] \notin Special /\ code[1][1] \notin Ends /\ code' = Rest
  BY AtSteady DEF Ref, At, Special, Ends
<1>2. Fits(code', holes, runs, Len(stack) + 1)
  BY <1>1, Ordinary
<1> QED BY <1>1, <1>2, Recoded DEF Ref

(* What stands above a sound stack also stands a frame higher.             *)
LEMMA Above ==
    ASSUME NEW s, NEW c, NEW hs, NEW rs, Sound(s, c, hs, rs), NEW x, Fits(x, hs, rs, Len(s) + 1)
    PROVE  /\ Fits(x, hs, rs, Len(s) + 2)
           /\ PromptBelow(hs, Len(s) + 1) => PromptBelow(hs, Len(s) + 2)
<1>1. Len(s) \in Nat /\ IsSeq(hs) /\ IsSeq(rs) /\ Len(hs) \in Nat
  BY SoundFacts
<1>2. \A j \in 1 .. Len(hs) : HolePos(hs, j) \in 6 .. Len(s) + 1
  BY SoundFacts
<1>3. \A r \in 1 .. Len(rs) : rs[r].ss0 \in 5 .. Len(s)
  BY SoundFacts
<1>4. Len(s) + 1 \in Nat /\ Len(s) + 2 \in Nat /\ Len(s) + 1 <= Len(s) + 2
  BY <1>1
<1>5. /\ \A j \in 1 .. Len(hs) : HolePos(hs, j) \in Nat
      /\ \A r \in 1 .. Len(rs) : rs[r].ss0 \in Nat
  BY <1>1, <1>2, <1>3
<1>6. Fits(x, hs, rs, Len(s) + 2)
  BY <1>1, <1>4, <1>5, Higher
<1>7. PromptBelow(hs, Len(s) + 1) => PromptBelow(hs, Len(s) + 2)
  <2>1. hs # << >> => Len(hs) # 0
    <3>1. PICK S : hs \in Seq(S)
      BY <1>1 DEF IsSeq
    <3> QED BY <3>1
  <2>2. hs # << >> => HolePos(hs, 1) \in Nat
    BY <1>1, <1>5, <2>1
  <2> QED BY <1>1, <2>2 DEF PromptBelow
<1> QED BY <1>6, <1>7

(* The registers as a closure, a primitive or a continuation finds them.   *)
LEMMA CallableTyped ==
    ASSUME WellTyped
    PROVE  Callable \in Registers
BY DEF WellTyped, Callable, Regs, Registers

(* A frame that is not an address is pushed.                               *)
LEMMA Pushed ==
    ASSUME Steady, code[1][1] \notin Special, NEW f, Push(f), f.m # "return",
           \/ f.m = "value"
           \/ f.m = "state" /\ f.frame \in Nat
           \/ f.m = "dynamic" /\ f.next = FindMarker(stack, "dynamic")
           \/ /\ f.m = "trap" /\ f.next \in 1 .. Len(stack) /\ stack[f.next].m = "trap"
              /\ f.h \in Handlers => PromptBelow(holes, Len(stack) + 1),
           Fits(code', holes, runs, Len(stack) + 1), frame' \in Nat, regs' \in Registers
    PROVE  Steady'
<1>1. /\ IsSeq(stack) /\ Len(stack) \in Nat /\ IsSeq(holes) /\ IsSeq(runs)
      /\ code # TOP /\ code # FIN /\ pause = 0
  BY Ordinary
<1>2. Fits(code', holes, runs, Len(stack) + 2)
  BY Above DEF Steady
<1>3. FrameOK(Append(stack, f), holes, runs, Len(stack) + 1)
  BY <1>1, FrameMade
<1>4. Sound(Append(stack, f), code', holes, runs)
  BY <1>1, <1>2, <1>3, Push1 DEF Steady
<1>5. code'[1][1] # "EVALUATE"
  BY Quiet DEF Stands
<1> QED BY <1>1, <1>4, <1>5 DEF Steady, WellTyped, Push

(* The instructions that push a frame that is not an address.              *)
LEMMA PushSteps ==
    ASSUME IInv, PreserveState \/ LoadFile \/ PushTrap \/ PushDynamic
    PROVE  Steady'
<1>1. /\ Steady /\ code[1][1] \notin Special /\ code[1][1] \notin Ends
      /\ frame' = frame /\ regs' \in {regs, Callable}
  BY AtSteady DEF PreserveState, LoadFile, PushTrap, PushDynamic, At, Special, Ends
<1>2. frame' \in Nat /\ regs' \in Registers
  BY <1>1, CallableTyped DEF Steady, WellTyped
<1>3. Fits(Rest, holes, runs, Len(stack) + 1)
  BY <1>1, Ordinary
<1>4. CASE PreserveState
  <2> DEFINE f == State(frame)
  <2>1. Push(f) /\ code' = Rest /\ f.m = "state" /\ f.frame \in Nat
    BY <1>1, <1>4 DEF PreserveState, State, Steady, WellTyped
  <2> HIDE DEF f
  <2> QED BY <1>1, <1>2, <1>3, <2>1, Pushed
<1>5. CASE LoadFile
  <2> DEFINE f == Handle
  <2>1. Push(f) /\ code' = << <<"LOAD", bound.file>> >> \o Rest /\ f.m = "value"
    BY <1>5 DEF LoadFile, Handle
  <2> HIDE DEF f
  <2>2. Easy(<<"LOAD", bound.file>>)
    BY DEF Easy, InstructionOK
  <2>3. Fits(code', holes, runs, Len(stack) + 1)
    BY <1>3, <2>1, <2>2, HarmlessShort, MoreFits
  <2> QED BY <1>1, <1>2, <2>1, <2>3, Pushed
<1>6. CASE PushTrap
  <2> DEFINE f == Trap(FindMarker(stack, "trap"), code[1][2], code[1][3],
                       Len(stack) + 1 - code[1][4], 0, Len(holes))
  <2>1. Push(f) /\ code' = Rest /\ f.m = "trap" /\ f.next = FindMarker(stack, "trap")
    BY <1>6 DEF PushTrap, Trap
  <2> HIDE DEF f
  <2>2. f.next \in 1 .. Len(stack) /\ stack[f.next].m = "trap"
    <3>1. 1 \in Positions(stack, "trap")
      BY <1>1, Chains DEF Steady
    <3>2. IsSeq(stack) /\ Len(stack) \in Nat /\ DOMAIN stack = 1 .. Len(stack)
      BY <1>1, Ordinary, SeqLen
    <3>3. 1 \in 1 .. Len(stack) /\ stack[1].m = "trap"
      BY <3>1, <3>2 DEF Positions
    <3>4. FindMarker(stack, "trap") \in 0 .. Len(stack) /\ FindMarker(stack, "trap") # 0
          /\ stack[FindMarker(stack, "trap")].m = "trap"
      BY <3>2, <3>3, Marker
    <3> QED BY <2>1, <3>2, <3>4
  <2>3. PromptBelow(holes, Len(stack) + 1)
    <3>1. Fits(code, holes, runs, Len(stack) + 1) /\ IsSeq(code) /\ code # << >>
      BY <1>1, Ordinary DEF Fits, Plain
    <3>2. 1 \in 1 .. Len(code)
      <4>1. PICK S : code \in Seq(S)
        BY <3>1 DEF IsSeq
      <4> QED BY <3>1, <4>1
    <3>3. Has(code, {"TRAP-RETURN", "PUSH-TRAP"})
      BY <1>6, <3>2 DEF Has, PushTrap, At
    <3> QED BY <3>1, <3>3 DEF Fits
  <2> QED BY <1>1, <1>2, <1>3, <2>1, <2>2, <2>3, Pushed
<1>7. CASE PushDynamic
  <2> DEFINE f == Dynamic(FindMarker(stack, "dynamic"), code[1][2])
  <2>1. Push(f) /\ code' = Rest /\ f.m = "dynamic" /\ f.next = FindMarker(stack, "dynamic")
    BY <1>7 DEF PushDynamic, Dynamic
  <2> HIDE DEF f
  <2> QED BY <1>1, <1>2, <1>3, <2>1, Pushed
<1> QED BY <1>4, <1>5, <1>6, <1>7

(* The VM panics: only its types are left.                                 *)
LEMMA Panics ==
    ASSUME Steady, mode' = "panic", stack' = stack \/ stack' = Front(stack),
           UNCHANGED <<holes, runs, pause, interactive, bound>>, frame' \in Nat, regs' \in Registers
    PROVE  IInv'
<1>1. /\ IsSeq(stack) /\ Len(stack) \in Nat /\ Len(stack) >= 5 /\ DOMAIN stack = 1 .. Len(stack)
      /\ \A i \in DOMAIN stack : stack[i].m \in Kinds
      /\ \A i \in DOMAIN runs : runs[i].ss0 \in Nat /\ runs[i].pause = 0
  <2>1. IsSeq(stack) /\ Len(stack) \in Nat /\ Len(stack) >= 5
    BY SoundFacts DEF Steady
  <2> QED BY <2>1, SoundTypes, SeqLen DEF Steady
<1>2. \A i \in DOMAIN stack' : stack'[i].m \in Kinds
  <2>1. CASE stack' = Front(stack)
    <3> DEFINE n == Len(stack) - 1
               t == SubSeq(stack, 1, n)
    <3>1. n \in 0 .. Len(stack)
      BY <1>1
    <3>2. IsSeq(t) /\ Len(t) = n /\ \A i \in 1 .. n : t[i] = stack[i]
      BY <1>1, <3>1, SeqCut
    <3>3. stack' = t
      BY <2>1 DEF Front
    <3> HIDE DEF t
    <3>4. DOMAIN t = 1 .. n
      BY <3>2, SeqLen
    <3> QED BY <1>1, <3>2, <3>3, <3>4
  <2> QED BY <1>1, <2>1
<1>3. pause' \in Nat
  BY DEF Steady
<1>4. TypeOK'
  BY <1>1, <1>2, <1>3 DEF Steady, WellTyped, TypeOK, Kinds
<1> QED BY <1>4 DEF IInv

(* A frame that is not an address is popped.                               *)
LEMMA PopSound ==
    ASSUME Steady, code[1][1] \notin Special, NEW m, Top.m = m, m # "return",
           m = "abort" => RunBelow(runs, Len(stack) + 1),
           NEW c2, Fits(c2, holes, runs, Len(stack) + 1)
    PROVE  Sound(Front(stack), c2, holes, runs) /\ Len(stack) >= 6
<1>1. /\ IsSeq(stack) /\ Len(stack) \in Nat /\ Len(stack) >= 5 /\ IsSeq(runs) /\ Len(runs) \in Nat
      /\ code # TOP /\ code # FIN
  BY Ordinary
<1>2. Len(stack) # 5
  <2> SUFFICES ASSUME Len(stack) = 5 PROVE FALSE
    OBVIOUS
  <2>1. Len(Base) = 5 /\ Base[5].m = "abort"
    BY DEF Base, Abort
  <2>2. stack[5] = Base[5]
    BY <2>1 DEF Steady, Sound
  <2>3. m = "abort"
    BY <2>1, <2>2 DEF Top
  <2>4. Len(runs) # 0
    <3>1. PICK S : runs \in Seq(S)
      BY <1>1 DEF IsSeq
    <3> QED BY <2>3, <3>1 DEF RunBelow
  <2>5. 1 \in 1 .. Len(runs)
    BY <1>1, <2>4
  <2>6. \A r \in 1 .. Len(runs) : runs[r].ss0 \in 5 .. Len(stack)
    BY SoundFacts DEF Steady
  <2>7. runs[1].ss0 + 1 < 6 /\ runs[1].ss0 \in 5 .. 5
    BY <2>3, <2>5, <2>6 DEF RunBelow
  <2> QED BY <2>7
<1> DEFINE n == Len(stack) - 1
<1>3. /\ n \in 5 .. Len(stack) /\ Len(stack) = n + 1 /\ Len(stack) # Len(stack) + 1 /\ Len(stack) >= 6
      /\ \A p \in n + 1 .. Len(stack) + 1 : p = Len(stack) \/ p = Len(stack) + 1
  <2> DEFINE l == Len(stack)
  <2>1. l \in Nat /\ l >= 5 /\ l # 5 /\ n = l - 1
    BY <1>1, <1>2
  <2> HIDE DEF l, n
  <2>2. n \in 5 .. l /\ l = n + 1 /\ l # l + 1 /\ l >= 6 /\ \A p \in n + 1 .. l + 1 : p = l \/ p = l + 1
    BY <2>1
  <2> QED BY <2>2 DEF l
<1>4. CodeAt(stack, code, Len(stack)) = << >> /\ CodeAt(stack, code, Len(stack) + 1) = code
  BY <1>3 DEF CodeAt, Top
<1>5. << >> # TOP /\ << >> # FIN
  <2>1. Len(TOP) = 1 /\ Len(FIN) = 1
    BY DEF TOP, FIN
  <2> QED BY <2>1
<1>6. \A p \in n + 1 .. Len(stack) + 1 : CodeAt(stack, code, p) # TOP /\ CodeAt(stack, code, p) # FIN
  BY <1>1, <1>3, <1>4, <1>5
<1> HIDE DEF n
<1>7. Sound(SubSeq(stack, 1, n), c2, holes, runs)
  BY <1>3, <1>6, Drop DEF Steady
<1> QED BY <1>3, <1>7 DEF Front, n

(* The top frame holds registers that are well typed, or code that may     *)
(* stand there.                                                            *)
LEMMA TopKept ==
    ASSUME Steady
    PROVE  /\ Top.m \in {"state", "all-state"} => Top.frame \in Nat
           /\ Top.m = "all-state" => Top.regs \in Registers
           /\ Top.m = "return" => Stands(Top.code, holes, runs, Len(stack))
<1>1. Len(stack) \in Nat /\ Len(stack) >= 5
  BY SoundFacts DEF Steady
<1>2. Len(stack) \in 1 .. Len(stack)
  BY <1>1
<1>3. FrameOK(stack, holes, runs, Len(stack))
  BY <1>2 DEF Steady, Sound
<1> QED BY <1>3 DEF FrameOK, SavedOK, ReturnOK, Top

(* The instructions that pop a frame that is not an address.               *)
LEMMA PopSteps ==
    ASSUME IInv, PopAbort \/ RestoreState \/ RestoreAllState \/ PopTrap \/ PopDynamic
    PROVE  IInv'
<1> DEFINE m == CASE At("POP-ABORT") -> "abort"
                  [] At("RESTORE-STATE") -> "state"
                  [] At("RESTORE-ALL-STATE") -> "all-state"
                  [] At("POP-TRAP") -> "trap"
                  [] At("POP-DYNAMIC") -> "dynamic"
<1>1. /\ Steady /\ code[1][1] \notin Special /\ code[1][1] \notin Ends
      /\ code[1][1] \in {"POP-ABORT", "RESTORE-STATE", "RESTORE-ALL-STATE", "POP-TRAP", "POP-DYNAMIC"}
      /\ code' = Rest
  BY AtSteady DEF PopAbort, RestoreState, RestoreAllState, PopTrap, PopDynamic, At, Special, Ends
<1>2. Popped(m) /\ m \in {"abort", "state", "all-state", "trap", "dynamic"}
      /\ (m = "abort" <=> code[1][1] = "POP-ABORT")
  BY DEF PopAbort, RestoreState, RestoreAllState, PopTrap, PopDynamic, At
<1>3. frame' \in Nat /\ regs' \in Registers
  <2>1. frame' = frame \/ (Top.m \in {"state", "all-state"} /\ frame' = Top.frame)
    BY DEF PopAbort, RestoreState, RestoreAllState, PopTrap, PopDynamic
  <2>2. regs' = regs \/ (Top.m = "all-state" /\ regs' = Top.regs)
    BY DEF PopAbort, RestoreState, RestoreAllState, PopTrap, PopDynamic
  <2> QED BY <1>1, <2>1, <2>2, TopKept DEF Steady, WellTyped
<1> HIDE DEF m
<1>4. Fits(Rest, holes, runs, Len(stack) + 1) /\ pause = 0
  BY <1>1, Ordinary
<1>5. CASE Top.m = m
  <2>1. m = "abort" => RunBelow(runs, Len(stack) + 1)
    <3>1. Fits(code, holes, runs, Len(stack) + 1) /\ IsSeq(code) /\ code # << >>
      BY <1>1, Ordinary DEF Fits, Plain
    <3>2. 1 \in 1 .. Len(code)
      <4>1. PICK S : code \in Seq(S)
        BY <3>1 DEF IsSeq
      <4> QED BY <3>1, <4>1
    <3> QED BY <1>2, <3>1, <3>2 DEF Fits, Has
  <2>3. Sound(Front(stack), Rest, holes, runs)
    BY <1>1, <1>2, <1>4, <1>5, <2>1, PopSound
  <2>4. Rest[1][1] # "EVALUATE"
    BY <1>4, Quiet DEF Stands
  <2>5. Steady'
    BY <1>1, <1>2, <1>3, <1>4, <1>5, <2>3, <2>4 DEF Steady, WellTyped, Popped
  <2> QED BY <2>5, SteadyNext
<1>6. CASE Top.m # m
  BY <1>1, <1>2, <1>3, <1>6, Panics DEF Popped
<1> QED BY <1>5, <1>6

(* A return to the address on top.                                         *)
LEMMA ReturnStep ==
    ASSUME IInv, ReturnFrom
    PROVE  IInv'
<1>1. Steady /\ code[1][1] \notin Special /\ frame' = frame /\ regs' = regs /\ Popped("return")
  BY AtSteady DEF ReturnFrom, At, Special
<1>2. CASE Top.m = "return"
  <2>1. /\ IsSeq(stack) /\ Len(stack) \in Nat /\ Len(stack) >= 5 /\ code # TOP /\ code # FIN
        /\ pause = 0
    BY <1>1, Ordinary
  <2>2. Len(stack) # 5
    <3>1. Len(Base) = 5 /\ Base[5].m = "abort"
      BY DEF Base, Abort
    <3>2. Len(stack) = 5 => stack[5] = Base[5]
      BY <1>1, <3>1 DEF Steady, Sound
    <3> QED BY <1>2, <3>1, <3>2 DEF Top
  <2> DEFINE n == Len(stack) - 1
  <2>3. /\ n \in 5 .. Len(stack) - 1 /\ n + 1 = Len(stack)
        /\ \A p \in n + 2 .. Len(stack) + 1 : p = Len(stack) + 1
    <3> DEFINE l == Len(stack)
    <3>1. l \in Nat /\ l >= 5 /\ l # 5 /\ n = l - 1
      BY <2>1, <2>2
    <3> HIDE DEF l, n
    <3>2. n \in 5 .. l - 1 /\ n + 1 = l /\ \A p \in n + 2 .. l + 1 : p = l + 1
      BY <3>1
    <3> QED BY <3>2 DEF l
  <2>4. \A p \in n + 2 .. Len(stack) + 1 : CodeAt(stack, code, p) # TOP /\ CodeAt(stack, code, p) # FIN
    BY <2>1, <2>3 DEF CodeAt
  <2>5. stack[n + 1].m = "return"
    BY <1>2, <2>3 DEF Top
  <2> HIDE DEF n
  <2>6. Sound(SubSeq(stack, 1, n), stack[n + 1].code, holes, runs)
    BY <1>1, <2>3, <2>4, <2>5, Back DEF Steady
  <2>7. Sound(Front(stack), Top.code, holes, runs)
    BY <2>3, <2>6 DEF Front, Top, n
  <2>8. Top.code[1][1] # "EVALUATE"
    BY <1>1, <1>2, TopKept, Quiet
  <2>9. Steady'
    BY <1>1, <1>2, <2>1, <2>7, <2>8 DEF Steady, WellTyped, Popped, ReturnFrom
  <2> QED BY <2>9, SteadyNext
<1>3. CASE Top.m # "return"
  <2>1. frame' \in Nat /\ regs' \in Registers
    BY <1>1 DEF Steady, WellTyped
  <2> QED BY <1>1, <1>3, <2>1, Panics DEF Popped
<1> QED BY <1>2, <1>3

(* The handle comes off the stack.                                         *)
LEMMA LoadEndsStep ==
    ASSUME IInv, LoadEnds
    PROVE  Steady'
<1>1. Steady /\ code[1][1] \notin Special /\ code[1][1] \notin Ends /\ code' = Rest
  BY AtSteady DEF LoadEnds, At, Special, Ends
<1>2. Fits(Rest, holes, runs, Len(stack) + 1) /\ pause = 0 /\ code # TOP /\ code # FIN
  BY <1>1, Ordinary
<1>3. Rest[1][1] # "EVALUATE"
  BY <1>2, Quiet DEF Stands
<1>4. Sound(stack', Rest, holes, runs)
  <2>1. CASE Top.m = "value"
    BY <1>1, <1>2, <2>1, PopSound DEF LoadEnds
  <2>2. CASE Top.m # "value"
    BY <1>1, <1>2, <2>2, Continue DEF LoadEnds, Steady
  <2> QED BY <2>1, <2>2
<1> QED BY <1>1, <1>2, <1>3, <1>4 DEF Steady, WellTyped, LoadEnds

(* An address of an activation is pushed.                                  *)
LEMMA CallStep ==
    ASSUME IInv, Call
    PROVE  Steady'
<1>1. Steady /\ code[1][1] \notin Special /\ code[1][1] \notin Ends
  BY AtSteady DEF Call, At, Special, Ends
<1>2. /\ Fits(Rest, holes, runs, Len(stack) + 1) /\ pause = 0 /\ code # TOP /\ code # FIN
      /\ Len(stack) \in Nat
  BY <1>1, Ordinary
<1> DEFINE f == Return(Rest, << >>)
           a == Len(stack) + 1
           c2 == << <<"EXPR", a>>, <<"RETURN">> >>
<1>3. f.m = "return" /\ f.code = Rest /\ ~(f.run > 0) /\ Push(f) /\ code' = c2 /\ frame' = a
      /\ regs' = Regs(a, TRUE)
  BY DEF Call, Return
<1> HIDE DEF f
<1>4. Fits(c2, holes, runs, Len(stack) + 2)
  <2>1. Easy(<<"EXPR", a>>)
    BY DEF Easy, InstructionOK
  <2> QED BY <2>1, TwoFit DEF InstructionOK, Ends
<1> HIDE DEF c2
<1>5. Sound(stack, Rest, holes, runs)
  BY <1>1, <1>2, Continue DEF Steady
<1>6. Sound(Append(stack, f), c2, holes, runs)
  BY <1>2, <1>3, <1>4, <1>5, PushAddress DEF Stands
<1>7. c2[1][1] # "EVALUATE"
  BY <1>4, Quiet DEF Stands
<1>8. regs' \in Registers /\ a \in Nat
  BY <1>2, <1>3 DEF Regs, Registers
<1> QED BY <1>1, <1>2, <1>3, <1>6, <1>7, <1>8 DEF Steady, WellTyped, Push

(* A value that cannot be invoked is about to be.                          *)
LEMMA PopFunctionStep ==
    ASSUME IInv, PopFunction
    PROVE  Steady'
<1>1. Steady /\ code[1][1] \notin Special /\ code[1][1] \notin Ends
  BY AtSteady DEF PopFunction, At, Special, Ends
<1>2. Fits(Rest, holes, runs, Len(stack) + 1) /\ pause = 0 /\ code # TOP /\ code # FIN
  BY <1>1, Ordinary
<1>3. Fits(code', holes, runs, Len(stack) + 1)
  <2>1. Easy(<<"FUNCTION-INVOKE">>)
    BY DEF Easy, InstructionOK
  <2> QED BY <1>2, <2>1, HarmlessShort, MoreFits DEF PopFunction
<1>4. Sound(stack, code', holes, runs)
  BY <1>1, <1>2, <1>3, Continue DEF Steady
<1>5. code'[1][1] # "EVALUATE"
  BY <1>3, Quiet DEF Stands
<1>6. regs' \in Registers
  BY <1>1 DEF PopFunction, Steady, WellTyped, Regs, Registers
<1>7. UNCHANGED <<stack, frame, holes, runs, pause, interactive, bound, mode>>
  BY DEF PopFunction
<1> QED BY <1>1, <1>2, <1>4, <1>5, <1>6, <1>7 DEF Steady, WellTyped

-----------------------------------------------------------------------------
(* Continuations.                                                          *)

(* A hole's, or an ABORT's, is restored.                                   *)
LEMMA RestoreStep ==
    ASSUME Steady, NEW k, NEW r \in Registers, Restore(k, r),
           \/ \E i \in 6 .. Len(stack) + 1 : ContinuationOK(k, stack, holes, runs, i)
           \/ k = MainK
    PROVE  IInv'
<1>1. IsSeq(runs) /\ Len(runs) \in Nat /\ Len(stack) \in Nat
  BY SoundFacts DEF Steady
<1>2. CASE \E i \in 6 .. Len(stack) + 1 : ContinuationOK(k, stack, holes, runs, i)
  <2>1. PICK i \in 6 .. Len(stack) + 1 : ContinuationOK(k, stack, holes, runs, i)
    BY <1>2
  <2>2. Sound(k.stack, k.code, k.holes, SubSeq(runs, 1, k.run))
    BY <2>1, Restored DEF Steady
  <2>3. k.run \in 0 .. Len(runs) /\ Fits(k.code, holes, runs, i) /\ k.frame \in Nat
    BY <2>1 DEF ContinuationOK, RunsBelow
  <2>4. PauseOf(k.run) = 0
    <3>1. k.run # 0 => k.run \in 1 .. Len(runs)
      BY <1>1, <2>3
    <3>2. \A j \in 1 .. Len(runs) : runs[j].pause = 0
      BY DEF Steady, Sound, RunsOK, RunOK
    <3> QED BY <3>1, <3>2 DEF PauseOf
  <2>5. k.code[1][1] # "EVALUATE"
    BY <2>3, Quiet DEF Stands
  <2>6. Steady'
    BY <2>2, <2>3, <2>4, <2>5 DEF Restore, Steady, WellTyped
  <2> QED BY <2>6, SteadyNext
<1>3. CASE k = MainK
  <2>1. /\ stack' = << >> /\ code' = << <<"EXIT">> >> /\ frame' = 0 /\ holes' = << >>
        /\ runs' = SubSeq(runs, 1, 0) /\ pause' = PauseOf(0)
        /\ regs' = r /\ UNCHANGED <<interactive, bound, mode>>
    BY <1>3 DEF Restore, MainK
  <2>2. runs' = << >>
    <3>1. 0 \in 0 .. Len(runs)
      BY <1>1
    <3>2. IsSeq(SubSeq(runs, 1, 0)) /\ Len(SubSeq(runs, 1, 0)) = 0
      BY <1>1, <3>1, SeqCut
    <3>3. \A i \in 1 .. 0 : SubSeq(runs, 1, 0)[i] = << >>[i]
      OBVIOUS
    <3>4. SubSeq(runs, 1, 0) = << >>
      BY <3>2, <3>3, SeqShort, SeqSame
    <3> QED BY <2>1, <3>4
  <2>3. pause' = 0
    BY <2>1 DEF PauseOf
  <2>4. code'[1][1] = "EXIT"
    BY <2>1
  <2>5. TypeOK'
    <3>1. DOMAIN << >> = {}
      OBVIOUS
    <3>2. \A i \in DOMAIN stack' : FALSE
      BY <2>1, <3>1
    <3>3. \A i \in DOMAIN runs' : FALSE
      BY <2>2, <3>1
    <3> QED BY <2>1, <2>3, <3>2, <3>3 DEF TypeOK, Steady, WellTyped
  <2>6. PauseBalanced'
    BY <2>3, <2>4 DEF PauseBalanced, At
  <2>7. Leaving(stack, code, holes, runs)'
    BY <2>1, <2>2 DEF Leaving
  <2> QED BY <2>5, <2>6, <2>7 DEF IInv
<1> QED BY <1>2, <1>3

(* The end of a prompt, and a handler's trap-return.                       *)
LEMMA HoleThere ==
    ASSUME Steady, code[1][1] \in {"ABORT-TOP", "TRAP-RETURN"}
    PROVE  /\ holes # << >> /\ Len(holes) \in 1 .. Len(holes)
           /\ \E i \in 6 .. Len(stack) + 1 :
                  ContinuationOK(holes[Len(holes)], stack, holes, runs, i)
<1>1. /\ IsSeq(stack) /\ Len(stack) \in Nat /\ IsSeq(holes) /\ Len(holes) \in Nat
      /\ CodeAt(stack, code, Len(stack) + 1) = code
  BY SoundFacts DEF Steady
<1>2. Len(holes) # 0
  <2>1. CASE code[1][1] = "ABORT-TOP"
    <3>1. code = TOP
      BY <2>1, Running DEF Steady
    <3>2. Len(stack) + 1 \in 1 .. Len(stack) + 1
      BY <1>1
    <3>3. \E j \in 1 .. Len(holes) : HolePos(holes, j) = Len(stack) + 1
      BY <1>1, <3>1, <3>2 DEF Steady, Sound, HolesOK
    <3> QED BY <1>1, <3>3
  <2>2. CASE code[1][1] = "TRAP-RETURN"
    <3>1. Fits(code, holes, runs, Len(stack) + 1)
      BY <2>2, Ordinary DEF Special
    <3>2. IsSeq(code) /\ code # << >>
      BY <3>1 DEF Fits, Plain
    <3>3. 1 \in 1 .. Len(code)
      <4>1. PICK S : code \in Seq(S)
        BY <3>2 DEF IsSeq
      <4> QED BY <3>2, <4>1
    <3>4. Has(code, {"TRAP-RETURN", "PUSH-TRAP"})
      BY <2>2, <3>3 DEF Has
    <3>5. holes # << >>
      BY <3>1, <3>4 DEF Fits, PromptBelow
    <3>6. PICK S : holes \in Seq(S)
      BY <1>1 DEF IsSeq
    <3> QED BY <3>5, <3>6
  <2> QED BY <2>1, <2>2
<1>3. Len(holes) \in 1 .. Len(holes)
  BY <1>1, <1>2
<1>4. holes # << >>
  BY <1>2, SeqShort
<1>5. HoleOK(stack, code, holes, runs, Len(holes))
  BY <1>3 DEF Steady, Sound, HolesOK
<1> DEFINE p == HolePos(holes, Len(holes))
<1>6. ContinuationOK(holes[Len(holes)], stack, holes, runs, p)
  BY <1>5 DEF HoleOK
<1>7. p \in 6 .. Len(stack) + 1
  BY <1>3, SoundFacts DEF Steady
<1> QED BY <1>3, <1>4, <1>6, <1>7

(* The end of a prompt and a handler's trap-return.                        *)
LEMMA HoleSteps ==
    ASSUME IInv, AbortTop \/ TrapReturn
    PROVE  IInv'
<1>1. Steady /\ code[1][1] \in {"ABORT-TOP", "TRAP-RETURN"} 
      /\ Restore(holes[Len(holes)], Callable) /\ Callable \in Registers
  BY AtSteady, CallableTyped DEF AbortTop, TrapReturn, At, Steady
<1>2. \E i \in 6 .. Len(stack) + 1 :
          ContinuationOK(holes[Len(holes)], stack, holes, runs, i)
  BY <1>1, HoleThere
<1> QED BY <1>1, <1>2, RestoreStep

(* ABORT #1 and ABORT #2.                                                  *)
LEMMA AbortStep ==
    ASSUME Steady, NEW i \in {FindAbort1(stack), FindAbort2(stack)} \ {0},
           Restore(stack[i].k, regs)
    PROVE  IInv'
<1>1. /\ IsSeq(stack) /\ Len(stack) \in Nat
  BY SoundFacts DEF Steady
<1>2. /\ \A p \in Positions(stack, "abort") :
             stack[p].next = 0 \/ (stack[p].next \in Positions(stack, "abort") /\ stack[p].next < p)
      /\ 5 \in Positions(stack, "abort") /\ stack[5].k = MainK
      /\ \A p \in Positions(stack, "abort") :
             p # 5 => p \in 6 .. Len(stack) /\ ContinuationOK(stack[p].k, stack, holes, runs, p)
  BY Chains DEF Steady
<1>3. Positions(stack, "abort") # {} /\ regs \in Registers
  BY <1>2 DEF Steady, WellTyped
<1>4. i \in Positions(stack, "abort")
  BY <1>1, <1>2, <1>3, AbortFacts
<1>5. CASE i = 5
  BY <1>2, <1>3, <1>5, RestoreStep
<1>6. CASE i # 5
  <2>1. i \in 6 .. Len(stack) + 1 /\ ContinuationOK(stack[i].k, stack, holes, runs, i)
    BY <1>1, <1>2, <1>4, <1>6
  <2> QED BY <1>3, <2>1, RestoreStep
<1> QED BY <1>5, <1>6

(* There is always an ABORT #1.                                            *)
LEMMA AbortOneThere ==
    ASSUME Steady
    PROVE  FindAbort1(stack) \in {FindAbort1(stack), FindAbort2(stack)} \ {0}
<1>1. IsSeq(stack)
  BY SoundFacts DEF Steady
<1>2. /\ \A p \in Positions(stack, "abort") :
             stack[p].next = 0 \/ (stack[p].next \in Positions(stack, "abort") /\ stack[p].next < p)
      /\ 5 \in Positions(stack, "abort")
  BY Chains DEF Steady
<1>3. FindAbort1(stack) \in Positions(stack, "abort")
  BY <1>1, <1>2, AbortFacts
<1>4. Positions(stack, "abort") \subseteq 1 .. Len(stack)
  BY <1>1, SeqLen DEF Positions
<1> QED BY <1>3, <1>4

(* The reset handler and a non-continuable error go to ABORT #1.           *)
LEMMA AbortOneSteps ==
    ASSUME IInv, ResetHandler \/ NonContErr
    PROVE  IInv'
<1>1. Steady /\ Restore(stack[FindAbort1(stack)].k, regs)
  BY AtSteady DEF ResetHandler, NonContErr, At
<1> QED BY <1>1, AbortOneThere, AbortStep
-----------------------------------------------------------------------------
(* Conditions.                                                             *)

(* A condition raised above a sound stack.                                 *)
LEMMA RaiseStep ==
    ASSUME IInv, mode = "run", WellTyped, NEW s, NEW pc, Sound(s, pc, holes, runs),
           Stands(pc, holes, runs, Len(s) + 1),
           NEW kind \in {"raise", "reraise", "signal"}, NEW c, NEW continuable,
           NEW func \in BOOLEAN,
           Raise(kind, c, continuable, func, s, pc),
           bound' \in [forms : SUBSET Forms, stack : Nat, file : Nat, signals : Nat]
    PROVE  Steady'
<1>1. TypeOK
  BY DEF IInv
<1>2. /\ Raised(s, pc, stack', code', holes', runs')
      /\ frame' \in Nat /\ regs' \in Registers /\ pause' = 0 /\ interactive' = interactive
      /\ mode' = "run"
  BY <1>1, RaiseSound
<1> QED BY <1>2 DEF Raised, Steady, WellTyped

(* One raised by an instruction, to go on with the code after it.          *)
LEMMA RaiseHere ==
    ASSUME Steady, code[1][1] \notin Special, code[1][1] \notin Ends,
           NEW c, NEW continuable, NEW func \in BOOLEAN,
           Raise("raise", c, continuable, func, stack, Rest), bound' = bound
    PROVE  Steady'
<1>1. Fits(Rest, holes, runs, Len(stack) + 1)
  BY Ordinary
<1>2. Sound(stack, Rest, holes, runs)
  BY <1>1, Ordinary, Continue DEF Steady
<1>3. IInv /\ mode = "run" /\ WellTyped /\ Stands(Rest, holes, runs, Len(stack) + 1)
      /\ bound' \in [forms : SUBSET Forms, stack : Nat, file : Nat, signals : Nat]
  BY <1>1, SteadyHolds DEF Steady, WellTyped, Stands
<1> QED BY <1>2, <1>3, RaiseStep

(* Instructions that fail: FUNCTION-INVOKE, and RESTORE-ALL-STATE or the   *)
(* end of a callback that finds a FUNC it does not accept.                 *)
LEMMA FailSteps ==
    ASSUME IInv, FunctionInvoke \/ RestoreAllStateFails \/ InvokeCFails
    PROVE  Steady'
<1>1. Steady /\ mode = "run" /\ code[1][1] \notin Special /\ bound' = bound
  BY AtSteady DEF FunctionInvoke, RestoreAllStateFails, InvokeCFails, At, Special
<1>2. CASE FunctionInvoke \/ RestoreAllStateFails
  <2>1. code[1][1] \notin Ends
    BY <1>2 DEF FunctionInvoke, RestoreAllStateFails, At, Ends
  <2>2. \E continuable : Raise("raise", "error", continuable, FALSE, stack, Rest)
    BY <1>2 DEF FunctionInvoke, RestoreAllStateFails
  <2> QED BY <1>1, <2>1, <2>2, RaiseHere
<1>3. CASE InvokeCFails
  <2>1. Raise("raise", "error", FALSE, FALSE, stack, code)
    BY <1>3 DEF InvokeCFails
  <2>2. Stands(code, holes, runs, Len(stack) + 1)
    BY <1>1, Ordinary DEF Stands
  <2>3. /\ WellTyped /\ Sound(stack, code, holes, runs)
        /\ bound' \in [forms : SUBSET Forms, stack : Nat, file : Nat, signals : Nat]
    BY <1>1 DEF Steady, WellTyped
  <2> QED BY <1>1, <2>1, <2>2, <2>3, RaiseStep
<1> QED BY <1>2, <1>3

(* Those a primitive of the program raises, and the base handlers.         *)
LEMMA RaiseSteps ==
    ASSUME IInv, RaiseForm \/ ReraiseForm
    PROVE  Steady'
<1>1. /\ Steady /\ code[1][1] \notin Special /\ code[1][1] \notin Ends /\ mode = "run"
      /\ bound' = bound
  BY AtSteady DEF RaiseForm, ReraiseForm, At, Special, Ends
<1> DEFINE pc == Reference \o Rest
<1>2. Fits(pc, holes, runs, Len(stack) + 1)
  <2>1. Fits(Rest, holes, runs, Len(stack) + 1)
    BY <1>1, Ordinary
  <2>2. Easy(<<"REF", Self>>)
    BY DEF Easy, InstructionOK
  <2> QED BY <2>1, <2>2, HarmlessShort, MoreFits DEF Reference
<1>3. \/ \E c \in Conditions, continuable \in BOOLEAN :
               Raise("raise", c, continuable, TRUE, stack, pc)
      \/ Raise("reraise", "error", TRUE, TRUE, stack, pc)
  BY DEF RaiseForm, ReraiseForm
<1> HIDE DEF pc
<1>4. Sound(stack, pc, holes, runs)
  BY <1>1, <1>2, Ordinary, Continue DEF Steady
<1>5. ASSUME NEW kind \in {"raise", "reraise"}, NEW c, NEW continuable,
             Raise(kind, c, continuable, TRUE, stack, pc)
      PROVE  Steady'
  <2>1. /\ WellTyped /\ Stands(pc, holes, runs, Len(stack) + 1)
        /\ bound' \in [forms : SUBSET Forms, stack : Nat, file : Nat, signals : Nat]
    BY <1>1, <1>2 DEF Stands, Steady, WellTyped
  <2> DEFINE func == TRUE
  <2>2. /\ kind \in {"raise", "reraise", "signal"} /\ func \in BOOLEAN
        /\ Raise(kind, c, continuable, func, stack, pc)
    BY <1>5
  <2> HIDE DEF func
  <2> QED BY <1>1, <1>4, <2>1, <2>2, RaiseStep
<1> QED BY <1>3, <1>5

(* The frames C pushes to call a function.                                 *)
LEMMA InvokedSound ==
    ASSUME Steady, code[1][1] \notin Special, NEW pc, Fits(pc, holes, runs, Len(stack) + 1),
           NEW r \in Registers
    PROVE  LET s == Append(Append(stack, CReturn(pc)), AllState(frame, r))
           IN Sound(s, pc, holes, runs) /\ Fits(pc, holes, runs, Len(s) + 1)
              /\ Len(s) = Len(stack) + 2
<1> DEFINE f == CReturn(pc)
           g == AllState(frame, r)
           sa == Append(stack, f)
           sb == Append(sa, g)
<1>1. Sound(stack, pc, holes, runs) /\ IsSeq(stack) /\ Len(stack) \in Nat /\ frame \in Nat
  BY Ordinary, Continue DEF Steady, WellTyped
<1>2. f.m = "return" /\ f.code = pc /\ ~(f.run > 0)
  BY DEF CReturn
<1>3. g.m = "all-state" /\ g.frame \in Nat /\ g.regs \in Registers
  BY <1>1 DEF AllState
<1> HIDE DEF f, g
<1>4. Fits(pc, holes, runs, Len(stack) + 2)
  BY <1>1, Above
<1>5. Sound(sa, pc, holes, runs)
  BY <1>1, <1>2, <1>4, PushAddress DEF Stands
<1>6. IsSeq(sa) /\ Len(sa) = Len(stack) + 1 /\ Len(sa) + 1 = Len(stack) + 2 /\ Len(sa) \in Nat
  <2>1. IsSeq(sa) /\ Len(sa) = Len(stack) + 1
    BY <1>1, SeqAppend
  <2> QED BY <1>1, <2>1
<1> HIDE DEF sa
<1>7. Fits(pc, holes, runs, Len(sa) + 1) /\ pc # TOP /\ pc # FIN
  BY <1>4, <1>6, PlainIsNeither DEF Fits
<1>8. Fits(pc, holes, runs, Len(sa) + 2)
  BY <1>5, <1>7, Above
<1>9. FrameOK(sb, holes, runs, Len(sa) + 1)
  BY <1>3, <1>6, FrameMade
<1>10. Sound(sb, pc, holes, runs)
  BY <1>3, <1>5, <1>7, <1>8, <1>9, Push1
<1>11. Len(sb) = Len(sa) + 1 /\ Len(sb) + 1 = Len(sa) + 2
  <2>1. Len(sb) = Len(sa) + 1
    BY <1>6, SeqAppend
  <2> QED BY <1>6, <2>1
<1>12. Len(sb) = Len(stack) + 2
  BY <1>1, <1>6, <1>11
<1> QED BY <1>8, <1>10, <1>11, <1>12 DEF sa, f, g

(* A condition raised in C above them.                                     *)
LEMMA RaiseInvoked ==
    ASSUME Steady, code[1][1] \notin Special, NEW pc, Fits(pc, holes, runs, Len(stack) + 1),
           NEW r \in Registers, NEW continuable, NEW func \in BOOLEAN,
           Raise("raise", "error", continuable, func,
                 stack \o <<CReturn(pc), AllState(frame, r)>>, pc),
           bound' = bound
    PROVE  Steady'
<1> DEFINE s == Append(Append(stack, CReturn(pc)), AllState(frame, r))
<1>1. Sound(s, pc, holes, runs) /\ Fits(pc, holes, runs, Len(s) + 1)
  BY InvokedSound
<1>2. stack \o <<CReturn(pc), AllState(frame, r)>> = s
  <2>1. IsSeq(stack)
    BY Ordinary
  <2> QED BY <2>1, SeqAppends
<1> HIDE DEF s
<1>3. IInv /\ mode = "run" /\ WellTyped /\ Stands(pc, holes, runs, Len(s) + 1)
      /\ bound' \in [forms : SUBSET Forms, stack : Nat, file : Nat, signals : Nat]
  BY <1>1, SteadyHolds DEF Steady, WellTyped, Stands
<1>4. Raise("raise", "error", continuable, func, s, pc)
  BY <1>2
<1> QED BY <1>1, <1>3, <1>4, RaiseStep

(* A base handler that only returns.                                       *)
LEMMA HandledStep ==
    ASSUME Steady, code[1][1] = "PRIMITIVE", Handled
    PROVE  Steady'
<1>1. code[1][1] \notin Special /\ code[1][1] \notin Ends
  BY DEF Special, Ends
<1>2. Fits(code', holes, runs, Len(stack) + 1)
  BY <1>1, Ordinary DEF Handled
<1> QED BY <1>1, <1>2, Recoded DEF Handled

(* The base handlers: they return, raise again or go to ABORT #2.          *)
LEMMA BaseHandlerSteps ==
    ASSUME IInv, DefaultSigchld \/ DefaultHandler \/ RestartHandler
    PROVE  IInv'
<1>1. /\ Steady /\ code[1][1] = "PRIMITIVE" /\ mode = "run"
      /\ code[1][1] \notin Special /\ code[1][1] \notin Ends
  BY AtSteady DEF DefaultSigchld, DefaultHandler, RestartHandler, At, Special, Ends
<1>2. CASE Handled
  BY <1>1, <1>2, HandledStep, SteadyNext
<1>3. CASE Raise("raise", code[1][3], TRUE, regs.func, stack, Rest) /\ bound' = bound
  <2>1. regs.func \in BOOLEAN
    BY <1>1 DEF Steady, WellTyped, Registers
  <2> QED BY <1>1, <1>3, <2>1, RaiseHere, SteadyNext
<1>4. CASE FindAbort2(stack) # 0 /\ Restore(stack[FindAbort2(stack)].k, regs)
  <2>1. FindAbort2(stack) \in {FindAbort1(stack), FindAbort2(stack)} \ {0}
    BY <1>4
  <2> QED BY <1>1, <1>4, <2>1, AbortStep
<1>5. CASE Notify
  <2>1. CASE ~Handled
    <3>1. /\ Raise("raise", "error", FALSE, FALSE,
                   stack \o <<CReturn(Rest), AllState(frame, regs)>>, Rest)
          /\ bound' = bound
      BY <1>5, <2>1 DEF Notify
    <3>2. Fits(Rest, holes, runs, Len(stack) + 1) /\ regs \in Registers
      BY <1>1, Ordinary DEF Steady, WellTyped
    <3> QED BY <1>1, <3>1, <3>2, RaiseInvoked, SteadyNext
  <2> QED BY <1>2, <2>1
<1> QED BY <1>2, <1>3, <1>4, <1>5 DEF DefaultSigchld, DefaultHandler, RestartHandler

(* A signal may come anywhere but where C is at work.                      *)
LEMMA SignalStep ==
    ASSUME IInv, Signal
    PROVE  Steady'
<1>1. /\ Steady /\ mode = "run"
      /\ code[1][1] \notin {"EVALUATE", "PUSH-ABORT"}
  BY AtSteady DEF Signal
<1>2. Stands(code, holes, runs, Len(stack) + 1)
  BY <1>1, Running DEF Steady, Stands
<1>3. bound' \in [forms : SUBSET Forms, stack : Nat, file : Nat, signals : Nat]
  BY <1>1 DEF Signal, Steady, WellTyped
<1>4. Raise("signal", "SIGCHLD", TRUE, regs.func, stack, code) /\ regs.func \in BOOLEAN
  BY <1>1 DEF Signal, Steady, WellTyped, Registers
<1>5. WellTyped /\ Sound(stack, code, holes, runs)
  BY <1>1 DEF Steady
<1> DEFINE continuable == TRUE
           func == regs.func
<1>6. Raise("signal", "SIGCHLD", continuable, func, stack, code) /\ func \in BOOLEAN
  BY <1>4
<1> HIDE DEF continuable, func
<1> QED BY <1>1, <1>2, <1>3, <1>5, <1>6, RaiseStep

-----------------------------------------------------------------------------
(* C and the VM.                                                           *)

(* main starts to load.                                                    *)
LEMMA ReplStep ==
    ASSUME IInv, Repl
    PROVE  Steady'
<1>1. Steady /\ code[1][1] \notin Special
  BY AtSteady DEF Repl, At, Special
<1>2. /\ IsSeq(stack) /\ Len(stack) \in Nat /\ code # TOP /\ code # FIN /\ pause = 0
  BY <1>1, Ordinary
<1> DEFINE c2 == << <<"LOAD", -1>>, <<"EXIT">> >>
<1>3. \A i : Fits(c2, holes, runs, i)
  <2>1. Easy(<<"LOAD", -1>>)
    BY DEF Easy, InstructionOK
  <2> QED BY <2>1, TwoFit DEF InstructionOK, Ends
<1>4. code' = c2 /\ stack' = Append(stack, Handle)
  BY DEF Repl
<1> HIDE DEF c2
<1>5. FrameOK(Append(stack, Handle), holes, runs, Len(stack) + 1) /\ Handle.m # "return"
  BY <1>2, FrameMade DEF Handle
<1>6. Sound(Append(stack, Handle), c2, holes, runs)
  BY <1>1, <1>2, <1>3, <1>5, Push1 DEF Steady
<1>7. c2[1][1] # "EVALUATE"
  BY <1>3, Quiet DEF Stands
<1> QED BY <1>1, <1>2, <1>4, <1>6, <1>7 DEF Steady, WellTyped, Repl

(* main exits.                                                             *)
LEMMA ExitStep ==
    ASSUME IInv, Exit
    PROVE  IInv'
BY DEF IInv, Exit, TypeOK

(* The VM is run again, from s, with code pc.                              *)
LEMMA RunStep ==
    ASSUME Steady, NEW s, NEW after, NEW pc, NEW f \in Nat, NEW g \in Registers,
           Sound(s, after, holes, runs), Fits(after, holes, runs, Len(s) + 1),
           \/ \A hs, rs, i : Fits(pc, hs, rs, i)
           \/ pc = Loaded,
           RunC(s, after, pc, f, g, 0)
    PROVE  Steady'
<1> DEFINE r == [ss0 |-> Len(s), after |-> after, pause |-> 0]
           fr == Finish(Len(runs) + 1)
           rs2 == Append(runs, r)
<1>1. /\ IsSeq(s) /\ Len(s) \in Nat /\ IsSeq(holes) /\ IsSeq(runs) /\ Len(runs) \in Nat
      /\ \A q \in 1 .. Len(runs) : runs[q].ss0 \in 5 .. Len(s)
  BY SoundFacts
<1>2. /\ stack' = Append(s, fr) /\ runs' = rs2 /\ code' = pc /\ frame' = f /\ regs' = g /\ pause' = 0
      /\ UNCHANGED <<holes, interactive, bound, mode>>
  BY DEF RunC
<1>3. fr.m = "return" /\ fr.code = FIN /\ fr.run = Len(runs) + 1
  BY DEF Finish
<1>4. r.ss0 = Len(s) /\ r.after = after /\ r.pause = 0
  OBVIOUS
<1> HIDE DEF fr, r
<1>5. /\ IsSeq(rs2) /\ Len(rs2) = Len(runs) + 1 /\ rs2[Len(runs) + 1] = r
      /\ \A q \in 1 .. Len(runs) : rs2[q] = runs[q]
  BY <1>1, SeqAppend
<1>6. RunBelow(rs2, Len(s) + 2)
  <2>1. rs2 # << >>
    <3>1. Len(rs2) # 0
      BY <1>1, <1>5
    <3> HIDE DEF rs2
    <3> QED BY <3>1, SeqShort
  <2>2. rs2[1].ss0 \in 5 .. Len(s) \/ rs2[1].ss0 = Len(s)
    <3>1. CASE Len(runs) = 0
      BY <1>4, <1>5, <3>1
    <3>2. CASE Len(runs) # 0
      <4>1. 1 \in 1 .. Len(runs)
        BY <1>1, <3>2
      <4> QED BY <1>1, <1>5, <4>1
    <3> QED BY <3>1, <3>2
  <2>3. rs2[1].ss0 + 1 < Len(s) + 2
    BY <1>1, <2>2
  <2> QED BY <2>1, <2>3 DEF RunBelow
<1>7. FrameOK(Append(s, fr), holes, rs2, Len(s) + 1)
  BY <1>1, <1>3, FrameMade DEF Stands
<1>8. after # TOP /\ after # FIN
  BY PlainIsNeither DEF Fits
<1>9. NoHole(holes, holes, after, fr)
  <2>1. TOP # FIN
    <3>1. FIN[1][1] = "FINISH" /\ TOP[1][1] = "ABORT-TOP"
      BY DEF FIN, TOP
    <3> QED BY <3>1
  <2> QED BY <1>3, <1>8, <2>1 DEF NoHole
<1>10. NewRun(s, holes, runs, holes, rs2, after, fr)
  BY <1>3, <1>4, <1>8 DEF NewRun
<1>11. Fits(pc, holes, rs2, Len(s) + 2) \/ Starting(pc, rs2, Len(s) + 2)
  BY <1>6 DEF Starting
<1> HIDE DEF rs2
<1>12. Sound(Append(s, fr), pc, holes, rs2)
  BY <1>7, <1>9, <1>10, <1>11, Grow
<1>13. pc[1][1] # "EVALUATE"
  BY <1>11, Quiet DEF Stands
<1> QED BY <1>2, <1>12, <1>13 DEF Steady, WellTyped

(* A primitive calls back: a closure in a run of its own, or a primitive   *)
(* that fails.                                                             *)
LEMMA CallbackSteps ==
    ASSUME IInv, CallbackClosure \/ CallbackFails
    PROVE  Steady'
<1>1. Steady /\ code[1][1] \notin Special /\ code[1][1] \notin Ends /\ mode = "run"
  BY AtSteady DEF CallbackClosure, CallbackFails, At, Special, Ends
<1> DEFINE pc == Reference \o Rest
<1>2. Fits(pc, holes, runs, Len(stack) + 1)
  <2>1. Fits(Rest, holes, runs, Len(stack) + 1)
    BY <1>1, Ordinary
  <2>2. Easy(<<"REF", Self>>)
    BY DEF Easy, InstructionOK
  <2> QED BY <2>1, <2>2, HarmlessShort, MoreFits DEF Reference
<1>3. regs \in Registers /\ Callable \in Registers
  BY <1>1, CallableTyped DEF Steady, WellTyped
<1>4. CASE CallbackClosure
  <2>1. PICK r \in {regs, Callable} :
            LET a == Len(stack) + 3
            IN RunC(Invoked(r), << <<"INVOKE-C-DONE">> >>,
                    << <<"EXPR", a>>, <<"RETURN">> >>, a, Regs(a, r.func), pause)
    BY <1>4 DEF CallbackClosure
  <2> DEFINE s == Append(Append(stack, CReturn(pc)), AllState(frame, r))
             a == Len(stack) + 3
             done == << <<"INVOKE-C-DONE">> >>
             body == << <<"EXPR", a>>, <<"RETURN">> >>
             g == Regs(a, r.func)
  <2>2. r \in Registers
    BY <1>3, <2>1
  <2>3. Sound(s, pc, holes, runs) /\ Fits(pc, holes, runs, Len(s) + 1) /\ Len(s) = Len(stack) + 2
    BY <1>1, <1>2, <2>2, InvokedSound
  <2>4. Invoked(r) = s /\ Len(stack) \in Nat /\ pause = 0
    <3>1. IsSeq(stack) /\ Len(stack) \in Nat /\ pause = 0
      BY <1>1, Ordinary
    <3> QED BY <3>1, SeqAppends DEF Invoked
  <2>5. a \in Nat /\ g \in Registers
    BY <2>2, <2>4 DEF Regs, Registers
  <2>6. RunC(s, done, body, a, g, 0)
    BY <2>1, <2>4
  <2>7. \A hs, rs, i : Fits(done, hs, rs, i)
    BY LeavesFits DEF InstructionOK, Ends
  <2>8. \A hs, rs, i : Fits(body, hs, rs, i)
    <3>1. Easy(<<"EXPR", a>>)
      BY DEF Easy, InstructionOK
    <3> QED BY <3>1, TwoFit DEF InstructionOK, Ends
  <2> HIDE DEF pc, s, done, body, a, g
  <2>9. pc # TOP /\ pc # FIN
    BY <2>3, PlainIsNeither DEF Fits
  <2>10. Sound(s, done, holes, runs)
    BY <2>3, <2>7, <2>9, Continue
  <2> QED BY <1>1, <2>5, <2>6, <2>7, <2>8, <2>10, RunStep
<1>5. CASE CallbackFails
  <2>1. PICK continuable \in BOOLEAN, r \in {regs, Callable} :
            Raise("raise", "error", continuable, r.func, Invoked(r), pc)
    BY <1>5 DEF CallbackFails
  <2>2. r \in Registers /\ r.func \in BOOLEAN
    BY <1>3, <2>1 DEF Registers
  <2>3. bound' = bound
    BY <1>5 DEF CallbackFails
  <2>4. Raise("raise", "error", continuable, r.func,
              stack \o <<CReturn(pc), AllState(frame, r)>>, pc)
    BY <2>1 DEF Invoked
  <2> HIDE DEF pc
  <2> QED BY <1>1, <1>2, <2>2, <2>3, <2>4, RaiseInvoked
<1> QED BY <1>4, <1>5

(* The evaluator takes over from code that stood.                          *)
LEMMA Evaluates ==
    ASSUME NEW s, NEW c, NEW hs, NEW rs, Sound(s, c, hs, rs), c # TOP, c # FIN,
           NEW c2, Evaluating(s, c2, hs, rs)
    PROVE  Sound(s, c2, hs, rs)
<1>1. c2 # TOP /\ c2 # FIN
  <2>1. FIN[1][1] = "FINISH" /\ TOP[1][1] = "ABORT-TOP"
    BY DEF FIN, TOP
  <2> QED BY <2>1 DEF Evaluating
<1>2. \A p \in 1 .. Len(s) + 1 : /\ CodeAt(s, c2, p) = TOP <=> CodeAt(s, c, p) = TOP
                                 /\ CodeAt(s, c2, p) = FIN <=> CodeAt(s, c, p) = FIN
  BY <1>1 DEF CodeAt
<1>3. Len(s) \in Nat
  BY SoundFacts
<1>4. HolesOK(s, c2, hs, rs)
  <2>1. ASSUME NEW j \in 1 .. Len(hs) PROVE HoleOK(s, c2, hs, rs, j)
    <3>1. HoleOK(s, c, hs, rs, j)
      BY DEF Sound, HolesOK
    <3>2. HolePos(hs, j) \in 6 .. Len(s) + 1
      BY SoundFacts
    <3>3. HolePos(hs, j) \in 1 .. Len(s) + 1
      BY <1>3, <3>2
    <3> QED BY <1>2, <3>1, <3>3 DEF HoleOK
  <2> QED BY <1>2, <2>1 DEF Sound, HolesOK
<1>5. RunsOK(s, c2, hs, rs)
  <2>1. ASSUME NEW r \in 1 .. Len(rs) PROVE RunOK(s, c2, hs, rs, r)
    <3>1. RunOK(s, c, hs, rs, r)
      BY DEF Sound, RunsOK
    <3>2. rs[r].ss0 \in 5 .. Len(s)
      BY SoundFacts
    <3>3. rs[r].ss0 + 1 \in 1 .. Len(s) + 1
      BY <1>3, <3>2
    <3> QED BY <1>2, <3>1, <3>3 DEF RunOK
  <2> QED BY <1>2, <2>1 DEF Sound, RunsOK
<1> QED BY <1>4, <1>5 DEF Sound

(* load reads an expression: an ABORT, and the frames of the call of the   *)
(* evaluator.                                                              *)
LEMMA LoadReadsStep ==
    ASSUME IInv, LoadReads
    PROVE  Steady'
<1>1. Steady /\ code[1][1] \notin Special /\ code[1][1] \notin Ends
  BY AtSteady DEF LoadReads, At, Special, Ends
<1>2. /\ IsSeq(stack) /\ Len(stack) \in Nat /\ Len(stack) >= 5 /\ code # TOP /\ code # FIN /\ pause = 0
      /\ IsSeq(holes) /\ Len(holes) \in Nat /\ IsSeq(runs) /\ Len(runs) \in Nat
      /\ Fits(Rest, holes, runs, Len(stack) + 1)
  BY <1>1, Ordinary
<1>3. Rest # TOP /\ Rest # FIN /\ IsSeq(Rest)
  BY <1>2, PlainIsNeither DEF Fits, Plain
<1> DEFINE k == Continuation(stack, IF runs = << >> THEN << <<"REPL">> >> ELSE Rest, frame)
           f == Abort(FindMarker(stack, "abort"), k)
           g == CReturn(Rest)
           h == AllState(frame, regs)
           sa == Append(stack, f)
           sb == Append(sa, g)
           sc == Append(sb, h)
           c2 == << <<"EVALUATE", code[1][2]>> >> \o Rest
<1>4. /\ stack' = sc /\ code' = c2 /\ pause' = 1
      /\ UNCHANGED <<frame, regs, holes, runs, interactive, bound, mode>>
  <2>1. stack \o <<f, g, h>> = sc
    BY <1>2, SeqAppends
  <2> HIDE DEF f, g, h, sa, sb, sc
  <2>2. stack' = stack \o <<f, g, h>>
    BY DEF LoadReads, f, g, h
  <2> QED BY <1>2, <2>1, <2>2 DEF LoadReads
<1>5. /\ k.stack = stack /\ k.holes = holes /\ k.run = Len(runs) /\ k.frame \in Nat
      /\ Fits(k.code, holes, runs, Len(stack) + 1)
  <2>1. Fits(<< <<"REPL">> >>, holes, runs, Len(stack) + 1)
    BY LeavesFits DEF InstructionOK, Ends
  <2> QED BY <1>1, <1>2, <2>1 DEF Continuation, Steady, WellTyped
<1>6. f.m = "abort" /\ f.next = FindMarker(stack, "abort") /\ f.k = k
  BY DEF Abort
<1>7. g.m = "return" /\ g.code = Rest /\ ~(g.run > 0)
  BY DEF CReturn
<1>8. h.m = "all-state" /\ h.frame \in Nat /\ h.regs \in Registers
  BY <1>1 DEF AllState, Steady, WellTyped
<1> HIDE DEF k, f, g, h
<1>9. IsSeq(sa) /\ Len(sa) = Len(stack) + 1 /\ SubSeq(sa, 1, Len(stack)) = stack
      /\ sa[Len(stack) + 1] = f
  <2>1. Len(stack) \in 0 .. Len(stack)
    BY <1>2
  <2> QED BY <1>2, <2>1, SeqAppend, SeqWhole
<1>10. ContinuationOK(k, sa, holes, runs, Len(stack) + 1)
  <2>1. \A p \in Len(stack) + 1 .. Len(stack) + 1 : CodeAt(stack, code, p) # TOP /\ CodeAt(stack, code, p) # FIN
    BY <1>2 DEF CodeAt
  <2>2. Len(stack) \in 0 .. Len(stack) /\ Len(holes) \in 0 .. Len(holes)
    BY <1>2
  <2>3. HolesBelow(holes, Len(stack) + 1, Len(holes)) /\ RunsBelow(runs, Len(stack) + 1, Len(runs))
    BY <1>1, <2>1, <2>2, AllBelow DEF Steady
  <2> DEFINE i == Len(stack) + 1
             m == Len(holes)
  <2>4. i - 1 = Len(stack) /\ k.holes = SubSeq(holes, 1, m)
    BY <1>2, <1>5, SeqWhole
  <2>5. k.stack = SubSeq(sa, 1, i - 1)
    BY <1>5, <1>9, <2>4
  <2>6. Fits(k.code, holes, runs, i) /\ RunsBelow(runs, i, k.run) /\ HolesBelow(holes, i, m) /\ m \in 0 .. Len(holes)
    BY <1>5, <2>2, <2>3
  <2> HIDE DEF i, m
  <2>7. ContinuationOK(k, sa, holes, runs, i)
    BY <1>5, <2>4, <2>5, <2>6, ContinuationIs
  <2> QED BY <2>7 DEF i
<1>11. Sound(sa, Rest, holes, runs)
  <2>1. FrameOK(sa, holes, runs, Len(stack) + 1)
    BY <1>2, <1>6, <1>10, FrameMade
  <2>2. Fits(Rest, holes, runs, Len(stack) + 2)
    BY <1>1, <1>2, Above DEF Steady
  <2> QED BY <1>1, <1>2, <1>6, <2>1, <2>2, Push1 DEF Steady
<1> HIDE DEF sa
<1>12. Fits(Rest, holes, runs, Len(sa) + 1) /\ Fits(Rest, holes, runs, Len(sa) + 2)
  <2>1. Len(sa) + 1 = Len(stack) + 2
    BY <1>2, <1>9
  <2>2. Fits(Rest, holes, runs, Len(stack) + 2)
    BY <1>1, <1>2, Above DEF Steady
  <2>3. Fits(Rest, holes, runs, Len(sa) + 1)
    BY <2>1, <2>2
  <2> QED BY <1>11, <2>3, Above
<1>13. Sound(sb, Rest, holes, runs)
  BY <1>7, <1>11, <1>12, PushAddress DEF Stands
<1>14. IsSeq(sb) /\ Len(sb) = Len(stack) + 2 /\ Len(sb) + 1 = Len(sa) + 2
       /\ sb[Len(stack) + 2] = g /\ sb[Len(stack) + 1] = f
  <2>1. IsSeq(sb) /\ Len(sb) = Len(sa) + 1 /\ sb[Len(sa) + 1] = g /\ \A i \in 1 .. Len(sa) : sb[i] = sa[i]
    BY <1>9, SeqAppend
  <2>2. Len(sa) + 1 = Len(stack) + 2 /\ Len(stack) + 1 \in 1 .. Len(sa) /\ Len(sa) + 1 + 1 = Len(sa) + 2
    BY <1>2, <1>9
  <2> QED BY <1>9, <2>1, <2>2
<1> HIDE DEF sb
<1>15. Fits(Rest, holes, runs, Len(sb) + 1) /\ Fits(Rest, holes, runs, Len(sb) + 2)
  <2>1. Fits(Rest, holes, runs, Len(sb) + 1)
    BY <1>12, <1>14
  <2> QED BY <1>13, <2>1, Above
<1>16. Sound(sc, Rest, holes, runs)
  <2>1. FrameOK(sc, holes, runs, Len(sb) + 1)
    BY <1>8, <1>14, FrameMade
  <2> QED BY <1>3, <1>8, <1>13, <1>15, <2>1, Push1
<1>17. Len(sc) = Len(stack) + 3 /\ sc[Len(stack) + 3] = h /\ sc[Len(stack) + 2] = g /\ sc[Len(stack) + 1] = f
       /\ Len(sc) + 1 = Len(sb) + 2
  <2>1. IsSeq(sc) /\ Len(sc) = Len(sb) + 1 /\ sc[Len(sb) + 1] = h /\ \A i \in 1 .. Len(sb) : sc[i] = sb[i]
    BY <1>14, SeqAppend
  <2>2. /\ Len(sb) + 1 = Len(stack) + 3 /\ Len(stack) + 1 \in 1 .. Len(sb) /\ Len(stack) + 2 \in 1 .. Len(sb)
        /\ Len(sb) + 1 + 1 = Len(sb) + 2
    BY <1>2, <1>14
  <2> QED BY <1>14, <2>1, <2>2
<1> HIDE DEF sc
<1>18. Evaluating(sc, c2, holes, runs)
  <2> DEFINE x == <<"EVALUATE", code[1][2]>>
  <2>1. IsSeq(<<x>>) /\ Len(<<x>>) = 1 /\ <<x>>[1] = x /\ Len(Rest) \in Nat
    BY <1>3, SeqShort, SeqLen
  <2>2. /\ IsSeq(c2) /\ Len(c2) = 1 + Len(Rest) /\ c2[1] = x
        /\ \A i \in 1 .. Len(Rest) : c2[1 + i] = Rest[i]
    <3>1. 1 \in 1 .. Len(<<x>>)
      BY <2>1
    <3> QED BY <1>3, <2>1, <3>1, SeqConcat
  <2>3. x[1] = "EVALUATE"
    OBVIOUS
  <2> HIDE DEF c2, x
  <2>4. c2 # << >>
    BY <2>1, <2>2, SeqShort
  <2>5. Tail(c2) = Rest
    <3>1. IsSeq(Tail(c2)) /\ Len(Tail(c2)) = Len(c2) - 1
          /\ \A i \in 1 .. Len(c2) - 1 : Tail(c2)[i] = c2[i + 1]
      BY <2>2, <2>4, SeqTail
    <3>2. Len(c2) - 1 = Len(Rest) /\ \A i \in 1 .. Len(Rest) : i + 1 = 1 + i
      BY <2>1, <2>2
    <3>3. \A i \in 1 .. Len(Rest) : Tail(c2)[i] = Rest[i]
      BY <2>2, <3>1, <3>2
    <3>4. IsSeq(Rest) /\ IsSeq(Tail(c2)) /\ Len(Rest) = Len(Tail(c2))
      BY <1>3, <3>1, <3>2
    <3> QED BY <3>3, <3>4, SeqSame
  <2>6. ASSUME NEW p \in Len(sc) - 2 .. Len(sc) PROVE CodeAt(sc, c2, p) \notin {TOP, FIN}
    <3>1. p # Len(sc) + 1 /\ (p = Len(stack) + 1 \/ p = Len(stack) + 2 \/ p = Len(stack) + 3)
      BY <1>2, <1>17
    <3>2. << >> # TOP /\ << >> # FIN
      <4>1. Len(TOP) = 1 /\ Len(FIN) = 1
        BY DEF TOP, FIN
      <4> QED BY <4>1
    <3> QED BY <1>3, <1>6, <1>7, <1>8, <1>17, <3>1, <3>2 DEF CodeAt
  <2>7. Len(sc) >= Len(Base) + 3
    <3>1. Len(Base) = 5
      BY DEF Base
    <3> QED BY <1>2, <1>17, <3>1
  <2>8. Fits(Rest, holes, runs, Len(sc) + 1)
    BY <1>15, <1>17
  <2> QED BY <2>2, <2>3, <2>4, <2>5, <2>6, <2>7, <2>8 DEF Evaluating
<1>19. Sound(sc, c2, holes, runs)
  BY <1>3, <1>16, <1>18, Evaluates
<1>20. c2[1][1] = "EVALUATE"
  BY <1>18 DEF Evaluating
<1> QED BY <1>1, <1>4, <1>19, <1>20 DEF Steady, WellTyped

(* The evaluator's frames come off, and what it made is run or it fails.   *)
LEMMA LoadRunsStep ==
    ASSUME IInv, LoadRuns
    PROVE  Steady'
<1>1. Steady /\ code[1][1] = "EVALUATE" /\ pause = 1
  BY AtSteady DEF LoadRuns, At, Steady
<1>2. Evaluating(stack, code, holes, runs) /\ code # TOP /\ code # FIN
  <2>1. FIN[1][1] = "FINISH" /\ TOP[1][1] = "ABORT-TOP"
    BY DEF FIN, TOP
  <2> QED BY <1>1, <2>1, Running DEF Steady
<1>3. IsSeq(stack) /\ Len(stack) \in Nat /\ Len(stack) >= 8
  <2>1. Len(Base) = 5
    BY DEF Base
  <2> QED BY <1>1, <1>2, <2>1, SoundFacts DEF Steady, Evaluating
<1> DEFINE n == Len(stack) - 3
           c == code[1][2]
           left == IF c > 0 THEN c - 1 ELSE c
           after == << <<"LOAD", left>> >> \o Rest
           s == SubSeq(stack, 1, n)
<1>4. /\ n \in 5 .. Len(stack)
      /\ \A p \in n + 1 .. Len(stack) + 1 : p \in Len(stack) - 2 .. Len(stack) \/ p = Len(stack) + 1
  <2> DEFINE l == Len(stack)
  <2>1. l \in Nat /\ l >= 8 /\ n = l - 3
    BY <1>3
  <2> HIDE DEF l, n
  <2>2. n \in 5 .. l /\ \A p \in n + 1 .. l + 1 : p \in l - 2 .. l \/ p = l + 1
    BY <2>1
  <2> QED BY <2>2 DEF l
<1>5. RunC(s, after, Loaded, frame, Regs(frame, regs.func), 0)
  BY <1>1 DEF LoadRuns, Loaded
<1>6. Fits(after, holes, runs, Len(stack) + 1)
  <2>1. Easy(<<"LOAD", left>>)
    BY DEF Easy, InstructionOK
  <2>2. Fits(Rest, holes, runs, Len(stack) + 1)
    BY <1>2 DEF Evaluating, Rest
  <2> HIDE DEF left
  <2> QED BY <2>1, <2>2, HarmlessShort, MoreFits
<1> HIDE DEF after, n
<1>7. \A p \in n + 1 .. Len(stack) + 1 : CodeAt(stack, code, p) # TOP /\ CodeAt(stack, code, p) # FIN
  <2>1. \A p \in Len(stack) - 2 .. Len(stack) : CodeAt(stack, code, p) \notin {TOP, FIN}
    BY <1>2 DEF Evaluating
  <2>2. CodeAt(stack, code, Len(stack) + 1) = code
    BY DEF CodeAt
  <2> QED BY <1>2, <1>4, <2>1, <2>2
<1>8. Fits(after, holes, runs, n + 1) /\ Sound(s, after, holes, runs)
  BY <1>1, <1>4, <1>6, <1>7, Drop DEF Steady
<1>9. Len(s) = n
  <2>1. n \in 0 .. Len(stack)
    BY <1>3, <1>4
  <2> QED BY <1>3, <2>1, SeqCut
<1> HIDE DEF s
<1>10. frame \in Nat /\ Fits(after, holes, runs, Len(s) + 1)
       /\ Regs(frame, regs.func) \in Registers
  BY <1>1, <1>8, <1>9 DEF Steady, WellTyped, Regs, Registers
<1> QED BY <1>1, <1>5, <1>8, <1>10, RunStep

(* The evaluator finds a mistake, and raises a condition above C's frames. *)
LEMMA EvaluateFailsStep ==
    ASSUME IInv, EvaluateFails
    PROVE  Steady'
<1>1. Steady /\ code[1][1] = "EVALUATE" /\ mode = "run"
  BY AtSteady DEF EvaluateFails, At, Steady
<1>2. Evaluating(stack, code, holes, runs) /\ code # TOP /\ code # FIN
  <2>1. FIN[1][1] = "FINISH" /\ TOP[1][1] = "ABORT-TOP"
    BY DEF FIN, TOP
  <2> QED BY <1>1, <2>1, Running DEF Steady
<1>3. Fits(Rest, holes, runs, Len(stack) + 1)
  BY <1>2 DEF Evaluating, Rest
<1>4. Sound(stack, Rest, holes, runs)
  BY <1>1, <1>2, <1>3, Continue DEF Steady
<1>5. PICK continuable \in BOOLEAN, func \in BOOLEAN :
          Raise("raise", "error", continuable, func, stack, Rest)
  BY <1>1 DEF EvaluateFails, Restorable, Steady, WellTyped, Registers
<1>6. bound' = bound
  BY DEF EvaluateFails
<1> QED BY <1>1, <1>3, <1>4, <1>5, <1>6, RaiseStep DEF Stands, Steady, WellTyped

(* The ABORT of an expression that is loaded.                              *)
LEMMA LoadedFacts ==
    /\ IsSeq(Loaded) /\ Len(Loaded) = 4 /\ DOMAIN Loaded = 1 .. 4
    /\ Loaded[1] = <<"PUSH-ABORT">> /\ Loaded[2] = <<"EXPR", 0>>
    /\ Loaded[3] = <<"POP-ABORT">> /\ Loaded[4] = <<"RETURN">>
    /\ Tail(Loaded) = << <<"EXPR", 0>>, <<"POP-ABORT">>, <<"RETURN">> >>
    /\ SubSeq(Loaded, 4, 4) = << <<"RETURN">> >>
    /\ Min({i \in DOMAIN Loaded : Loaded[i] = <<"POP-ABORT">>}) = 3
<1>1. \A a, b, c, d : /\ <<a, b, c, d>> \in Seq({a, b, c, d}) /\ Len(<<a, b, c, d>>) = 4
                      /\ <<a, b, c, d>>[1] = a /\ <<a, b, c, d>>[2] = b
                      /\ <<a, b, c, d>>[3] = c /\ <<a, b, c, d>>[4] = d
  OBVIOUS
<1>2. /\ IsSeq(Loaded) /\ Len(Loaded) = 4 /\ DOMAIN Loaded = 1 .. 4
      /\ Loaded[1] = <<"PUSH-ABORT">> /\ Loaded[2] = <<"EXPR", 0>>
      /\ Loaded[3] = <<"POP-ABORT">> /\ Loaded[4] = <<"RETURN">>
  <2>1. /\ IsSeq(Loaded) /\ Len(Loaded) = 4
        /\ Loaded[1] = <<"PUSH-ABORT">> /\ Loaded[2] = <<"EXPR", 0>>
        /\ Loaded[3] = <<"POP-ABORT">> /\ Loaded[4] = <<"RETURN">>
    BY <1>1 DEF IsSeq, Loaded
  <2>2. DOMAIN Loaded = 1 .. Len(Loaded)
    BY <2>1, SeqLen
  <2> QED BY <2>1, <2>2
<1> DEFINE t == Tail(Loaded)
           u == << <<"EXPR", 0>>, <<"POP-ABORT">>, <<"RETURN">> >>
           v == SubSeq(Loaded, 4, 4)
           w == << <<"RETURN">> >>
           L == Loaded
<1>3. t = u
  <2>1. L # << >>
    BY <1>2, SeqShort
  <2>2. IsSeq(t) /\ Len(t) = Len(L) - 1 /\ \A i \in 1 .. Len(L) - 1 : t[i] = L[i + 1]
    BY <1>2, <2>1, SeqTail
  <2>3. /\ IsSeq(u) /\ Len(u) = 3 /\ u[1] = <<"EXPR", 0>> /\ u[2] = <<"POP-ABORT">> /\ u[3] = <<"RETURN">>
    BY SeqShort
  <2> HIDE DEF t, u, L
  <2>4. Len(t) = 3 /\ t[1] = L[2] /\ t[2] = L[3] /\ t[3] = L[4]
    <3>1. Len(L) = 4
      BY <1>2 DEF L
    <3> QED BY <2>2, <3>1
  <2>5. \A i \in 1 .. 3 : i = 1 \/ i = 2 \/ i = 3
    OBVIOUS
  <2>6. L[2] = <<"EXPR", 0>> /\ L[3] = <<"POP-ABORT">> /\ L[4] = <<"RETURN">>
    BY <1>2 DEF L
  <2>7. \A i \in 1 .. Len(t) : t[i] = u[i]
    BY <2>3, <2>4, <2>5, <2>6
  <2> QED BY <2>2, <2>3, <2>4, <2>7, SeqSame
<1>4. v = w
  <2>1. PICK S : L \in Seq(S)
    BY <1>2 DEF IsSeq
  <2>2. Len(v) = 1 /\ v \in Seq(S) /\ v[1] = L[4]
    <3>1. \A i \in 4 .. 4 : L[i] \in S
      <4>1. Len(L) = 4
        BY <1>2 DEF L
      <4> HIDE DEF L
      <4>2. L[4] \in S
        BY <2>1, <4>1, ElementOfSeq
      <4> QED BY <4>2
    <3>2. v \in Seq(S) /\ Len(v) = (IF 4 <= 4 THEN 4 - 4 + 1 ELSE 0)
          /\ \A i \in 1 .. 4 - 4 + 1 : v[i] = L[4 + i - 1]
      BY <3>1, SubSeqProperties
    <3> QED BY <3>2
  <2>3. IsSeq(v) /\ IsSeq(w) /\ Len(w) = 1 /\ w[1] = <<"RETURN">>
    BY <2>2, SeqShort DEF IsSeq
  <2> HIDE DEF v, w, L
  <2>4. \A i \in 1 .. 1 : i = 1
    OBVIOUS
  <2>5. L[4] = <<"RETURN">>
    BY <1>2 DEF L
  <2> QED BY <2>2, <2>3, <2>4, <2>5, SeqSame
<1>5. Min({i \in DOMAIN Loaded : Loaded[i] = <<"POP-ABORT">>}) = 3
  <2>1. \A i \in 1 .. 4 : i = 1 \/ i = 2 \/ i = 3 \/ i = 4
    OBVIOUS
  <2>2. <<"PUSH-ABORT">> # <<"POP-ABORT">> /\ <<"EXPR", 0>> # <<"POP-ABORT">> /\ <<"RETURN">> # <<"POP-ABORT">>
    OBVIOUS
  <2>3. {i \in DOMAIN Loaded : Loaded[i] = <<"POP-ABORT">>} = {3}
    BY <1>2, <2>1, <2>2
  <2>4. Min({3}) = 3
    BY DEF Min
  <2> QED BY <2>3, <2>4
<1> QED BY <1>2, <1>3, <1>4, <1>5

(* The continuation of its ABORT is of what follows the POP-ABORT.         *)
LEMMA PushAbortStep ==
    ASSUME IInv, PushAbort
    PROVE  Steady'
<1>1. Steady /\ code[1][1] = "PUSH-ABORT" /\ pause = 0
  BY AtSteady DEF PushAbort, At, Steady
<1>2. code = Loaded /\ RunBelow(runs, Len(stack) + 1) /\ code # TOP /\ code # FIN
  <2>1. FIN[1][1] = "FINISH" /\ TOP[1][1] = "ABORT-TOP"
    BY DEF FIN, TOP
  <2> QED BY <1>1, <2>1, Running DEF Steady, Starting
<1>3. /\ IsSeq(stack) /\ Len(stack) \in Nat /\ Len(stack) >= 5
      /\ IsSeq(holes) /\ Len(holes) \in Nat /\ IsSeq(runs) /\ Len(runs) \in Nat
  BY <1>1, SoundFacts DEF Steady
<1> DEFINE k == Continuation(stack, << <<"RETURN">> >>, frame)
           f == Abort(FindMarker(stack, "abort"), k)
           c2 == << <<"EXPR", 0>>, <<"POP-ABORT">>, <<"RETURN">> >>
           sa == Append(stack, f)
<1>4. stack' = sa /\ code' = c2 /\ frame' = 0 /\ regs' = regs
      /\ UNCHANGED <<holes, runs, pause, interactive, bound, mode>>
  <2>1. /\ Min({i \in DOMAIN code : code[i] = <<"POP-ABORT">>}) = 3
        /\ SubSeq(code, 3 + 1, Len(code)) = << <<"RETURN">> >> /\ Rest = c2
    BY <1>2, LoadedFacts DEF Rest
  <2> QED BY <2>1 DEF PushAbort, Push
<1>5. /\ k.stack = stack /\ k.holes = holes /\ k.run = Len(runs) /\ k.frame \in Nat
      /\ Fits(k.code, holes, runs, Len(stack) + 1)
  <2>1. Fits(<< <<"RETURN">> >>, holes, runs, Len(stack) + 1)
    BY LeavesFits DEF InstructionOK, Ends
  <2> QED BY <1>1, <2>1 DEF Continuation, Steady, WellTyped
<1>6. f.m = "abort" /\ f.next = FindMarker(stack, "abort") /\ f.k = k
  BY DEF Abort
<1> HIDE DEF k, f
<1>7. ContinuationOK(k, sa, holes, runs, Len(stack) + 1)
  <2>1. \A p \in Len(stack) + 1 .. Len(stack) + 1 : CodeAt(stack, code, p) # TOP /\ CodeAt(stack, code, p) # FIN
    BY <1>2, <1>3 DEF CodeAt
  <2>2. Len(stack) \in 0 .. Len(stack) /\ Len(holes) \in 0 .. Len(holes)
    BY <1>3
  <2>3. HolesBelow(holes, Len(stack) + 1, Len(holes)) /\ RunsBelow(runs, Len(stack) + 1, Len(runs))
    BY <1>1, <2>1, <2>2, AllBelow DEF Steady
  <2>8. SubSeq(sa, 1, Len(stack)) = stack
    BY <1>3, <2>2, SeqAppend, SeqWhole
  <2> DEFINE i == Len(stack) + 1
             m == Len(holes)
  <2>4. i - 1 = Len(stack) /\ k.holes = SubSeq(holes, 1, m)
    BY <1>3, <1>5, SeqWhole
  <2>5. k.stack = SubSeq(sa, 1, i - 1)
    BY <1>5, <2>4, <2>8
  <2>6. Fits(k.code, holes, runs, i) /\ RunsBelow(runs, i, k.run) /\ HolesBelow(holes, i, m) /\ m \in 0 .. Len(holes)
    BY <1>5, <2>2, <2>3
  <2> HIDE DEF i, m
  <2>7. ContinuationOK(k, sa, holes, runs, i)
    BY <1>5, <2>4, <2>5, <2>6, ContinuationIs
  <2> QED BY <2>7 DEF i
<1>8. Fits(c2, holes, runs, Len(stack) + 2)
  <2>1. IsSeq(c2) /\ Len(c2) = 3 /\ c2[1] = <<"EXPR", 0>> /\ c2[2] = <<"POP-ABORT">> /\ c2[3] = <<"RETURN">>
    BY SeqShort
  <2>2. \A i \in 1 .. 3 : i = 1 \/ i = 2 \/ i = 3
    OBVIOUS
  <2>3. /\ InstructionOK(<<"EXPR", 0>>) /\ InstructionOK(<<"POP-ABORT">>) /\ InstructionOK(<<"RETURN">>)
        /\ <<"RETURN">>[1] \in Ends
    BY DEF InstructionOK, Ends
  <2>4. RunBelow(runs, Len(stack) + 2)
    <3>1. Len(runs) # 0
      <4>1. PICK S : runs \in Seq(S)
        BY <1>3 DEF IsSeq
      <4> QED BY <1>2, <4>1 DEF RunBelow
    <3>2. 1 \in 1 .. Len(runs)
      BY <1>3, <3>1
    <3>3. \A r \in 1 .. Len(runs) : runs[r].ss0 \in 5 .. Len(stack)
      BY <1>1, SoundFacts DEF Steady
    <3>4. runs[1].ss0 \in 5 .. Len(stack)
      BY <3>2, <3>3
    <3>5. runs[1].ss0 + 1 < Len(stack) + 2
      BY <1>3, <3>4
    <3> QED BY <1>2, <3>5 DEF RunBelow
  <2>5. <<"EXPR", 0>>[1] = "EXPR" /\ <<"POP-ABORT">>[1] = "POP-ABORT" /\ <<"RETURN">>[1] = "RETURN"
    OBVIOUS
  <2> HIDE DEF c2
  <2>6. c2 # << >>
    BY <2>1, SeqShort
  <2>7. Plain(c2)
    BY <2>1, <2>2, <2>3, <2>6 DEF Plain
  <2>8. ~Has(c2, {"TRAP-RETURN", "PUSH-TRAP"})
    BY <2>1, <2>2, <2>5 DEF Has
  <2> QED BY <2>4, <2>7, <2>8 DEF Fits
<1> HIDE DEF c2
<1>9. FrameOK(sa, holes, runs, Len(stack) + 1)
  BY <1>3, <1>6, <1>7, FrameMade
<1>10. Sound(sa, c2, holes, runs)
  BY <1>1, <1>2, <1>6, <1>8, <1>9, Push1 DEF Steady
<1>11. c2[1][1] # "EVALUATE"
  BY <1>8, Quiet DEF Stands
<1> QED BY <1>1, <1>4, <1>10, <1>11 DEF Steady, WellTyped

(* Codes with traps in them, where a prompt is below.                      *)
Guarded(t) ==
    IsSeq(t) /\ \A j \in 1 .. Len(t) : InstructionOK(t[j]) /\ t[j][1] # "POP-ABORT"

(* Such codes put together.                                                *)
LEMMA GuardedJoin ==
    ASSUME NEW t, NEW u, Guarded(t), Guarded(u)
    PROVE  Guarded(t \o u)
<1> DEFINE v == t \o u
<1>1. IsSeq(t) /\ IsSeq(u) /\ Len(t) \in Nat /\ Len(u) \in Nat
  BY SeqLen DEF Guarded
<1>2. /\ IsSeq(v) /\ Len(v) = Len(t) + Len(u)
      /\ \A j \in 1 .. Len(t) : v[j] = t[j]
      /\ \A j \in 1 .. Len(u) : v[Len(t) + j] = u[j]
      /\ \A j \in 1 .. Len(t) + Len(u) : j <= Len(t) \/ \E l \in 1 .. Len(u) : j = Len(t) + l
  BY <1>1, SeqConcat
<1> HIDE DEF v
<1>3. ASSUME NEW j \in 1 .. Len(v) PROVE InstructionOK(v[j]) /\ v[j][1] # "POP-ABORT"
  <2>1. CASE j \in 1 .. Len(t)
    BY <1>2, <2>1 DEF Guarded
  <2>2. CASE j \notin 1 .. Len(t)
    <3>1. PICK l \in 1 .. Len(u) : j = Len(t) + l
      BY <1>1, <1>2, <2>2
    <3> QED BY <1>2, <3>1 DEF Guarded
  <2> QED BY <2>1, <2>2
<1>4. Guarded(v)
  BY <1>2, <1>3 DEF Guarded
<1> QED BY <1>4 DEF v

(* Such code, and a return, stands above a prompt.                         *)
LEMMA GuardedFits ==
    ASSUME NEW t, Guarded(t), NEW hs, NEW rs, NEW i, PromptBelow(hs, i)
    PROVE  Fits(t \o << <<"RETURN">> >>, hs, rs, i)
<1> DEFINE r == <<"RETURN">>
           c == <<r>>
           u == t \o c
<1>1. IsSeq(t) /\ Len(t) \in Nat /\ IsSeq(c) /\ Len(c) = 1 /\ c[1] = r
  BY SeqShort, SeqLen DEF Guarded
<1>2. InstructionOK(r) /\ r[1] \in Ends /\ r[1] # "POP-ABORT"
  BY DEF InstructionOK, Ends
<1> HIDE DEF c, r
<1>3. u = Append(t, r)
  BY <1>1, SeqAppends DEF c
<1> HIDE DEF u
<1>4. IsSeq(u) /\ Len(u) = Len(t) + 1 /\ u[Len(t) + 1] = r /\ \A j \in 1 .. Len(t) : u[j] = t[j]
  BY <1>1, <1>3, SeqAppend
<1>5. \A j \in 1 .. Len(u) : j \in 1 .. Len(t) \/ j = Len(t) + 1
  BY <1>1, <1>4
<1>6. \A j \in 1 .. Len(u) : InstructionOK(u[j]) /\ u[j][1] # "POP-ABORT"
  BY <1>2, <1>4, <1>5 DEF Guarded
<1>7. u # << >>
  <2>1. Len(u) # 0
    BY <1>1, <1>4
  <2> QED BY <2>1, SeqShort
<1>8. Plain(u) /\ ~Has(u, {"POP-ABORT"})
  BY <1>2, <1>4, <1>6, <1>7 DEF Plain, Has
<1>9. Fits(u, hs, rs, i)
  BY <1>8 DEF Fits
<1> QED BY <1>9 DEF u, c, r

(* A trap expression: the address its prompt returns to, the prompt's own  *)
(* end, and the hole for it.                                               *)
LEMMA PromptStep ==
    ASSUME IInv, Prompt
    PROVE  Steady'
<1>1. Steady /\ code[1][1] = "PROMPT" /\ code[1][1] \notin Special /\ code[1][1] \notin Ends
  BY AtSteady DEF Prompt, At, Special, Ends
<1>2. /\ IsSeq(stack) /\ Len(stack) \in Nat /\ Len(stack) >= 5 /\ code # TOP /\ code # FIN /\ pause = 0
      /\ IsSeq(holes) /\ Len(holes) \in Nat /\ IsSeq(runs) /\ Len(runs) \in Nat
      /\ Fits(code, holes, runs, Len(stack) + 1) /\ Fits(Rest, holes, runs, Len(stack) + 1)
  BY <1>1, Ordinary
<1> DEFINE form == code[1][2]
           h == code[1][3]
           R == << <<"RETURN">> >>
           f == Return(Rest, << >>)
           s == Append(stack, f)
           a == Len(s) + 1
           n == Len(form)
           g == Return(TOP, << >>)
           k == Continuation(s, R, Len(s))
           sb == Append(s, g)
           hs2 == Append(holes, k)
           push == [i \in 1 .. n |-> <<"PUSH-TRAP", form[n + 1 - i], h, i - 1>>]
           pop == [i \in 1 .. n |-> <<"POP-TRAP">>]
           c2 == ((push \o << <<"EXPR", a>> >>) \o pop) \o R
<1>3. form \in TrapForms /\ h \in Handlers
  <2>1. IsSeq(code) /\ code # << >> /\ \A i \in 1 .. Len(code) : InstructionOK(code[i])
    BY <1>2 DEF Fits, Plain
  <2>2. 1 \in 1 .. Len(code)
    <3>1. PICK S : code \in Seq(S)
      BY <2>1 DEF IsSeq
    <3> QED BY <2>1, <3>1
  <2> QED BY <1>1, <2>1, <2>2 DEF InstructionOK
<1>4. n \in Nat
  BY <1>3, VMStackAssumption
<1>5. /\ stack' = sb /\ holes' = hs2 /\ code' = c2 /\ frame' = a
      /\ regs' = Callable /\ UNCHANGED <<runs, pause, interactive, bound, mode>>
  BY DEF Prompt, TOP
<1> HIDE DEF form, h
<1>6. f.m = "return" /\ f.code = Rest /\ ~(f.run > 0)
  BY DEF Return
<1>7. g.m = "return" /\ g.code = TOP /\ ~(g.run > 0)
  BY DEF Return
<1>8. k.stack = s /\ k.code = R /\ k.holes = holes /\ k.run = Len(runs) /\ k.frame = Len(s)
  BY DEF Continuation
<1>9. \A i : Fits(R, holes, runs, i) /\ R # TOP /\ R # FIN
  <2>1. \A i : Fits(R, holes, runs, i)
    BY LeavesFits DEF InstructionOK, Ends
  <2> QED BY <2>1, PlainIsNeither DEF Fits
<1> HIDE DEF f, g, k
<1>10. Sound(stack, Rest, holes, runs)
  BY <1>1, <1>2, Continue DEF Steady
<1>11. Sound(s, R, holes, runs)
  BY <1>2, <1>6, <1>9, <1>10, PushAddress DEF Stands
<1>12. IsSeq(s) /\ Len(s) = Len(stack) + 1 /\ Len(s) \in Nat
  <2>1. IsSeq(s) /\ Len(s) = Len(stack) + 1
    BY <1>2, SeqAppend
  <2> QED BY <1>2, <2>1
<1> HIDE DEF s
<1>13. /\ IsSeq(hs2) /\ Len(hs2) = Len(holes) + 1 /\ hs2[Len(holes) + 1] = k
       /\ \A j \in 1 .. Len(holes) : hs2[j] = holes[j]
  BY <1>2, SeqAppend
<1>14. PromptBelow(hs2, Len(s) + 2)
  <2>1. hs2 # << >>
    <3>1. Len(hs2) # 0
      BY <1>2, <1>13
    <3> HIDE DEF hs2
    <3> QED BY <3>1, SeqShort
  <2>2. HolePos(hs2, 1) \in 6 .. Len(s) + 1
    <3>1. CASE Len(holes) = 0
      <4>1. hs2[1] = k
        BY <1>13, <3>1
      <4> QED BY <1>2, <1>8, <1>12, <4>1 DEF HolePos
    <3>2. CASE Len(holes) # 0
      <4>1. 1 \in 1 .. Len(holes)
        BY <1>2, <3>2
      <4>2. HolePos(holes, 1) \in 6 .. Len(s) + 1
        BY <1>11, <4>1, SoundFacts
      <4> QED BY <1>13, <4>1, <4>2 DEF HolePos
    <3> QED BY <3>1, <3>2
  <2>3. HolePos(hs2, 1) < Len(s) + 2
    BY <1>12, <2>2
  <2> QED BY <2>1, <2>3 DEF PromptBelow
<1>15. Fits(c2, hs2, runs, Len(s) + 2)
  <2>1. Guarded(push)
    <3>1. IsSeq(push) /\ Len(push) = n
      <4>1. push = [i \in 1 .. n |-> push[i]]
        OBVIOUS
      <4> HIDE DEF push, n
      <4> QED BY <1>4, <4>1, SeqMake
    <3>2. ASSUME NEW i \in 1 .. Len(push)
          PROVE  InstructionOK(push[i]) /\ push[i][1] # "POP-ABORT"
      <4>1. push[i] = <<"PUSH-TRAP", form[n + 1 - i], h, i - 1>>
        BY <3>1
      <4> DEFINE x == form[n + 1 - i]
                 y == i - 1
      <4>2. push[i] = <<"PUSH-TRAP", x, h, y>>
        BY <4>1
      <4>3. Singles => y = 0
        <5>1. Singles => n = 1
          BY <1>3 DEF Singles
        <5> HIDE DEF push, n
        <5> QED BY <3>1, <5>1
      <4> HIDE DEF push, x, y
      <4>4. push[i][1] = "PUSH-TRAP" /\ push[i][3] = h /\ push[i][4] = y
        BY <4>2
      <4> QED BY <1>3, <4>3, <4>4 DEF InstructionOK
    <3> HIDE DEF push
    <3> QED BY <3>2, <3>1 DEF Guarded
  <2>2. Guarded(pop)
    <3>1. IsSeq(pop) /\ Len(pop) = n
      <4>1. pop = [i \in 1 .. n |-> pop[i]]
        OBVIOUS
      <4> HIDE DEF pop, n
      <4> QED BY <1>4, <4>1, SeqMake
    <3>2. ASSUME NEW i \in 1 .. Len(pop)
          PROVE  InstructionOK(pop[i]) /\ pop[i][1] # "POP-ABORT"
      <4>1. pop[i] = <<"POP-TRAP">>
        BY <3>1
      <4> HIDE DEF pop
      <4>2. pop[i][1] = "POP-TRAP"
        BY <4>1
      <4> QED BY <4>2 DEF InstructionOK
    <3> HIDE DEF pop
    <3> QED BY <3>2, <3>1 DEF Guarded
  <2>3. Guarded(<< <<"EXPR", a>> >>)
    <3> DEFINE x == <<"EXPR", a>>
               t == <<x>>
    <3>1. IsSeq(t) /\ Len(t) = 1 /\ t[1] = x
      BY SeqShort
    <3>2. InstructionOK(x) /\ x[1] # "POP-ABORT"
      BY DEF InstructionOK
    <3> HIDE DEF t, x
    <3>3. \A i \in 1 .. 1 : i = 1
      OBVIOUS
    <3>4. Guarded(t)
      BY <3>1, <3>2, <3>3 DEF Guarded
    <3> QED BY <3>4 DEF t, x
  <2> HIDE DEF push, pop, a
  <2>4. Guarded(push \o << <<"EXPR", a>> >>)
    BY <2>1, <2>3, GuardedJoin
  <2>5. Guarded((push \o << <<"EXPR", a>> >>) \o pop)
    BY <2>2, <2>4, GuardedJoin
  <2> QED BY <1>14, <2>5, GuardedFits
<1> HIDE DEF c2
<1>16. FrameOK(sb, hs2, runs, Len(s) + 1)
  BY <1>7, <1>12, FrameMade DEF Stands
<1>17. NewHole(s, holes, runs, hs2, runs, R, g)
  BY <1>7, <1>8, <1>9, <1>12 DEF NewHole
<1>18. NoRun(runs, runs, R, g)
  <2>1. TOP # FIN
    <3>1. FIN[1][1] = "FINISH" /\ TOP[1][1] = "ABORT-TOP"
      BY DEF FIN, TOP
    <3> QED BY <3>1
  <2> QED BY <1>7, <1>9, <2>1 DEF NoRun
<1> HIDE DEF R, hs2
<1>19. Sound(sb, c2, hs2, runs)
  BY <1>11, <1>15, <1>16, <1>17, <1>18, Grow
<1>20. c2[1][1] # "EVALUATE"
  BY <1>15, Quiet DEF Stands
<1>21. a \in Nat
  BY <1>12
<1>22. Callable \in Registers
  BY <1>1, CallableTyped DEF Steady
<1> HIDE DEF a
<1> QED BY <1>1, <1>2, <1>5, <1>19, <1>20, <1>21, <1>22 DEF Steady, WellTyped

(* The VM's run ends where it began.                                       *)
LEMMA FinishStep ==
    ASSUME IInv, FinishRun
    PROVE  Steady'
<1>1. Steady /\ code[1][1] = "FINISH" /\ pause = 0
  BY AtSteady DEF FinishRun, At, Steady
<1>2. code = FIN
  BY <1>1, Running DEF Steady
<1> DEFINE r == runs[Len(runs)]
<1>3. /\ runs # << >> /\ r.ss0 = Len(stack)
      /\ Sound(stack, r.after, holes, SubSeq(runs, 1, Len(runs) - 1))
  BY <1>1, <1>2, RunEnds DEF Steady
<1>4. /\ code' = r.after /\ runs' = Front(runs)
      /\ UNCHANGED <<stack, frame, regs, holes, pause, interactive, bound, mode>>
  BY <1>3 DEF FinishRun
<1>5. r.after[1][1] # "EVALUATE"
  <2>1. IsSeq(runs) /\ Len(runs) \in Nat
    BY <1>1, SoundFacts DEF Steady
  <2>2. Len(runs) # 0
    <3>1. PICK S : runs \in Seq(S)
      BY <2>1 DEF IsSeq
    <3> QED BY <1>3, <3>1
  <2>3. Len(runs) \in 1 .. Len(runs)
    BY <2>1, <2>2
  <2>4. RunOK(stack, code, holes, runs, Len(runs))
    BY <1>1, <2>3 DEF Steady, Sound, RunsOK
  <2> QED BY <2>4, Quiet DEF RunOK, Stands
<1> HIDE DEF r
<1> QED BY <1>1, <1>3, <1>4, <1>5 DEF Steady, WellTyped, Front

(* C goes back to its caller.                                              *)
LEMMA InvokeCDoneStep ==
    ASSUME IInv, InvokeCDone
    PROVE  IInv'
<1>1. Steady /\ code[1][1] \notin Special
  BY AtSteady DEF InvokeCDone, At, Special
<1>2. /\ IsSeq(stack) /\ Len(stack) \in Nat /\ Len(stack) >= 5 /\ code # TOP /\ code # FIN /\ pause = 0
  BY <1>1, Ordinary
<1> DEFINE l == Len(stack)
<1>3. CASE stack[l].m = "all-state" /\ stack[l - 1].m = "return"
  <2>1. l # 5 /\ l # 6
    <3>1. Len(Base) = 5 /\ Base[5].m = "abort"
      BY DEF Base, Abort
    <3>2. stack[5] = Base[5]
      BY <1>1, <3>1 DEF Steady, Sound
    <3> QED BY <1>3, <3>1, <3>2
  <2> DEFINE n == l - 2
  <2>2. /\ n \in 5 .. Len(stack) - 1 /\ n + 1 = l - 1 /\ n + 2 = l
        /\ \A p \in n + 2 .. Len(stack) + 1 : p = l \/ p = l + 1
        /\ l \in 1 .. l /\ l - 1 \in 1 .. l /\ l # l + 1
    <3>1. l \in Nat /\ l >= 5 /\ l # 5 /\ l # 6
      BY <1>2, <2>1
    <3>2. l = Len(stack) /\ n = l - 2
      OBVIOUS
    <3> HIDE DEF l, n
    <3>3. /\ n \in 5 .. l - 1 /\ n + 1 = l - 1 /\ n + 2 = l
          /\ \A p \in n + 2 .. l + 1 : p = l \/ p = l + 1
          /\ l \in 1 .. l /\ l - 1 \in 1 .. l /\ l # l + 1
      BY <3>1, <3>2
    <3> QED BY <3>2, <3>3
  <2>3. \A p \in n + 2 .. Len(stack) + 1 : CodeAt(stack, code, p) # TOP /\ CodeAt(stack, code, p) # FIN
    <3>1. << >> # TOP /\ << >> # FIN
      <4>1. Len(TOP) = 1 /\ Len(FIN) = 1
        BY DEF TOP, FIN
      <4> QED BY <4>1
    <3>2. CodeAt(stack, code, l) = << >> /\ CodeAt(stack, code, l + 1) = code
      BY <1>3, <2>2 DEF CodeAt
    <3> QED BY <1>2, <2>2, <3>1, <3>2
  <2>4. stack[n + 1].m = "return"
    BY <1>3, <2>2
  <2>5. Sound(SubSeq(stack, 1, n), stack[n + 1].code, holes, runs)
    BY <1>1, <2>2, <2>3, <2>4, Back DEF Steady
  <2>6. /\ stack[l].frame \in Nat /\ stack[l].regs \in Registers
        /\ Stands(stack[l - 1].code, holes, runs, l - 1)
    <3>1. FrameOK(stack, holes, runs, l) /\ FrameOK(stack, holes, runs, l - 1)
      BY <1>1, <2>2 DEF Steady, Sound
    <3> QED BY <1>3, <3>1 DEF FrameOK, SavedOK, ReturnOK
  <2>7. stack[l - 1].code[1][1] # "EVALUATE"
    BY <2>6, Quiet
  <2>8. /\ stack' = SubSeq(stack, 1, n) /\ code' = stack[l - 1].code
        /\ frame' = stack[l].frame /\ regs' = stack[l].regs
        /\ UNCHANGED <<holes, runs, pause, interactive, bound, mode>>
    BY <1>3 DEF InvokeCDone
  <2>9. stack[n + 1] = stack[l - 1]
    BY <2>2
  <2> HIDE DEF n, l
  <2>10. Steady'
    BY <1>1, <1>2, <2>5, <2>6, <2>7, <2>8, <2>9 DEF Steady, WellTyped
  <2> QED BY <2>10, SteadyNext
<1>4. CASE ~(stack[l].m = "all-state" /\ stack[l - 1].m = "return")
  <2>1. mode' = "panic" /\ UNCHANGED <<stack, frame, regs, holes, runs, pause, interactive, bound>>
    BY <1>4 DEF InvokeCDone
  <2> HIDE DEF l
  <2> QED BY <1>1, <2>1, Panics DEF Steady, WellTyped
<1> QED BY <1>3, <1>4
-----------------------------------------------------------------------------
(* The invariant.                                                          *)

(* The VM starts on the base of its stack, at main's loop.                 *)
LEMMA StartsSteady == Init => IInv
<1> SUFFICES ASSUME Init PROVE IInv
  OBVIOUS
<1>1. /\ stack = Base /\ code = << <<"REPL">> >> /\ frame = 0
      /\ regs = Regs(0, TRUE) /\ holes = << >> /\ runs = << >> /\ pause = 0 /\ mode = "run"
  BY DEF Init
<1>2. WellTyped
  <2>1. Regs(0, TRUE) \in Registers
    BY DEF Regs, Registers
  <2> QED BY <2>1, VMStackAssumption DEF Init, WellTyped
<1>3. IsSeq(Base) /\ Len(Base) = 5
  <2>1. \A a, b, c, d, e : <<a, b, c, d, e>> \in Seq({a, b, c, d, e}) /\ Len(<<a, b, c, d, e>>) = 5
    OBVIOUS
  <2> QED BY <2>1 DEF Base, IsSeq
<1>4. /\ Base[1] = Trap(1, "condition", "reset", 1, 0, 0)
      /\ Base[2] = Trap(1, "condition", "restart", 2, 0, 0)
      /\ Base[3] = Trap(2, "condition", "default", 3, 0, 0)
      /\ Base[4] = Trap(3, "SIGCHLD", "default-SIGCHLD", 4, 0, 0)
      /\ Base[5] = Abort(0, MainK)
  BY DEF Base
<1>5. \A i \in 1 .. 5 : i = 1 \/ i = 2 \/ i = 3 \/ i = 4 \/ i = 5
  OBVIOUS
<1>6. Len(<< >>) = 0 /\ IsSeq(<< >>) /\ \A j \in 1 .. 0 : FALSE
  BY SeqShort
<1>7. ASSUME NEW i \in 1 .. 4 PROVE FrameOK(Base, << >>, << >>, i)
  <2>1. /\ Base[i].m = "trap" /\ (i > 1 => Base[i].next \in 1 .. i - 1)
        /\ Base[i].h \in {"default", "restart", "reset", "default-SIGCHLD"}
    BY <1>4 DEF Trap
  <2>2. i > 1 => Base[Base[i].next].m = "trap"
    BY <1>4 DEF Trap
  <2>3. Base[i].h \notin Handlers
    BY <2>1, VMStackAssumption
  <2> QED BY <2>1, <2>2, <2>3 DEF FrameOK, TrapOK, ReturnOK, SavedOK, ChainOK, AbortOK, Kinds
<1>8. FrameOK(Base, << >>, << >>, 5)
  <2>1. Base[5].m = "abort" /\ Base[5].next = 0
    BY <1>4 DEF Abort
  <2> DEFINE t == SubSeq(Base, 1, 5 - 1)
  <2>2. IsSeq(t) /\ Len(t) = 4 /\ \A i \in 1 .. 4 : t[i] = Base[i]
    <3>1. 4 \in 0 .. Len(Base) /\ 5 - 1 = 4
      BY <1>3
    <3>2. IsSeq(SubSeq(Base, 1, 4)) /\ Len(SubSeq(Base, 1, 4)) = 4
          /\ \A i \in 1 .. 4 : SubSeq(Base, 1, 4)[i] = Base[i]
      BY <1>3, <3>1, SeqCut
    <3> QED BY <3>1, <3>2
  <2>3. \A i \in 1 .. 4 : Base[i].m = "trap"
    BY <1>4 DEF Trap
  <2> HIDE DEF t
  <2>4. FindMarker(t, "abort") = 0
    <3>1. FindMarker(t, "abort") \in 0 .. Len(t)
          /\ (FindMarker(t, "abort") # 0 => t[FindMarker(t, "abort")].m = "abort")
      BY <2>2, Marker
    <3> QED BY <2>2, <2>3, <3>1
  <2>5. ChainOK(Base, 5)
    BY <2>1, <2>4 DEF ChainOK, t
  <2> QED BY <1>3, <2>1, <2>5 DEF FrameOK, TrapOK, ReturnOK, SavedOK, AbortOK, Kinds
<1>9. \A i \in 1 .. 5 : FrameOK(Base, << >>, << >>, i)
  <2>1. \A i \in 1 .. 5 : i \in 1 .. 4 \/ i = 5
    OBVIOUS
  <2> QED BY <1>7, <1>8, <2>1
<1> DEFINE c == << <<"REPL">> >>
<1>10. Fits(c, << >>, << >>, 6)
  BY LeavesFits DEF InstructionOK, Ends
<1>11. \A p \in 1 .. 6 : CodeAt(Base, c, p) # TOP /\ CodeAt(Base, c, p) # FIN
  <2>1. << >> # TOP /\ << >> # FIN
    <3>1. Len(TOP) = 1 /\ Len(FIN) = 1
      BY DEF TOP, FIN
    <3> QED BY <3>1, <1>6
  <2>2. c # TOP /\ c # FIN
    BY <1>10, PlainIsNeither DEF Fits
  <2>3. \A p \in 1 .. 5 : Base[p].m # "return"
    BY <1>4, <1>5 DEF Trap, Abort
  <2>4. \A p \in 1 .. 6 : p \in 1 .. 5 \/ p = 5 + 1
    OBVIOUS
  <2> HIDE DEF c
  <2> QED BY <1>3, <2>1, <2>2, <2>3, <2>4 DEF CodeAt
<1> HIDE DEF c
<1>12. HolesOK(Base, c, << >>, << >>)
  <2>1. \A p \in 1 .. Len(Base) + 1 : CodeAt(Base, c, p) # TOP
    BY <1>3, <1>11
  <2> QED BY <1>6, <2>1 DEF HolesOK
<1>13. RunsOK(Base, c, << >>, << >>)
  <2>1. \A p \in 1 .. Len(Base) + 1 : CodeAt(Base, c, p) # FIN
    BY <1>3, <1>11
  <2>2. \A p \in 1 .. Len(Base) : Base[p].m # "return"
    BY <1>3, <1>4, <1>5 DEF Trap, Abort
  <2> QED BY <1>6, <2>1, <2>2 DEF RunsOK
<1>14. Sound(Base, c, << >>, << >>)
  <2>1. Fits(c, << >>, << >>, Len(Base) + 1)
    BY <1>3, <1>10
  <2> QED BY <1>3, <1>6, <1>9, <1>12, <1>13, <2>1 DEF Sound, Stands
<1>15. c[1][1] # "EVALUATE"
  BY <1>10, Quiet DEF Stands
<1>16. Steady
  BY <1>1, <1>2, <1>14, <1>15 DEF Steady, c
<1> QED BY <1>16, SteadyHolds

(* Every step keeps it.                                                    *)
LEMMA StepKeeps == IInv /\ [Next]_vars => IInv'
<1> SUFFICES ASSUME IInv, [Next]_vars PROVE IInv'
  OBVIOUS
<1>1. CASE Repl \/ LoadReads \/ LoadRuns \/ EvaluateFails
  BY <1>1, ReplStep, LoadReadsStep, LoadRunsStep, EvaluateFailsStep, SteadyNext
<1>2. CASE LoadEnds \/ Exit
  BY <1>2, LoadEndsStep, ExitStep, SteadyNext
<1>3. CASE Value \/ Application \/ TrapForm \/ DynamicForm \/ LoadForm
  BY <1>3, ExpandSteps, SteadyNext
<1>4. CASE RaiseForm \/ ReraiseForm \/ CallbackClosure \/ CallbackFails
  BY <1>4, RaiseSteps, CallbackSteps, SteadyNext
<1>5. CASE PushAbort \/ Ref \/ Call \/ Prompt
  BY <1>5, PushAbortStep, RefSteady, CallStep, PromptStep, SteadyNext
<1>15. CASE PopFunction \/ FunctionInvoke \/ RestoreAllStateFails \/ InvokeCFails
  BY <1>15, PopFunctionStep, FailSteps, SteadyNext
<1>6. CASE PreserveState \/ LoadFile \/ PushTrap \/ PushDynamic
  BY <1>6, PushSteps, SteadyNext
<1>7. CASE PopAbort \/ RestoreState \/ RestoreAllState \/ PopTrap \/ PopDynamic
  BY <1>7, PopSteps
<1>8. CASE ReturnFrom
  BY <1>8, ReturnStep
<1>9. CASE AbortTop \/ TrapReturn
  BY <1>9, HoleSteps
<1>10. CASE DefaultSigchld \/ DefaultHandler \/ RestartHandler
  BY <1>10, BaseHandlerSteps
<1>11. CASE ResetHandler \/ NonContErr
  BY <1>11, AbortOneSteps
<1>12. CASE FinishRun \/ InvokeCDone
  BY <1>12, FinishStep, InvokeCDoneStep, SteadyNext
<1>13. CASE Signal
  BY <1>13, SignalStep, SteadyNext
<1>14. CASE UNCHANGED vars
  BY <1>14 DEF IInv, TypeOK, PauseBalanced, At, vars
<1> QED BY <1>1, <1>2, <1>3, <1>4, <1>5, <1>6, <1>7, <1>8, <1>9, <1>10, <1>11, <1>12, <1>13, <1>14,
           <1>15 DEF Next, Machine, Ended

(* The stack is sound at every step, until main's continuation exits.      *)
THEOREM IInvInvariant == Spec => []IInv
BY StartsSteady, StepKeeps, PTL DEF Spec

-----------------------------------------------------------------------------
(* What follows from it.                                                   *)

(* What the runs look like from a stack that is sound with the first n of  *)
(* them.                                                                   *)
LEMMA SoundStands ==
    ASSUME IsSeq(runs), NEW n \in 0 .. Len(runs), NEW s, NEW c, NEW hs,
           Sound(s, c, hs, SubSeq(runs, 1, n))
    PROVE  StandsOn(s, c, n)
<1> DEFINE rs == SubSeq(runs, 1, n)
<1>1. Len(runs) \in Nat /\ Len(rs) = n /\ \A i \in 1 .. n : rs[i] = runs[i]
  BY SeqLen, SeqCut
<1>2. Sound(s, c, hs, rs)
  OBVIOUS
<1> HIDE DEF rs
<1>3. /\ Len(s) \in Nat /\ IsSeq(s) /\ DOMAIN s = 1 .. Len(s)
      /\ \A i \in 1 .. n : rs[i].ss0 \in 5 .. Len(s) /\ CodeAt(s, c, rs[i].ss0 + 1) = FIN
  <2>1. Len(s) \in Nat /\ IsSeq(s)
    BY <1>2, SoundFacts
  <2>2. \A i \in 1 .. Len(rs) : rs[i].ss0 \in 5 .. Len(s)
    BY <1>2, SoundFacts
  <2>3. \A i \in 1 .. Len(rs) : CodeAt(s, c, rs[i].ss0 + 1) = FIN
    BY <1>2, SoundFacts
  <2> QED BY <1>1, <2>1, <2>2, <2>3, SeqLen
<1>4. ASSUME NEW i \in 1 .. n
      PROVE  LET at == runs[i].ss0 + 1
             IN IF at > Len(s) THEN i = n /\ at = Len(s) + 1 /\ c = FIN
                ELSE s[at].m = "return" /\ s[at].code = FIN
  <2> DEFINE at == runs[i].ss0 + 1
  <2>1. runs[i].ss0 \in 5 .. Len(s) /\ CodeAt(s, c, at) = FIN
    BY <1>1, <1>3
  <2>2. CASE at > Len(s)
    <3>1. at = Len(s) + 1
      BY <1>3, <2>1, <2>2
    <3>2. c = FIN
      BY <2>1, <3>1 DEF CodeAt
    <3>3. n \in 1 .. n /\ n \in Nat /\ i \in Nat /\ i <= n
      BY <1>1
    <3>4. runs[n].ss0 \in 5 .. Len(s)
      BY <1>1, <1>3, <3>3
    <3>5. n <= i <=> rs[n].ss0 <= rs[i].ss0
      BY <1>1, <1>2, <3>3 DEF Sound, RunsOK, RunOK
    <3>6. runs[n].ss0 <= runs[i].ss0
      BY <1>3, <2>1, <3>1, <3>4
    <3>7. i = n
      BY <1>1, <3>3, <3>5, <3>6
    <3> QED BY <2>2, <3>1, <3>2, <3>7
  <2>3. CASE ~(at > Len(s))
    <3>1. at # Len(s) + 1
      BY <1>3, <2>3
    <3>2. FIN # << >>
      <4>1. Len(FIN) = 1
        BY DEF FIN
      <4> QED BY <4>1
    <3>3. s[at].m = "return" /\ s[at].code = FIN
      BY <2>1, <3>1, <3>2 DEF CodeAt
    <3> QED BY <2>3, <3>3
  <2> QED BY <2>2, <2>3
<1>5. ASSUME NEW i \in Positions(s, "return"), s[i].run > 0
      PROVE  s[i].run <= n /\ i = runs[s[i].run].ss0 + 1
  <2>1. i \in 1 .. Len(s) /\ s[i].m = "return"
    BY <1>3 DEF Positions
  <2>2. s[i].run \in 1 .. Len(rs) /\ i = rs[s[i].run].ss0 + 1
    BY <1>2, <1>5, <2>1 DEF Sound, RunsOK
  <2> QED BY <1>1, <2>2
<1>6. n <= Len(runs)
  BY <1>1
<1> QED BY <1>4, <1>5, <1>6 DEF StandsOn

(* What main's continuation restores: no run is left.                      *)
LEMMA MainStands ==
    ASSUME IsSeq(runs)
    PROVE  StandsOn(MainK.stack, MainK.code, MainK.run)
<1>1. MainK.stack = << >> /\ MainK.run = 0 /\ Len(runs) \in Nat
  BY SeqLen DEF MainK
<1>2. Positions(<< >>, "return") = {}
  BY DEF Positions
<1> QED BY <1>1, <1>2 DEF StandsOn

(* main's continuation has nothing left to restore.                        *)
LEMMA NoneLeft ==
    ASSUME Leaving(stack, code, holes, runs)
    PROVE  Continuations = {} /\ StandsOn(stack, code, Len(runs))
<1>1. stack = << >> /\ holes = << >> /\ runs = << >>
  BY DEF Leaving
<1>2. \A m : Positions(stack, m) = {}
  BY <1>1 DEF Positions
<1>3. Range(holes) = {}
  BY <1>1 DEF Range
<1>4. Len(runs) = 0
  BY <1>1
<1> QED BY <1>2, <1>3, <1>4 DEF Continuations, StandsOn

(* A continuation made on the stack lands in a run that has not ended.     *)
LEMMA ContinuationStands ==
    ASSUME Steady, NEW i \in 6 .. Len(stack) + 1, NEW k,
           ContinuationOK(k, stack, holes, runs, i)
    PROVE  StandsOn(k.stack, k.code, k.run)
<1>1. IsSeq(runs) /\ Sound(stack, code, holes, runs)
  BY SoundFacts DEF Steady
<1>2. k.run \in 0 .. Len(runs)
  BY DEF ContinuationOK, RunsBelow
<1>3. Sound(k.stack, k.code, k.holes, SubSeq(runs, 1, k.run))
  BY <1>1, Restored
<1> QED BY <1>1, <1>2, <1>3, SoundStands

(* The runs, and the continuations that may be restored.                   *)
LEMMA SteadyJumps ==
    ASSUME Steady
    PROVE  JumpsLive
<1>1. /\ IsSeq(stack) /\ IsSeq(holes) /\ IsSeq(runs) /\ Len(stack) \in Nat /\ Len(runs) \in Nat
      /\ DOMAIN holes = 1 .. Len(holes)
      /\ Sound(stack, code, holes, runs)
  BY SoundFacts, SeqLen DEF Steady
<1>2. StandsOn(stack, code, Len(runs))
  <2>1. SubSeq(runs, 1, Len(runs)) = runs /\ Len(runs) \in 0 .. Len(runs)
    BY <1>1, SeqWhole
  <2> QED BY <1>1, <2>1, SoundStands
<1>3. /\ \A p \in Positions(stack, "abort") :
             stack[p].next = 0 \/ (stack[p].next \in Positions(stack, "abort") /\ stack[p].next < p)
      /\ 5 \in Positions(stack, "abort") /\ stack[5].k = MainK
      /\ \A p \in Positions(stack, "abort") :
             p # 5 => p \in 6 .. Len(stack) /\ ContinuationOK(stack[p].k, stack, holes, runs, p)
  BY <1>1, Chains
<1>4. ASSUME NEW k \in Range(holes)
      PROVE  StandsOn(k.stack, k.code, k.run)
  <2>1. PICK j \in 1 .. Len(holes) : k = holes[j]
    BY <1>1 DEF Range
  <2>2. HolePos(holes, j) \in 6 .. Len(stack) + 1
    BY <1>1, SoundFacts
  <2>3. ContinuationOK(k, stack, holes, runs, HolePos(holes, j))
    BY <1>1, <2>1 DEF Sound, HolesOK, HoleOK
  <2> QED BY <2>2, <2>3, ContinuationStands
<1>5. ASSUME NEW i \in {FindAbort1(stack), FindAbort2(stack)} \ {0}
      PROVE  StandsOn(stack[i].k.stack, stack[i].k.code, stack[i].k.run)
  <2>1. Positions(stack, "abort") # {}
    BY <1>3
  <2>2. i \in Positions(stack, "abort")
    BY <1>1, <1>3, <2>1, AbortFacts
  <2>3. CASE i = 5
    BY <1>1, <1>3, <2>3, MainStands
  <2>4. CASE i # 5
    <3>1. i \in 6 .. Len(stack) + 1 /\ ContinuationOK(stack[i].k, stack, holes, runs, i)
      BY <1>1, <1>3, <2>2, <2>4
    <3> QED BY <3>1, ContinuationStands
  <2> QED BY <2>3, <2>4
<1>6. \A k \in Continuations :
          \/ k \in Range(holes)
          \/ \E i \in {FindAbort1(stack), FindAbort2(stack)} \ {0} : k = stack[i].k
  BY DEF Continuations
<1>7. \A k \in Continuations : StandsOn(k.stack, k.code, k.run)
  BY <1>4, <1>5, <1>6
<1> QED BY <1>2, <1>7 DEF JumpsLive

(* The links of a sound stack lead down.                                   *)
LEMMA SteadyChains ==
    ASSUME Steady
    PROVE  ChainsDescend
<1>1. DOMAIN stack = 1 .. Len(stack) /\ Len(stack) \in Nat
  BY SoundFacts, SeqLen DEF Steady
<1>2. ASSUME NEW i \in DOMAIN stack
      PROVE  /\ stack[i].m = "trap" /\ i > 1 => stack[i].next < i /\ stack[stack[i].next].m = "trap"
             /\ stack[i].m \in {"dynamic", "abort"} =>
                    stack[i].next = FindMarker(SubSeq(stack, 1, i - 1), stack[i].m)
  <2>1. TrapOK(stack, holes, i) /\ ChainOK(stack, i)
    BY <1>1 DEF Steady, Sound, FrameOK
  <2>2. stack[i].m = "trap" /\ i > 1 => stack[i].next \in 1 .. i - 1 /\ stack[stack[i].next].m = "trap"
    BY <2>1 DEF TrapOK
  <2> QED BY <1>1, <2>1, <2>2 DEF ChainOK
<1> QED BY <1>2 DEF ChainsDescend

(* What is true of a sound stack and of the one main leaves.               *)
LEMMA IInvMeans ==
    ASSUME IInv
    PROVE  JumpsLive /\ ChainsDescend /\ TrapReturnHasPrompt
<1>1. CASE mode # "run"
  BY <1>1 DEF JumpsLive, ChainsDescend, TrapReturnHasPrompt, At
<1>2. CASE mode = "run" /\ Leaving(stack, code, holes, runs)
  <2>1. code[1][1] = "EXIT" /\ DOMAIN stack = {}
    BY <1>2 DEF Leaving
  <2>2. JumpsLive
    BY <1>2, NoneLeft DEF JumpsLive
  <2>3. ChainsDescend /\ TrapReturnHasPrompt
    BY <2>1 DEF ChainsDescend, TrapReturnHasPrompt, At
  <2> QED BY <2>2, <2>3
<1>3. CASE mode = "run" /\ Sound(stack, code, holes, runs)
  <2>1. Steady
    BY <1>3 DEF IInv, TypeOK, PauseBalanced, At, Steady, WellTyped
  <2>2. TrapReturnHasPrompt
    BY <2>1, HoleThere DEF TrapReturnHasPrompt, At
  <2> QED BY <2>1, <2>2, SteadyJumps, SteadyChains
<1> QED BY <1>1, <1>2, <1>3 DEF IInv

(* The frames on the stack are of the kinds vm.c names, and no count is    *)
(* ever negative: the pause counter, which an error jumps over, and the    *)
(* stack sizes the C runs start from.                                      *)
THEOREM TypeCorrect == Spec => []TypeOK
<1>1. IInv => TypeOK
  BY DEF IInv
<1> QED BY <1>1, IInvInvariant, PTL

(* The collector is paused inside the evaluator and nowhere else, whatever *)
(* error jumps out of the evaluator past the resume.                       *)
THEOREM PauseSafe == Spec => []PauseBalanced
<1>1. IInv => PauseBalanced
  BY DEF IInv, PauseBalanced
<1> QED BY <1>1, IInvInvariant, PTL

(* A handler's trap-return and the end of a prompt always find a hole: no  *)
(* restored continuation leaves a handler without a prompt below it.       *)
THEOREM TrapReturnSafe == Spec => []TrapReturnHasPrompt
<1>1. IInv => TrapReturnHasPrompt
  BY IInvMeans
<1> QED BY <1>1, IInvInvariant, PTL

(* The chains of trap, dynamic and abort frames lead down the stack to one *)
(* of their own kind, so idio_vm_find_* and the search for a handler end.  *)
THEOREM ChainsSafe == Spec => []ChainsDescend
<1>1. IInv => ChainsDescend
  BY IInvMeans
<1> QED BY <1>1, IInvInvariant, PTL

(* Every C run's FINISH address is on the stack where the run found it,    *)
(* and every continuation that may be restored belongs to a run that has   *)
(* not ended: siglongjmp never goes to a C frame that is gone.             *)
THEOREM JumpsSafe == Spec => []JumpsLive
<1>1. IInv => JumpsLive
  BY IInvMeans
<1> QED BY <1>1, IInvInvariant, PTL

-----------------------------------------------------------------------------
(* In the care of the next handler.  Trap expressions are numbered by      *)
(* where they stand on the stack, so the numbers fall along the chain,     *)
(* also through the copies under which handlers run; only the last trap of *)
(* the base is its own next.                                               *)

CareOK(s, i) ==
    s[i].m = "trap" =>
        /\ s[i].next \in 1 .. i /\ s[s[i].next].m = "trap"
        /\ s[i].id \in 1 .. i
        /\ \/ s[i].id = 1 /\ s[s[i].next].id = 1
           \/ s[s[i].next].id < s[i].id
        /\ s[i].for # 0 => s[i].id # s[i].for \/ s[i].id = 1
Cares(s) == IsSeq(s) /\ \A i \in 1 .. Len(s) : CareOK(s, i)

(* It is about what is below, so it holds of what is left of a stack.      *)
LEMMA CaresCut ==
    ASSUME NEW s, Cares(s), NEW n \in 0 .. Len(s)
    PROVE  Cares(SubSeq(s, 1, n))
<1> DEFINE t == SubSeq(s, 1, n)
<1>1. IsSeq(s) /\ Len(s) \in Nat /\ IsSeq(t) /\ Len(t) = n /\ \A i \in 1 .. n : t[i] = s[i]
  BY SeqCut, SeqLen DEF Cares
<1> HIDE DEF t
<1>2. ASSUME NEW i \in 1 .. n, t[i].m = "trap"
      PROVE  CareOK(t, i)
  <2>1. i \in 1 .. Len(s) /\ t[i] = s[i]
    BY <1>1
  <2>2. CareOK(s, i)
    BY <2>1 DEF Cares
  <2>3. s[i].next \in 1 .. i
    BY <1>2, <2>1, <2>2 DEF CareOK
  <2>4. s[i].next \in 1 .. n
    BY <1>1, <2>3
  <2>5. t[s[i].next] = s[s[i].next]
    BY <1>1, <2>4
  <2> QED BY <2>1, <2>2, <2>5 DEF CareOK
<1>3. \A i \in 1 .. Len(t) : CareOK(t, i)
  BY <1>1, <1>2 DEF CareOK
<1>4. Cares(t)
  BY <1>1, <1>3 DEF Cares
<1> QED BY <1>4 DEF t

(* A frame is pushed.                                                      *)
LEMMA CaresPush ==
    ASSUME NEW s, Cares(s), NEW f, CareOK(Append(s, f), Len(s) + 1)
    PROVE  Cares(Append(s, f))
<1> DEFINE t == Append(s, f)
<1>1. /\ IsSeq(s) /\ Len(s) \in Nat /\ IsSeq(t) /\ Len(t) = Len(s) + 1
      /\ \A i \in 1 .. Len(s) : t[i] = s[i]
  BY SeqAppend, SeqLen DEF Cares
<1>2. CareOK(t, Len(s) + 1)
  OBVIOUS
<1> HIDE DEF t
<1>3. ASSUME NEW i \in 1 .. Len(s), t[i].m = "trap"
      PROVE  CareOK(t, i)
  <2>1. t[i] = s[i] /\ CareOK(s, i)
    BY <1>1 DEF Cares
  <2>2. s[i].next \in 1 .. i
    BY <1>3, <2>1 DEF CareOK
  <2>3. s[i].next \in 1 .. Len(s)
    BY <1>1, <2>2
  <2>4. t[s[i].next] = s[s[i].next]
    BY <1>1, <2>3
  <2> QED BY <2>1, <2>4 DEF CareOK
<1>4. \A i \in 1 .. Len(t) : i \in 1 .. Len(s) \/ i = Len(s) + 1
  BY <1>1
<1>5. \A i \in 1 .. Len(t) : CareOK(t, i)
  BY <1>2, <1>3, <1>4 DEF CareOK
<1>6. Cares(t)
  BY <1>1, <1>5 DEF Cares
<1> QED BY <1>6 DEF t

(* Any other frame than a trap.                                            *)
LEMMA CaresPushOther ==
    ASSUME NEW s, Cares(s), NEW f, f.m # "trap"
    PROVE  Cares(Append(s, f))
<1>1. Append(s, f)[Len(s) + 1] = f
  BY SeqAppend DEF Cares
<1>2. CareOK(Append(s, f), Len(s) + 1)
  BY <1>1 DEF CareOK
<1> QED BY <1>2, CaresPush

(* A condition is raised: the copy pushed is of the trap after the one     *)
(* whose handler is to run.                                                *)
LEMMA CaresRaised ==
    ASSUME NEW s, NEW pc, Cares(s), Sound(s, pc, holes, runs),
           NEW kind, NEW c, NEW continuable, NEW func,
           Raise(kind, c, continuable, func, s, pc)
    PROVE  Cares(stack')
<1> DEFINE p == Match(s, IF kind = "raise" THEN FindMarker(s, "trap") ELSE FindMaxTrap(s), c)
           w == IF kind = "signal" THEN <<frame, regs>> ELSE <<frame>>
           f1 == Return(pc, w)
           f2 == IF kind = "signal" THEN AllState(frame, regs) ELSE State(frame)
           f3 == NextInCare(s, p)
           back == IF kind = "signal" THEN IHR ELSE IF continuable THEN CHR ELSE NCE
           f4 == Return(back, << >>)
           sa == Append(s, f1)
           sb == Append(sa, f2)
           sc == Append(sb, f3)
           sd == Append(sc, f4)
<1>1. stack' = sc \/ stack' = sd
  <2>1. IsSeq(s)
    BY DEF Cares
  <2>2. /\ s \o <<Return(pc, <<frame, regs>>), AllState(frame, regs)>>
            = Append(Append(s, Return(pc, <<frame, regs>>)), AllState(frame, regs))
        /\ s \o <<Return(pc, <<frame>>), State(frame)>>
            = Append(Append(s, Return(pc, <<frame>>)), State(frame))
    BY <2>1, SeqAppends
  <2>3. (IF kind = "signal"
         THEN s \o <<Return(pc, <<frame, regs>>), AllState(frame, regs)>>
         ELSE s \o <<Return(pc, <<frame>>), State(frame)>>) = sb
    BY <2>2
  <2> HIDE DEF sb, p, f4
  <2>4. \/ stack' = Append(sb, f3)
        \/ stack' = Append(Append(sb, f3), f4)
    BY <2>3 DEF Raise, p, f4
  <2> QED BY <2>4
<1>2. p \in Positions(s, "trap")
  BY Matched
<1> HIDE DEF p
<1>3. IsSeq(s) /\ Len(s) \in Nat /\ DOMAIN s = 1 .. Len(s)
  BY SeqLen DEF Cares
<1> DEFINE n == s[p].next
<1>4. p \in 1 .. Len(s) /\ s[p].m = "trap" /\ CareOK(s, p)
  BY <1>2, <1>3 DEF Positions, Cares
<1>5. n \in 1 .. p /\ s[n].m = "trap"
  BY <1>4 DEF CareOK
<1>6. n \in 1 .. Len(s) /\ CareOK(s, n)
  <2>1. n \in 1 .. Len(s)
    BY <1>3, <1>4, <1>5
  <2> QED BY <2>1 DEF Cares
<1>7. f1.m # "trap" /\ f2.m # "trap" /\ f4.m # "trap"
  BY DEF Return, State, AllState
<1>8. f3.next = s[n].next /\ f3.id = s[n].id /\ f3.for = s[p].id
  BY DEF NextInCare, Trap
<1> HIDE DEF f1, f2, f3, f4
<1>9. Cares(sa) /\ Len(sa) = Len(s) + 1 /\ IsSeq(sa) /\ \A i \in 1 .. Len(s) : sa[i] = s[i]
  BY <1>3, <1>7, CaresPushOther, SeqAppend
<1> HIDE DEF sa
<1>10. Cares(sb) /\ Len(sb) = Len(s) + 2 /\ IsSeq(sb) /\ \A i \in 1 .. Len(s) : sb[i] = s[i]
  <2>1. Cares(sb) /\ IsSeq(sb) /\ Len(sb) = Len(sa) + 1 /\ \A i \in 1 .. Len(sa) : sb[i] = sa[i]
    BY <1>7, <1>9, CaresPushOther, SeqAppend
  <2> HIDE DEF sb
  <2>2. Len(sb) = Len(s) + 2 /\ \A i \in 1 .. Len(s) : i \in 1 .. Len(sa)
    BY <1>3, <1>9, <2>1
  <2> QED BY <1>9, <2>1, <2>2
<1> HIDE DEF sb
<1>11. CareOK(sc, Len(sb) + 1)
  <2>1. sc[Len(sb) + 1] = f3 /\ \A i \in 1 .. Len(sb) : sc[i] = sb[i]
    BY <1>10, SeqAppend
  <2>2. s[n].next \in 1 .. n /\ s[s[n].next].m = "trap" /\ s[n].id \in 1 .. n
    BY <1>5, <1>6 DEF CareOK
  <2>3. s[n].next \in 1 .. Len(s) /\ s[n].next \in 1 .. Len(sb)
    BY <1>3, <1>6, <1>10, <2>2
  <2>4. sc[s[n].next] = s[s[n].next]
    BY <1>10, <2>1, <2>3
  <2>5. s[n].next \in 1 .. Len(sb) + 1 /\ s[n].id \in 1 .. Len(sb) + 1
    BY <1>3, <1>6, <1>10, <2>2, <2>3
  <2>6. \/ s[n].id = 1 /\ s[s[n].next].id = 1
        \/ s[s[n].next].id < s[n].id
    BY <1>5, <1>6 DEF CareOK
  <2>7. s[n].id # s[p].id \/ s[n].id = 1
    <3>1. s[p].id \in 1 .. p /\ (s[n].id = 1 \/ s[n].id < s[p].id)
      BY <1>4 DEF CareOK
    <3> QED BY <2>2, <3>1
  <2> HIDE DEF sc, n
  <2> QED BY <1>8, <2>1, <2>2, <2>4, <2>5, <2>6, <2>7 DEF CareOK
<1>12. Cares(sc)
  BY <1>10, <1>11, CaresPush
<1> HIDE DEF sc
<1>13. Cares(sd)
  BY <1>7, <1>12, CaresPushOther
<1> QED BY <1>1, <1>12, <1>13

(* A continuation that may be restored keeps the part of the stack it was  *)
(* made on.                                                                *)
LEMMA CaresRestored ==
    ASSUME Steady, Cares(stack), NEW k, NEW r, Restore(k, r),
           \/ k \in Range(holes)
           \/ k = MainK
           \/ \E i \in {FindAbort1(stack), FindAbort2(stack)} \ {0} : k = stack[i].k
    PROVE  Cares(stack')
<1>1. /\ IsSeq(stack) /\ Len(stack) \in Nat /\ DOMAIN holes = 1 .. Len(holes)
      /\ IsSeq(holes) /\ Sound(stack, code, holes, runs)
  BY SoundFacts, SeqLen DEF Steady
<1>2. stack' = k.stack
  BY DEF Restore
<1>3. ASSUME NEW i \in 6 .. Len(stack) + 1, ContinuationOK(k, stack, holes, runs, i)
      PROVE  Cares(k.stack)
  <2>1. i - 1 \in 0 .. Len(stack) /\ k.stack = SubSeq(stack, 1, i - 1)
    BY <1>1, <1>3 DEF ContinuationOK
  <2> QED BY <2>1, CaresCut
<1>4. ASSUME k = MainK
      PROVE  Cares(k.stack)
  <2>1. k.stack = << >>
    BY <1>4 DEF MainK
  <2>2. IsSeq(<< >>) /\ Len(<< >>) = 0
    BY SeqShort
  <2> QED BY <2>1, <2>2 DEF Cares
<1>5. CASE k \in Range(holes)
  <2>1. PICK j \in 1 .. Len(holes) : k = holes[j]
    BY <1>1, <1>5 DEF Range
  <2>2. HolePos(holes, j) \in 6 .. Len(stack) + 1
    BY <1>1, SoundFacts
  <2>3. ContinuationOK(k, stack, holes, runs, HolePos(holes, j))
    BY <1>1, <2>1 DEF Sound, HolesOK, HoleOK
  <2> QED BY <1>2, <1>3, <2>2, <2>3
<1>6. CASE \E i \in {FindAbort1(stack), FindAbort2(stack)} \ {0} : k = stack[i].k
  <2>1. PICK i \in {FindAbort1(stack), FindAbort2(stack)} \ {0} : k = stack[i].k
    BY <1>6
  <2>2. /\ \A p \in Positions(stack, "abort") :
               stack[p].next = 0 \/ (stack[p].next \in Positions(stack, "abort") /\ stack[p].next < p)
        /\ 5 \in Positions(stack, "abort") /\ stack[5].k = MainK
        /\ \A p \in Positions(stack, "abort") :
               p # 5 => p \in 6 .. Len(stack) /\ ContinuationOK(stack[p].k, stack, holes, runs, p)
    BY <1>1, Chains
  <2>3. Positions(stack, "abort") # {}
    BY <2>2
  <2>4. i \in Positions(stack, "abort")
    BY <1>1, <2>1, <2>2, <2>3, AbortFacts
  <2>5. CASE i = 5
    BY <1>2, <1>4, <2>1, <2>2, <2>5
  <2>6. CASE i # 5
    <3>1. i \in 6 .. Len(stack) + 1 /\ ContinuationOK(k, stack, holes, runs, i)
      BY <1>1, <2>1, <2>2, <2>4, <2>6
    <3> QED BY <1>2, <1>3, <3>1
  <2> QED BY <2>5, <2>6
<1> QED BY <1>2, <1>4, <1>5, <1>6

(* The steps that push no trap and raise nothing.                          *)
LEMMA CaresPlain ==
    ASSUME Steady, Cares(stack),
           \/ stack' = stack
           \/ \E n \in 0 .. Len(stack) : stack' = SubSeq(stack, 1, n)
           \/ \E f : f.m # "trap" /\ stack' = Append(stack, f)
    PROVE  Cares(stack')
BY CaresCut, CaresPushOther

(* main's load, the loading of an expression and its run.                  *)
LEMMA CaresLoads ==
    ASSUME IInv, Cares(stack), Repl \/ LoadReads \/ LoadRuns \/ LoadEnds \/ EvaluateFails
    PROVE  Cares(stack')
<1>1. Steady
  BY AtSteady DEF Repl, LoadReads, LoadRuns, LoadEnds, EvaluateFails, At
<1>2. IsSeq(stack) /\ Len(stack) \in Nat /\ Len(stack) >= 5
  BY <1>1, SoundFacts DEF Steady
<1> DEFINE n == Len(stack) - 3
           m == Len(stack) - 1
<1>3. n \in 0 .. Len(stack) /\ m \in 0 .. Len(stack)
  BY <1>2
<1>4. CASE Repl
  BY <1>4, CaresPushOther DEF Repl, Handle
<1>5. CASE LoadReads
  <2>1. PICK k : stack' = stack \o <<Abort(FindMarker(stack, "abort"), k),
                                     CReturn(Rest), AllState(frame, regs)>>
    BY <1>5 DEF LoadReads
  <2>2. stack' = Append(Append(Append(stack, Abort(FindMarker(stack, "abort"), k)),
                               CReturn(Rest)), AllState(frame, regs))
    BY <1>2, <2>1, SeqAppends
  <2>3. /\ Abort(FindMarker(stack, "abort"), k).m # "trap" /\ CReturn(Rest).m # "trap"
        /\ AllState(frame, regs).m # "trap"
    BY DEF Abort, CReturn, AllState
  <2>4. Cares(Append(stack, Abort(FindMarker(stack, "abort"), k)))
    BY <2>3, CaresPushOther
  <2>5. Cares(Append(Append(stack, Abort(FindMarker(stack, "abort"), k)), CReturn(Rest)))
    BY <2>3, <2>4, CaresPushOther
  <2> QED BY <2>2, <2>3, <2>5, CaresPushOther
<1>6. CASE LoadRuns
  <2>1. PICK x : x.m # "trap" /\ stack' = Append(SubSeq(stack, 1, n), x)
    BY <1>6 DEF LoadRuns, RunC, Finish
  <2>2. Cares(SubSeq(stack, 1, n))
    BY <1>3, CaresCut
  <2> QED BY <2>1, <2>2, CaresPushOther
<1>7. CASE LoadEnds
  <2>1. stack' = stack \/ stack' = SubSeq(stack, 1, m)
    BY <1>7 DEF LoadEnds, Front
  <2> QED BY <1>1, <1>3, <2>1, CaresPlain
<1>8. CASE EvaluateFails
  <2>1. Sound(stack, Rest, holes, runs)
    <3>1. code[1][1] = "EVALUATE"
      BY <1>8 DEF EvaluateFails, At
    <3>2. Evaluating(stack, code, holes, runs) /\ code # TOP /\ code # FIN
      <4>1. FIN[1][1] = "FINISH" /\ TOP[1][1] = "ABORT-TOP"
        BY DEF FIN, TOP
      <4> QED BY <1>1, <3>1, <4>1, Running DEF Steady
    <3>3. Fits(Rest, holes, runs, Len(stack) + 1)
      BY <3>2 DEF Evaluating, Rest
    <3> QED BY <1>1, <3>2, <3>3, Continue DEF Steady
  <2>2. PICK continuable, func : Raise("raise", "error", continuable, func, stack, Rest)
    BY <1>8 DEF EvaluateFails
  <2> QED BY <2>1, <2>2, CaresRaised
<1> QED BY <1>4, <1>5, <1>6, <1>7, <1>8

(* The frames C pushes, with what it or the condition it raises pushes     *)
(* above them.                                                             *)
LEMMA CaresInvoked ==
    ASSUME Steady, Cares(stack), code[1][1] \notin Special, NEW r \in Registers,
           NEW pc, Fits(pc, holes, runs, Len(stack) + 1),
           LET s == stack \o <<CReturn(pc), AllState(frame, r)>>
           IN \/ \E kind, c, continuable, func : Raise(kind, c, continuable, func, s, pc)
              \/ \E x : x.m # "trap" /\ stack' = Append(s, x)
    PROVE  Cares(stack')
<1> DEFINE s == Append(Append(stack, CReturn(pc)), AllState(frame, r))
<1>1. Sound(s, pc, holes, runs)
  BY InvokedSound
<1>2. stack \o <<CReturn(pc), AllState(frame, r)>> = s
  <2>1. IsSeq(stack)
    BY DEF Cares
  <2> QED BY <2>1, SeqAppends
<1>3. Cares(s)
  <2>1. CReturn(pc).m # "trap" /\ AllState(frame, r).m # "trap"
    BY DEF CReturn, AllState
  <2>2. Cares(Append(stack, CReturn(pc)))
    BY <2>1, CaresPushOther
  <2> QED BY <2>1, <2>2, CaresPushOther
<1> HIDE DEF s
<1>4. \/ \E kind, c, continuable, func : Raise(kind, c, continuable, func, s, pc)
      \/ \E x : x.m # "trap" /\ stack' = Append(s, x)
  BY <1>2
<1>5. CASE \E kind, c, continuable, func : Raise(kind, c, continuable, func, s, pc)
  BY <1>1, <1>3, <1>5, CaresRaised
<1>6. CASE \E x : x.m # "trap" /\ stack' = Append(s, x)
  BY <1>3, <1>6, CaresPushOther
<1> QED BY <1>4, <1>5, <1>6

(* Conditions, and C called from a primitive.                              *)
LEMMA CaresForms ==
    ASSUME IInv, Cares(stack), RaiseForm \/ ReraiseForm \/ CallbackClosure \/ CallbackFails
    PROVE  Cares(stack')
<1>1. Steady /\ code[1][1] \notin Special /\ code[1][1] \notin Ends
  BY AtSteady DEF RaiseForm, ReraiseForm, CallbackClosure, CallbackFails, At, Special, Ends
<1> DEFINE pc == Reference \o Rest
<1>2. Fits(pc, holes, runs, Len(stack) + 1)
  <2>1. Fits(Rest, holes, runs, Len(stack) + 1)
    BY <1>1, Ordinary
  <2>2. Easy(<<"REF", Self>>)
    BY DEF Easy, InstructionOK
  <2> QED BY <2>1, <2>2, HarmlessShort, MoreFits DEF Reference
<1>3. Sound(stack, pc, holes, runs)
  BY <1>1, <1>2, Ordinary, Continue DEF Steady
<1>4. regs \in Registers /\ Callable \in Registers
  BY <1>1, CallableTyped DEF Steady, WellTyped
<1>5. CASE RaiseForm \/ ReraiseForm
  <2>1. \E kind, c, continuable, func : Raise(kind, c, continuable, func, stack, pc)
    BY <1>5 DEF RaiseForm, ReraiseForm
  <2> HIDE DEF pc
  <2> QED BY <1>3, <2>1, CaresRaised
<1>6. CASE CallbackClosure
  <2>1. PICK r \in {regs, Callable} : stack' = Append(Invoked(r), Finish(Len(runs) + 1))
    BY <1>6 DEF CallbackClosure, RunC
  <2> DEFINE x == Finish(Len(runs) + 1)
  <2>2. x.m # "trap"
    BY DEF Finish
  <2>3. stack' = Append(stack \o <<CReturn(pc), AllState(frame, r)>>, x)
    BY <2>1 DEF Invoked
  <2>4. r \in Registers
    BY <1>4, <2>1
  <2> HIDE DEF pc, x
  <2> QED BY <1>1, <1>2, <2>2, <2>3, <2>4, CaresInvoked
<1>7. CASE CallbackFails
  <2>1. PICK continuable \in BOOLEAN, r \in {regs, Callable} :
            Raise("raise", "error", continuable, r.func, Invoked(r), pc)
    BY <1>7 DEF CallbackFails
  <2>2. Raise("raise", "error", continuable, r.func,
              stack \o <<CReturn(pc), AllState(frame, r)>>, pc)
    BY <2>1 DEF Invoked
  <2>3. r \in Registers
    BY <1>4, <2>1
  <2> HIDE DEF pc
  <2> QED BY <1>1, <1>2, <2>2, <2>3, CaresInvoked
<1> QED BY <1>5, <1>6, <1>7

(* The instructions that fail, and the one before them.                    *)
LEMMA CaresFails ==
    ASSUME IInv, Cares(stack),
           PopFunction \/ FunctionInvoke \/ RestoreAllStateFails \/ InvokeCFails
    PROVE  Cares(stack')
<1>1. Steady
  BY AtSteady DEF PopFunction, FunctionInvoke, RestoreAllStateFails, InvokeCFails, At
<1>2. CASE PopFunction
  BY <1>2 DEF PopFunction
<1>3. CASE FunctionInvoke \/ RestoreAllStateFails
  <2>1. code[1][1] \notin Special /\ code[1][1] \notin Ends
    BY <1>3 DEF FunctionInvoke, RestoreAllStateFails, At, Special, Ends
  <2>2. Sound(stack, Rest, holes, runs)
    BY <1>1, <2>1, Ordinary, Continue DEF Steady
  <2>3. \E continuable : Raise("raise", "error", continuable, FALSE, stack, Rest)
    BY <1>3 DEF FunctionInvoke, RestoreAllStateFails
  <2> QED BY <2>2, <2>3, CaresRaised
<1>4. CASE InvokeCFails
  <2>1. Raise("raise", "error", FALSE, FALSE, stack, code)
    BY <1>4 DEF InvokeCFails
  <2> QED BY <1>1, <2>1, CaresRaised DEF Steady
<1> QED BY <1>2, <1>3, <1>4

(* A trap is pushed: its number is its own place.                          *)
LEMMA CaresPushTrap ==
    ASSUME IInv, Cares(stack), Singles, PushTrap
    PROVE  Cares(stack')
<1>1. Steady /\ code[1][1] = "PUSH-TRAP" /\ code[1][1] \notin Special /\ code[1][1] \notin Ends
  BY AtSteady DEF PushTrap, At, Special, Ends
<1> DEFINE t == FindMarker(stack, "trap")
           f == Trap(t, code[1][2], code[1][3], Len(stack) + 1 - code[1][4], 0, Len(holes))
<1>2. code[1][4] = 0
  <2>1. Fits(code, holes, runs, Len(stack) + 1) /\ IsSeq(code) /\ code # << >>
    BY <1>1, Ordinary DEF Fits, Plain
  <2>2. 1 \in 1 .. Len(code)
    <3>1. PICK S : code \in Seq(S)
      BY <2>1 DEF IsSeq
    <3> QED BY <2>1, <3>1
  <2>3. InstructionOK(code[1])
    BY <2>1, <2>2 DEF Fits, Plain
  <2> QED BY <1>1, <2>3 DEF InstructionOK
<1>3. IsSeq(stack) /\ Len(stack) \in Nat /\ DOMAIN stack = 1 .. Len(stack)
  BY <1>1, Ordinary, SeqLen
<1>4. t \in 1 .. Len(stack) /\ stack[t].m = "trap"
  <2>1. 1 \in Positions(stack, "trap")
    BY <1>1, Chains DEF Steady
  <2>2. 1 \in 1 .. Len(stack) /\ stack[1].m = "trap"
    BY <1>3, <2>1 DEF Positions
  <2>3. t \in 0 .. Len(stack) /\ t # 0 /\ stack[t].m = "trap"
    BY <1>3, <2>2, Marker
  <2> QED BY <1>3, <2>3
<1>5. stack' = Append(stack, f)
  BY DEF PushTrap, Push
<1>6. f.next = t /\ f.id = Len(stack) + 1 - code[1][4] /\ f.for = 0
  BY DEF Trap
<1> HIDE DEF f, t
<1>7. f.id = Len(stack) + 1
  BY <1>2, <1>3, <1>6
<1>8. CareOK(Append(stack, f), Len(stack) + 1)
  <2>1. Append(stack, f)[Len(stack) + 1] = f /\ Append(stack, f)[t] = stack[t]
    BY <1>3, <1>4, SeqAppend
  <2>2. CareOK(stack, t)
    BY <1>4 DEF Cares
  <2>3. stack[t].id \in 1 .. t
    BY <1>4, <2>2 DEF CareOK
  <2>4. stack[t].id < f.id /\ f.id \in 1 .. Len(stack) + 1 /\ t \in 1 .. Len(stack) + 1
    BY <1>3, <1>4, <1>7, <2>3
  <2> QED BY <1>4, <1>6, <2>1, <2>4 DEF CareOK
<1> QED BY <1>5, <1>8, CaresPush

(* The instructions that push another frame, or two.                       *)
LEMMA CaresPushes ==
    ASSUME IInv, Cares(stack),
           \/ PreserveState \/ LoadFile \/ PushDynamic \/ Call \/ PushAbort \/ Prompt
    PROVE  Cares(stack')
<1>1. CASE PreserveState \/ LoadFile \/ PushDynamic \/ Call \/ PushAbort
  <2>1. \E f : f.m # "trap" /\ stack' = Append(stack, f)
    <3>1. \A x, y : /\ State(x).m # "trap" /\ Handle.m # "trap" /\ Dynamic(x, y).m # "trap"
                    /\ Return(x, y).m # "trap" /\ Abort(x, y).m # "trap"
      BY DEF State, Handle, Dynamic, Return, Abort
    <3>2. CASE PreserveState
      BY <3>1, <3>2 DEF PreserveState, Push
    <3>3. CASE LoadFile
      BY <3>1, <3>3 DEF LoadFile, Push
    <3>4. CASE PushDynamic
      BY <3>1, <3>4 DEF PushDynamic, Push
    <3>5. CASE Call
      BY <3>1, <3>5 DEF Call, Push
    <3>6. CASE PushAbort
      BY <3>1, <3>6 DEF PushAbort, Push
    <3> QED BY <1>1, <3>2, <3>3, <3>4, <3>5, <3>6
  <2> QED BY <2>1, CaresPushOther
<1>2. CASE Prompt
  <2>1. PICK f, g : /\ f.m # "trap" /\ g.m # "trap"
                    /\ stack' = Append(Append(stack, f), g)
    <3>1. \A x, y : Return(x, y).m # "trap"
      BY DEF Return
    <3> QED BY <1>2, <3>1 DEF Prompt
  <2>2. Cares(Append(stack, f))
    BY <2>1, CaresPushOther
  <2> QED BY <2>1, <2>2, CaresPushOther
<1> QED BY <1>1, <1>2

(* The instructions that pop, and C's return.                              *)
LEMMA CaresPops ==
    ASSUME IInv, Cares(stack),
           \/ PopAbort \/ RestoreState \/ RestoreAllState \/ PopTrap \/ PopDynamic
           \/ ReturnFrom \/ InvokeCDone
    PROVE  Cares(stack')
<1>1. Steady
  BY AtSteady DEF PopAbort, RestoreState, RestoreAllState, PopTrap, PopDynamic, ReturnFrom,
                  InvokeCDone, At
<1>2. IsSeq(stack) /\ Len(stack) \in Nat /\ Len(stack) >= 5
  BY <1>1, SoundFacts DEF Steady
<1>3. \/ stack' = stack
      \/ stack' = SubSeq(stack, 1, Len(stack) - 1)
      \/ stack' = SubSeq(stack, 1, Len(stack) - 2)
  BY DEF PopAbort, RestoreState, RestoreAllState, PopTrap, PopDynamic, ReturnFrom, InvokeCDone,
         Popped, Front
<1>4. Len(stack) - 1 \in 0 .. Len(stack) /\ Len(stack) - 2 \in 0 .. Len(stack)
  BY <1>2
<1> QED BY <1>1, <1>3, <1>4, CaresPlain

(* The base handlers, the ends of prompts and of runs, and signals.        *)
LEMMA CaresJumps ==
    ASSUME IInv, Cares(stack),
           \/ AbortTop \/ TrapReturn \/ DefaultSigchld \/ DefaultHandler \/ RestartHandler
           \/ ResetHandler \/ NonContErr \/ FinishRun \/ Signal
    PROVE  Cares(stack')
<1>1. Steady
  BY AtSteady DEF AbortTop, TrapReturn, DefaultSigchld, DefaultHandler, RestartHandler,
                  ResetHandler, NonContErr, FinishRun, Signal, At
<1>2. CASE AbortTop \/ TrapReturn
  <2>1. code[1][1] \in {"ABORT-TOP", "TRAP-RETURN"} /\ Restore(holes[Len(holes)], Callable)
    BY <1>2 DEF AbortTop, TrapReturn, At
  <2>2. Len(holes) \in 1 .. Len(holes) /\ IsSeq(holes)
    BY <1>1, <2>1, HoleThere, SoundFacts DEF Steady
  <2>3. holes[Len(holes)] \in Range(holes)
    BY <2>2, SeqLen DEF Range
  <2> QED BY <1>1, <2>1, <2>3, CaresRestored
<1>3. CASE DefaultSigchld \/ DefaultHandler \/ RestartHandler
  <2>1. code[1][1] = "PRIMITIVE"
    BY <1>3 DEF DefaultSigchld, DefaultHandler, RestartHandler, At
  <2>2. CASE Handled
    BY <2>2 DEF Handled
  <2>3. CASE Raise("raise", code[1][3], TRUE, regs.func, stack, Rest)
    <3>1. code[1][1] \notin Special /\ code[1][1] \notin Ends
      BY <2>1 DEF Special, Ends
    <3>2. Sound(stack, Rest, holes, runs)
      BY <1>1, <3>1, Ordinary, Continue DEF Steady
    <3> QED BY <2>3, <3>2, CaresRaised
  <2>4. CASE FindAbort2(stack) # 0 /\ Restore(stack[FindAbort2(stack)].k, regs)
    BY <1>1, <2>4, CaresRestored
  <2>5. CASE Notify /\ ~Handled
    <3>1. code[1][1] \notin Special /\ code[1][1] \notin Ends
      BY <2>1 DEF Special, Ends
    <3>2. Fits(Rest, holes, runs, Len(stack) + 1) /\ regs \in Registers
      BY <1>1, <3>1, Ordinary DEF Steady, WellTyped
    <3>3. Raise("raise", "error", FALSE, FALSE,
                stack \o <<CReturn(Rest), AllState(frame, regs)>>, Rest)
      BY <2>5 DEF Notify
    <3> QED BY <1>1, <3>1, <3>2, <3>3, CaresInvoked
  <2> QED BY <1>3, <2>2, <2>3, <2>4, <2>5 DEF DefaultSigchld, DefaultHandler, RestartHandler
<1>4. CASE ResetHandler \/ NonContErr
  <2>1. Restore(stack[FindAbort1(stack)].k, regs)
    BY <1>4 DEF ResetHandler, NonContErr
  <2> QED BY <1>1, <2>1, AbortOneThere, CaresRestored
<1>5. CASE FinishRun
  <2>1. \/ stack' = stack
        \/ Restore(MainK, regs)
        \/ \E i \in {FindAbort1(stack), FindAbort2(stack)} \ {0} : Restore(stack[i].k, regs)
    BY <1>5 DEF FinishRun
  <2> QED BY <1>1, <2>1, CaresRestored
<1>6. CASE Signal
  <2>1. Raise("signal", "SIGCHLD", TRUE, regs.func, stack, code)
    BY <1>6 DEF Signal
  <2> QED BY <1>1, <2>1, CaresRaised DEF Steady
<1> QED BY <1>2, <1>3, <1>4, <1>5, <1>6

(* Every step keeps it.                                                    *)
LEMMA CaresKept == Singles /\ IInv /\ Cares(stack) /\ [Next]_vars => Cares(stack')
<1> SUFFICES ASSUME Singles, IInv, Cares(stack), [Next]_vars PROVE Cares(stack')
  OBVIOUS
<1>1. CASE Repl \/ LoadReads \/ LoadRuns \/ LoadEnds \/ EvaluateFails
  BY <1>1, CaresLoads
<1>2. CASE Exit \/ Value \/ Application \/ TrapForm \/ DynamicForm \/ LoadForm \/ Ref
  BY <1>2 DEF Exit, Value, Application, TrapForm, DynamicForm, LoadForm, Ref, Expands
<1>3. CASE RaiseForm \/ ReraiseForm \/ CallbackClosure \/ CallbackFails
  BY <1>3, CaresForms
<1>4. CASE PreserveState \/ LoadFile \/ PushDynamic \/ Call \/ PushAbort \/ Prompt
  BY <1>4, CaresPushes
<1>5. CASE PushTrap
  BY <1>5, CaresPushTrap
<1>6. CASE \/ PopAbort \/ RestoreState \/ RestoreAllState \/ PopTrap \/ PopDynamic
           \/ ReturnFrom \/ InvokeCDone
  BY <1>6, CaresPops
<1>7. CASE \/ AbortTop \/ TrapReturn \/ DefaultSigchld \/ DefaultHandler \/ RestartHandler
           \/ ResetHandler \/ NonContErr \/ FinishRun \/ Signal
  BY <1>7, CaresJumps
<1>8. CASE PopFunction \/ FunctionInvoke \/ RestoreAllStateFails \/ InvokeCFails
  BY <1>8, CaresFails
<1>9. CASE UNCHANGED vars
  BY <1>9 DEF vars
<1> QED BY <1>1, <1>2, <1>3, <1>4, <1>5, <1>6, <1>7, <1>8, <1>9 DEF Next, Machine, Ended

(* The base: its last trap is its own next.                                *)
LEMMA CaresStarts == Init => Cares(stack)
<1>1. Len(Base) = 5 /\ IsSeq(Base)
  <2>1. Base \in Seq({Base[i] : i \in 1 .. 5})
    BY DEF Base
  <2> QED BY <2>1 DEF Base, IsSeq
<1>2. /\ Base[1] = Trap(1, "condition", "reset", 1, 0, 0)
      /\ Base[2] = Trap(1, "condition", "restart", 2, 0, 0)
      /\ Base[3] = Trap(2, "condition", "default", 3, 0, 0)
      /\ Base[4] = Trap(3, "SIGCHLD", "default-SIGCHLD", 4, 0, 0)
      /\ Base[5] = Abort(0, MainK)
  BY DEF Base
<1>3. \A i \in 1 .. 5 : i = 1 \/ i = 2 \/ i = 3 \/ i = 4 \/ i = 5
  OBVIOUS
<1>4. \A i \in 1 .. 5 : CareOK(Base, i)
  BY <1>2, <1>3 DEF CareOK, Trap, Abort
<1>5. Cares(Base)
  BY <1>1, <1>4 DEF Cares
<1> QED BY <1>5 DEF Init

(* A handler runs in the care of the next handler on the stack, not its    *)
(* own: where each trap expression names one condition type, the trap      *)
(* frame pushed for it is always of another trap expression, except at the *)
(* base.  (A trap expression with two types has two frames, and the one    *)
(* after the upper is its own.)                                            *)
THEOREM InCareSafe ==
    ASSUME \A form \in TrapForms : Len(form) = 1
    PROVE  Spec => []InCareOfNext
<1>1. Singles
  BY DEF Singles
<1>2. Cares(stack) => InCareOfNext
  <2> SUFFICES ASSUME Cares(stack), NEW i \in Positions(stack, "trap"), stack[i].for # 0
               PROVE  stack[i].id # stack[i].for \/ stack[i].id = 1
    BY DEF InCareOfNext
  <2>1. i \in 1 .. Len(stack) /\ stack[i].m = "trap"
    BY SeqLen DEF Cares, Positions
  <2> QED BY <2>1 DEF Cares, CareOK
<1>3. Init => IInv /\ Cares(stack)
  BY StartsSteady, CaresStarts
<1>4. IInv /\ Cares(stack) /\ [Next]_vars => (IInv /\ Cares(stack))'
  BY <1>1, StepKeeps, CaresKept
<1> QED BY <1>2, <1>3, <1>4, PTL DEF Spec
=============================================================================
