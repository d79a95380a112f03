---------------------------- MODULE VMStackNesting ----------------------------
(***************************************************************************)
(* Proofs about what the code of VMStack finds on the stack, for all       *)
(* handlers, trap expressions and bounds.  VMStackProofs says which frames *)
(* a stack has; the nesting invariant here says what each address, each    *)
(* ABORT and the code that runs take from it:                              *)
(*                                                                         *)
(*   - an activation's code takes what lies above its return frame, in     *)
(*     order, and its state frames have its own FRAME (Activation);        *)
(*   - where a condition was raised, the code is the handler's way back,   *)
(*     over what was saved for it (HandlerReturn);                         *)
(*   - a FINISH address stands on what C does next (AtFin), main's load    *)
(*     on no return frame (Main), the evaluator on three frames of C's     *)
(*     (Evaluator).                                                        *)
(*                                                                         *)
(* All of it is about the stack below a position, so a cut or a push       *)
(* leaves what is below alone (AgreeBack, DeepFirst, DeepAppend), and each *)
(* action has only its own code and frames to account for.                 *)
(***************************************************************************)
EXTENDS VMStackProofs

(***************************************************************************)
(* What an activation's code takes from the stack.                         *)
(***************************************************************************)

(* Instructions that look at FRAME, or save it.                            *)
Uses == {"EXPR", "REF", "PRESERVE-STATE", "PUSH-DYNAMIC", "PUSH-TRAP"}
Leaves == {"RETURN", "TRAP-RETURN"}
Program == Uses \cup Leaves \cup
           {"CALL", "FUNCTION-INVOKE", "PROMPT", "LOAD-FILE", "LOAD", "RESTORE-STATE",
            "POP-DYNAMIC", "POP-TRAP", "POP-ABORT"}

(* An instruction before which w is wanted and after which v.              *)
Step(x, w, v) ==
    IF x[1] \in DOMAIN PopsOf THEN w = <<PopsOf[x[1]]>> \o v
    ELSE IF x[1] \in DOMAIN PushesOf THEN v = <<PushesOf[x[1]]>> \o w
    ELSE w = v

(* The i-th instruction of the code of the activation `own', W[j] being    *)
(* what is wanted before the j-th.                                         *)
InstructionTakes(c, own, W, i) ==
    /\ c[i][1] \in Program
    /\ c[i][1] \in {"EXPR", "REF"} => c[i][2] = own
    /\ Step(c[i], W[i], W[i + 1])
    /\ c[i][1] \in Leaves <=> i = Len(c)
    /\ c[i][1] = "POP-ABORT" => i = Len(c) - 1
    /\ i < Len(c) /\ c[i + 1][1] \in Uses =>
          c[i][1] \in {"PUSH-DYNAMIC", "PUSH-TRAP", "RESTORE-STATE"}
    /\ c[i][1] \in {"CALL", "PROMPT", "FUNCTION-INVOKE"} => c[i + 1][1] = "RESTORE-STATE"
Annotated(c, own, W) ==
    /\ W[Len(c) + 1] = << >>
    /\ \A i \in 1 .. Len(c) + 1 : IsSeq(W[i])
    /\ \A i \in 1 .. Len(c) : InstructionTakes(c, own, W, i)
Takes(c, own, w) ==
    /\ IsSeq(c) /\ Len(c) # 0 /\ IsSeq(w)
    /\ \E W : W[1] = w /\ Annotated(c, own, W)

(* What any code wants, without a recursion.                               *)
Wanting(c, w) ==
    /\ IsSeq(c)
    /\ \E W : /\ W[1] = w /\ W[Len(c) + 1] = << >>
              /\ \A i \in 1 .. Len(c) : W[i] = Wanted(c[i], W[i + 1])

(***************************************************************************)
(* What is on the stack at each address.                                   *)
(***************************************************************************)

Backs == {CHR, NCE, IHR}
R == << <<"RETURN">> >>

IsReturn(s, b) == b >= 1 /\ s[b].m = "return"
OfC(s, b) == IsReturn(s, b) /\ s[b].run = -1
SavedAt(s, q) == q >= 1 /\ s[q].m = "all-state"

(* Addresses nothing returns to: of an error in C, over the frames C       *)
(* pushed, of one over what a signal saved, and of a condition raised by a *)
(* base handler.                                                           *)
Doomed(s, b) ==
    /\ IsReturn(s, b) /\ Len(s[b].was) = 1
    /\ SavedAt(s, b - 1) \/ s[b].code \in Backs
Abandoned(s, p) ==
    IsReturn(s, p) /\ s[p].run = 0 /\ Len(s[p].was) = 1 /\ SavedAt(s, p - 1)

(* A way back from a handler that goes back.                               *)
Returns(x) == x \in Backs /\ x # NCE

(* Position p is above an ABORT of an expression that is loaded, and above *)
(* the address of a run.                                                   *)
InLoad(s, p) == \E q \in 6 .. p - 1 : s[q].m = "abort"
InRun(s, p) == \E q \in 1 .. p - 1 : s[q].m = "return" /\ s[q].code = FIN

(* A frame an activation keeps above its address.                          *)
Owned(f, own) == f.m \notin {"return", "all-state"} /\ (f.m = "state" => f.frame = own)

(* The code c at position p is an activation's, of the address b and the   *)
(* frame `own', and wants w; `was' is what is known of the registers.      *)
ActsAt(s, c, p, was, b, own, w) ==
    /\ b \in 1 .. p - 1 /\ s[b].m = "return" /\ s[b].run # -1 /\ s[b].was = << >>
    /\ \A j \in b + 1 .. p - 1 : Owned(s[j], own)
    /\ Len(w) = p - 1 - b /\ \A j \in 1 .. Len(w) : w[j] = s[p - j].m
    /\ Takes(c, own, w)
    /\ c[1][1] \in Uses => Len(was) >= 1 /\ was[1] = own
    /\ Returns(s[b].code) /\ Doomed(s, b - 3) => c[Len(c)][1] = "TRAP-RETURN"
    /\ InRun(s, p) /\ (Len(c) = 1 \/ InLoad(s, p))
Activation(s, c, p, was) == \E b, own, w : ActsAt(s, c, p, was, b, own, w)

(* A condition was raised at b and what it found is saved above.           *)
Raising(s, b) == IsReturn(s, b) /\ s[b].run = 0 /\ Len(s[b].was) \in {1, 2}
Saved(s, b) ==
    /\ Len(s[b].was) = 1 => s[b + 1].m = "state" /\ s[b + 1].frame = s[b].was[1]
    /\ Len(s[b].was) = 2 => /\ s[b + 1].m = "all-state" /\ s[b + 1].frame = s[b].was[1]
                            /\ s[b + 1].regs = s[b].was[2]
WayBack(s, b, x) ==
    \/ Len(s[b].was) = 1 /\ x \in {CHR, NCE}
    \/ Len(s[b].was) = 2 /\ x = IHR

(* A base handler, in the care of the next, and what comes after it; never *)
(* one that returns where nothing may return to.                           *)
BaseHandler(s, c, b, x) ==
    /\ \E h, e : /\ c = << <<"PRIMITIVE", h, e>> >> \o x
                 /\ h = "default" => s[b + 2].h = "restart"
                 /\ h = "restart" => s[b + 2].h = "reset"
                 /\ Doomed(s, b) /\ x # NCE => h = "reset" \/ (h \in {"default", "restart"} /\ e # "SIGCHLD")
Handling(s, c, p, was) ==
    /\ Raising(s, p - 3) /\ Saved(s, p - 3) /\ s[p - 1].m = "trap"
    /\ \E x : /\ WayBack(s, p - 3, x)
              /\ \/ c = x /\ (Doomed(s, p - 3) /\ x # NCE => Len(was) <= 1)
                 \/ BaseHandler(s, c, p - 3, x)
Restoring(s, c, p) ==
    /\ Raising(s, p - 2) /\ Saved(s, p - 2) /\ ~Doomed(s, p - 2)
    /\ \/ Len(s[p - 2].was) = 1 /\ c = << <<"RESTORE-STATE">>, <<"RETURN">> >>
       \/ Len(s[p - 2].was) = 2 /\ c = << <<"RESTORE-ALL-STATE">>, <<"RETURN">> >>
Covers(was, b) ==
    Len(was) >= Len(b) /\ was[1] = b[1] /\ (Len(b) = 2 => was[2] = b[2])
Returning(s, c, p, was) ==
    Raising(s, p - 1) /\ ~Doomed(s, p - 1) /\ c = R /\ Covers(was, s[p - 1].was)
HandlerReturn(s, c, p, was) ==
    Handling(s, c, p, was) \/ Restoring(s, c, p) \/ Returning(s, c, p, was)

(* main's load, and what C is to do when a run of its own has ended.       *)
Main(s, c, p) ==
    /\ \A q \in 1 .. p - 1 : s[q].m # "return"
    /\ c \in {<< <<"REPL">> >>, << <<"LOAD", -1>>, <<"EXIT">> >>, << <<"EXIT">> >>}
Called(s, c, p) ==
    /\ c = << <<"INVOKE-C-DONE">> >> /\ OfC(s, p - 2) /\ s[p - 1].m = "all-state"
    /\ Activation(s, s[p - 2].code, p - 2, <<s[p - 1].frame, s[p - 1].regs>>)
Continues(s, c, p) == Activation(s, c, p, << >>) \/ Main(s, c, p)

AtTop(s, c, p) == c = TOP /\ Activation(s, R, p, << >>) /\ InLoad(s, p)
AtFin(s, rs, c, p) ==
    /\ c = FIN
    /\ \A r \in 1 .. Len(rs) :
          rs[r].ss0 + 1 = p => Continues(s, rs[r].after, p) \/ Called(s, rs[r].after, p)
Addressed(s, rs, c, p, was) ==
    AtTop(s, c, p) \/ AtFin(s, rs, c, p) \/ Activation(s, c, p, was) \/ HandlerReturn(s, c, p, was)

(* The base handlers' traps and their copies.                              *)
BaseTrap(f) ==
    \/ f.h \in Handlers
    \/ f.h = "default" /\ f.type = "condition" /\ f.next = 2
    \/ f.h \in {"restart", "reset"} /\ f.type = "condition" /\ f.next = 1
    \/ f.h = "default-SIGCHLD" /\ f.type = "SIGCHLD"

FrameNests(s, rs, p) ==
    /\ s[p].m = "trap" => BaseTrap(s[p])
    /\ s[p].m # "all-state" => ~OfC(s, p - 1)
    /\ s[p].m = "abort" /\ s[p].next = 5 => Continues(s, s[p].k.code, p)
    /\ s[p].m = "return" =>
          /\ s[p].run = -1 \/ Abandoned(s, p) \/ Addressed(s, rs, s[p].code, p, s[p].was)
          /\ s[p].code = TOP => AtTop(s, TOP, p)
Deep(s, rs) == \A p \in 1 .. Len(s) : FrameNests(s, rs, p)

(* The start of an expression that is loaded, and the evaluator.           *)
Starts(s, c) ==
    /\ c = Loaded /\ Len(s) >= 1 /\ s[Len(s)].m = "return" /\ s[Len(s)].code = FIN
    /\ s[Len(s)].was = << >> /\ s[Len(s)].run # -1
LoadsAt(s, c, p) ==
    \E ins : ins[1] = "LOAD" /\ ins[2] = c[1][2] /\ Continues(s, <<ins>> \o Tail(c), p)
Evaluator(s, c) ==
    /\ c[1][1] = "EVALUATE" /\ Len(s) >= 8
    /\ s[Len(s) - 2].m = "abort" /\ OfC(s, Len(s) - 1) /\ s[Len(s)].m = "all-state"
    /\ LoadsAt(s, c, Len(s) - 2)
Runs(s, c, rs, was) ==
    \/ Addressed(s, rs, c, Len(s) + 1, was)
    \/ Main(s, c, Len(s) + 1) \/ Called(s, c, Len(s) + 1)
    \/ Starts(s, c) \/ Evaluator(s, c)

Settled ==
    /\ Deep(stack, runs) /\ Runs(stack, code, runs, <<frame, regs>>)
    /\ ~OfC(stack, Len(stack))

NInv ==
    /\ IInv /\ mode # "panic" /\ Settled
    /\ Sound(stack, code, holes, runs) \/ Leaving(stack, code, holes, runs)

-----------------------------------------------------------------------------

(* One element before a sequence.                                          *)
LEMMA SeqCons ==
    ASSUME NEW s, IsSeq(s), NEW x
    PROVE  /\ IsSeq(<<x>> \o s) /\ Len(<<x>> \o s) = Len(s) + 1 /\ Len(s) \in Nat
           /\ (<<x>> \o s)[1] = x /\ <<x>> \o s # << >>
           /\ \A i \in 1 .. Len(s) : (<<x>> \o s)[i + 1] = s[i]
           /\ Tail(<<x>> \o s) = s /\ Head(<<x>> \o s) = x
<1>1. PICK S : s \in Seq(S)
  BY DEF IsSeq
<1>2. s \in Seq(S \cup {x}) /\ x \in S \cup {x} /\ Len(s) \in Nat
  BY <1>1, SeqMonotonic, LenProperties
<1>3. /\ <<x>> \o s \in Seq(S \cup {x}) /\ Len(<<x>> \o s) = Len(s) + 1
      /\ (<<x>> \o s)[1] = x /\ <<x>> \o s # << >>
      /\ Tail(<<x>> \o s) = s /\ Head(<<x>> \o s) = x
  BY <1>2
<1>4. \A i \in 1 .. Len(s) : (<<x>> \o s)[i + 1] = s[i]
  BY <1>2
<1> QED BY <1>2, <1>3, <1>4 DEF IsSeq

(* A sequence is its first element and the rest.                           *)
LEMMA SeqSplit ==
    ASSUME NEW s, IsSeq(s), Len(s) # 0
    PROVE  /\ s = <<s[1]>> \o Tail(s) /\ s # << >> /\ Len(s) \in Nat
           /\ IsSeq(Tail(s)) /\ Len(Tail(s)) = Len(s) - 1
           /\ \A i \in 1 .. Len(s) - 1 : Tail(s)[i] = s[i + 1]
<1>1. PICK S : s \in Seq(S)
  BY DEF IsSeq
<1>2. Len(s) \in Nat /\ s # << >> /\ s[1] \in S
  BY <1>1
<1>3. IsSeq(Tail(s)) /\ Len(Tail(s)) = Len(s) - 1
      /\ \A i \in 1 .. Len(s) - 1 : Tail(s)[i] = s[i + 1]
  BY <1>2, SeqTail
<1>4. s = <<s[1]>> \o Tail(s)
  BY <1>1, <1>2
<1> QED BY <1>2, <1>3, <1>4

(* Putting sequences together is associative.                              *)
LEMMA SeqAssoc ==
    ASSUME NEW a, NEW b, NEW c, IsSeq(a), IsSeq(b), IsSeq(c)
    PROVE  (a \o b) \o c = a \o (b \o c)
<1>1. PICK A : a \in Seq(A)
  BY DEF IsSeq
<1>2. PICK B : b \in Seq(B)
  BY DEF IsSeq
<1>3. PICK C : c \in Seq(C)
  BY DEF IsSeq
<1>4. a \in Seq(A \cup B \cup C) /\ b \in Seq(A \cup B \cup C) /\ c \in Seq(A \cup B \cup C)
  BY <1>1, <1>2, <1>3, SeqMonotonic
<1> QED BY <1>4, ConcatAssociative

(* Two elements are put together.                                          *)
LEMMA SeqPair ==
    ASSUME NEW x, NEW y
    PROVE  <<x, y>> = <<x>> \o <<y>>
<1>1. IsSeq(<<y>>) /\ Len(<<y>>) = 1 /\ <<y>>[1] = y
  BY SeqShort
<1>2. /\ IsSeq(<<x>> \o <<y>>) /\ Len(<<x>> \o <<y>>) = 2 /\ (<<x>> \o <<y>>)[1] = x
      /\ \A i \in 1 .. 1 : (<<x>> \o <<y>>)[i + 1] = <<y>>[i]
  BY <1>1, SeqCons
<1>3. (<<x>> \o <<y>>)[2] = y
  BY <1>1, <1>2
<1>4. IsSeq(<<x, y>>) /\ Len(<<x, y>>) = 2 /\ <<x, y>>[1] = x /\ <<x, y>>[2] = y
  BY SeqShort
<1> DEFINE s == <<x, y>>
           t == <<x>> \o <<y>>
<1>5. IsSeq(s) /\ IsSeq(t) /\ Len(s) = 2 /\ Len(t) = 2 /\ s[1] = t[1] /\ s[2] = t[2]
  BY <1>2, <1>3, <1>4
<1> HIDE DEF s, t
<1>6. \A i \in 1 .. 2 : s[i] = t[i]
  <2>1. \A i \in 1 .. 2 : i = 1 \/ i = 2
    OBVIOUS
  <2> QED BY <1>5, <2>1
<1>7. s = t
  BY <1>5, <1>6, SeqSame
<1> QED BY <1>7 DEF s, t

(* So are three.                                                           *)
LEMMA SeqTriple ==
    \A x, y, z : <<x, y, z>> = <<x>> \o <<y, z>>
<1> SUFFICES ASSUME NEW x, NEW y, NEW z PROVE <<x, y, z>> = <<x>> \o <<y, z>>
  OBVIOUS
<1>1. ASSUME NEW f, NEW g, IsSeq(f), IsSeq(g), Len(f) = 3, Len(g) = 3,
             f[1] = g[1], f[2] = g[2], f[3] = g[3]
      PROVE  f = g
  <2>1. \A i \in 1 .. 3 : i = 1 \/ i = 2 \/ i = 3
    OBVIOUS
  <2> QED BY <1>1, <2>1, SeqSame
<1>2. <<x, y, z>> = <<x>> \o <<y, z>>
  <2>1. IsSeq(<<y, z>>) /\ Len(<<y, z>>) = 2 /\ <<y, z>>[1] = y /\ <<y, z>>[2] = z
    BY SeqShort
  <2>2. /\ IsSeq(<<x>> \o <<y, z>>) /\ Len(<<x>> \o <<y, z>>) = 3 /\ (<<x>> \o <<y, z>>)[1] = x
        /\ \A i \in 1 .. 2 : (<<x>> \o <<y, z>>)[i + 1] = <<y, z>>[i]
    BY <2>1, SeqCons
  <2>3. (<<x>> \o <<y, z>>)[2] = y /\ (<<x>> \o <<y, z>>)[3] = z
    <3> DEFINE u == <<x>> \o <<y, z>>
               v == <<y, z>>
    <3>1. u[1 + 1] = v[1] /\ u[2 + 1] = v[2]
      BY <2>2
    <3> HIDE DEF u
    <3>2. u[2] = v[1] /\ u[3] = v[2]
      BY <3>1
    <3> QED BY <2>1, <3>2 DEF u
  <2>4. /\ IsSeq(<<x, y, z>>) /\ Len(<<x, y, z>>) = 3
        /\ <<x, y, z>>[1] = x /\ <<x, y, z>>[2] = y /\ <<x, y, z>>[3] = z
    BY SeqShort
  <2> QED BY <1>1, <2>2, <2>3, <2>4
<1> QED BY <1>2

(* Elements written out before a sequence are put there one by one.        *)
LEMMA SeqThree ==
    ASSUME NEW s, IsSeq(s)
    PROVE  /\ << >> \o s = s
           /\ \A x, y : <<x, y>> \o s = <<x>> \o (<<y>> \o s)
           /\ \A x, y, z : <<x, y, z>> \o s = <<x>> \o (<<y>> \o (<<z>> \o s))
<1>1. << >> \o s = s
  BY DEF IsSeq
<1>2. \A x, y : <<x, y>> \o s = <<x>> \o (<<y>> \o s)
  <2> SUFFICES ASSUME NEW x, NEW y PROVE <<x, y>> \o s = <<x>> \o (<<y>> \o s)
    OBVIOUS
  <2>1. (<<x>> \o <<y>>) \o s = <<x>> \o (<<y>> \o s)
    <3>1. IsSeq(<<x>>) /\ IsSeq(<<y>>)
      BY SeqShort
    <3> QED BY <3>1, SeqAssoc
  <2>2. <<x, y>> = <<x>> \o <<y>>
    BY SeqPair, Zenon
  <2> QED BY <2>1, <2>2
<1>3. \A x, y, z : <<x, y, z>> \o s = <<x>> \o (<<y>> \o (<<z>> \o s))
  <2> SUFFICES ASSUME NEW x, NEW y, NEW z PROVE <<x, y, z>> \o s = <<x>> \o (<<y>> \o (<<z>> \o s))
    OBVIOUS
  <2>1. (<<x>> \o <<y, z>>) \o s = <<x>> \o (<<y, z>> \o s)
    <3>1. IsSeq(<<x>>) /\ IsSeq(<<y, z>>)
      BY SeqShort
    <3> QED BY <3>1, SeqAssoc
  <2>2. <<x, y, z>> = <<x>> \o <<y, z>>
    BY SeqTriple, Zenon
  <2>3. <<y, z>> \o s = <<y>> \o (<<z>> \o s)
    BY <1>2, Zenon
  <2> QED BY <2>1, <2>2, <2>3, Zenon
<1> QED BY <1>1, <1>2, <1>3, Zenon

-----------------------------------------------------------------------------
(* What code takes from the stack, instruction by instruction.             *)

(* After an instruction that does not leave comes the rest of the code.    *)
LEMMA TakesRest ==
    ASSUME NEW c, NEW own, NEW w, Takes(c, own, w), c[1][1] \notin Leaves
    PROVE  /\ c[1][1] \in Program /\ (c[1][1] \in {"EXPR", "REF"} => c[1][2] = own)
           /\ Len(c) \in Nat /\ Len(c) >= 2 /\ Len(Tail(c)) = Len(c) - 1
           /\ \E v : IsSeq(v) /\ Step(c[1], w, v) /\ Takes(Tail(c), own, v)
           /\ Tail(c)[Len(Tail(c))] = c[Len(c)]
           /\ c[1][1] = "POP-ABORT" => Len(Tail(c)) = 1
           /\ Tail(c)[1][1] \in Uses => c[1][1] \in {"PUSH-DYNAMIC", "PUSH-TRAP", "RESTORE-STATE"}
           /\ c[1][1] \in {"CALL", "PROMPT", "FUNCTION-INVOKE"} => Tail(c)[1][1] = "RESTORE-STATE"
<1>1. IsSeq(c) /\ Len(c) # 0 /\ IsSeq(w) /\ Len(c) \in Nat
  BY SeqLen DEF Takes
<1>2. PICK W : W[1] = w /\ Annotated(c, own, W)
  BY DEF Takes
<1>3. 1 \in 1 .. Len(c) /\ 2 \in 1 .. Len(c) + 1
  BY <1>1
<1>4. InstructionTakes(c, own, W, 1)
  BY <1>2, <1>3 DEF Annotated
<1>5. Len(c) >= 2
  <2>1. 1 # Len(c)
    BY <1>4, Zenon DEF InstructionTakes
  <2>2. \A n \in Nat : n # 0 /\ 1 # n => n >= 2
    OBVIOUS
  <2> QED BY <1>1, <2>1, <2>2
<1> DEFINE t == Tail(c)
           V == [i \in 1 .. Len(c) |-> W[i + 1]]
<1>6. IsSeq(t) /\ Len(t) = Len(c) - 1 /\ \A i \in 1 .. Len(c) - 1 : t[i] = c[i + 1]
  BY <1>1, SeqSplit
<1>7. V[1] = W[2] /\ \A i \in 1 .. Len(c) : V[i] = W[i + 1]
  BY <1>3
<1> HIDE DEF t, V
<1>8. t[1] = c[2] /\ t[Len(t)] = c[Len(c)]
  <2>1. 1 \in 1 .. Len(c) - 1 /\ Len(c) - 1 \in 1 .. Len(c) - 1 /\ (Len(c) - 1) + 1 = Len(c)
    BY <1>1, <1>5
  <2> QED BY <1>6, <2>1
<1>9. Annotated(t, own, V)
  <2>1. V[Len(t) + 1] = << >>
    BY <1>1, <1>2, <1>6, <1>7 DEF Annotated
  <2>2. \A i \in 1 .. Len(t) + 1 : IsSeq(V[i])
    <3> SUFFICES ASSUME NEW i \in 1 .. Len(t) + 1 PROVE IsSeq(V[i])
      OBVIOUS
    <3>1. i \in 1 .. Len(c) /\ i + 1 \in 1 .. Len(c) + 1
      BY <1>1, <1>6
    <3> QED BY <1>2, <1>7, <3>1 DEF Annotated
  <2>3. ASSUME NEW i \in 1 .. Len(t) PROVE InstructionTakes(t, own, V, i)
    <3>1. /\ i \in 1 .. Len(c) - 1 /\ i \in 1 .. Len(c) /\ i + 1 \in 1 .. Len(c) /\ i + 1 >= 1
          /\ i = Len(t) <=> i + 1 = Len(c)
          /\ i = Len(t) - 1 <=> i + 1 = Len(c) - 1
          /\ i < Len(t) => i + 1 < Len(c) /\ i + 1 \in 1 .. Len(c) - 1
      BY <1>1, <1>6
    <3>2. InstructionTakes(c, own, W, i + 1)
      BY <1>2, <3>1 DEF Annotated
    <3>3. t[i] = c[i + 1] /\ V[i] = W[i + 1] /\ V[i + 1] = W[(i + 1) + 1]
      BY <1>6, <1>7, <3>1
    <3>4. t[i + 1] = c[(i + 1) + 1] \/ i = Len(t)
      BY <1>1, <1>6, <3>1
    <3>5. i = Len(t) => t[i][1] \in Leaves
      BY <3>1, <3>2, <3>3 DEF InstructionTakes
    <3> QED BY <3>1, <3>2, <3>3, <3>4, <3>5 DEF InstructionTakes, Leaves
  <2> QED BY <2>1, <2>2, <2>3 DEF Annotated
<1>10. IsSeq(V[1]) /\ Step(c[1], w, V[1])
  <2>1. 1 + 1 = 2 /\ 2 \in 1 .. Len(c) + 1
    BY <1>3
  <2> QED BY <1>2, <1>4, <1>7, <2>1 DEF InstructionTakes, Annotated
<1>11. Takes(t, own, V[1])
  BY <1>1, <1>5, <1>6, <1>9, <1>10 DEF Takes
<1>12. /\ c[1][1] = "POP-ABORT" => Len(t) = 1
       /\ t[1][1] \in Uses => c[1][1] \in {"PUSH-DYNAMIC", "PUSH-TRAP", "RESTORE-STATE"}
       /\ c[1][1] \in {"CALL", "PROMPT", "FUNCTION-INVOKE"} => t[1][1] = "RESTORE-STATE"
  <2>1. 1 < Len(c) /\ 1 + 1 = 2 /\ (1 = Len(c) - 1 => Len(t) = 1)
    BY <1>1, <1>5, <1>6
  <2> QED BY <1>4, <1>8, <2>1 DEF InstructionTakes
<1> QED BY <1>1, <1>4, <1>5, <1>6, <1>8, <1>10, <1>11, <1>12 DEF InstructionTakes, t

(* One that leaves is the last.                                            *)
LEMMA TakesLeaf ==
    ASSUME NEW c, NEW own, NEW w, Takes(c, own, w), c[1][1] \in Leaves
    PROVE  Len(c) = 1 /\ w = << >> /\ c = <<c[1]>>
<1>1. IsSeq(c) /\ Len(c) # 0 /\ IsSeq(w) /\ Len(c) \in Nat
  BY SeqLen DEF Takes
<1>2. PICK W : W[1] = w /\ Annotated(c, own, W)
  BY DEF Takes
<1>3. 1 \in 1 .. Len(c)
  BY <1>1
<1>4. InstructionTakes(c, own, W, 1)
  BY <1>2, <1>3 DEF Annotated
<1>5. Len(c) = 1
  BY <1>4 DEF InstructionTakes
<1>6. W[1] = W[2] /\ W[2] = << >>
  <2>1. Step(c[1], W[1], W[1 + 1])
    BY <1>4 DEF InstructionTakes
  <2>2. c[1][1] \notin DOMAIN PopsOf /\ c[1][1] \notin DOMAIN PushesOf
    BY DEF Leaves, PopsOf, PushesOf
  <2>3. W[1] = W[1 + 1]
    BY <2>1, <2>2 DEF Step
  <2> QED BY <1>2, <1>5, <2>3 DEF Annotated
<1>7. c = <<c[1]>>
  <2> DEFINE d == <<c[1]>>
  <2>1. IsSeq(d) /\ Len(d) = 1 /\ d[1] = c[1]
    BY SeqShort
  <2>2. \A i \in 1 .. 1 : i = 1
    OBVIOUS
  <2> HIDE DEF d
  <2>3. c = d
    BY <1>1, <1>5, <2>1, <2>2, SeqSame
  <2> QED BY <2>3 DEF d
<1> QED BY <1>2, <1>5, <1>6, <1>7

(* An instruction that leaves, alone.                                      *)
LEMMA TakesLast ==
    ASSUME NEW ins, NEW own, ins[1] \in Leaves
    PROVE  Takes(<<ins>>, own, << >>) /\ Len(<<ins>>) = 1 /\ <<ins>>[1] = ins
<1> DEFINE c == <<ins>>
           W == [i \in 1 .. 2 |-> << >>]
<1>1. IsSeq(c) /\ Len(c) = 1 /\ c[1] = ins
  BY SeqShort
<1>2. W[1] = << >> /\ W[2] = << >> /\ \A i \in 1 .. 2 : W[i] = << >>
  OBVIOUS
<1> HIDE DEF c, W
<1>3. InstructionTakes(c, own, W, 1)
  <2>1. ins[1] \in Program /\ ins[1] \notin {"EXPR", "REF", "POP-ABORT", "CALL", "PROMPT", "FUNCTION-INVOKE"}
    BY DEF Leaves, Program
  <2>2. Step(ins, << >>, << >>)
    BY DEF Leaves, Step, PopsOf, PushesOf
  <2> QED BY <1>1, <1>2, <2>1, <2>2 DEF InstructionTakes
<1>4. \A i \in 1 .. 1 : i = 1
  OBVIOUS
<1>5. IsSeq(<< >>)
  BY SeqShort
<1>6. Annotated(c, own, W)
  BY <1>1, <1>2, <1>3, <1>4, <1>5 DEF Annotated
<1> QED BY <1>1, <1>2, <1>5, <1>6 DEF Takes, c

(* One more instruction at the start.                                      *)
LEMMA TakesMore ==
    ASSUME NEW c, NEW own, NEW v, Takes(c, own, v), NEW w, IsSeq(w), NEW ins,
           ins[1] \in Program \ Leaves, ins[1] \in {"EXPR", "REF"} => ins[2] = own,
           Step(ins, w, v), ins[1] = "POP-ABORT" => Len(c) = 1,
           c[1][1] \in Uses => ins[1] \in {"PUSH-DYNAMIC", "PUSH-TRAP", "RESTORE-STATE"},
           ins[1] \in {"CALL", "PROMPT", "FUNCTION-INVOKE"} => c[1][1] = "RESTORE-STATE"
    PROVE  Takes(<<ins>> \o c, own, w)
<1>1. IsSeq(c) /\ Len(c) # 0 /\ IsSeq(v) /\ Len(c) \in Nat
  BY SeqLen DEF Takes
<1>2. PICK V : V[1] = v /\ Annotated(c, own, V)
  BY DEF Takes
<1> DEFINE t == <<ins>> \o c
           W == [i \in 1 .. Len(c) + 2 |-> IF i = 1 THEN w ELSE V[i - 1]]
<1>3. IsSeq(t) /\ Len(t) = Len(c) + 1 /\ t[1] = ins /\ \A i \in 1 .. Len(c) : t[i + 1] = c[i]
  BY <1>1, SeqCons
<1>4. W[1] = w /\ \A i \in 1 .. Len(c) + 1 : W[i + 1] = V[i]
  BY <1>1
<1> HIDE DEF t, W
<1>5. InstructionTakes(t, own, W, 1)
  <2>1. /\ t[1] = ins /\ t[1 + 1] = c[1] /\ W[1] = w /\ W[1 + 1] = v
        /\ 1 # Len(t) /\ (Len(c) = 1 => 1 = Len(t) - 1)
    BY <1>1, <1>2, <1>3, <1>4
  <2> QED BY <2>1 DEF InstructionTakes
<1>6. ASSUME NEW i \in 1 .. Len(c) PROVE InstructionTakes(t, own, W, i + 1)
  <2>1. InstructionTakes(c, own, V, i)
    BY <1>2 DEF Annotated
  <2>2. t[i + 1] = c[i] /\ W[i + 1] = V[i] /\ W[(i + 1) + 1] = V[i + 1]
    <3>1. i \in 1 .. Len(c) + 1 /\ i + 1 \in 1 .. Len(c) + 1
      BY <1>1
    <3> QED BY <1>3, <1>4, <3>1
  <2>3. /\ i = Len(c) <=> i + 1 = Len(t)
        /\ i = Len(c) - 1 <=> i + 1 = Len(t) - 1
        /\ i < Len(c) <=> i + 1 < Len(t)
    BY <1>1, <1>3
  <2>4. i < Len(c) => t[(i + 1) + 1] = c[i + 1]
    BY <1>1, <1>3
  <2>5. c[i][1] \in Leaves <=> i = Len(c)
    BY <2>1 DEF InstructionTakes
  <2>6. i = Len(c) \/ i < Len(c)
    BY <1>1
  <2> QED BY <2>1, <2>2, <2>3, <2>4, <2>5, <2>6 DEF InstructionTakes, Leaves
<1>7. \A i \in 1 .. Len(t) : i = 1 \/ \E j \in 1 .. Len(c) : i = j + 1
  <2> SUFFICES ASSUME NEW i \in 1 .. Len(t), i # 1 PROVE \E j \in 1 .. Len(c) : i = j + 1
    OBVIOUS
  <2>1. i - 1 \in 1 .. Len(c) /\ i = (i - 1) + 1
    BY <1>1, <1>3
  <2> QED BY <2>1
<1>8. \A i \in 1 .. Len(t) + 1 : IsSeq(W[i])
  <2> SUFFICES ASSUME NEW i \in 1 .. Len(t) + 1, i # 1 PROVE IsSeq(W[i])
    BY <1>4
  <2>1. i - 1 \in 1 .. Len(c) + 1 /\ i = (i - 1) + 1
    BY <1>1, <1>3
  <2>2. W[i] = V[i - 1]
    BY <1>4, <2>1
  <2> QED BY <1>2, <2>1, <2>2 DEF Annotated
<1>9. W[Len(t) + 1] = << >>
  <2>1. Len(c) + 1 \in 1 .. Len(c) + 1
    BY <1>1
  <2> QED BY <1>2, <1>3, <1>4, <2>1 DEF Annotated
<1>10. Annotated(t, own, W)
  BY <1>5, <1>6, <1>7, <1>8, <1>9 DEF Annotated
<1> QED BY <1>1, <1>3, <1>4, <1>10 DEF Takes, t

-----------------------------------------------------------------------------
(* What code wants, according to Wants.                                    *)

(* Wants is that: the recursion has one solution.                          *)
LEMMA WantsIs ==
    ASSUME NEW c, NEW w, Wanting(c, w)
    PROVE  Wants(c) = w
<1> DEFINE N == Len(c) + 1
           Eqn(g) == g = [i \in 1 .. Len(c) + 1 |->
                             IF i = Len(c) + 1 THEN << >> ELSE Wanted(c[i], g[i + 1])]
           g == CHOOSE f : Eqn(f)
<1>1. Len(c) \in Nat
  BY SeqLen DEF Wanting
<1>2. PICK W : /\ W[1] = w /\ W[Len(c) + 1] = << >>
               /\ \A i \in 1 .. Len(c) : W[i] = Wanted(c[i], W[i + 1])
  BY DEF Wanting
<1> DEFINE f == [i \in 1 .. Len(c) + 1 |-> W[i]]
<1>3. Eqn(f)
  <2>1. ASSUME NEW i \in 1 .. Len(c) + 1, i # Len(c) + 1 PROVE f[i] = Wanted(c[i], f[i + 1])
    <3>1. i \in 1 .. Len(c) /\ i + 1 \in 1 .. Len(c) + 1
      BY <1>1, <2>1
    <3> QED BY <1>2, <3>1
  <2>2. f[Len(c) + 1] = << >>
    BY <1>1, <1>2
  <2>3. \A i \in 1 .. Len(c) + 1 :
            f[i] = IF i = Len(c) + 1 THEN << >> ELSE Wanted(c[i], f[i + 1])
    BY <2>1, <2>2
  <2>4. f = [i \in 1 .. Len(c) + 1 |-> f[i]]
    BY Zenon
  <2> HIDE DEF f
  <2> QED BY <2>3, <2>4
<1>4. Eqn(g)
  <2> HIDE DEF Eqn
  <2> QED BY <1>3
<1>5. Wants(c) = g[1]
  BY DEF Wants
<1>6. \A i \in 1 .. Len(c) + 1 :
          g[i] = IF i = Len(c) + 1 THEN << >> ELSE Wanted(c[i], g[i + 1])
  <2> HIDE DEF g
  <2> QED BY <1>4, Zenon
<1> HIDE DEF g, Eqn
<1> DEFINE Bad == {i \in 1 .. Len(c) + 1 : g[i] # W[i]}
<1>7. CASE Bad = {}
  <2>1. 1 \in 1 .. Len(c) + 1
    BY <1>1
  <2> QED BY <1>2, <1>5, <1>7, <2>1
<1>8. CASE Bad # {}
  <2>1. Bad \in SUBSET (0 .. Len(c) + 1) /\ Len(c) + 1 \in Nat
    BY <1>1
  <2> DEFINE m == Max(Bad)
  <2>2. m \in Bad /\ \A i \in Bad : i <= m
    <3> HIDE DEF Bad
    <3> QED BY <1>8, <2>1, Greatest
  <2> HIDE DEF m
  <2>3. m # Len(c) + 1
    BY <1>2, <1>6, <2>2
  <2>4. m \in 1 .. Len(c) /\ m + 1 \in 1 .. Len(c) + 1 /\ ~(m + 1 <= m)
    BY <1>1, <2>2, <2>3
  <2>5. g[m + 1] = W[m + 1]
    BY <2>2, <2>4
  <2> QED BY <1>2, <1>6, <2>2, <2>3, <2>4, <2>5
<1> QED BY <1>7, <1>8

(* Of an activation's code it is what the code takes.                      *)
LEMMA TakesWanting ==
    ASSUME NEW c, NEW own, NEW w, Takes(c, own, w)
    PROVE  Wanting(c, w)
<1>1. Len(c) \in Nat /\ IsSeq(c)
  BY SeqLen DEF Takes
<1>2. PICK W : W[1] = w /\ Annotated(c, own, W)
  BY DEF Takes
<1>3. ASSUME NEW i \in 1 .. Len(c) PROVE W[i] = Wanted(c[i], W[i + 1])
  <2>1. Step(c[i], W[i], W[i + 1]) /\ IsSeq(W[i])
    BY <1>1, <1>2 DEF Annotated, InstructionTakes
  <2>2. CASE c[i][1] \in DOMAIN PopsOf
    BY <2>1, <2>2 DEF Step, Wanted
  <2>3. CASE c[i][1] \notin DOMAIN PopsOf /\ c[i][1] \in DOMAIN PushesOf
    <3>1. W[i + 1] = <<PushesOf[c[i][1]]>> \o W[i]
      BY <2>1, <2>3 DEF Step
    <3>3. \A u, x : IsSeq(u) => <<x>> \o u # << >> /\ Head(<<x>> \o u) = x /\ Tail(<<x>> \o u) = u
      BY SeqCons
    <3>2. W[i + 1] # << >> /\ Head(W[i + 1]) = PushesOf[c[i][1]] /\ Tail(W[i + 1]) = W[i]
      BY <2>1, <3>1, <3>3
    <3> QED BY <2>3, <3>2 DEF Wanted
  <2>4. CASE c[i][1] \notin DOMAIN PopsOf /\ c[i][1] \notin DOMAIN PushesOf
    BY <2>1, <2>4 DEF Step, Wanted
  <2> QED BY <2>2, <2>3, <2>4
<1> QED BY <1>1, <1>2, <1>3 DEF Wanting, Annotated

(* Other code, one instruction after another.                              *)
LEMMA WantingMore ==
    ASSUME NEW c, NEW w, Wanting(c, w), NEW ins
    PROVE  Wanting(<<ins>> \o c, Wanted(ins, w))
<1>1. IsSeq(c) /\ Len(c) \in Nat
  BY SeqLen DEF Wanting
<1>2. PICK V : /\ V[1] = w /\ V[Len(c) + 1] = << >>
               /\ \A i \in 1 .. Len(c) : V[i] = Wanted(c[i], V[i + 1])
  BY DEF Wanting
<1> DEFINE t == <<ins>> \o c
           W == [i \in 1 .. Len(c) + 2 |-> IF i = 1 THEN Wanted(ins, w) ELSE V[i - 1]]
<1>3. IsSeq(t) /\ Len(t) = Len(c) + 1 /\ t[1] = ins /\ \A i \in 1 .. Len(c) : t[i + 1] = c[i]
  BY <1>1, SeqCons
<1>4. W[1] = Wanted(ins, w) /\ \A i \in 1 .. Len(c) + 1 : W[i + 1] = V[i]
  BY <1>1
<1> HIDE DEF t, W
<1>5. W[1] = Wanted(t[1], W[1 + 1])
  <2>1. 1 \in 1 .. Len(c) + 1
    BY <1>1
  <2> QED BY <1>2, <1>3, <1>4, <2>1
<1>6. ASSUME NEW i \in 1 .. Len(t) PROVE W[i] = Wanted(t[i], W[i + 1])
  <2>1. CASE i = 1
    BY <1>5, <2>1
  <2>2. CASE i # 1
    <3>1. /\ i - 1 \in 1 .. Len(c) /\ i - 1 \in 1 .. Len(c) + 1 /\ (i - 1) + 1 = i
          /\ i \in 1 .. Len(c) + 1
      BY <1>1, <1>3, <2>2
    <3>2. t[i] = c[i - 1] /\ W[i] = V[i - 1] /\ W[i + 1] = V[i]
      BY <1>3, <1>4, <3>1
    <3>3. V[i - 1] = Wanted(c[i - 1], V[i])
      BY <1>2, <3>1
    <3> QED BY <3>2, <3>3
  <2> QED BY <2>1, <2>2
<1>7. W[Len(t) + 1] = << >>
  <2>1. Len(c) + 1 \in 1 .. Len(c) + 1
    BY <1>1
  <2> QED BY <1>2, <1>3, <1>4, <2>1
<1> QED BY <1>3, <1>4, <1>6, <1>7 DEF Wanting, t

(* One instruction.                                                        *)
LEMMA WantingOne ==
    ASSUME NEW ins
    PROVE  Wanting(<<ins>>, Wanted(ins, << >>))
<1> DEFINE c == <<ins>>
           W == [i \in 1 .. 2 |-> IF i = 1 THEN Wanted(ins, << >>) ELSE << >>]
<1>1. IsSeq(c) /\ Len(c) = 1 /\ c[1] = ins
  BY SeqShort
<1>2. W[1] = Wanted(ins, << >>) /\ W[2] = << >>
  OBVIOUS
<1> HIDE DEF c, W
<1>3. \A i \in 1 .. 1 : i = 1
  OBVIOUS
<1> QED BY <1>1, <1>2, <1>3 DEF Wanting, c

(* What is left of a raise, the end of a run and the start of a load.      *)
LEMMA WantsOf ==
    /\ Wants(R) = << >> /\ Wants(TOP) = << >>
    /\ Wants(<< <<"RESTORE-STATE">>, <<"RETURN">> >>) = <<"state">>
    /\ Wants(<< <<"RESTORE-ALL-STATE">>, <<"RETURN">> >>) = <<"all-state">>
    /\ Wants(CHR) = <<"trap", "state">> /\ Wants(IHR) = <<"trap", "all-state">>
    /\ \A h, e : /\ Wants(<< <<"PRIMITIVE", h, e>> >> \o CHR) = <<"trap", "state">>
                 /\ Wants(<< <<"PRIMITIVE", h, e>> >> \o IHR) = <<"trap", "all-state">>
    /\ Wants(<< <<"INVOKE-C-DONE">> >>) = <<"all-state">>
    /\ Wants(Loaded) = << >>
<1>1. /\ Wanted(<<"RETURN">>, << >>) = << >>
      /\ Wanted(<<"ABORT-TOP">>, << >>) = << >>
      /\ \A i, w : Wanted(<<"EXPR", i>>, w) = w
      /\ \A h, e, w : Wanted(<<"PRIMITIVE", h, e>>, w) = w
  BY DEF PopsOf, PushesOf, Wanted
<1>2. \A w : /\ Wanted(<<"RESTORE-STATE">>, w) = <<"state">> \o w
             /\ Wanted(<<"RESTORE-ALL-STATE">>, w) = <<"all-state">> \o w
             /\ Wanted(<<"POP-TRAP">>, w) = <<"trap">> \o w
             /\ Wanted(<<"POP-ABORT">>, w) = <<"abort">> \o w
             /\ Wanted(<<"INVOKE-C-DONE">>, w) = <<"all-state">> \o w
  BY DEF PopsOf, Wanted
<1>3. /\ <<"state">> \o << >> = <<"state">> /\ <<"all-state">> \o << >> = <<"all-state">>
      /\ <<"abort">> \o << >> = <<"abort">>
      /\ <<"trap">> \o <<"state">> = <<"trap", "state">>
      /\ <<"trap">> \o <<"all-state">> = <<"trap", "all-state">>
  <2>1. \A x : <<x>> \o << >> = <<x>>
    OBVIOUS
  <2> QED BY <2>1, SeqPair
<1>4. Wanted(<<"PUSH-ABORT">>, <<"abort">>) = << >>
  BY DEF PopsOf, PushesOf, Wanted
<1>5. Wanting(R, << >>)
  BY <1>1, WantingOne DEF R
<1>6. Wanting(TOP, << >>)
  BY <1>1, WantingOne DEF TOP
<1> DEFINE S == << <<"RESTORE-STATE">>, <<"RETURN">> >>
           A == << <<"RESTORE-ALL-STATE">>, <<"RETURN">> >>
<1>7. Wanting(S, <<"state">>) /\ Wanting(A, <<"all-state">>)
  <2>1. S = << <<"RESTORE-STATE">> >> \o R /\ A = << <<"RESTORE-ALL-STATE">> >> \o R
    BY SeqPair DEF R
  <2>2. /\ Wanting(<< <<"RESTORE-STATE">> >> \o R, Wanted(<<"RESTORE-STATE">>, << >>))
        /\ Wanting(<< <<"RESTORE-ALL-STATE">> >> \o R, Wanted(<<"RESTORE-ALL-STATE">>, << >>))
    BY <1>5, WantingMore
  <2> QED BY <1>2, <1>3, <2>1, <2>2
<1>8. Wanting(CHR, <<"trap", "state">>) /\ Wanting(IHR, <<"trap", "all-state">>)
  <2>1. CHR = << <<"POP-TRAP">> >> \o S /\ IHR = << <<"POP-TRAP">> >> \o A
    <3> DEFINE x == <<"POP-TRAP">>
               y == <<"RESTORE-STATE">>
               z == <<"RESTORE-ALL-STATE">>
               t == <<"RETURN">>
    <3>1. CHR = <<x, y, t>> /\ IHR = <<x, z, t>> /\ S = <<y, t>> /\ A = <<z, t>>
      BY DEF CHR, IHR
    <3> HIDE DEF x, y, z, t
    <3>2. <<x, y, t>> = <<x>> \o <<y, t>> /\ <<x, z, t>> = <<x>> \o <<z, t>>
      BY SeqTriple
    <3>3. CHR = <<x>> \o S /\ IHR = <<x>> \o A
      BY <3>1, <3>2
    <3> QED BY <3>3 DEF x
  <2> HIDE DEF S, A
  <2>2. /\ Wanting(<< <<"POP-TRAP">> >> \o S, Wanted(<<"POP-TRAP">>, <<"state">>))
        /\ Wanting(<< <<"POP-TRAP">> >> \o A, Wanted(<<"POP-TRAP">>, <<"all-state">>))
    BY <1>7, WantingMore
  <2> QED BY <1>2, <1>3, <2>1, <2>2
<1>9. ASSUME NEW h, NEW e
      PROVE  /\ Wants(<< <<"PRIMITIVE", h, e>> >> \o CHR) = <<"trap", "state">>
             /\ Wants(<< <<"PRIMITIVE", h, e>> >> \o IHR) = <<"trap", "all-state">>
  <2> DEFINE p == <<"PRIMITIVE", h, e>>
  <2>1. Wanted(p, <<"trap", "state">>) = <<"trap", "state">>
        /\ Wanted(p, <<"trap", "all-state">>) = <<"trap", "all-state">>
    BY <1>1
  <2> HIDE DEF p
  <2>2. Wanting(<<p>> \o CHR, <<"trap", "state">>) /\ Wanting(<<p>> \o IHR, <<"trap", "all-state">>)
    <3>1. /\ Wanting(<<p>> \o CHR, Wanted(p, <<"trap", "state">>))
          /\ Wanting(<<p>> \o IHR, Wanted(p, <<"trap", "all-state">>))
      BY <1>8, WantingMore
    <3> QED BY <2>1, <3>1
  <2>3. Wants(<<p>> \o CHR) = <<"trap", "state">> /\ Wants(<<p>> \o IHR) = <<"trap", "all-state">>
    BY <2>2, WantsIs
  <2> QED BY <2>3 DEF p
<1>10. Wanting(<< <<"INVOKE-C-DONE">> >>, <<"all-state">>)
  <2>1. Wanting(<< <<"INVOKE-C-DONE">> >>, Wanted(<<"INVOKE-C-DONE">>, << >>))
    BY WantingOne
  <2> QED BY <1>2, <1>3, <2>1
<1>11. Wanting(Loaded, << >>)
  <2> DEFINE L == Loaded
             t == << <<"EXPR", 0>>, <<"POP-ABORT">>, <<"RETURN">> >>
             u == << <<"POP-ABORT">>, <<"RETURN">> >>
  <2>1. L = << <<"PUSH-ABORT">> >> \o t
    <3>1. IsSeq(L) /\ Len(L) # 0 /\ L[1] = <<"PUSH-ABORT">> /\ Tail(L) = t
      BY LoadedFacts
    <3> HIDE DEF L, t
    <3>2. L = <<L[1]>> \o Tail(L)
      BY <3>1, SeqSplit
    <3> QED BY <3>1, <3>2
  <2>2. t = << <<"EXPR", 0>> >> \o u
    <3> DEFINE x == <<"EXPR", 0>>
               y == <<"POP-ABORT">>
               z == <<"RETURN">>
    <3>1. t = <<x, y, z>> /\ u = <<y, z>>
      OBVIOUS
    <3> HIDE DEF x, y, z, t, u
    <3>2. <<x, y, z>> = <<x>> \o <<y, z>>
      BY SeqTriple
    <3>3. t = <<x>> \o u
      BY <3>1, <3>2
    <3> QED BY <3>3 DEF x
  <2>3. u = << <<"POP-ABORT">> >> \o R
    BY SeqPair DEF R
  <2> HIDE DEF t, u, L
  <2>4. Wanting(u, <<"abort">>)
    <3>1. Wanting(u, Wanted(<<"POP-ABORT">>, << >>))
      BY <1>5, <2>3, WantingMore
    <3> QED BY <1>2, <1>3, <3>1
  <2>5. Wanting(t, <<"abort">>)
    <3>1. Wanting(t, Wanted(<<"EXPR", 0>>, <<"abort">>))
      BY <2>2, <2>4, WantingMore
    <3> QED BY <1>1, <3>1
  <2>6. Wanting(L, << >>)
    <3>1. Wanting(L, Wanted(<<"PUSH-ABORT">>, <<"abort">>))
      BY <2>1, <2>5, WantingMore
    <3> QED BY <1>4, <3>1
  <2> QED BY <2>6 DEF L
<1>12. /\ Wants(R) = << >> /\ Wants(TOP) = << >> /\ Wants(S) = <<"state">> /\ Wants(A) = <<"all-state">>
       /\ Wants(CHR) = <<"trap", "state">> /\ Wants(IHR) = <<"trap", "all-state">>
       /\ Wants(<< <<"INVOKE-C-DONE">> >>) = <<"all-state">> /\ Wants(Loaded) = << >>
  <2> HIDE DEF S, A
  <2> QED BY <1>5, <1>6, <1>7, <1>8, <1>10, <1>11, WantsIs
<1> QED BY <1>9, <1>12

-----------------------------------------------------------------------------
(* What a position needs is below it.                                      *)

Agree(s, t, p) == \A i \in 1 .. p - 1 : t[i] = s[i]

(* Return frames below.                                                    *)
LEMMA AgreeReturns ==
    ASSUME NEW s, NEW t, NEW p \in Int, Agree(s, t, p)
    PROVE  /\ \A b \in Int : b < p => /\ IsReturn(t, b) <=> IsReturn(s, b)
                                      /\ OfC(t, b) <=> OfC(s, b)
                                      /\ SavedAt(t, b) <=> SavedAt(s, b)
                                      /\ Doomed(t, b) <=> Doomed(s, b)
                                      /\ Raising(t, b) <=> Raising(s, b)
                                      /\ b >= 1 => t[b] = s[b]
           /\ InRun(s, p) => InRun(t, p)
           /\ InLoad(s, p) => InLoad(t, p)
<1>1. \A b \in Int : b < p /\ b >= 1 => t[b] = s[b]
  BY DEF Agree
<1>2. \A b \in Int : b < p => (IsReturn(t, b) <=> IsReturn(s, b))
  BY <1>1 DEF IsReturn
<1>3. \A b \in Int : b < p => (OfC(t, b) <=> OfC(s, b))
  <2> SUFFICES ASSUME NEW b \in Int, b < p PROVE OfC(t, b) <=> OfC(s, b)
    OBVIOUS
  <2>1. CASE b >= 1
    BY <1>1, <2>1 DEF OfC, IsReturn
  <2>2. CASE ~(b >= 1)
    BY <2>2 DEF OfC, IsReturn
  <2> QED BY <2>1, <2>2
<1>8. \A b \in Int : b < p => (SavedAt(t, b) <=> SavedAt(s, b))
  BY <1>1 DEF SavedAt
<1>4. ASSUME NEW b \in Int, b < p PROVE Doomed(t, b) <=> Doomed(s, b)
  <2>1. CASE b >= 1
    <3>1. t[b] = s[b] /\ (SavedAt(t, b - 1) <=> SavedAt(s, b - 1)) /\ (IsReturn(t, b) <=> IsReturn(s, b))
      BY <1>1, <1>2, <1>4, <1>8, <2>1
    <3> QED BY <3>1 DEF Doomed
  <2>2. CASE ~(b >= 1)
    BY <2>2 DEF Doomed, IsReturn
  <2> QED BY <2>1, <2>2
<1>5. ASSUME NEW b \in Int, b < p PROVE Raising(t, b) <=> Raising(s, b)
  <2>1. CASE b >= 1
    BY <1>1, <1>5, <2>1 DEF Raising, IsReturn
  <2>2. CASE ~(b >= 1)
    BY <2>2 DEF Raising, IsReturn
  <2> QED BY <2>1, <2>2
<1>6. InRun(s, p) => InRun(t, p)
  BY DEF InRun, Agree
<1>7. InLoad(s, p) => InLoad(t, p)
  BY <1>1 DEF InLoad
<1> QED BY <1>1, <1>2, <1>3, <1>4, <1>5, <1>6, <1>7, <1>8

(* An activation's.                                                        *)
LEMMA AgreeActs ==
    ASSUME NEW s, NEW t, NEW p \in Int, Agree(s, t, p), NEW c, NEW was, NEW b, NEW own, NEW w,
           ActsAt(s, c, p, was, b, own, w)
    PROVE  ActsAt(t, c, p, was, b, own, w)
<1>1. b \in 1 .. p - 1 /\ b - 3 \in Int /\ b - 3 < p
  BY DEF ActsAt
<1>2. \A j \in 1 .. p - 1 : t[j] = s[j]
  BY DEF Agree
<1>3. Doomed(t, b - 3) <=> Doomed(s, b - 3)
  BY <1>1, AgreeReturns
<1>4. (InRun(s, p) => InRun(t, p)) /\ (InLoad(s, p) => InLoad(t, p))
  BY AgreeReturns
<1>5. \A j \in b + 1 .. p - 1 : t[j] = s[j]
  BY <1>1, <1>2
<1>6. \A j \in 1 .. Len(w) : t[p - j] = s[p - j]
  <2>1. Len(w) = p - 1 - b
    BY DEF ActsAt
  <2> QED BY <1>1, <1>2, <2>1
<1>7. t[b] = s[b]
  BY <1>1, <1>2
<1> QED BY <1>3, <1>4, <1>5, <1>6, <1>7 DEF ActsAt

(* Whatever may come back to a position, or run there.                     *)
LEMMA AgreeBack ==
    ASSUME NEW s, NEW t, NEW p \in Int, Agree(s, t, p), NEW c, NEW was
    PROVE  /\ Activation(s, c, p, was) => Activation(t, c, p, was)
           /\ HandlerReturn(s, c, p, was) => HandlerReturn(t, c, p, was)
           /\ Main(s, c, p) => Main(t, c, p)
           /\ Called(s, c, p) => Called(t, c, p)
           /\ Continues(s, c, p) => Continues(t, c, p)
           /\ AtTop(s, c, p) => AtTop(t, c, p)
<1>1. \A d, v : Activation(s, d, p, v) => Activation(t, d, p, v)
  BY AgreeActs DEF Activation
<1>2. Main(s, c, p) => Main(t, c, p)
  BY DEF Main, Agree
<1>3. /\ \A b \in Int : b < p => /\ Doomed(t, b) <=> Doomed(s, b)
                                 /\ Raising(t, b) <=> Raising(s, b)
                                 /\ OfC(t, b) <=> OfC(s, b)
                                 /\ b >= 1 => t[b] = s[b]
      /\ InLoad(s, p) => InLoad(t, p)
  BY AgreeReturns
<1>4. ASSUME HandlerReturn(s, c, p, was) PROVE HandlerReturn(t, c, p, was)
  <2>1. ASSUME Handling(s, c, p, was) PROVE Handling(t, c, p, was)
    <3> DEFINE b == p - 3
    <3>1. b \in Int /\ b >= 1 /\ b + 1 = p - 2 /\ b + 2 = p - 1
      BY <2>1 DEF Handling, Raising, IsReturn
    <3>2. /\ t[b] = s[b] /\ t[b + 1] = s[b + 1] /\ t[b + 2] = s[b + 2]
          /\ Doomed(t, b) <=> Doomed(s, b)
          /\ Raising(t, b) <=> Raising(s, b)
      BY <1>3, <3>1
    <3>3. t[p - 1] = s[p - 1]
      BY <3>1, <3>2
    <3>4. Raising(s, b) /\ Saved(s, b) /\ s[p - 1].m = "trap"
      BY <2>1 DEF Handling
    <3>5. PICK x : /\ WayBack(s, b, x)
                   /\ \/ c = x /\ (Doomed(s, b) /\ x # NCE => Len(was) <= 1)
                      \/ BaseHandler(s, c, b, x)
      BY <2>1 DEF Handling
    <3> HIDE DEF b
    <3>6. Saved(t, b) /\ WayBack(t, b, x)
      BY <3>2, <3>4, <3>5 DEF Saved, WayBack
    <3>7. BaseHandler(s, c, b, x) => BaseHandler(t, c, b, x)
      BY <3>2 DEF BaseHandler
    <3> QED BY <3>2, <3>3, <3>4, <3>5, <3>6, <3>7 DEF Handling, b
  <2>2. ASSUME Restoring(s, c, p) PROVE Restoring(t, c, p)
    <3> DEFINE b == p - 2
    <3>1. b \in Int /\ b >= 1 /\ b + 1 = p - 1
      BY <2>2 DEF Restoring, Raising, IsReturn
    <3>2. /\ t[b] = s[b] /\ t[b + 1] = s[b + 1]
          /\ Doomed(t, b) <=> Doomed(s, b)
          /\ Raising(t, b) <=> Raising(s, b)
      BY <1>3, <3>1
    <3>3. Raising(s, b) /\ Saved(s, b) /\ ~Doomed(s, b)
      BY <2>2 DEF Restoring
    <3>4. Saved(t, b)
      BY <3>2, <3>3 DEF Saved
    <3> QED BY <2>2, <3>2, <3>3, <3>4 DEF Restoring
  <2>3. ASSUME Returning(s, c, p, was) PROVE Returning(t, c, p, was)
    <3>1. p - 1 \in Int /\ p - 1 >= 1 /\ p - 1 < p
      BY <2>3 DEF Returning, Raising, IsReturn
    <3> QED BY <1>3, <2>3, <3>1 DEF Returning
  <2> QED BY <1>4, <2>1, <2>2, <2>3 DEF HandlerReturn
<1>5. ASSUME Called(s, c, p) PROVE Called(t, c, p)
  <2>1. p - 2 \in Int /\ p - 2 >= 1 /\ p - 2 < p /\ p - 1 \in Int /\ p - 1 >= 1 /\ p - 1 < p
    BY <1>5 DEF Called, OfC, IsReturn
  <2>2. t[p - 2] = s[p - 2] /\ t[p - 1] = s[p - 1] /\ OfC(t, p - 2)
    BY <1>3, <1>5, <2>1 DEF Called
  <2>3. Agree(s, t, p - 2)
    BY DEF Agree
  <2>4. \A b, own, w, d, v : ActsAt(s, d, p - 2, v, b, own, w) => ActsAt(t, d, p - 2, v, b, own, w)
    BY <2>1, <2>3, AgreeActs
  <2>5. \A d, v : Activation(s, d, p - 2, v) => Activation(t, d, p - 2, v)
    BY <2>4 DEF Activation
  <2> QED BY <1>5, <2>2, <2>5 DEF Called
<1>6. Continues(s, c, p) => Continues(t, c, p)
  BY <1>1, <1>2 DEF Continues
<1>7. AtTop(s, c, p) => AtTop(t, c, p)
  BY <1>1, <1>3 DEF AtTop
<1> QED BY <1>1, <1>2, <1>4, <1>5, <1>6, <1>7

(* The runs among rs2 that start at p are among rs.                        *)
NoMoreRuns(rs, rs2, p) ==
    \A r \in 1 .. Len(rs2) : rs2[r].ss0 + 1 = p => \E q \in 1 .. Len(rs) : rs2[r] = rs[q]

(* An address that is good stays so.                                       *)
LEMMA AgreeAddress ==
    ASSUME NEW s, NEW t, NEW p \in Int, Agree(s, t, p), NEW rs, NEW rs2,
           NoMoreRuns(rs, rs2, p), NEW c, NEW was,
           Addressed(s, rs, c, p, was)
    PROVE  Addressed(t, rs2, c, p, was)
<1>1. /\ Activation(s, c, p, was) => Activation(t, c, p, was)
      /\ HandlerReturn(s, c, p, was) => HandlerReturn(t, c, p, was)
      /\ AtTop(s, c, p) => AtTop(t, c, p)
  BY AgreeBack
<1>2. ASSUME AtFin(s, rs, c, p) PROVE AtFin(t, rs2, c, p)
  <2> SUFFICES ASSUME NEW r \in 1 .. Len(rs2), rs2[r].ss0 + 1 = p
               PROVE  Continues(t, rs2[r].after, p) \/ Called(t, rs2[r].after, p)
    BY <1>2 DEF AtFin
  <2>1. PICK q \in 1 .. Len(rs) : rs2[r] = rs[q]
    BY DEF NoMoreRuns
  <2>2. Continues(s, rs[q].after, p) \/ Called(s, rs[q].after, p)
    BY <1>2, <2>1 DEF AtFin
  <2> QED BY <2>1, <2>2, AgreeBack
<1> QED BY <1>1, <1>2 DEF Addressed

(* A frame that nests still does.                                          *)
LEMMA AgreeNests ==
    ASSUME NEW s, NEW t, NEW p \in Int, p >= 1, Agree(s, t, p + 1), NEW rs, NEW rs2,
           NoMoreRuns(rs, rs2, p), FrameNests(s, rs, p)
    PROVE  FrameNests(t, rs2, p)
<1>1. t[p] = s[p] /\ Agree(s, t, p)
  BY DEF Agree
<1>2. (OfC(t, p - 1) <=> OfC(s, p - 1)) /\ (SavedAt(t, p - 1) <=> SavedAt(s, p - 1))
  BY <1>1, AgreeReturns
<1>3. Abandoned(s, p) => Abandoned(t, p)
  BY <1>1, <1>2 DEF Abandoned, IsReturn
<1>4. Continues(s, s[p].k.code, p) => Continues(t, s[p].k.code, p)
  BY <1>1, AgreeBack
<1>5. Addressed(s, rs, s[p].code, p, s[p].was) => Addressed(t, rs2, s[p].code, p, s[p].was)
  BY <1>1, AgreeAddress
<1>6. AtTop(s, TOP, p) => AtTop(t, TOP, p)
  BY <1>1, AgreeBack
<1> QED BY <1>1, <1>2, <1>3, <1>4, <1>5, <1>6 DEF FrameNests

(* So do all of a part of the stack, and of one that has grown.            *)
LEMMA DeepPart ==
    ASSUME NEW s, NEW t, NEW rs, NEW rs2, Deep(s, rs), Len(s) \in Nat, NEW m \in 0 .. Len(s),
           Agree(s, t, m + 1), \A p \in 1 .. m : NoMoreRuns(rs, rs2, p)
    PROVE  \A p \in 1 .. m : FrameNests(t, rs2, p)
<1> SUFFICES ASSUME NEW p \in 1 .. m PROVE FrameNests(t, rs2, p)
  OBVIOUS
<1>1. p \in Int /\ p >= 1 /\ p \in 1 .. Len(s) /\ Agree(s, t, p + 1)
  BY DEF Agree
<1> QED BY <1>1, AgreeNests DEF Deep

(* One frame more, with no new run.                                        *)
LEMMA DeepAppend ==
    ASSUME NEW s, IsSeq(s), NEW rs, Deep(s, rs), NEW f, FrameNests(Append(s, f), rs, Len(s) + 1)
    PROVE  Deep(Append(s, f), rs)
<1> DEFINE t == Append(s, f)
<1>1. Len(s) \in Nat /\ Len(t) = Len(s) + 1 /\ \A i \in 1 .. Len(s) : t[i] = s[i]
  BY SeqLen, SeqAppend
<1>2. FrameNests(t, rs, Len(s) + 1)
  OBVIOUS
<1> HIDE DEF t
<1>3. \A p \in 1 .. Len(s) : FrameNests(t, rs, p)
  <2>1. Agree(s, t, Len(s) + 1) /\ Len(s) \in 0 .. Len(s)
    BY <1>1 DEF Agree
  <2>2. \A p : NoMoreRuns(rs, rs, p)
    BY DEF NoMoreRuns
  <2> QED BY <1>1, <2>1, <2>2, DeepPart
<1>4. Deep(t, rs)
  BY <1>1, <1>2, <1>3 DEF Deep
<1> QED BY <1>4 DEF t

(* The first m frames, with no new run.                                    *)
LEMMA DeepFirst ==
    ASSUME NEW s, IsSeq(s), NEW rs, Deep(s, rs), NEW m \in 0 .. Len(s), NEW rs2,
           \A p : NoMoreRuns(rs, rs2, p)
    PROVE  Deep(SubSeq(s, 1, m), rs2) /\ Agree(s, SubSeq(s, 1, m), m + 1)
<1> DEFINE t == SubSeq(s, 1, m)
<1>1. Len(s) \in Nat /\ Len(t) = m /\ \A i \in 1 .. m : t[i] = s[i]
  BY SeqLen, SeqCut
<1> HIDE DEF t
<1>2. Agree(s, t, m + 1)
  BY <1>1 DEF Agree
<1>3. Deep(t, rs2)
  BY <1>1, <1>2, DeepPart DEF Deep
<1> QED BY <1>2, <1>3 DEF t

-----------------------------------------------------------------------------
(* Activations, from one instruction to the next.                          *)

(* The frame an activation's code looks at: known where the code uses it.  *)
Knows(c, was, own) == c[1][1] \in Uses => Len(was) >= 1 /\ was[1] = own

(* Other code for the same activation, over the same frames.               *)
LEMMA ActsStay ==
    ASSUME NEW s, NEW c, NEW p \in Int, NEW was, NEW b, NEW own, NEW w,
           ActsAt(s, c, p, was, b, own, w),
           NEW c2, Takes(c2, own, w), c2[Len(c2)] = c[Len(c)], Len(c2) = 1 \/ Len(c) # 1,
           NEW was2, Knows(c2, was2, own)
    PROVE  ActsAt(s, c2, p, was2, b, own, w)
BY DEF ActsAt, Knows

(* One frame more.                                                         *)
LEMMA ActsPush ==
    ASSUME NEW s, IsSeq(s), NEW c, NEW was, NEW b, NEW own, NEW w,
           ActsAt(s, c, Len(s) + 1, was, b, own, w),
           NEW f, Owned(f, own),
           NEW c2, Takes(c2, own, <<f.m>> \o w), c2[Len(c2)] = c[Len(c)], Len(c) # 1,
           NEW was2, Knows(c2, was2, own)
    PROVE  ActsAt(Append(s, f), c2, Len(s) + 2, was2, b, own, <<f.m>> \o w)
<1> DEFINE t == Append(s, f)
           n == Len(s)
           v == <<f.m>> \o w
<1>1. n \in Nat /\ Len(t) = n + 1 /\ t[n + 1] = f /\ \A i \in 1 .. n : t[i] = s[i]
  BY SeqLen, SeqAppend
<1>2. IsSeq(w) /\ Len(w) \in Nat
  BY SeqLen DEF ActsAt, Takes
<1>3. Len(v) = Len(w) + 1 /\ v[1] = f.m /\ \A i \in 1 .. Len(w) : v[i + 1] = w[i]
  BY <1>2, SeqCons
<1>4. Takes(c2, own, v)
  OBVIOUS
<1>5. ActsAt(s, c, n + 1, was, b, own, w)
  OBVIOUS
<1> HIDE DEF t, v, n
<1>6. /\ b \in 1 .. n /\ s[b].m = "return" /\ s[b].run # -1 /\ s[b].was = << >>
      /\ \A j \in b + 1 .. n : Owned(s[j], own)
      /\ Len(w) = n - b /\ \A j \in 1 .. Len(w) : w[j] = s[n + 1 - j].m
      /\ Returns(s[b].code) /\ Doomed(s, b - 3) => c[Len(c)][1] = "TRAP-RETURN"
      /\ InRun(s, n + 1) /\ (Len(c) = 1 \/ InLoad(s, n + 1))
  BY <1>1, <1>5 DEF ActsAt
<1>7. Agree(s, t, n + 1)
  BY <1>1 DEF Agree
<1>8. (Doomed(t, b - 3) <=> Doomed(s, b - 3)) /\ t[b] = s[b] /\ InRun(t, n + 1) /\ InLoad(t, n + 1)
  BY <1>1, <1>6, <1>7, AgreeReturns
<1>9. InRun(t, n + 2) /\ InLoad(t, n + 2)
  BY <1>1, <1>8 DEF InRun, InLoad
<1>10. ASSUME NEW j \in b + 1 .. n + 1
       PROVE  Owned(t[j], own)
  <2>1. n \in Nat /\ b \in 1 .. n
    BY <1>1, <1>6
  <2>2. j = n + 1 \/ (j \in b + 1 .. n /\ j \in 1 .. n)
    BY <2>1
  <2>3. CASE j = n + 1
    BY <1>1, <2>3
  <2>4. CASE j \in b + 1 .. n /\ j \in 1 .. n
    <3>1. t[j] = s[j]
      BY <1>1, <2>4
    <3> QED BY <1>6, <2>4, <3>1
  <2> QED BY <2>2, <2>3, <2>4
<1>11. Len(v) = n + 1 - b /\ \A j \in 1 .. Len(v) : v[j] = t[n + 2 - j].m
  <2>1. Len(v) = n + 1 - b
    BY <1>1, <1>3, <1>6
  <2>2. ASSUME NEW j \in 1 .. Len(v) PROVE v[j] = t[n + 2 - j].m
    <3>1. CASE j = 1
      BY <1>1, <1>3, <3>1
    <3>2. CASE j # 1
      <4>3. b \in 1 .. n /\ Len(w) = n - b /\ j \in 1 .. n - b + 1
        BY <1>3, <1>6
      <4>1. /\ j - 1 \in 1 .. Len(w) /\ (j - 1) + 1 = j /\ n + 1 - (j - 1) = n + 2 - j
            /\ n + 2 - j \in 1 .. n
        BY <1>1, <3>2, <4>3
      <4>2. v[j] = w[j - 1] /\ w[j - 1] = s[n + 2 - j].m
        BY <1>3, <1>6, <4>1
      <4> QED BY <1>1, <4>1, <4>2
    <3> QED BY <3>1, <3>2
  <2> QED BY <2>1, <2>2
<1>12. b \in 1 .. (n + 2) - 1 /\ (n + 2) - 1 = n + 1
  BY <1>1, <1>6
<1>13. ActsAt(t, c2, n + 2, was2, b, own, v)
  <2>1. Len(v) = (n + 2) - 1 - b
    <3>1. b \in Int /\ Len(v) = n + 1 - b
      BY <1>11, <1>12
    <3> QED BY <1>1, <3>1
  <2>3. /\ \A j \in b + 1 .. (n + 2) - 1 : Owned(t[j], own)
        /\ \A j \in 1 .. Len(v) : v[j] = t[(n + 2) - j].m
    <3>1. \A j \in 1 .. Len(v) : n + 2 - j = (n + 2) - j
      <4>1. Len(v) \in Int
        BY <1>1, <1>11, <1>12
      <4> QED BY <1>1, <4>1
    <3> QED BY <1>10, <1>11, <1>12, <3>1
  <2>2. Returns(t[b].code) /\ Doomed(t, b - 3) => c2[Len(c2)][1] = "TRAP-RETURN"
    BY <1>6, <1>8
  <2>4. t[b].m = "return" /\ t[b].run # -1 /\ t[b].was = << >>
    BY <1>6, <1>8
  <2>5. c2[1][1] \in Uses => Len(was2) >= 1 /\ was2[1] = own
    BY DEF Knows
  <2> DEFINE p == n + 2
  <2>6. /\ b \in 1 .. p - 1 /\ Len(v) = p - 1 - b /\ InRun(t, p) /\ InLoad(t, p)
        /\ \A j \in b + 1 .. p - 1 : Owned(t[j], own)
        /\ \A j \in 1 .. Len(v) : v[j] = t[p - j].m
    <3>1. (n + 2) - 1 = p - 1
      OBVIOUS
    <3>2. \A j \in 1 .. Len(v) : v[j] = t[p - j].m
      BY <2>3, Zenon
    <3>3. \A j \in b + 1 .. p - 1 : Owned(t[j], own)
      BY <2>3
    <3> QED BY <1>9, <1>12, <2>1, <3>1, <3>2, <3>3, Zenon
  <2> HIDE DEF p
  <2>7. ActsAt(t, c2, p, was2, b, own, v)
    BY <1>4, <2>2, <2>4, <2>5, <2>6 DEF ActsAt
  <2> QED BY <2>7 DEF p
<1> QED BY <1>13 DEF t, v, n

(* One frame less.                                                         *)
LEMMA ActsPop ==
    ASSUME NEW s, IsSeq(s), NEW c, NEW was, NEW b, NEW own, NEW v, NEW k, IsSeq(v),
           ActsAt(s, c, Len(s) + 1, was, b, own, <<k>> \o v), Len(c) # 1,
           NEW c2, Takes(c2, own, v), c2[Len(c2)] = c[Len(c)], Len(c2) = 1 \/ k # "abort",
           NEW was2, Knows(c2, was2, own)
    PROVE  /\ Len(s) \in Nat /\ Len(s) >= 1 /\ s[Len(s)].m = k /\ k # "return"
           /\ k = "state" => s[Len(s)].frame = own
           /\ ActsAt(SubSeq(s, 1, Len(s) - 1), c2, Len(s), was2, b, own, v)
<1> DEFINE n == Len(s)
           w == <<k>> \o v
           t == SubSeq(s, 1, n - 1)
<1>1. n \in Nat /\ Len(v) \in Nat /\ Len(w) = Len(v) + 1 /\ w[1] = k
      /\ \A i \in 1 .. Len(v) : w[i + 1] = v[i]
  BY SeqLen, SeqCons
<1>2. ActsAt(s, c, n + 1, was, b, own, w)
  OBVIOUS
<1> HIDE DEF w
<1>3. /\ b \in 1 .. n /\ s[b].m = "return" /\ s[b].run # -1 /\ s[b].was = << >>
      /\ \A j \in b + 1 .. n : Owned(s[j], own)
      /\ Len(w) = n - b /\ \A j \in 1 .. Len(w) : w[j] = s[n + 1 - j].m
      /\ Returns(s[b].code) /\ Doomed(s, b - 3) => c[Len(c)][1] = "TRAP-RETURN"
      /\ InRun(s, n + 1) /\ InLoad(s, n + 1)
  BY <1>1, <1>2 DEF ActsAt
<1>4. b < n /\ n >= 1 /\ n \in b + 1 .. n /\ 1 \in 1 .. Len(w) /\ n + 1 - 1 = n
  <2> DEFINE m == Len(v)
             q == Len(w)
  <2>1. n \in Nat /\ m \in Nat /\ q = m + 1 /\ b \in 1 .. n /\ q = n - b
    BY <1>1, <1>3
  <2> HIDE DEF n, m, q
  <2>2. b < n /\ n >= 1 /\ n \in b + 1 .. n /\ 1 \in 1 .. q /\ n + 1 - 1 = n
    BY <2>1
  <2> QED BY <2>2 DEF q
<1>5. s[n].m = k /\ k # "return" /\ (k = "state" => s[n].frame = own)
  BY <1>1, <1>3, <1>4 DEF Owned
<1>6. Len(t) = n - 1 /\ \A i \in 1 .. n - 1 : t[i] = s[i]
  BY <1>1, <1>4, SeqCut
<1> HIDE DEF t
<1>7. Agree(s, t, n)
  BY <1>6 DEF Agree
<1>8. InRun(s, n) /\ (Len(c2) = 1 \/ InLoad(s, n))
  BY <1>1, <1>3, <1>5 DEF InRun, InLoad
<1>9. (Doomed(t, b - 3) <=> Doomed(s, b - 3)) /\ t[b] = s[b] /\ InRun(t, n) /\ (Len(c2) = 1 \/ InLoad(t, n))
  <2>1. b \in Int /\ b >= 1 /\ b < n /\ b - 3 \in Int /\ b - 3 < n
    BY <1>3, <1>4
  <2> QED BY <1>1, <1>7, <1>8, <2>1, AgreeReturns
<1>10. \A j \in b + 1 .. n - 1 : Owned(t[j], own)
  BY <1>1, <1>3, <1>6
<1>11. Len(v) = n - 1 - b /\ \A j \in 1 .. Len(v) : v[j] = t[n - j].m
  <2>3. b \in 1 .. n /\ Len(v) + 1 = n - b
    BY <1>1, <1>3
  <2>1. Len(v) = n - 1 - b
    BY <1>1, <2>3
  <2>2. ASSUME NEW j \in 1 .. Len(v) PROVE v[j] = t[n - j].m
    <3> DEFINE m == Len(v)
    <3>1. m \in Nat /\ n \in Nat /\ b \in Nat /\ b >= 1 /\ m + 1 = n - b /\ j \in 1 .. m
          /\ Len(w) = m + 1
      BY <1>1, <2>3
    <3> HIDE DEF m, n
    <3>2. j + 1 \in 1 .. m + 1 /\ n + 1 - (j + 1) = n - j
      BY <3>1
    <3>3. n - j \in 1 .. n - 1
      BY <3>1
    <3>4. v[j] = w[j + 1] /\ w[j + 1] = s[n + 1 - (j + 1)].m
      BY <1>1, <1>3, <3>1, <3>2 DEF m
    <3>5. t[n - j] = s[n - j]
      BY <1>6, <3>3
    <3> QED BY <3>2, <3>4, <3>5
  <2> QED BY <2>1, <2>2
<1>12. b \in 1 .. n - 1
  BY <1>1, <1>3, <1>4
<1>13. ActsAt(t, c2, n, was2, b, own, v)
  BY <1>3, <1>9, <1>10, <1>11, <1>12 DEF ActsAt, Knows
<1> QED BY <1>1, <1>4, <1>5, <1>13 DEF t

(* A new activation, right above its address.                              *)
LEMMA ActsNew ==
    ASSUME NEW t, NEW n \in Nat, t[n + 1].m = "return", t[n + 1].run # -1, t[n + 1].was = << >>,
           NEW c, NEW own, Takes(c, own, << >>), NEW was, Knows(c, was, own),
           Returns(t[n + 1].code) /\ Doomed(t, n - 2) => c[Len(c)][1] = "TRAP-RETURN",
           InRun(t, n + 2), Len(c) = 1 \/ InLoad(t, n + 2)
    PROVE  Activation(t, c, n + 2, was)
<1>1. n + 1 \in 1 .. (n + 2) - 1 /\ (n + 1) - 3 = n - 2 /\ Len(<< >>) = (n + 2) - 1 - (n + 1)
  BY SeqShort
<1>2. \A j \in (n + 1) + 1 .. (n + 2) - 1 : FALSE
  OBVIOUS
<1>3. \A j \in 1 .. Len(<< >>) : FALSE
  BY SeqShort
<1>4. ActsAt(t, c, n + 2, was, n + 1, own, << >>)
  BY <1>1, <1>2, <1>3 DEF ActsAt, Knows
<1> QED BY <1>4 DEF Activation

(* What is known of the registers may grow.                                *)
LEMMA ActsWas ==
    ASSUME NEW s, NEW c, NEW p, NEW was, Activation(s, c, p, was), NEW was2,
           Len(was) >= 1 => Len(was2) >= 1 /\ was2[1] = was[1]
    PROVE  Activation(s, c, p, was2)
BY DEF Activation, ActsAt

(* The top frame is not one C pushed to find its way back.                 *)
LEMMA ActsTop ==
    ASSUME NEW s, NEW c, NEW p \in Int, NEW was, Activation(s, c, p, was)
    PROVE  /\ ~OfC(s, p - 1) /\ ~SavedAt(s, p - 1) /\ p >= 2 /\ InRun(s, p)
           /\ \E own, w : Takes(c, own, w) /\ Knows(c, was, own)
           /\ Len(c) # 1 => InLoad(s, p)
<1>1. PICK b, own, w : ActsAt(s, c, p, was, b, own, w)
  BY DEF Activation
<1>2. ~OfC(s, p - 1)
  BY <1>1 DEF ActsAt, OfC, IsReturn, Owned
<1>3. ~SavedAt(s, p - 1)
  <2>1. b \in 1 .. p - 1 /\ s[b].m = "return"
    BY <1>1 DEF ActsAt
  <2>2. b = p - 1 \/ p - 1 \in b + 1 .. p - 1
    BY <2>1
  <2> QED BY <1>1, <2>1, <2>2 DEF ActsAt, SavedAt, Owned
<1> QED BY <1>1, <1>2, <1>3 DEF ActsAt, Knows

-----------------------------------------------------------------------------
(* Which of these runs, by its first instruction.                          *)

(* The ways back are sequences; a base handler comes before one.           *)
LEMMA BacksFacts ==
    /\ IsSeq(CHR) /\ Len(CHR) = 3 /\ CHR[1] = <<"POP-TRAP">>
    /\ IsSeq(IHR) /\ Len(IHR) = 3 /\ IHR[1] = <<"POP-TRAP">>
    /\ IsSeq(NCE) /\ Len(NCE) = 1 /\ NCE[1] = <<"NON-CONT-ERR">>
    /\ Tail(CHR) = << <<"RESTORE-STATE">>, <<"RETURN">> >>
    /\ Tail(IHR) = << <<"RESTORE-ALL-STATE">>, <<"RETURN">> >>
    /\ \A h, e : \A x \in Backs : /\ IsSeq(<< <<"PRIMITIVE", h, e>> >> \o x)
                                  /\ (<< <<"PRIMITIVE", h, e>> >> \o x)[1] = <<"PRIMITIVE", h, e>>
                                  /\ Tail(<< <<"PRIMITIVE", h, e>> >> \o x) = x
<1>1. /\ IsSeq(CHR) /\ Len(CHR) = 3 /\ CHR[1] = <<"POP-TRAP">>
      /\ IsSeq(IHR) /\ Len(IHR) = 3 /\ IHR[1] = <<"POP-TRAP">>
      /\ IsSeq(NCE) /\ Len(NCE) = 1 /\ NCE[1] = <<"NON-CONT-ERR">>
  BY SeqShort DEF CHR, IHR, NCE
<1>2. \A x, y, z : Tail(<<x, y, z>>) = <<y, z>>
  <2> SUFFICES ASSUME NEW x, NEW y, NEW z PROVE Tail(<<x, y, z>>) = <<y, z>>
    OBVIOUS
  <2>1. <<x, y, z>> = <<x>> \o <<y, z>> /\ IsSeq(<<y, z>>)
    BY SeqTriple, SeqShort
  <2>2. Tail(<<x>> \o <<y, z>>) = <<y, z>>
    BY <2>1, SeqCons
  <2> QED BY <2>1, <2>2
<1>3. Tail(CHR) = << <<"RESTORE-STATE">>, <<"RETURN">> >>
      /\ Tail(IHR) = << <<"RESTORE-ALL-STATE">>, <<"RETURN">> >>
  <2> DEFINE x == <<"POP-TRAP">>
             y == <<"RESTORE-STATE">>
             z == <<"RESTORE-ALL-STATE">>
             t == <<"RETURN">>
  <2>1. CHR = <<x, y, t>> /\ IHR = <<x, z, t>>
    BY DEF CHR, IHR
  <2> HIDE DEF x, y, z, t
  <2>2. Tail(CHR) = <<y, t>> /\ Tail(IHR) = <<z, t>>
    BY <1>2, <2>1
  <2> QED BY <2>2 DEF y, z, t
<1>4. \A x \in Backs : IsSeq(x)
  BY <1>1 DEF Backs
<1>5. ASSUME NEW p, NEW x \in Backs
      PROVE  IsSeq(<<p>> \o x) /\ (<<p>> \o x)[1] = p /\ Tail(<<p>> \o x) = x
  BY <1>4, SeqCons
<1> QED BY <1>1, <1>3, <1>5

(* The first instruction of each kind of code.                             *)
LEMMA Heads ==
    ASSUME NEW s, NEW c, NEW p \in Int, NEW was, NEW rs
    PROVE  /\ Activation(s, c, p, was) => c[1][1] \in Program
           /\ Handling(s, c, p, was) => c[1][1] \in {"POP-TRAP", "NON-CONT-ERR", "PRIMITIVE"}
           /\ Restoring(s, c, p) => c[1][1] \in {"RESTORE-STATE", "RESTORE-ALL-STATE"}
           /\ Returning(s, c, p, was) => c[1][1] = "RETURN"
           /\ Main(s, c, p) => c[1][1] \in {"REPL", "LOAD", "EXIT"}
           /\ Called(s, c, p) => c[1][1] = "INVOKE-C-DONE"
           /\ Starts(s, c) => c[1][1] = "PUSH-ABORT"
           /\ Evaluator(s, c) => c[1][1] = "EVALUATE"
           /\ AtTop(s, c, p) => c[1][1] = "ABORT-TOP"
           /\ AtFin(s, rs, c, p) => c[1][1] = "FINISH"
<1>1. ASSUME Activation(s, c, p, was) PROVE c[1][1] \in Program
  <2>1. PICK own, w : Takes(c, own, w)
    BY <1>1, ActsTop
  <2>2. CASE c[1][1] \in Leaves
    BY <2>2 DEF Program
  <2>3. CASE c[1][1] \notin Leaves
    BY <2>1, <2>3, TakesRest
  <2> QED BY <2>2, <2>3
<1>2. ASSUME Handling(s, c, p, was) PROVE c[1][1] \in {"POP-TRAP", "NON-CONT-ERR", "PRIMITIVE"}
  <2>1. PICK x : WayBack(s, p - 3, x) /\ (c = x \/ BaseHandler(s, c, p - 3, x))
    BY <1>2 DEF Handling
  <2>2. x \in Backs
    BY <2>1 DEF WayBack, Backs
  <2>3. CASE c = x
    BY <2>2, <2>3, BacksFacts DEF Backs
  <2>4. CASE BaseHandler(s, c, p - 3, x)
    <3>1. PICK h, e : c = << <<"PRIMITIVE", h, e>> >> \o x
      BY <2>4 DEF BaseHandler
    <3>2. c[1] = <<"PRIMITIVE", h, e>>
      BY <2>2, <3>1, BacksFacts
    <3> QED BY <3>2
  <2> QED BY <2>1, <2>3, <2>4
<1>3. Restoring(s, c, p) => c[1][1] \in {"RESTORE-STATE", "RESTORE-ALL-STATE"}
  BY DEF Restoring
<1>4. Returning(s, c, p, was) => c[1][1] = "RETURN"
  BY DEF Returning, R
<1>5. Main(s, c, p) => c[1][1] \in {"REPL", "LOAD", "EXIT"}
  BY DEF Main
<1>6. (Called(s, c, p) => c[1][1] = "INVOKE-C-DONE") /\ (Evaluator(s, c) => c[1][1] = "EVALUATE")
  BY DEF Called, Evaluator
<1>7. Starts(s, c) => c[1][1] = "PUSH-ABORT"
  BY LoadedFacts DEF Starts
<1>8. AtTop(s, c, p) => c[1][1] = "ABORT-TOP"
  BY DEF AtTop, TOP
<1>9. AtFin(s, rs, c, p) => c[1][1] = "FINISH"
  BY DEF AtFin, FIN
<1> QED BY <1>1, <1>2, <1>3, <1>4, <1>5, <1>6, <1>7, <1>8, <1>9

(* So the first instruction says which it is.                              *)
LEMMA RunsAs ==
    ASSUME NEW s, IsSeq(s), NEW c, NEW rs, NEW was, Runs(s, c, rs, was)
    PROVE  LET p == Len(s) + 1
           IN /\ c[1][1] \in {"EXPR", "REF", "PRESERVE-STATE", "PUSH-DYNAMIC", "PUSH-TRAP", "CALL",
                              "PROMPT", "LOAD-FILE", "POP-DYNAMIC", "POP-ABORT", "TRAP-RETURN",
                              "FUNCTION-INVOKE"}
                     => Activation(s, c, p, was)
              /\ c[1][1] = "LOAD" => Activation(s, c, p, was) \/ Main(s, c, p)
              /\ c[1][1] = "POP-TRAP" => Activation(s, c, p, was) \/ Handling(s, c, p, was)
              /\ c[1][1] = "RESTORE-STATE" => Activation(s, c, p, was) \/ Restoring(s, c, p)
              /\ c[1][1] = "RETURN" => Activation(s, c, p, was) \/ Returning(s, c, p, was)
              /\ c[1][1] = "RESTORE-ALL-STATE" => Restoring(s, c, p)
              /\ c[1][1] \in {"NON-CONT-ERR", "PRIMITIVE"} => Handling(s, c, p, was)
              /\ c[1][1] = "ABORT-TOP" => AtTop(s, c, p)
              /\ c[1][1] = "FINISH" => AtFin(s, rs, c, p)
              /\ c[1][1] = "INVOKE-C-DONE" => Called(s, c, p)
              /\ c[1][1] = "PUSH-ABORT" => Starts(s, c)
              /\ c[1][1] = "EVALUATE" => Evaluator(s, c)
              /\ c[1][1] \in {"EXIT", "REPL"} => Main(s, c, p)
<1> DEFINE p == Len(s) + 1
<1>1. p \in Int
  BY SeqLen
<1>2. \/ Activation(s, c, p, was) \/ Handling(s, c, p, was) \/ Restoring(s, c, p)
      \/ Returning(s, c, p, was) \/ Main(s, c, p) \/ Called(s, c, p) \/ Starts(s, c)
      \/ Evaluator(s, c) \/ AtTop(s, c, p) \/ AtFin(s, rs, c, p)
  BY DEF Runs, Addressed, HandlerReturn
<1> HIDE DEF p
<1>3. /\ Activation(s, c, p, was) => c[1][1] \in Program
      /\ Handling(s, c, p, was) => c[1][1] \in {"POP-TRAP", "NON-CONT-ERR", "PRIMITIVE"}
      /\ Restoring(s, c, p) => c[1][1] \in {"RESTORE-STATE", "RESTORE-ALL-STATE"}
      /\ Returning(s, c, p, was) => c[1][1] = "RETURN"
      /\ Main(s, c, p) => c[1][1] \in {"REPL", "LOAD", "EXIT"}
      /\ Called(s, c, p) => c[1][1] = "INVOKE-C-DONE"
      /\ Starts(s, c) => c[1][1] = "PUSH-ABORT"
      /\ Evaluator(s, c) => c[1][1] = "EVALUATE"
      /\ AtTop(s, c, p) => c[1][1] = "ABORT-TOP"
      /\ AtFin(s, rs, c, p) => c[1][1] = "FINISH"
  BY <1>1, Heads
<1> DEFINE op == c[1][1]
<1> HIDE DEF op
<1>4. /\ op \in {"EXPR", "REF", "PRESERVE-STATE", "PUSH-DYNAMIC", "PUSH-TRAP", "CALL",
                 "PROMPT", "LOAD-FILE", "POP-DYNAMIC", "POP-ABORT", "TRAP-RETURN",
                 "FUNCTION-INVOKE"}
             => Activation(s, c, p, was)
      /\ op = "LOAD" => Activation(s, c, p, was) \/ Main(s, c, p)
      /\ op = "POP-TRAP" => Activation(s, c, p, was) \/ Handling(s, c, p, was)
      /\ op = "RESTORE-STATE" => Activation(s, c, p, was) \/ Restoring(s, c, p)
      /\ op = "RETURN" => Activation(s, c, p, was) \/ Returning(s, c, p, was)
      /\ op = "RESTORE-ALL-STATE" => Restoring(s, c, p)
      /\ op \in {"NON-CONT-ERR", "PRIMITIVE"} => Handling(s, c, p, was)
      /\ op = "ABORT-TOP" => AtTop(s, c, p)
      /\ op = "FINISH" => AtFin(s, rs, c, p)
      /\ op = "INVOKE-C-DONE" => Called(s, c, p)
      /\ op = "PUSH-ABORT" => Starts(s, c)
      /\ op = "EVALUATE" => Evaluator(s, c)
      /\ op \in {"EXIT", "REPL"} => Main(s, c, p)
  BY <1>2, <1>3 DEF op, Program, Uses, Leaves
<1> QED BY <1>4 DEF op, p

-----------------------------------------------------------------------------
(* What a step has to work with, and what it has to show.                  *)
LEMMA AtNesting ==
    ASSUME NInv, mode = "run", code[1][1] # "EXIT"
    PROVE  /\ Steady /\ Sound(stack, code, holes, runs)
           /\ IsSeq(stack) /\ Len(stack) \in Nat /\ Len(stack) >= 5
           /\ Deep(stack, runs) /\ Runs(stack, code, runs, <<frame, regs>>)
           /\ ~OfC(stack, Len(stack))
<1>1. Steady
  BY AtSteady DEF NInv
<1>2. Sound(stack, code, holes, runs)
  BY <1>1 DEF Steady
<1> QED BY <1>1, <1>2, SoundFacts DEF NInv, Settled

(* The code of a form the evaluator makes of an expression.                *)
LEMMA TakesForms ==
    ASSUME NEW c, NEW own, NEW w, Takes(c, own, w), c[1][1] \notin Uses
    PROVE  /\ Takes(<< <<"REF", own>> >> \o c, own, w)
           /\ \A x : x[1] \in {"CALL", "PROMPT", "LOAD-FILE"} =>
                 Takes((<< <<"PRESERVE-STATE">>, x, <<"RESTORE-STATE">> >> \o << <<"REF", own>> >>) \o c,
                       own, w)
           /\ \A v : Takes(<< <<"PUSH-DYNAMIC", v>>, <<"EXPR", own>>, <<"POP-DYNAMIC">> >> \o c, own, w)
<1>1. IsSeq(c) /\ Len(c) # 0 /\ IsSeq(w)
  BY DEF Takes
<1>2. ASSUME NEW ins, ins[1] \in {"REF", "EXPR"}, ins[2] = own
      PROVE  \A d : Takes(d, own, w) /\ d[1][1] \notin Uses => Takes(<<ins>> \o d, own, w)
  <2>1. ins[1] \in Program \ Leaves /\ Step(ins, w, w) /\ ins[1] # "POP-ABORT"
        /\ ins[1] \notin {"CALL", "PROMPT", "FUNCTION-INVOKE"}
    BY <1>2 DEF Program, Uses, Leaves, Step, PopsOf, PushesOf
  <2> QED BY <1>1, <1>2, <2>1, TakesMore
<1>3. Takes(<< <<"REF", own>> >> \o c, own, w)
  BY <1>2
<1>4. ASSUME NEW x, x[1] \in {"CALL", "PROMPT", "LOAD-FILE"}
      PROVE  Takes((<< <<"PRESERVE-STATE">>, x, <<"RESTORE-STATE">> >> \o << <<"REF", own>> >>) \o c,
                   own, w)
  <2> DEFINE a == <<"PRESERVE-STATE">>
             b == <<"RESTORE-STATE">>
             r == <<"REF", own>>
             c1 == <<r>> \o c
             c2 == <<b>> \o c1
             c3 == <<x>> \o c2
             c4 == <<a>> \o c3
             v == <<"state">> \o w
  <2>1. Takes(c1, own, w) /\ IsSeq(c1) /\ c1[1] = r
    BY <1>1, <1>3, SeqCons DEF Takes
  <2>2. /\ b[1] \in Program \ Leaves /\ Step(b, v, w) /\ b[1] = "RESTORE-STATE"
        /\ a[1] \in Program \ Leaves /\ Step(a, w, v) /\ a[1] = "PRESERVE-STATE"
        /\ x[1] \in Program \ Leaves /\ Step(x, v, v)
    BY <1>4 DEF Program, Uses, Leaves, Step, PopsOf, PushesOf
  <2>3. IsSeq(v)
    BY <1>1, SeqCons
  <2>5. (<<a, x, b>> \o <<r>>) \o c = c4
    <3>1. IsSeq(<<a, x, b>>) /\ IsSeq(<<r>>)
      BY SeqShort
    <3> HIDE DEF a, b, r
    <3>2. (<<a, x, b>> \o <<r>>) \o c = <<a, x, b>> \o c1
      BY <1>1, <3>1, SeqAssoc
    <3> HIDE DEF c1
    <3>3. <<a, x, b>> \o c1 = <<a>> \o (<<x>> \o (<<b>> \o c1))
      <4>1. \A i, j, k : <<i, j, k>> \o c1 = <<i>> \o (<<j>> \o (<<k>> \o c1))
        BY <2>1, SeqThree, Zenon
      <4> QED BY <4>1, Zenon
    <3> QED BY <3>2, <3>3
  <2> HIDE DEF a, b, v, c1
  <2>6. Takes(c2, own, v) /\ c2[1] = b /\ IsSeq(c2)
    <3>1. Takes(c2, own, v)
      BY <2>1, <2>2, <2>3, TakesMore
    <3> QED BY <2>1, <3>1, SeqCons
  <2> HIDE DEF c2
  <2>7. Takes(c3, own, v) /\ c3[1] = x /\ IsSeq(c3)
    <3>1. c2[1][1] \notin Uses /\ x[1] \notin {"POP-ABORT", "EXPR", "REF"} /\ c2[1][1] = "RESTORE-STATE"
      BY <1>4, <2>2, <2>6 DEF Uses
    <3>2. Takes(c3, own, v)
      BY <2>2, <2>3, <2>6, <3>1, TakesMore
    <3> QED BY <2>6, <3>2, SeqCons
  <2> HIDE DEF c3
  <2>8. Takes(c4, own, w)
    <3>1. c3[1][1] \notin Uses /\ a[1] \notin {"POP-ABORT", "EXPR", "REF", "CALL", "PROMPT", "FUNCTION-INVOKE"}
      BY <1>4, <2>2, <2>7 DEF Uses
    <3> QED BY <1>1, <2>2, <2>7, <3>1, TakesMore
  <2> HIDE DEF c4
  <2>9. (<<a, x, b>> \o <<r>>) \o c = c4
    BY <2>5
  <2> QED BY <2>8, <2>9 DEF a, b, r
<1>5. ASSUME NEW d
      PROVE  Takes(<< <<"PUSH-DYNAMIC", d>>, <<"EXPR", own>>, <<"POP-DYNAMIC">> >> \o c, own, w)
  <2> DEFINE a == <<"PUSH-DYNAMIC", d>>
             x == <<"EXPR", own>>
             b == <<"POP-DYNAMIC">>
             c2 == <<b>> \o c
             c3 == <<x>> \o c2
             c4 == <<a>> \o c3
             v == <<"dynamic">> \o w
  <2>1. /\ b[1] \in Program \ Leaves /\ Step(b, v, w) /\ b[1] = "POP-DYNAMIC"
        /\ a[1] \in Program \ Leaves /\ Step(a, w, v) /\ a[1] = "PUSH-DYNAMIC"
        /\ x[1] \in Program \ Leaves /\ Step(x, v, v) /\ x[1] = "EXPR" /\ x[2] = own
    BY DEF Program, Uses, Leaves, Step, PopsOf, PushesOf
  <2>2. IsSeq(v)
    BY <1>1, SeqCons
  <2> HIDE DEF a, b, x, v
  <2>3. <<a, x, b>> \o c = c4
    <3>1. <<a, x, b>> \o c = <<a>> \o (<<x>> \o (<<b>> \o c))
      <4>1. \A i, j, k : <<i, j, k>> \o c = <<i>> \o (<<j>> \o (<<k>> \o c))
        BY <1>1, SeqThree, Zenon
      <4> QED BY <4>1, Zenon
    <3> QED BY <3>1
  <2>4. Takes(c2, own, v) /\ c2[1] = b /\ IsSeq(c2)
    <3>1. Takes(c2, own, v)
      BY <2>1, <2>2, TakesMore
    <3> QED BY <1>1, <3>1, SeqCons
  <2> HIDE DEF c2
  <2>5. Takes(c3, own, v) /\ c3[1] = x /\ IsSeq(c3)
    <3>1. c2[1][1] \notin Uses
      BY <2>1, <2>4 DEF Uses
    <3>2. Takes(c3, own, v)
      BY <2>1, <2>2, <2>4, <3>1, TakesMore
    <3> QED BY <2>4, <3>2, SeqCons
  <2> HIDE DEF c3
  <2>6. Takes(c4, own, w)
    BY <1>1, <2>1, <2>5, TakesMore
  <2> HIDE DEF c4
  <2> QED BY <2>3, <2>6 DEF a, b, x
<1> QED BY <1>3, <1>4, <1>5

(* The code of an expression, or of a reference, is replaced.              *)
LEMMA CodeActs ==
    ASSUME NInv, mode = "run", code[1][1] \in {"EXPR", "REF"}, UNCHANGED <<stack, frame, regs, runs>>,
           NEW t, IsSeq(t), code' = t \o Rest,
           \A w : Takes(Rest, code[1][2], w) /\ Rest[1][1] \notin Uses => Takes(t \o Rest, code[1][2], w),
           Rest[1][1] \in Uses => t = << >>
    PROVE  Settled'
<1> DEFINE c2 == t \o Rest
           n == Len(stack)
           was == <<frame, regs>>
<1>1. /\ IsSeq(stack) /\ n \in Nat /\ Deep(stack, runs) /\ Runs(stack, code, runs, was)
      /\ ~OfC(stack, n)
  BY AtNesting
<1>2. Activation(stack, code, n + 1, was)
  BY <1>1, RunsAs
<1>3. PICK b, own, w : ActsAt(stack, code, n + 1, was, b, own, w)
  BY <1>2 DEF Activation
<1>4. Takes(code, own, w) /\ code[1][1] \notin Leaves /\ code[1][1] \in Uses
  BY <1>3 DEF ActsAt, Leaves, Uses
<1>5. PICK v : IsSeq(v) /\ Step(code[1], w, v) /\ Takes(Rest, own, v)
  BY <1>4, TakesRest DEF Rest
<1>6. /\ code[1][2] = own /\ Len(code) \in Nat /\ Len(code) >= 2
      /\ Rest[Len(Rest)] = code[Len(code)] /\ Rest[1][1] \notin Uses
  BY <1>4, TakesRest DEF Rest
<1>7. v = w
  BY <1>5 DEF Step, PopsOf, PushesOf
<1>8. Takes(c2, own, w)
  BY <1>5, <1>6, <1>7
<1>9. IsSeq(Rest) /\ Len(Rest) # 0 /\ Len(Rest) \in Nat
  BY <1>5, SeqLen DEF Takes
<1>10. c2[Len(c2)] = code[Len(code)]
  <2>1. Len(c2) = Len(t) + Len(Rest) /\ c2[Len(t) + Len(Rest)] = Rest[Len(Rest)]
    BY <1>9, SeqConcat
  <2> QED BY <1>6, <2>1
<1> HIDE DEF c2
<1>11. frame = own
  BY <1>3, <1>4 DEF ActsAt
<1>12. Knows(c2, was, own)
  BY <1>11, SeqShort DEF Knows
<1>13. ActsAt(stack, c2, n + 1, was, b, own, w)
  BY <1>1, <1>3, <1>6, <1>8, <1>10, <1>12, ActsStay
<1>14. Runs(stack, c2, runs, was)
  BY <1>13 DEF Runs, Addressed, Activation
<1>15. stack' = stack /\ runs' = runs /\ frame' = frame /\ regs' = regs /\ code' = c2
  BY DEF c2
<1> QED BY <1>1, <1>14, <1>15 DEF Settled

(* The evaluator's forms, and the end of a reference.                      *)
LEMMA ExpandNests ==
    ASSUME NInv, Value \/ Application \/ TrapForm \/ DynamicForm \/ LoadForm \/ Ref
    PROVE  Settled'
<1>1. /\ mode = "run" /\ code[1][1] \in {"EXPR", "REF"} /\ UNCHANGED <<stack, frame, regs, runs>>
  BY DEF Value, Application, TrapForm, DynamicForm, LoadForm, Ref, Expands, At
<1>2. \E own, w : Takes(code, own, w)
  <2>1. IsSeq(stack) /\ Len(stack) \in Nat /\ Runs(stack, code, runs, <<frame, regs>>)
    BY <1>1, AtNesting
  <2>2. Activation(stack, code, Len(stack) + 1, <<frame, regs>>)
    BY <1>1, <2>1, RunsAs
  <2> QED BY <2>1, <2>2, ActsTop
<1>3. IsSeq(Rest) /\ Rest[1][1] \notin Uses
  <2>1. code[1][1] \notin Leaves
    BY <1>1 DEF Leaves
  <2> QED BY <1>1, <1>2, <2>1, TakesRest DEF Rest, Takes
<1>4. CASE Value \/ Ref
  <2>1. code' = << >> \o Rest
    <3>1. << >> \o Rest = Rest
      BY <1>3, SeqThree
    <3> QED BY <1>4, <3>1 DEF Value, Ref, Expands
  <2>2. \A w : Takes(Rest, code[1][2], w) => Takes(<< >> \o Rest, code[1][2], w)
    <3>1. << >> \o Rest = Rest
      BY <1>3, SeqThree
    <3> QED BY <3>1
  <2> QED BY <1>1, <1>3, <2>1, <2>2, CodeActs, SeqShort
<1>5. CASE Application \/ TrapForm \/ LoadForm
  <2> DEFINE form(x) == Expands(<< <<"PRESERVE-STATE">>, x, <<"RESTORE-STATE">> >> \o Reference)
  <2>1. \E x : x[1] \in {"CALL", "PROMPT", "LOAD-FILE"} /\ form(x)
    <3>1. CASE Application
      <4> DEFINE y == <<"CALL">>
      <4>1. form(y)
        BY <3>1 DEF Application
      <4>2. y[1] = "CALL"
        OBVIOUS
      <4> HIDE DEF y, form
      <4>3. form(y) /\ y[1] \in {"CALL", "PROMPT", "LOAD-FILE"}
        BY <4>1, <4>2
      <4> QED BY <4>3 
    <3>2. CASE TrapForm
      <4>1. PICK types \in TrapForms, h \in Handlers : form(<<"PROMPT", types, h>>)
        BY <3>2 DEF TrapForm
      <4> DEFINE y == <<"PROMPT", types, h>>
      <4>2. y[1] = "PROMPT"
        OBVIOUS
      <4>3. form(y)
        BY <4>1
      <4> HIDE DEF y, form
      <4>4. form(y) /\ y[1] \in {"CALL", "PROMPT", "LOAD-FILE"}
        BY <4>2, <4>3
      <4> QED BY <4>4 
    <3>3. CASE LoadForm
      <4> DEFINE y == <<"LOAD-FILE">>
      <4>1. form(y)
        BY <3>3 DEF LoadForm
      <4>2. y[1] = "LOAD-FILE"
        OBVIOUS
      <4> HIDE DEF y, form
      <4>3. form(y) /\ y[1] \in {"CALL", "PROMPT", "LOAD-FILE"}
        BY <4>1, <4>2
      <4> QED BY <4>3 
    <3> QED BY <1>5, <3>1, <3>2, <3>3
  <2>5. PICK x : x[1] \in {"CALL", "PROMPT", "LOAD-FILE"} /\ form(x)
    BY <2>1, Zenon
  <2> DEFINE t == << <<"PRESERVE-STATE">>, x, <<"RESTORE-STATE">> >> \o << <<"REF", code[1][2]>> >>
  <2>2. code' = t \o Rest
    BY <2>5 DEF Expands, Reference, Self
  <2>3. IsSeq(t)
    <3>1. IsSeq(<< <<"PRESERVE-STATE">>, x, <<"RESTORE-STATE">> >>) /\ IsSeq(<< <<"REF", code[1][2]>> >>)
      BY SeqShort
    <3> QED BY <3>1, SeqConcat
  <2>4. \A w : Takes(Rest, code[1][2], w) => Takes(t \o Rest, code[1][2], w)
    BY <1>3, <2>5, TakesForms
  <2> HIDE DEF t
  <2> QED BY <1>1, <1>3, <2>2, <2>3, <2>4, CodeActs
<1>6. CASE DynamicForm
  <2>1. PICK d : Expands(<< <<"PUSH-DYNAMIC", d>>, <<"EXPR", Self>>, <<"POP-DYNAMIC">> >>)
    BY <1>6 DEF DynamicForm
  <2> DEFINE t == << <<"PUSH-DYNAMIC", d>>, <<"EXPR", code[1][2]>>, <<"POP-DYNAMIC">> >>
  <2>2. code' = t \o Rest
    BY <2>1 DEF Expands, Self
  <2>3. IsSeq(t)
    BY SeqShort
  <2>4. \A w : Takes(Rest, code[1][2], w) => Takes(t \o Rest, code[1][2], w)
    BY <1>3, TakesForms
  <2> HIDE DEF t
  <2> QED BY <1>1, <1>3, <2>2, <2>3, <2>4, CodeActs
<1> QED BY <1>4, <1>5, <1>6

-----------------------------------------------------------------------------
(* A frame is pushed that is not an address, nor one of C's.               *)
LEMMA FramePushed ==
    ASSUME NInv, mode = "run", code[1][1] # "EXIT", NEW f, f.m \notin {"return", "all-state", "abort"},
           f.m = "trap" => BaseTrap(f), stack' = Append(stack, f), runs' = runs,
           Runs(Append(stack, f), code', runs, <<frame', regs'>>)
    PROVE  Settled'
<1> DEFINE n == Len(stack)
           t == Append(stack, f)
<1>1. IsSeq(stack) /\ n \in Nat /\ Deep(stack, runs) /\ ~OfC(stack, n)
  BY AtNesting
<1>2. Len(t) = n + 1 /\ t[n + 1] = f /\ Agree(stack, t, n + 1)
  BY <1>1, SeqAppend DEF Agree
<1>3. Runs(t, code', runs, <<frame', regs'>>) /\ stack' = t
  OBVIOUS
<1> HIDE DEF t
<1>4. ~OfC(t, n)
  BY <1>1, <1>2, AgreeReturns
<1>5. FrameNests(t, runs, n + 1)
  BY <1>2, <1>4 DEF FrameNests
<1>6. Deep(t, runs)
  BY <1>1, <1>5, DeepAppend DEF t
<1>7. ~OfC(t, Len(t))
  BY <1>1, <1>2 DEF OfC, IsReturn
<1> QED BY <1>3, <1>6, <1>7 DEF Settled

(* The frame on top comes off.                                             *)
LEMMA FramePopped ==
    ASSUME NInv, mode = "run", code[1][1] # "EXIT",
           stack' = SubSeq(stack, 1, Len(stack) - 1), runs' = runs,
           stack[Len(stack)].m # "all-state" \/ ~OfC(stack, Len(stack) - 1),
           Runs(SubSeq(stack, 1, Len(stack) - 1), code', runs, <<frame', regs'>>)
    PROVE  Settled'
<1> DEFINE n == Len(stack)
           t == SubSeq(stack, 1, n - 1)
<1>1. IsSeq(stack) /\ n \in Nat /\ n >= 5 /\ Deep(stack, runs)
  BY AtNesting
<1>2. n - 1 \in 0 .. n /\ (n - 1) + 1 = n
  BY <1>1
<1>3. Runs(t, code', runs, <<frame', regs'>>) /\ stack' = t
  OBVIOUS
<1>4. IsSeq(t) /\ Len(t) = n - 1
  BY <1>1, <1>2, SeqCut
<1>5. Deep(t, runs) /\ Agree(stack, t, (n - 1) + 1)
  <2>1. \A p : NoMoreRuns(runs, runs, p)
    BY DEF NoMoreRuns
  <2> QED BY <1>1, <1>2, <2>1, DeepFirst
<1> HIDE DEF t
<1>6. ~OfC(stack, n - 1)
  <2>1. n \in 1 .. n
    BY <1>1
  <2>2. FrameNests(stack, runs, n)
    BY <1>1, <2>1 DEF Deep
  <2> QED BY <2>2 DEF FrameNests
<1>7. ~OfC(t, n - 1)
  BY <1>1, <1>2, <1>5, <1>6, AgreeReturns
<1> QED BY <1>3, <1>4, <1>5, <1>7 DEF Settled

(* An activation's code pushes a frame.                                    *)
LEMMA PushActs ==
    ASSUME NInv, mode = "run", code[1][1] \in {"PRESERVE-STATE", "PUSH-DYNAMIC", "PUSH-TRAP"},
           NEW f, f.m = PushesOf[code[1][1]], f.m = "state" => f.frame = frame,
           f.m = "trap" => BaseTrap(f), stack' = Append(stack, f), code' = Rest,
           UNCHANGED <<runs, frame, regs>>
    PROVE  Settled'
<1> DEFINE n == Len(stack)
           was == <<frame, regs>>
<1>1. /\ IsSeq(stack) /\ n \in Nat /\ Runs(stack, code, runs, was)
      /\ code[1][1] # "EXIT"
  BY AtNesting
<1>2. PICK b, own, w : ActsAt(stack, code, n + 1, was, b, own, w)
  BY <1>1, RunsAs DEF Activation
<1>3. Takes(code, own, w) /\ code[1][1] \notin Leaves /\ code[1][1] \in Uses
  BY <1>2 DEF ActsAt, Leaves, Uses
<1>4. PICK v : IsSeq(v) /\ Step(code[1], w, v) /\ Takes(Rest, own, v)
  BY <1>3, TakesRest DEF Rest
<1>5. Len(code) \in Nat /\ Len(code) >= 2 /\ Rest[Len(Rest)] = code[Len(code)]
  BY <1>3, TakesRest DEF Rest
<1>6. f.m \in {"state", "dynamic", "trap"} /\ v = <<f.m>> \o w
  BY <1>4 DEF Step, PopsOf, PushesOf
<1>7. frame = own
  BY <1>2, <1>3 DEF ActsAt
<1>8. Knows(Rest, was, own)
  BY <1>7, SeqShort DEF Knows
<1>9. Takes(Rest, own, <<f.m>> \o w)
  BY <1>4, <1>6
<1>10. Owned(f, own) /\ Len(code) # 1
  BY <1>5, <1>6, <1>7 DEF Owned
<1>11. ActsAt(Append(stack, f), Rest, n + 2, was, b, own, <<f.m>> \o w)
  BY <1>1, <1>2, <1>5, <1>8, <1>9, <1>10, ActsPush
<1>12. Len(Append(stack, f)) + 1 = n + 2
  BY <1>1, SeqAppend
<1>13. Runs(Append(stack, f), Rest, runs, was)
  BY <1>11, <1>12 DEF Runs, Addressed, Activation
<1> QED BY <1>1, <1>6, <1>13, FramePushed

(* The instructions that push a frame that is not an address.              *)
LEMMA PushNests ==
    ASSUME NInv, PreserveState \/ LoadFile \/ PushTrap \/ PushDynamic
    PROVE  Settled'
<1>1. mode = "run" /\ UNCHANGED <<runs, frame>>
  BY DEF PreserveState, LoadFile, PushTrap, PushDynamic, Push, At
<1>2. CASE PreserveState
  <2> DEFINE f == State(frame)
  <2>1. stack' = Append(stack, f) /\ code' = Rest /\ f.m = "state" /\ f.frame = frame
        /\ UNCHANGED regs
    BY <1>2 DEF PreserveState, Push, State
  <2>2. code[1][1] = "PRESERVE-STATE"
    BY <1>2 DEF PreserveState, At
  <2> HIDE DEF f
  <2> QED BY <1>1, <2>1, <2>2, PushActs DEF PushesOf
<1>3. CASE PushDynamic
  <2> DEFINE f == Dynamic(FindMarker(stack, "dynamic"), code[1][2])
  <2>1. stack' = Append(stack, f) /\ code' = Rest /\ f.m = "dynamic" /\ UNCHANGED regs
    BY <1>3 DEF PushDynamic, Push, Dynamic
  <2>2. code[1][1] = "PUSH-DYNAMIC"
    BY <1>3 DEF PushDynamic, At
  <2> HIDE DEF f
  <2> QED BY <1>1, <2>1, <2>2, PushActs DEF PushesOf
<1>4. CASE PushTrap
  <2> DEFINE f == Trap(FindMarker(stack, "trap"), code[1][2], code[1][3],
                       Len(stack) + 1 - code[1][4], 0, Len(holes))
  <2>1. stack' = Append(stack, f) /\ code' = Rest /\ f.m = "trap" /\ f.h = code[1][3]
        /\ UNCHANGED regs
    BY <1>4 DEF PushTrap, Push, Trap
  <2>2. code[1][1] = "PUSH-TRAP"
    BY <1>4 DEF PushTrap, At
  <2> HIDE DEF f
  <2>3. code[1][3] \in Handlers
    <3>1. Steady
      BY <1>1, <2>2, AtNesting
    <3>2. Plain(code)
      BY <2>2, <3>1, Ordinary DEF Fits, Special
    <3>3. Len(code) \in Nat /\ Len(code) # 0
      <4>1. PICK S : code \in Seq(S)
        BY <3>2 DEF Plain, IsSeq
      <4> QED BY <3>2, <4>1 DEF Plain
    <3>4. InstructionOK(code[1])
      BY <3>2, <3>3 DEF Plain
    <3> QED BY <2>2, <3>4 DEF InstructionOK
  <2>4. BaseTrap(f)
    BY <2>1, <2>3 DEF BaseTrap
  <2> QED BY <1>1, <2>1, <2>2, <2>4, PushActs DEF PushesOf
<1>5. CASE LoadFile
  <2> DEFINE n == Len(stack)
             was == <<frame, regs>>
             was2 == <<frame', regs'>>
             f == Handle
             ins == <<"LOAD", bound.file>>
             c2 == <<ins>> \o Rest
  <2>1. stack' = Append(stack, f) /\ code' = c2 /\ f.m = "value" /\ ins[1] = "LOAD"
    BY <1>5 DEF LoadFile, Push, Handle
  <2>2. code[1][1] = "LOAD-FILE"
    BY <1>5 DEF LoadFile, At
  <2> HIDE DEF f, ins
  <2>3. IsSeq(stack) /\ n \in Nat /\ Runs(stack, code, runs, was)
    BY <1>1, <2>2, AtNesting
  <2>4. PICK b, own, w : ActsAt(stack, code, n + 1, was, b, own, w)
    BY <2>2, <2>3, RunsAs DEF Activation
  <2>5. Takes(code, own, w) /\ code[1][1] \notin Leaves
    BY <2>2, <2>4 DEF ActsAt, Leaves
  <2>6. PICK v : IsSeq(v) /\ Step(code[1], w, v) /\ Takes(Rest, own, v)
    BY <2>5, TakesRest DEF Rest
  <2>7. Len(code) \in Nat /\ Len(code) >= 2 /\ Rest[Len(Rest)] = code[Len(code)] /\ Rest[1][1] \notin Uses
    BY <2>2, <2>5, TakesRest DEF Rest
  <2>8. v = w
    BY <2>2, <2>6 DEF Step, PopsOf, PushesOf
  <2>9. Takes(c2, own, <<"value">> \o w)
    <3>1. /\ ins[1] \in Program \ Leaves /\ Step(ins, <<"value">> \o w, w)
          /\ ins[1] \notin {"EXPR", "REF", "POP-ABORT", "CALL", "PROMPT", "FUNCTION-INVOKE"}
      BY <2>1 DEF Program, Leaves, Uses, Step, PopsOf, PushesOf
    <3>2. IsSeq(<<"value">> \o w)
      BY <2>6, <2>8, SeqCons
    <3> QED BY <2>6, <2>7, <2>8, <3>1, <3>2, TakesMore
  <2>10. c2[1] = ins /\ c2[Len(c2)] = code[Len(code)]
    <3>1. IsSeq(Rest) /\ Len(Rest) # 0
      BY <2>6 DEF Takes
    <3>2. /\ c2[1] = ins /\ Len(c2) = Len(Rest) + 1 /\ Len(Rest) \in Nat
          /\ \A i \in 1 .. Len(Rest) : c2[i + 1] = Rest[i]
      BY <3>1, SeqCons
    <3> QED BY <2>7, <3>1, <3>2
  <2> HIDE DEF c2
  <2>11. Knows(c2, was2, own)
    BY <2>1, <2>10 DEF Knows, Uses
  <2>12. ActsAt(Append(stack, f), c2, n + 2, was2, b, own, <<f.m>> \o w)
    <3>1. Owned(f, own) /\ Len(code) # 1 /\ Takes(c2, own, <<f.m>> \o w)
      BY <2>1, <2>7, <2>9 DEF Owned
    <3> QED BY <2>3, <2>4, <2>10, <2>11, <3>1, ActsPush
  <2>13. Len(Append(stack, f)) + 1 = n + 2
    BY <2>3, SeqAppend
  <2>14. Runs(Append(stack, f), c2, runs, was2)
    BY <2>12, <2>13 DEF Runs, Addressed, Activation
  <2>15. code' = c2
    BY <2>1 DEF c2
  <2> QED BY <1>1, <2>1, <2>2, <2>14, <2>15, FramePushed
<1> QED BY <1>2, <1>3, <1>4, <1>5

(* An activation's code pops a frame.                                      *)
LEMMA PopActs ==
    ASSUME NInv, mode = "run",
           code[1][1] \in {"POP-ABORT", "RESTORE-STATE", "POP-TRAP", "POP-DYNAMIC", "LOAD"},
           Activation(stack, code, Len(stack) + 1, <<frame, regs>>),
           NEW f, NEW r, code[1][1] = "RESTORE-STATE" => f = stack[Len(stack)].frame
    PROVE  /\ stack[Len(stack)].m = PopsOf[code[1][1]]
           /\ Activation(SubSeq(stack, 1, Len(stack) - 1), Rest, Len(stack), <<f, r>>)
<1> DEFINE n == Len(stack)
           op == code[1][1]
           k == PopsOf[op]
           was == <<f, r>>
<1>1. IsSeq(stack) /\ n \in Nat
  BY AtNesting
<1>2. PICK b, own, w : ActsAt(stack, code, n + 1, <<frame, regs>>, b, own, w)
  BY DEF Activation
<1>3. Takes(code, own, w) /\ code[1][1] \notin Leaves
  BY <1>2 DEF ActsAt, Leaves
<1>4. PICK v : IsSeq(v) /\ Step(code[1], w, v) /\ Takes(Rest, own, v)
  BY <1>3, TakesRest DEF Rest
<1>5. /\ Len(code) \in Nat /\ Len(code) >= 2 /\ Rest[Len(Rest)] = code[Len(code)]
      /\ op = "POP-ABORT" => Len(Rest) = 1
      /\ Rest[1][1] \in Uses => op = "RESTORE-STATE"
  BY <1>3, TakesRest DEF Rest
<1>6. op \in DOMAIN PopsOf /\ (op # "POP-ABORT" => k # "abort") /\ (op = "RESTORE-STATE" => k = "state")
  BY DEF PopsOf
<1>7. w = <<k>> \o v
  BY <1>4, <1>6 DEF Step
<1> HIDE DEF k
<1>8. n >= 1 /\ stack[n].m = k /\ (k = "state" => stack[n].frame = own)
  <2>1. ActsAt(stack, code, n + 1, <<frame, regs>>, b, own, <<k>> \o v) /\ Len(code) # 1
    BY <1>2, <1>5, <1>7
  <2>2. Len(Rest) = 1 \/ k # "abort"
    BY <1>5, <1>6
  <2> DEFINE u == <<own>>
  <2>3. Knows(Rest, u, own)
    BY SeqShort DEF Knows
  <2> HIDE DEF u
  <2> QED BY <1>1, <1>4, <1>5, <2>1, <2>2, <2>3, ActsPop
<1>9. Knows(Rest, was, own)
  BY <1>5, <1>6, <1>8, SeqShort DEF Knows
<1>10. ActsAt(SubSeq(stack, 1, n - 1), Rest, n, was, b, own, v)
  <2>1. ActsAt(stack, code, n + 1, <<frame, regs>>, b, own, <<k>> \o v) /\ Len(code) # 1
    BY <1>2, <1>5, <1>7
  <2>2. Len(Rest) = 1 \/ k # "abort"
    BY <1>5, <1>6
  <2> QED BY <1>1, <1>4, <1>5, <1>9, <2>1, <2>2, ActsPop
<1> QED BY <1>8, <1>10 DEF Activation, k

-----------------------------------------------------------------------------
(* Pops and returns.                                                       *)

(* What comes before a frame that saved FRAME or all registers.            *)
LEMMA SavedAgree ==
    ASSUME NEW s, NEW t, NEW p \in Int, Agree(s, t, p), NEW b \in Int, b + 1 < p, Raising(s, b)
    PROVE  /\ Raising(t, b) /\ (Doomed(t, b) <=> Doomed(s, b)) /\ t[b] = s[b]
           /\ Saved(s, b) => Saved(t, b)
<1>1. Raising(t, b) /\ (Doomed(t, b) <=> Doomed(s, b))
  BY AgreeReturns
<1>2. b >= 1
  BY DEF Raising, IsReturn
<1>3. t[b] = s[b] /\ t[b + 1] = s[b + 1]
  BY <1>2, AgreeReturns
<1> QED BY <1>1, <1>3 DEF Saved

(* A handler's trap frame comes off, and what saved the registers.         *)
LEMMA HandlingPops ==
    ASSUME NInv, mode = "run", code[1][1] = "POP-TRAP",
           Handling(stack, code, Len(stack) + 1, <<frame, regs>>), NEW was
    PROVE  /\ stack[Len(stack)].m = "trap"
           /\ Runs(SubSeq(stack, 1, Len(stack) - 1), Rest, runs, was)
<1> DEFINE n == Len(stack)
           t == SubSeq(stack, 1, n - 1)
           b == n - 2
<1>1. IsSeq(stack) /\ n \in Nat /\ n >= 5
  BY AtNesting
<1>2. (n + 1) - 3 = b /\ (n + 1) - 1 = n /\ b \in Int /\ b + 1 < n /\ n - 1 \in 0 .. n /\ n \in Int
  BY <1>1
<1>3. PICK x : /\ WayBack(stack, b, x)
               /\ \/ code = x /\ (Doomed(stack, b) /\ x # NCE => Len(<<frame, regs>>) <= 1)
                  \/ BaseHandler(stack, code, b, x)
  BY <1>2 DEF Handling
<1>4. Raising(stack, b) /\ Saved(stack, b) /\ stack[n].m = "trap"
  BY <1>2 DEF Handling
<1>5. ~BaseHandler(stack, code, b, x)
  <2>1. x \in Backs
    BY <1>3 DEF WayBack, Backs
  <2> SUFFICES ASSUME BaseHandler(stack, code, b, x) PROVE FALSE
    OBVIOUS
  <2>2. PICK h, e : code = << <<"PRIMITIVE", h, e>> >> \o x
    BY DEF BaseHandler
  <2>3. code[1] = <<"PRIMITIVE", h, e>>
    BY <2>1, <2>2, BacksFacts
  <2> QED BY <2>3
<1>6. code = x /\ ~Doomed(stack, b)
  <2>1. Len(<<frame, regs>>) = 2 /\ NCE[1][1] # "POP-TRAP"
    BY SeqShort, BacksFacts
  <2> QED BY <1>3, <1>5, <2>1
<1>7. Len(t) = n - 1 /\ IsSeq(t) /\ Agree(stack, t, n)
  BY <1>1, <1>2, SeqCut DEF Agree
<1> HIDE DEF t, b
<1>8. Raising(t, b) /\ Saved(t, b) /\ ~Doomed(t, b) /\ t[b] = stack[b]
  BY <1>2, <1>4, <1>6, <1>7, SavedAgree
<1>9. \/ Len(stack[b].was) = 1 /\ Rest = << <<"RESTORE-STATE">>, <<"RETURN">> >>
      \/ Len(stack[b].was) = 2 /\ Rest = << <<"RESTORE-ALL-STATE">>, <<"RETURN">> >>
  <2>1. NCE[1][1] # "POP-TRAP"
    BY BacksFacts
  <2> QED BY <1>3, <1>6, <2>1, BacksFacts DEF WayBack, Rest
<1>10. Restoring(t, Rest, n)
  <2>1. n - 2 = b
    BY DEF b
  <2> QED BY <1>8, <1>9, <2>1 DEF Restoring
<1>11. Len(t) + 1 = n
  BY <1>1, <1>7
<1> QED BY <1>4, <1>10, <1>11 DEF Runs, Addressed, HandlerReturn, t

(* RESTORE-STATE and RESTORE-ALL-STATE on the way back from a handler.     *)
LEMMA RestoringPops ==
    ASSUME NInv, mode = "run", code[1][1] \in {"RESTORE-STATE", "RESTORE-ALL-STATE"},
           Restoring(stack, code, Len(stack) + 1), NEW f, NEW r,
           f = stack[Len(stack)].frame,
           code[1][1] = "RESTORE-ALL-STATE" => r = stack[Len(stack)].regs
    PROVE  /\ stack[Len(stack)].m = IF code[1][1] = "RESTORE-STATE" THEN "state" ELSE "all-state"
           /\ ~OfC(stack, Len(stack) - 1)
           /\ Runs(SubSeq(stack, 1, Len(stack) - 1), Rest, runs, <<f, r>>)
<1> DEFINE n == Len(stack)
           t == SubSeq(stack, 1, n - 1)
           b == n - 1
           was == <<f, r>>
<1>1. IsSeq(stack) /\ n \in Nat /\ n >= 5
  BY AtNesting
<1>2. (n + 1) - 2 = b /\ b + 1 = n /\ b \in Int /\ b < n /\ n - 1 \in 0 .. n /\ n \in Int
  BY <1>1
<1>3. /\ Raising(stack, b) /\ Saved(stack, b) /\ ~Doomed(stack, b)
      /\ \/ Len(stack[b].was) = 1 /\ code = << <<"RESTORE-STATE">>, <<"RETURN">> >>
         \/ Len(stack[b].was) = 2 /\ code = << <<"RESTORE-ALL-STATE">>, <<"RETURN">> >>
  BY <1>2 DEF Restoring
<1>4. Rest = R
  <2>1. \A x, y : Tail(<<x, y>>) = <<y>>
    <3> SUFFICES ASSUME NEW x, NEW y PROVE Tail(<<x, y>>) = <<y>>
      OBVIOUS
    <3>1. <<x, y>> = <<x>> \o <<y>> /\ IsSeq(<<y>>)
      BY SeqPair, SeqShort
    <3> QED BY <3>1, SeqCons
  <2> DEFINE u == <<"RESTORE-STATE">>
             v == <<"RESTORE-ALL-STATE">>
             w == <<"RETURN">>
  <2>2. code = <<u, w>> \/ code = <<v, w>>
    BY <1>3
  <2> HIDE DEF u, v, w
  <2>3. Tail(code) = <<w>>
    BY <2>1, <2>2
  <2> QED BY <2>3 DEF Rest, R, w
<1>5. Len(t) = n - 1 /\ IsSeq(t) /\ Agree(stack, t, n)
  BY <1>1, <1>2, SeqCut DEF Agree
<1> HIDE DEF t, b
<1>6. Raising(t, b) /\ ~Doomed(t, b) /\ t[b] = stack[b]
  <2>1. b >= 1
    BY <1>3 DEF Raising, IsReturn
  <2> QED BY <1>2, <1>3, <1>5, <2>1, AgreeReturns
<1>7. /\ stack[n].m = IF code[1][1] = "RESTORE-STATE" THEN "state" ELSE "all-state"
      /\ stack[n].frame = stack[b].was[1]
      /\ Len(stack[b].was) = 2 => stack[n].regs = stack[b].was[2] /\ code[1][1] = "RESTORE-ALL-STATE"
  BY <1>2, <1>3 DEF Saved
<1>8. Covers(was, stack[b].was)
  <2>1. Len(was) = 2 /\ was[1] = f /\ was[2] = r
    BY SeqShort
  <2> HIDE DEF was
  <2>2. Len(stack[b].was) \in {1, 2}
    BY <1>3
  <2>3. f = stack[b].was[1] /\ (Len(stack[b].was) = 2 => r = stack[b].was[2])
    BY <1>7
  <2>4. Len(was) >= Len(stack[b].was)
    <3>1. \A i \in {1, 2} : 2 >= i
      OBVIOUS
    <3> QED BY <2>1, <2>2, <3>1, Zenon
  <2> QED BY <2>1, <2>3, <2>4 DEF Covers
<1>9. Returning(t, Rest, n, was)
  <2>1. n - 1 = b
    BY DEF b
  <2> QED BY <1>4, <1>6, <1>8, <2>1 DEF Returning
<1>10. Len(t) + 1 = n
  BY <1>1, <1>5
<1>11. ~OfC(stack, b)
  BY <1>3 DEF Raising, OfC
<1> QED BY <1>7, <1>9, <1>10, <1>11 DEF Runs, Addressed, HandlerReturn, t, b

(* The instructions that pop a frame that is not an address find it.       *)
LEMMA PopNests ==
    ASSUME NInv, PopAbort \/ RestoreState \/ RestoreAllState \/ PopTrap \/ PopDynamic
    PROVE  Settled' /\ mode' = "run"
<1> DEFINE n == Len(stack)
           op == code[1][1]
           was == <<frame, regs>>
<1>1. /\ mode = "run" /\ runs' = runs /\ code' = Rest
      /\ op \in {"POP-ABORT", "RESTORE-STATE", "RESTORE-ALL-STATE", "POP-TRAP", "POP-DYNAMIC"}
  BY DEF PopAbort, RestoreState, RestoreAllState, PopTrap, PopDynamic, Popped, At
<1>2. /\ op = "POP-ABORT" => Popped("abort") /\ UNCHANGED <<frame, regs>>
      /\ op = "RESTORE-STATE" => RestoreState
      /\ op = "RESTORE-ALL-STATE" => RestoreAllState
      /\ op = "POP-TRAP" => Popped("trap") /\ UNCHANGED <<frame, regs>>
      /\ op = "POP-DYNAMIC" => Popped("dynamic") /\ UNCHANGED <<frame, regs>>
  BY DEF PopAbort, RestoreState, RestoreAllState, PopTrap, PopDynamic, At
<1>3. stack' = SubSeq(stack, 1, n - 1)
  BY DEF PopAbort, RestoreState, RestoreAllState, PopTrap, PopDynamic, Popped, Front
<1>4. IsSeq(stack) /\ n \in Nat /\ Runs(stack, code, runs, was)
  BY <1>1, AtNesting
<1>5. CASE Activation(stack, code, n + 1, was)
  <2>1. op # "RESTORE-ALL-STATE"
    <3>1. code[1][1] \in Program
      BY <1>4, <1>5, Heads
    <3> QED BY <3>1 DEF Program, Uses, Leaves
  <2>2. \A f, r : (op = "RESTORE-STATE" => f = stack[n].frame)
                      => /\ stack[n].m = PopsOf[op]
                         /\ Activation(SubSeq(stack, 1, n - 1), Rest, n, <<f, r>>)
    BY <1>1, <1>5, <2>1, PopActs
  <2>3. stack[n].m = PopsOf[op]
    BY <2>2
  <2>4. op = "RESTORE-STATE" => frame' = stack[n].frame
    BY <1>2, <2>3 DEF RestoreState, Top, PopsOf
  <2>5. Activation(SubSeq(stack, 1, n - 1), Rest, n, <<frame', regs'>>)
    BY <2>2, <2>4
  <2>6. mode' = "run" /\ stack[n].m # "all-state"
    BY <1>1, <1>2, <2>1, <2>3 DEF RestoreState, Popped, Top, PopsOf
  <2>7. n - 1 \in 0 .. n
    BY <1>1, <1>4, AtNesting
  <2>8. Len(SubSeq(stack, 1, n - 1)) + 1 = n
    <3>1. Len(SubSeq(stack, 1, n - 1)) = n - 1
      BY <1>4, <2>7, SeqCut
    <3> QED BY <1>4, <3>1
  <2>9. Runs(SubSeq(stack, 1, n - 1), Rest, runs, <<frame', regs'>>)
    BY <2>5, <2>8 DEF Runs, Addressed
  <2> QED BY <1>1, <1>3, <2>6, <2>9, FramePopped
<1>6. CASE Handling(stack, code, n + 1, was)
  <2>1. op = "POP-TRAP"
    <3>1. op \in {"POP-TRAP", "NON-CONT-ERR", "PRIMITIVE"}
      BY <1>4, <1>6, Heads
    <3> QED BY <1>1, <3>1
  <2>2. stack[n].m = "trap" /\ Runs(SubSeq(stack, 1, n - 1), Rest, runs, <<frame', regs'>>)
    BY <1>1, <1>6, <2>1, HandlingPops
  <2>3. mode' = "run"
    BY <1>1, <1>2, <2>1, <2>2 DEF Popped, Top
  <2> QED BY <1>1, <1>3, <2>2, <2>3, FramePopped
<1>7. CASE Restoring(stack, code, n + 1)
  <2>1. op \in {"RESTORE-STATE", "RESTORE-ALL-STATE"}
    BY <1>4, <1>7, Heads
  <2>2. \A f, r : f = stack[n].frame /\ (op = "RESTORE-ALL-STATE" => r = stack[n].regs)
           => /\ stack[n].m = IF op = "RESTORE-STATE" THEN "state" ELSE "all-state"
              /\ ~OfC(stack, n - 1)
              /\ Runs(SubSeq(stack, 1, n - 1), Rest, runs, <<f, r>>)
    BY <1>1, <1>7, <2>1, RestoringPops
  <2>3. stack[n].m = IF op = "RESTORE-STATE" THEN "state" ELSE "all-state"
    BY <2>2
  <2>4. frame' = stack[n].frame /\ (op = "RESTORE-ALL-STATE" => regs' = stack[n].regs)
    BY <1>2, <2>1, <2>3 DEF RestoreState, RestoreAllState, Top
  <2>5. mode' = "run"
    BY <1>1, <1>2, <2>1, <2>3 DEF RestoreState, RestoreAllState, Popped, Top
  <2>6. ~OfC(stack, n - 1) /\ Runs(SubSeq(stack, 1, n - 1), Rest, runs, <<frame', regs'>>)
    BY <2>2, <2>4
  <2> QED BY <1>1, <1>3, <2>5, <2>6, FramePopped
<1>8. Activation(stack, code, n + 1, was) \/ Handling(stack, code, n + 1, was)
      \/ Restoring(stack, code, n + 1)
  BY <1>1, <1>4, RunsAs
<1> QED BY <1>5, <1>6, <1>7, <1>8

(* At the end of a file.                                                   *)
LEMMA LoadEndsNests ==
    ASSUME NInv, LoadEnds
    PROVE  Settled'
<1> DEFINE n == Len(stack)
           was == <<frame, regs>>
           t == SubSeq(stack, 1, n - 1)
<1>1. /\ mode = "run" /\ UNCHANGED <<runs, frame, regs>> /\ code' = Rest /\ code[1][1] = "LOAD"
      /\ stack' = IF stack[n].m = "value" THEN t ELSE stack
  BY DEF LoadEnds, At, Top, Front
<1>2. /\ IsSeq(stack) /\ n \in Nat /\ n >= 5 /\ Runs(stack, code, runs, was)
      /\ Deep(stack, runs) /\ ~OfC(stack, n)
  BY <1>1, AtNesting
<1>3. n - 1 \in 0 .. n /\ Len(t) + 1 = n /\ Len(t) = n - 1
  <2>1. n - 1 \in 0 .. n
    BY <1>2
  <2> QED BY <1>2, <2>1, SeqCut
<1>4. CASE Activation(stack, code, n + 1, was)
  <2>1. stack[n].m = "value" /\ Activation(t, Rest, n, <<frame, regs>>)
    BY <1>1, <1>4, PopActs DEF PopsOf
  <2>2. Runs(t, Rest, runs, was)
    BY <1>3, <2>1 DEF Runs, Addressed
  <2> QED BY <1>1, <2>1, <2>2, FramePopped
<1>5. CASE Main(stack, code, n + 1)
  <2>1. code = << <<"LOAD", -1>>, <<"EXIT">> >>
    <3>1. code \in {<< <<"REPL">> >>, << <<"LOAD", -1>>, <<"EXIT">> >>, << <<"EXIT">> >>}
      BY <1>5 DEF Main
    <3>2. << <<"REPL">> >>[1][1] = "REPL" /\ << <<"EXIT">> >>[1][1] = "EXIT"
      OBVIOUS
    <3> QED BY <1>1, <3>1, <3>2
  <2>2. Rest = << <<"EXIT">> >>
    <3> DEFINE a == <<"LOAD", -1>>
               b == <<"EXIT">>
    <3>1. code = <<a, b>>
      BY <2>1
    <3> HIDE DEF a, b
    <3>2. code = <<a>> \o <<b>> /\ IsSeq(<<b>>)
      BY <3>1, SeqPair, SeqShort
    <3>3. Tail(code) = <<b>>
      BY <3>2, SeqCons
    <3> QED BY <3>3 DEF Rest, b
  <2>3. \A q \in 1 .. n : stack[q].m # "return"
    BY <1>2, <1>5 DEF Main
  <2>4. CASE stack[n].m = "value"
    <3>1. \A q \in 1 .. n - 1 : t[q] = stack[q] /\ q \in 1 .. n
      BY <1>2, <1>3, SeqCut
    <3>2. Main(t, Rest, n)
      BY <2>2, <2>3, <3>1 DEF Main
    <3>3. Runs(t, Rest, runs, was)
      BY <1>3, <3>2 DEF Runs
    <3> QED BY <1>1, <2>4, <3>3, FramePopped
  <2>5. CASE stack[n].m # "value"
    <3>1. Main(stack, Rest, n + 1)
      BY <1>2, <2>2, <2>3 DEF Main
    <3>2. stack' = stack /\ Runs(stack, Rest, runs, was)
      BY <1>1, <2>5, <3>1 DEF Runs
    <3> QED BY <1>1, <1>2, <3>2 DEF Settled
  <2> QED BY <2>4, <2>5
<1> QED BY <1>1, <1>2, <1>4, <1>5, RunsAs


(* An address that is good is so whatever else is known of the registers.  *)
LEMMA AddressedWas ==
    ASSUME NEW s, NEW rs, NEW c, NEW p \in Int, NEW was, Addressed(s, rs, c, p, was),
           Len(was) \in {0, 1, 2}, NEW was2, Len(was2) = 2, was = << >> \/ Covers(was2, was),
           Returns(c) /\ Doomed(s, p - 3) => Len(was) = 2
    PROVE  Addressed(s, rs, c, p, was2)
<1>1. Len(<< >>) = 0
  BY SeqShort
<1>2. Len(was) >= 1 => was # << >> /\ Covers(was2, was)
  BY <1>1
<1>3. CASE Activation(s, c, p, was)
  <2>1. Len(was) >= 1 => Len(was2) >= 1 /\ was2[1] = was[1]
    BY <1>2 DEF Covers
  <2> QED BY <1>3, <2>1, ActsWas DEF Addressed
<1>4. CASE Handling(s, c, p, was)
  <2>1. PICK x : /\ WayBack(s, p - 3, x)
                 /\ \/ c = x /\ (Doomed(s, p - 3) /\ x # NCE => Len(was) <= 1)
                    \/ BaseHandler(s, c, p - 3, x)
    BY <1>4 DEF Handling
  <2>2. c = x => c \in Backs
    BY <2>1 DEF WayBack, Backs
  <2>3. \/ c = x /\ (Doomed(s, p - 3) /\ x # NCE => Len(was2) <= 1)
        \/ BaseHandler(s, c, p - 3, x)
    BY <2>1, <2>2 DEF Returns
  <2>4. Handling(s, c, p, was2)
    BY <1>4, <2>1, <2>3 DEF Handling
  <2> QED BY <2>4 DEF Addressed, HandlerReturn
<1>5. CASE Returning(s, c, p, was)
  <2> DEFINE b == s[p - 1].was
  <2>1. Len(b) \in {1, 2} /\ Covers(was, b)
    BY <1>5 DEF Returning, Raising
  <2> HIDE DEF b
  <2>2. Len(was) >= 1 /\ (Len(b) = 2 => Len(was) = 2)
    <3>1. Len(was) >= Len(b)
      BY <2>1 DEF Covers
    <3> QED BY <2>1, <3>1
  <2>3. Covers(was2, was)
    BY <1>2, <2>2
  <2>4. was2[1] = b[1] /\ (Len(b) = 2 => was2[2] = b[2])
    BY <2>1, <2>2, <2>3 DEF Covers
  <2>5. Len(was2) >= Len(b)
    <3>1. \A i \in {1, 2} : 2 >= i
      OBVIOUS
    <3> QED BY <2>1, <3>1, Zenon
  <2>6. Covers(was2, b)
    BY <2>4, <2>5 DEF Covers
  <2>7. Returning(s, c, p, was2)
    BY <1>5, <2>6 DEF Returning, b
  <2> QED BY <2>7 DEF Addressed, HandlerReturn
<1>6. CASE AtTop(s, c, p) \/ AtFin(s, rs, c, p) \/ Restoring(s, c, p)
  BY <1>6 DEF Addressed, HandlerReturn
<1> QED BY <1>3, <1>4, <1>5, <1>6 DEF Addressed, HandlerReturn

(* A return finds an address, and one that something may return to.        *)
LEMMA ReturnNests ==
    ASSUME NInv, ReturnFrom
    PROVE  Settled' /\ mode' = "run"
<1> DEFINE n == Len(stack)
           was == <<frame, regs>>
           t == SubSeq(stack, 1, n - 1)
           c2 == stack[n].code
<1>1. /\ mode = "run" /\ UNCHANGED <<runs, frame, regs>> /\ code[1][1] = "RETURN"
      /\ stack' = t /\ mode' = (IF stack[n].m = "return" THEN mode ELSE "panic")
      /\ code' = IF stack[n].m = "return" THEN c2 ELSE code
  BY DEF ReturnFrom, Popped, At, Top, Front
<1>2. /\ IsSeq(stack) /\ n \in Nat /\ n >= 5 /\ Runs(stack, code, runs, was)
      /\ Deep(stack, runs)
  BY <1>1, AtNesting
<1>3. n - 1 \in 0 .. n /\ (n - 1) + 1 = n /\ n \in Int /\ n \in 1 .. n
  BY <1>2
<1>4. Len(was) = 2
  BY SeqShort
<1>5. FrameNests(stack, runs, n)
  BY <1>2, <1>3 DEF Deep
<1>6. stack[n].m = "return" /\ Addressed(stack, runs, c2, n, was)
  <2>1. CASE Activation(stack, code, n + 1, was)
    <3>1. PICK b, own, w : ActsAt(stack, code, n + 1, was, b, own, w)
      BY <2>1 DEF Activation
    <3>2. Takes(code, own, w) /\ code[1][1] \in Leaves
      BY <1>1, <3>1 DEF ActsAt, Leaves
    <3>3. Len(code) = 1 /\ w = << >>
      BY <3>2, TakesLeaf
    <3>4. b = n
      <4>1. Len(w) = (n + 1) - 1 - b /\ b \in 1 .. (n + 1) - 1 /\ Len(w) = 0
        BY <3>1, <3>3, SeqShort DEF ActsAt
      <4> QED BY <1>2, <4>1
    <3>5. /\ stack[n].m = "return" /\ stack[n].run # -1 /\ stack[n].was = << >>
          /\ Returns(c2) /\ Doomed(stack, n - 3) => code[Len(code)][1] = "TRAP-RETURN"
      BY <3>1, <3>4 DEF ActsAt
    <3>6. ~(Returns(c2) /\ Doomed(stack, n - 3))
      BY <1>1, <3>3, <3>5
    <3>7. ~Abandoned(stack, n)
      BY <3>5, SeqShort DEF Abandoned
    <3>8. Addressed(stack, runs, c2, n, << >>)
      BY <1>5, <3>5, <3>7 DEF FrameNests
    <3>9. Addressed(stack, runs, c2, n, was)
      <4>1. Len(<< >>) \in {0, 1, 2}
        BY SeqShort
      <4> HIDE DEF was, c2
      <4> QED BY <1>3, <1>4, <3>6, <3>8, <4>1, AddressedWas
    <3> QED BY <3>5, <3>9
  <2>2. CASE Returning(stack, code, n + 1, was)
    <3> DEFINE u == stack[n].was
    <3>1. Raising(stack, n) /\ ~Doomed(stack, n) /\ Covers(was, u)
      <4>1. (n + 1) - 1 = n
        BY <1>2
      <4> QED BY <2>2, <4>1 DEF Returning
    <3>2. stack[n].m = "return" /\ stack[n].run = 0 /\ Len(u) \in {1, 2} /\ IsReturn(stack, n)
      BY <3>1 DEF Raising, IsReturn
    <3>3. ~Abandoned(stack, n)
      BY <3>1 DEF Abandoned, Doomed
    <3>4. Addressed(stack, runs, c2, n, u)
      BY <1>5, <3>2, <3>3 DEF FrameNests
    <3>5. Returns(c2) => Len(u) = 2
      BY <3>1, <3>2 DEF Doomed, Returns
    <3>6. Len(u) \in {0, 1, 2}
      BY <3>2
    <3> HIDE DEF was, c2, u
    <3>7. Addressed(stack, runs, c2, n, was)
      BY <1>3, <1>4, <3>1, <3>4, <3>5, <3>6, AddressedWas
    <3> QED BY <3>2, <3>7
  <2> QED BY <1>1, <1>2, <2>1, <2>2, RunsAs
<1>7. IsSeq(t) /\ Len(t) = n - 1 /\ Agree(stack, t, n)
  BY <1>2, <1>3, SeqCut DEF Agree
<1> HIDE DEF t, was, c2
<1>8. Addressed(t, runs, c2, n, was)
  <2>1. NoMoreRuns(runs, runs, n)
    BY DEF NoMoreRuns
  <2> QED BY <1>3, <1>6, <1>7, <2>1, AgreeAddress
<1>9. Len(t) + 1 = n
  BY <1>3, <1>7
<1>10. Runs(t, c2, runs, was)
  BY <1>8, <1>9 DEF Runs
<1>11. Runs(SubSeq(stack, 1, n - 1), code', runs, <<frame', regs'>>)
  BY <1>1, <1>6, <1>10 DEF t, was
<1>12. stack[n].m # "all-state" /\ stack' = SubSeq(stack, 1, n - 1)
  BY <1>1, <1>6 DEF t
<1> QED BY <1>1, <1>6, <1>11, <1>12, FramePopped

-----------------------------------------------------------------------------
(* Calls and prompts.                                                      *)

(* A number of trap frames.                                                *)
Traps(m) == [j \in 1 .. m |-> "trap"]

(* One at a time.                                                          *)
LEMMA TrapsFacts ==
    /\ Traps(0) = << >>
    /\ \A m \in Nat : IsSeq(Traps(m)) /\ Traps(m + 1) = <<"trap">> \o Traps(m)
<1>1. ASSUME NEW m \in Nat
      PROVE  IsSeq(Traps(m)) /\ Len(Traps(m)) = m /\ \A j \in 1 .. m : Traps(m)[j] = "trap"
  <2> DEFINE f == Traps(m)
  <2>1. f = [j \in 1 .. m |-> f[j]]
    BY DEF Traps
  <2>2. \A j \in 1 .. m : f[j] = "trap"
    BY DEF Traps
  <2> HIDE DEF f
  <2>3. IsSeq(f) /\ Len(f) = m
    BY <2>1, SeqMake
  <2> QED BY <2>2, <2>3 DEF f
<1>2. Traps(0) = << >>
  <2>1. IsSeq(Traps(0)) /\ Len(Traps(0)) = 0
    BY <1>1
  <2>2. \A i \in 1 .. 0 : Traps(0)[i] = << >>[i]
    OBVIOUS
  <2> QED BY <2>1, <2>2, SeqSame, SeqShort
<1>3. ASSUME NEW m \in Nat PROVE Traps(m + 1) = <<"trap">> \o Traps(m)
  <2> DEFINE s == Traps(m)
             t == Traps(m + 1)
             u == <<"trap">> \o s
  <2>1. IsSeq(s) /\ Len(s) = m /\ \A j \in 1 .. m : s[j] = "trap"
    BY <1>1
  <2>2. m + 1 \in Nat
    OBVIOUS
  <2>3. IsSeq(t) /\ Len(t) = m + 1 /\ \A j \in 1 .. m + 1 : t[j] = "trap"
    BY <1>1, <2>2
  <2> HIDE DEF s, t
  <2>4. IsSeq(u) /\ Len(u) = m + 1 /\ u[1] = "trap" /\ \A i \in 1 .. m : u[i + 1] = s[i]
    BY <2>1, SeqCons
  <2> HIDE DEF u
  <2>5. ASSUME NEW i \in 1 .. m + 1 PROVE u[i] = "trap"
    <3>1. CASE i = 1
      BY <2>4, <3>1
    <3>2. CASE i # 1
      <4>1. i - 1 \in 1 .. m /\ (i - 1) + 1 = i
        BY <3>2
      <4> QED BY <2>1, <2>4, <4>1
    <3> QED BY <3>1, <3>2
  <2>6. t = u
    BY <2>3, <2>4, <2>5, SeqSame
  <2> QED BY <2>6 DEF t, u, s
<1> QED BY <1>1, <1>2, <1>3

(* Two codes, with an instruction after each.                              *)
Between(x, e, y, r) == ((x \o <<e>>) \o y) \o <<r>>

(* What is where in it.                                                    *)
LEMMA SeqFour ==
    ASSUME NEW x, IsSeq(x), NEW y, IsSeq(y), NEW e, NEW r
    PROVE  LET c == Between(x, e, y, r)
           IN /\ IsSeq(c) /\ Len(c) = Len(x) + Len(y) + 2 /\ Len(x) \in Nat /\ Len(y) \in Nat
              /\ \A i \in 1 .. Len(x) : c[i] = x[i]
              /\ c[Len(x) + 1] = e
              /\ \A i \in 1 .. Len(y) : c[Len(x) + 1 + i] = y[i]
              /\ c[Len(x) + Len(y) + 2] = r
<1> DEFINE c1 == x \o <<e>>
           c2 == c1 \o y
           c == c2 \o <<r>>
           l == Len(x)
           m == Len(y)
<1>1. l \in Nat /\ m \in Nat
  BY SeqLen
<1>2. c1 = Append(x, e)
  BY SeqAppends
<1> HIDE DEF c1
<1>3. IsSeq(c1) /\ Len(c1) = l + 1 /\ c1[l + 1] = e /\ \A i \in 1 .. l : c1[i] = x[i]
  BY <1>2, SeqAppend
<1>4. /\ IsSeq(c2) /\ Len(c2) = Len(c1) + m
      /\ \A i \in 1 .. Len(c1) : c2[i] = c1[i]
      /\ \A i \in 1 .. m : c2[Len(c1) + i] = y[i]
  <2>1. IsSeq(c1)
    BY <1>3
  <2>2. IsSeq(c1 \o y) /\ Len(c1 \o y) = Len(c1) + Len(y)
    BY <2>1, SeqConcat
  <2>3. \A i \in 1 .. Len(c1) : (c1 \o y)[i] = c1[i]
    BY <2>1, SeqConcat
  <2>4. \A i \in 1 .. Len(y) : (c1 \o y)[Len(c1) + i] = y[i]
    BY <2>1, SeqConcat
  <2> QED BY <2>2, <2>3, <2>4
<1>5. c = Append(c2, r)
  BY <1>4, SeqAppends
<1> HIDE DEF c, c2
<1>6. IsSeq(c) /\ Len(c) = Len(c2) + 1 /\ c[Len(c2) + 1] = r /\ \A i \in 1 .. Len(c2) : c[i] = c2[i]
  BY <1>4, <1>5, SeqAppend
<1> HIDE DEF l, m
<1>7. Len(c2) = l + 1 + m /\ Len(c2) \in Nat
  BY <1>1, <1>3, <1>4
<1>8. /\ Len(c) = l + m + 2
      /\ \A i \in 1 .. l : c[i] = x[i]
      /\ c[l + 1] = e
      /\ \A i \in 1 .. m : c[l + 1 + i] = y[i]
      /\ c[l + m + 2] = r
  <2>1. Len(c) = l + m + 2 /\ c[l + m + 2] = r
    BY <1>1, <1>6, <1>7
  <2>2. ASSUME NEW i \in 1 .. l PROVE c[i] = x[i]
    <3>1. i \in 1 .. l + 1 /\ i \in 1 .. l + 1 + m
      BY <1>1
    <3> QED BY <1>3, <1>4, <1>6, <1>7, <3>1
  <2>3. c[l + 1] = e
    <3>1. l + 1 \in 1 .. l + 1 /\ l + 1 \in 1 .. l + 1 + m
      BY <1>1
    <3> QED BY <1>3, <1>4, <1>6, <1>7, <3>1
  <2>4. ASSUME NEW i \in 1 .. m PROVE c[l + 1 + i] = y[i]
    <3>1. l + 1 + i \in 1 .. l + 1 + m
      BY <1>1
    <3> QED BY <1>3, <1>4, <1>6, <1>7, <3>1
  <2> QED BY <2>1, <2>2, <2>3, <2>4
<1>9. c = Between(x, e, y, r)
  BY DEF c, c2, c1, Between
<1> QED BY <1>1, <1>6, <1>8, <1>9 DEF l, m

(* The code of a prompt's thunk, which sets and takes away its traps.      *)
LEMMA TakesPrompt ==
    ASSUME NEW n \in Nat, NEW c, NEW a, IsSeq(c), Len(c) = n + n + 2,
           \A i \in 1 .. n : c[i][1] = "PUSH-TRAP", c[n + 1][1] = "EXPR", c[n + 1][2] = a,
           \A i \in 1 .. n : c[n + 1 + i][1] = "POP-TRAP", c[n + n + 2][1] = "RETURN"
    PROVE  Takes(c, a, << >>) /\ Len(c) # 1
<1> DEFINE l == 2 * n + 2
           m == [i \in 1 .. l + 1 |-> IF i <= n + 1 THEN i - 1 ELSE IF i = l + 1 THEN 0 ELSE l - i]
           W == [i \in 1 .. l + 1 |-> Traps(m[i])]
<1>5. n + n + 2 = l
  OBVIOUS
<1>6. /\ \A i \in 1 .. n : c[i][1] = "PUSH-TRAP"
      /\ c[n + 1][1] = "EXPR" /\ c[n + 1][2] = a
      /\ \A i \in n + 2 .. 2 * n + 1 : c[i][1] = "POP-TRAP"
      /\ c[l][1] = "RETURN" /\ Len(c) = l
  <2>1. ASSUME NEW i \in n + 2 .. 2 * n + 1 PROVE c[i][1] = "POP-TRAP"
    <3> DEFINE j == i - (n + 1)
    <3>1. j \in 1 .. n /\ i = n + 1 + j
      OBVIOUS
    <3> HIDE DEF j
    <3> QED BY <3>1
  <2> QED BY <1>5, <2>1
<1>7. /\ \A i \in 1 .. l + 1 : m[i] \in Nat
      /\ m[1] = 0 /\ m[l + 1] = 0
      /\ \A i \in 1 .. n : m[i + 1] = m[i] + 1
      /\ m[n + 1] = m[n + 2]
      /\ \A i \in n + 2 .. 2 * n + 1 : m[i] = m[i + 1] + 1
      /\ m[l] = m[l + 1]
  <2>1. \A i \in 1 .. l + 1 : m[i] \in Nat
    OBVIOUS
  <2>2. m[1] = 0 /\ m[l + 1] = 0
    OBVIOUS
  <2>3. \A i \in 1 .. n : m[i + 1] = m[i] + 1
    OBVIOUS
  <2>4. m[n + 1] = m[n + 2]
    OBVIOUS
  <2>5. \A i \in n + 2 .. 2 * n + 1 : m[i] = m[i + 1] + 1
    OBVIOUS
  <2>6. m[l] = m[l + 1]
    OBVIOUS
  <2> QED BY <2>1, <2>2, <2>3, <2>4, <2>5, <2>6
<1> HIDE DEF m
<1>8. \A i \in 1 .. l + 1 : W[i] = Traps(m[i]) /\ IsSeq(W[i])
  BY <1>7, TrapsFacts
<1> HIDE DEF W
<1>9. W[1] = << >> /\ W[l + 1] = << >>
  <2>1. 1 \in 1 .. l + 1 /\ l + 1 \in 1 .. l + 1
    OBVIOUS
  <2> QED BY <1>7, <1>8, <2>1, TrapsFacts
<1>10. ASSUME NEW i \in 1 .. l PROVE InstructionTakes(c, a, W, i)
  <2>1. i \in 1 .. l + 1 /\ i + 1 \in 1 .. l + 1 /\ l \in Nat /\ n + 1 # l /\ n + 2 \in 1 .. l + 1
    OBVIOUS
  <2>2. W[i] = Traps(m[i]) /\ W[i + 1] = Traps(m[i + 1]) /\ m[i] \in Nat /\ m[i + 1] \in Nat
    BY <1>7, <1>8, <2>1
  <2>3. CASE i \in 1 .. n
    <3>1. i < l /\ i # l
      BY <2>3
    <3>2. c[i][1] = "PUSH-TRAP" /\ m[i + 1] = m[i] + 1
      BY <1>6, <1>7, <2>3
    <3>3. W[i + 1] = <<"trap">> \o W[i]
      BY <2>2, <3>2, TrapsFacts
    <3>4. Step(c[i], W[i], W[i + 1])
      BY <3>2, <3>3 DEF Step, PopsOf, PushesOf
    <3> QED BY <1>6, <3>1, <3>2, <3>4 DEF InstructionTakes, Program, Uses, Leaves
  <2>4. CASE i = n + 1
    <3>1. c[i][1] = "EXPR" /\ c[i][2] = a /\ m[i] = m[i + 1]
      <4>1. i + 1 = n + 2
        BY <2>4
      <4> QED BY <1>6, <1>7, <2>4, <4>1
    <3>2. Step(c[i], W[i], W[i + 1])
      BY <2>2, <3>1 DEF Step, PopsOf, PushesOf
    <3>3. c[i + 1][1] \in {"POP-TRAP", "RETURN"}
      <4>1. CASE i + 1 = l
        BY <1>6, <4>1
      <4>2. CASE i + 1 # l
        <5>1. i + 1 \in n + 2 .. 2 * n + 1
          BY <2>4, <4>2
        <5> QED BY <1>6, <5>1
      <4> QED BY <4>1, <4>2
    <3>4. i # l
      BY <2>1, <2>4
    <3> QED BY <1>6, <3>1, <3>2, <3>3, <3>4 DEF InstructionTakes, Program, Uses, Leaves
  <2>5. CASE i \in n + 2 .. 2 * n + 1
    <3>1. c[i][1] = "POP-TRAP" /\ m[i] = m[i + 1] + 1
      BY <1>6, <1>7, <2>5
    <3>2. W[i] = <<"trap">> \o W[i + 1]
      BY <2>2, <3>1, TrapsFacts
    <3>3. Step(c[i], W[i], W[i + 1])
      BY <3>1, <3>2 DEF Step, PopsOf, PushesOf
    <3>4. c[i + 1][1] \in {"POP-TRAP", "RETURN"}
      <4>1. CASE i + 1 = l
        BY <1>6, <4>1
      <4>2. CASE i + 1 # l
        <5>1. i + 1 \in n + 2 .. 2 * n + 1
          BY <2>5, <4>2
        <5> QED BY <1>6, <5>1
      <4> QED BY <4>1, <4>2
    <3>5. i # l
      BY <2>5
    <3> QED BY <1>6, <3>1, <3>3, <3>4, <3>5 DEF InstructionTakes, Program, Uses, Leaves
  <2>6. CASE i = l
    <3>1. c[i][1] = "RETURN" /\ m[i] = m[i + 1]
      BY <1>6, <1>7, <2>6
    <3>2. Step(c[i], W[i], W[i + 1])
      BY <2>2, <3>1 DEF Step, PopsOf, PushesOf
    <3>3. ~(i < l)
      BY <2>1, <2>6
    <3> QED BY <1>6, <2>6, <3>1, <3>2, <3>3 DEF InstructionTakes, Program, Uses, Leaves
  <2>7. i \in 1 .. n \/ i = n + 1 \/ i \in n + 2 .. 2 * n + 1 \/ i = l
    OBVIOUS
  <2> QED BY <2>3, <2>4, <2>5, <2>6, <2>7
<1>11. Takes(c, a, << >>) /\ Len(c) # 1
  <2>1. l # 0 /\ l # 1
    OBVIOUS
  <2> HIDE DEF l
  <2>2. Annotated(c, a, W)
    BY <1>6, <1>8, <1>9, <1>10 DEF Annotated
  <2>3. Takes(c, a, << >>)
    BY <1>6, <1>9, <2>1, <2>2, SeqShort DEF Takes
  <2> QED BY <1>6, <2>1, <2>3
<1> QED BY <1>11

(* The code of a closure: an expression and an instruction that leaves.    *)
LEMMA TakesBody ==
    ASSUME NEW a, NEW ins, ins[1] \in Leaves
    PROVE  LET c == << <<"EXPR", a>>, ins >>
           IN /\ Takes(c, a, << >>) /\ Len(c) = 2 /\ c[Len(c)] = ins
              /\ c[1] = <<"EXPR", a>> /\ c[1][1] = "EXPR"
<1> DEFINE x == <<"EXPR", a>>
           c == <<x, ins>>
<1>1. Takes(<<ins>>, a, << >>) /\ <<ins>>[1] = ins
  BY TakesLast
<1>2. x[1] = "EXPR" /\ x[2] = a
  OBVIOUS
<1> HIDE DEF x
<1>3. c = <<x>> \o <<ins>> /\ Len(c) = 2 /\ c[1] = x /\ c[2] = ins
  BY SeqPair, SeqShort
<1>4. ins[1] \notin Uses
  BY DEF Leaves, Uses
<1>5. x[1] \in Program \ Leaves /\ Step(x, << >>, << >>) /\ x[1] \notin {"POP-ABORT", "CALL", "PROMPT", "FUNCTION-INVOKE"}
  BY <1>2 DEF Program, Leaves, Uses, Step, PopsOf, PushesOf
<1> HIDE DEF c
<1>6. Takes(c, a, << >>)
  BY <1>1, <1>2, <1>3, <1>4, <1>5, SeqShort, TakesMore
<1>7. c[Len(c)] = ins
  BY <1>3
<1> QED BY <1>2, <1>3, <1>6, <1>7 DEF c, x

(* Higher up there is no less below.                                       *)
LEMMA InsideMore ==
    ASSUME NEW s, NEW t, NEW p \in Int, Agree(s, t, p), NEW q \in Int, p <= q
    PROVE  (InRun(s, p) => InRun(t, q)) /\ (InLoad(s, p) => InLoad(t, q))
<1>1. \A i \in 1 .. p - 1 : i \in 1 .. q - 1 /\ t[i] = s[i]
  BY DEF Agree
<1>2. \A i \in 6 .. p - 1 : i \in 6 .. q - 1 /\ t[i] = s[i]
  BY DEF Agree
<1> QED BY <1>1, <1>2 DEF InRun, InLoad

-----------------------------------------------------------------------------
(* The address of a call, or a prompt: the activation's own rest.          *)
LEMMA CallPushes ==
    ASSUME NInv, mode = "run", code[1][1] \in {"CALL", "PROMPT"},
           NEW t, t = Append(stack, Return(Rest, << >>))
    PROVE  /\ IsSeq(t) /\ Len(t) = Len(stack) + 1 /\ Len(stack) \in Nat
           /\ Deep(t, runs) /\ ~OfC(t, Len(stack) + 1)
           /\ InRun(t, Len(stack) + 2) /\ InLoad(t, Len(stack) + 2)
           /\ t[Len(stack) + 1].m = "return" /\ t[Len(stack) + 1].run # -1
           /\ t[Len(stack) + 1].was = << >> /\ t[Len(stack) + 1].code \notin Backs
<1> DEFINE n == Len(stack)
           was == <<frame, regs>>
           f == Return(Rest, << >>)
<1>1. /\ IsSeq(stack) /\ n \in Nat /\ Runs(stack, code, runs, was) /\ Deep(stack, runs)
      /\ ~OfC(stack, n)
  BY AtNesting
<1>2. PICK b, own, w : ActsAt(stack, code, n + 1, was, b, own, w)
  BY <1>1, RunsAs DEF Activation
<1>3. Takes(code, own, w) /\ code[1][1] \notin Leaves /\ InRun(stack, n + 1)
      /\ (Len(code) = 1 \/ InLoad(stack, n + 1))
  BY <1>2 DEF ActsAt, Leaves
<1>4. /\ Len(code) \in Nat /\ Len(code) >= 2 /\ Rest[Len(Rest)] = code[Len(code)]
      /\ Rest[1][1] = "RESTORE-STATE"
      /\ \E v : Step(code[1], w, v) /\ Takes(Rest, own, v)
  BY <1>3, TakesRest DEF Rest
<1>5. Takes(Rest, own, w)
  <2>1. PICK v : Step(code[1], w, v) /\ Takes(Rest, own, v)
    BY <1>4
  <2>2. v = w
    BY <2>1 DEF Step, PopsOf, PushesOf
  <2> QED BY <2>1, <2>2
<1>6. Rest \notin Backs /\ Rest # TOP
  <2>1. TOP[1][1] = "ABORT-TOP"
    BY DEF TOP
  <2>2. \A c \in Backs : c[1][1] # "RESTORE-STATE"
    BY BacksFacts DEF Backs
  <2> QED BY <1>4, <2>1, <2>2
<1>7. f.m = "return" /\ f.code = Rest /\ f.run = 0 /\ f.was = << >>
  BY DEF Return
<1>8. t = Append(stack, f)
  OBVIOUS
<1> HIDE DEF f
<1>9. IsSeq(t) /\ Len(t) = n + 1 /\ t[n + 1] = f /\ Agree(stack, t, n + 1)
  BY <1>1, <1>8, SeqAppend DEF Agree
<1>10. ActsAt(t, Rest, n + 1, << >>, b, own, w)
  <2>1. Len(code) # 1
    BY <1>4
  <2>2. Knows(Rest, << >>, own)
    BY <1>4 DEF Knows, Uses
  <2>3. ActsAt(stack, Rest, n + 1, << >>, b, own, w)
    BY <1>1, <1>2, <1>4, <1>5, <2>1, <2>2, ActsStay
  <2> QED BY <1>1, <1>9, <2>3, AgreeActs
<1>11. FrameNests(t, runs, n + 1)
  <2>1. ~OfC(t, (n + 1) - 1)
    <3>1. ~OfC(t, n)
      BY <1>1, <1>9, AgreeReturns
    <3> QED BY <1>1, <3>1
  <2>2. Addressed(t, runs, Rest, n + 1, << >>)
    BY <1>10 DEF Addressed, Activation
  <2> QED BY <1>6, <1>7, <1>9, <2>1, <2>2 DEF FrameNests
<1>12. Deep(t, runs)
  BY <1>1, <1>8, <1>9, <1>11, DeepAppend
<1>13. InRun(t, n + 2) /\ InLoad(t, n + 2)
  <2>1. Len(code) # 1
    BY <1>4
  <2>2. n + 1 \in Int /\ n + 2 \in Int /\ n + 1 <= n + 2
    BY <1>1
  <2> QED BY <1>3, <1>9, <2>1, <2>2, InsideMore
<1>14. ~OfC(t, n + 1)
  BY <1>7, <1>9 DEF OfC
<1> QED BY <1>1, <1>6, <1>7, <1>9, <1>12, <1>13, <1>14

(* A call of a closure.                                                    *)
LEMMA CallNests ==
    ASSUME NInv, Call
    PROVE  Settled'
<1> DEFINE n == Len(stack)
           t == Append(stack, Return(Rest, << >>))
           c == << <<"EXPR", n + 1>>, <<"RETURN">> >>
<1>1. /\ mode = "run" /\ code[1][1] = "CALL" /\ stack' = t /\ runs' = runs
      /\ frame' = n + 1 /\ regs' = Regs(n + 1, TRUE) /\ code' = c
  BY DEF Call, At, Push
<1>2. /\ IsSeq(t) /\ Len(t) = n + 1 /\ n \in Nat
      /\ Deep(t, runs) /\ ~OfC(t, n + 1) /\ InRun(t, n + 2) /\ InLoad(t, n + 2)
      /\ t[n + 1].m = "return" /\ t[n + 1].run # -1
      /\ t[n + 1].was = << >> /\ t[n + 1].code \notin Backs
  BY <1>1, CallPushes
<1> HIDE DEF t
<1>3. Takes(c, n + 1, << >>)
  BY TakesBody DEF Leaves
<1> HIDE DEF c
<1> DEFINE was == <<n + 1, Regs(n + 1, TRUE)>>
<1>4. Knows(c, was, n + 1)
  BY SeqShort DEF Knows
<1>5. Activation(t, c, n + 2, was)
  BY <1>2, <1>3, <1>4, ActsNew DEF Returns
<1>6. Len(t) + 1 = n + 2
  BY <1>2
<1>7. Runs(t, c, runs, was)
  BY <1>5, <1>6 DEF Runs, Addressed
<1> QED BY <1>1, <1>2, <1>7 DEF Settled


(* The code of a prompt's thunk.                                           *)
LEMMA PromptCode ==
    ASSUME NEW form, NEW h, NEW a, Len(form) \in Nat
    PROVE  LET n == Len(form)
               c == (([i \in 1 .. n |-> <<"PUSH-TRAP", form[n + 1 - i], h, i - 1>>]
                      \o << <<"EXPR", a>> >>)
                     \o [i \in 1 .. n |-> <<"POP-TRAP">>]) \o << <<"RETURN">> >>
           IN Takes(c, a, << >>) /\ Len(c) # 1
<1> DEFINE n == Len(form)
           push == [i \in 1 .. n |-> <<"PUSH-TRAP", form[n + 1 - i], h, i - 1>>]
           pop == [i \in 1 .. n |-> <<"POP-TRAP">>]
           e == <<"EXPR", a>>
           r == <<"RETURN">>
           c == Between(push, e, pop, r)
<1>1. IsSeq(push) /\ Len(push) = n
  <2>1. push = [i \in 1 .. n |-> push[i]]
    OBVIOUS
  <2> HIDE DEF push
  <2> QED BY <2>1, SeqMake
<1>2. \A i \in 1 .. n : push[i][1] = "PUSH-TRAP"
  <2> SUFFICES ASSUME NEW i \in 1 .. n PROVE push[i][1] = "PUSH-TRAP"
    OBVIOUS
  <2> DEFINE x == form[n + 1 - i]
             y == i - 1
  <2>1. push[i] = <<"PUSH-TRAP", x, h, y>>
    OBVIOUS
  <2> HIDE DEF push, x, y
  <2> QED BY <2>1
<1>3. IsSeq(pop) /\ Len(pop) = n
  <2>1. pop = [i \in 1 .. n |-> pop[i]]
    OBVIOUS
  <2> HIDE DEF pop
  <2> QED BY <2>1, SeqMake
<1>4. \A i \in 1 .. n : pop[i][1] = "POP-TRAP"
  OBVIOUS
<1> HIDE DEF push, pop, e, r
<1>5. /\ IsSeq(c) /\ Len(c) = Len(push) + Len(pop) + 2
      /\ \A i \in 1 .. Len(push) : c[i] = push[i]
      /\ c[Len(push) + 1] = e
      /\ \A i \in 1 .. Len(pop) : c[Len(push) + 1 + i] = pop[i]
      /\ c[Len(push) + Len(pop) + 2] = r
  <2>1. IsSeq(push) /\ IsSeq(pop)
    BY <1>1, <1>3
  <2> QED BY <2>1, SeqFour
<1> HIDE DEF c
<1> HIDE DEF n
<1>6. /\ Len(c) = n + n + 2
      /\ \A i \in 1 .. n : c[i] = push[i]
      /\ c[n + 1] = e
      /\ \A i \in 1 .. n : c[n + 1 + i] = pop[i]
      /\ c[n + n + 2] = r
  BY <1>1, <1>3, <1>5, Zenon
<1>7. c[n + 1][1] = "EXPR" /\ c[n + 1][2] = a /\ c[n + n + 2][1] = "RETURN"
  BY <1>6 DEF e, r
<1>8. Takes(c, a, << >>) /\ Len(c) # 1
  <2>1. n \in Nat
    BY DEF n
  <2>2. \A i \in 1 .. n : c[i][1] = "PUSH-TRAP"
    BY <1>2, <1>6
  <2>3. \A i \in 1 .. n : c[n + 1 + i][1] = "POP-TRAP"
    BY <1>4, <1>6
  <2>4. IsSeq(c)
    BY <1>5
  <2> HIDE DEF n
  <2> QED BY <1>6, <1>7, <2>1, <2>2, <2>3, <2>4, TakesPrompt
<1> QED BY <1>8 DEF c, push, pop, e, r, n, Between

(* A trap expression: its prompt's address, the prompt's end and its thunk.*)
LEMMA PromptNests ==
    ASSUME NInv, Prompt
    PROVE  Settled'
<1> DEFINE n == Len(stack)
           t == Append(stack, Return(Rest, << >>))
           g == Return(TOP, << >>)
           u == Append(t, g)
           form == code[1][2]
           h == code[1][3]
           m == Len(form)
           a == Len(t) + 1
           c == (([i \in 1 .. m |-> <<"PUSH-TRAP", form[m + 1 - i], h, i - 1>>]
                  \o << <<"EXPR", a>> >>)
                 \o [i \in 1 .. m |-> <<"POP-TRAP">>]) \o << <<"RETURN">> >>
<1>1. /\ mode = "run" /\ code[1][1] = "PROMPT" /\ stack' = u /\ runs' = runs
      /\ frame' = a /\ regs' = Callable /\ code' = c
  BY DEF Prompt, At, TOP
<1>2. m \in Nat
  <2>1. Steady /\ code[1][1] \notin Special
    BY <1>1, AtNesting DEF Special
  <2>2. IsSeq(code) /\ code # << >> /\ \A i \in 1 .. Len(code) : InstructionOK(code[i])
    BY <2>1, Ordinary DEF Fits, Plain
  <2>3. 1 \in 1 .. Len(code)
    <3>1. PICK S : code \in Seq(S)
      BY <2>2 DEF IsSeq
    <3> QED BY <2>2, <3>1
  <2>4. form \in TrapForms
    BY <1>1, <2>2, <2>3 DEF InstructionOK
  <2> QED BY <2>4, VMStackAssumption
<1>3. Takes(c, a, << >>) /\ Len(c) # 1
  BY <1>2, PromptCode
<1> HIDE DEF c, form, h, m
<1>4. /\ IsSeq(t) /\ Len(t) = n + 1 /\ n \in Nat
      /\ Deep(t, runs) /\ ~OfC(t, n + 1) /\ InRun(t, n + 2) /\ InLoad(t, n + 2)
      /\ t[n + 1].m = "return" /\ t[n + 1].run # -1
      /\ t[n + 1].was = << >> /\ t[n + 1].code \notin Backs
  BY <1>1, CallPushes
<1> HIDE DEF t
<1>5. g.m = "return" /\ g.code = TOP /\ g.run = 0 /\ g.was = << >>
  BY DEF Return
<1> HIDE DEF g
<1>6. IsSeq(u) /\ Len(u) = n + 2 /\ u[n + 2] = g /\ Agree(t, u, n + 2)
  <2>1. IsSeq(u) /\ Len(u) = Len(t) + 1 /\ u[Len(t) + 1] = g /\ \A i \in 1 .. Len(t) : u[i] = t[i]
    BY <1>4, SeqAppend
  <2> HIDE DEF u
  <2>2. Len(t) + 1 = n + 2
    BY <1>4
  <2> QED BY <1>4, <2>1, <2>2 DEF Agree
<1>7. /\ a = n + 2 /\ n + 1 \in Nat /\ n + 2 \in Int /\ n + 3 \in Int /\ n + 2 <= n + 3
      /\ n + 1 < n + 2 /\ n + 1 \in Int /\ n + 1 >= 1 /\ (n + 1) + 1 = n + 2 /\ (n + 1) + 2 = n + 3
      /\ (n + 2) - 1 = n + 1 /\ (n + 2) + 1 = n + 3
  BY <1>4
<1> HIDE DEF u, a
<1>8. InRun(u, n + 2) /\ InLoad(u, n + 2) /\ ~OfC(u, n + 1) /\ u[n + 1] = t[n + 1]
      /\ InRun(u, n + 3) /\ InLoad(u, n + 3)
  <2>1. InRun(u, n + 2) /\ InLoad(u, n + 2) /\ ~OfC(u, n + 1) /\ u[n + 1] = t[n + 1]
    BY <1>4, <1>6, <1>7, AgreeReturns
  <2>2. InRun(u, n + 3) /\ InLoad(u, n + 3)
    BY <1>4, <1>6, <1>7, InsideMore
  <2> QED BY <2>1, <2>2
<1>9. AtTop(u, TOP, n + 2)
  <2> DEFINE r == <<"RETURN">>
  <2>1. r[1] = "RETURN"
    OBVIOUS
  <2> HIDE DEF r
  <2>2. Takes(<<r>>, 0, << >>) /\ Len(<<r>>) = 1 /\ <<r>>[1] = r
    BY <2>1, TakesLast DEF Leaves
  <2>3. Knows(<<r>>, << >>, 0)
    BY <2>1, <2>2 DEF Knows, Uses
  <2>4. Activation(u, <<r>>, n + 2, << >>)
    BY <1>4, <1>8, <2>2, <2>3, ActsNew DEF Returns
  <2> QED BY <1>8, <2>4 DEF AtTop, R, r
<1>10. FrameNests(u, runs, n + 2)
  <2>1. Addressed(u, runs, TOP, n + 2, << >>)
    BY <1>9 DEF Addressed
  <2> QED BY <1>5, <1>6, <1>7, <1>8, <1>9, <2>1 DEF FrameNests
<1>11. Deep(u, runs)
  <2>1. u = Append(t, g) /\ Len(t) + 1 = n + 2
    BY <1>4, <1>7 DEF u
  <2> QED BY <1>4, <1>10, <2>1, DeepAppend
<1>12. TOP \notin Backs
  <2>1. TOP[1][1] = "ABORT-TOP"
    BY DEF TOP
  <2>2. \A x \in Backs : x[1][1] # "ABORT-TOP"
    BY BacksFacts DEF Backs
  <2> QED BY <2>1, <2>2
<1> DEFINE was == <<a, Callable>>
<1>13. Knows(c, was, a)
  BY SeqShort DEF Knows
<1> HIDE DEF was
<1>14. Activation(u, c, n + 3, was)
  <2> DEFINE k == n + 1
  <2>1. k \in Nat /\ k + 1 = n + 2 /\ k + 2 = n + 3
    BY <1>7
  <2> HIDE DEF k
  <2> QED BY <1>3, <1>5, <1>6, <1>8, <1>12, <1>13, <2>1, ActsNew DEF Returns
<1>15. Runs(u, c, runs, was)
  BY <1>6, <1>7, <1>14 DEF Runs, Addressed
<1>16. ~OfC(u, n + 2)
  BY <1>5, <1>6 DEF OfC
<1> QED BY <1>1, <1>6, <1>11, <1>15, <1>16 DEF Settled, was

-----------------------------------------------------------------------------
(* Conditions.                                                             *)

(* What raising makes of the stack: the address, what is saved, the frame  *)
(* of the handler's care, and for a closure the address of its way back.   *)
WasOf(kind) == IF kind = "signal" THEN <<frame, regs>> ELSE <<frame>>
SaveOf(kind) == IF kind = "signal" THEN AllState(frame, regs) ELSE State(frame)
WayOf(kind, continuable) == IF kind = "signal" THEN IHR ELSE IF continuable THEN CHR ELSE NCE
Makes(t, x, f, c, g) ==
    LET a == Len(t) + 1
    IN \/ /\ f.h \in Handlers /\ stack' = Append(t, Return(x, << >>))
          /\ code' = << <<"EXPR", a>>, IF f.h \in Returners THEN <<"RETURN">>
                                       ELSE <<"TRAP-RETURN", f.hole>> >>
          /\ frame' = a /\ regs' = g
       \/ /\ f.h \notin Handlers /\ stack' = t
          /\ code' = << <<"PRIMITIVE", f.h, c>> >> \o x

(* Whatever the condition.                                                 *)
LEMMA RaiseMakes ==
    ASSUME NEW s, IsSeq(s), NEW pc, NEW kind, NEW c, NEW continuable, NEW func, NEW p,
           Raise(kind, c, continuable, func, s, pc),
           p = Match(s, IF kind = "raise" THEN FindMarker(s, "trap") ELSE FindMaxTrap(s), c)
    PROVE  /\ runs' = runs /\ mode' = mode
           /\ Makes(Append(Append(Append(s, Return(pc, WasOf(kind))), SaveOf(kind)), NextInCare(s, p)),
                    WayOf(kind, continuable), s[p], c, regs')
<1> DEFINE w == IF kind = "signal" THEN <<frame, regs>> ELSE <<frame>>
           f1 == Return(pc, w)
           f2 == IF kind = "signal" THEN AllState(frame, regs) ELSE State(frame)
           f3 == NextInCare(s, p)
           x == IF kind = "signal" THEN IHR ELSE IF continuable THEN CHR ELSE NCE
           u == Append(Append(s, f1), f2)
           t == Append(u, f3)
           a == Len(t) + 1
<1>1. (IF kind = "signal"
       THEN s \o <<Return(pc, <<frame, regs>>), AllState(frame, regs)>>
       ELSE s \o <<Return(pc, <<frame>>), State(frame)>>) = u
  <2>1. /\ s \o <<Return(pc, <<frame, regs>>), AllState(frame, regs)>>
            = Append(Append(s, Return(pc, <<frame, regs>>)), AllState(frame, regs))
        /\ s \o <<Return(pc, <<frame>>), State(frame)>>
            = Append(Append(s, Return(pc, <<frame>>)), State(frame))
    BY SeqAppends
  <2> QED BY <2>1
<1> HIDE DEF u
<1>2. /\ runs' = runs /\ mode' = mode
      /\ \/ /\ s[p].h \in Handlers /\ stack' = Append(t, Return(x, << >>))
            /\ code' = << <<"EXPR", a>>, IF s[p].h \in Returners THEN <<"RETURN">>
                                         ELSE <<"TRAP-RETURN", s[p].hole>> >>
            /\ frame' = a
         \/ /\ s[p].h \notin Handlers /\ stack' = t
            /\ code' = << <<"PRIMITIVE", s[p].h, c>> >> \o x
  BY <1>1 DEF Raise
<1> QED BY <1>2 DEF u, Makes, WasOf, SaveOf, WayOf


(* The address of a prompt's end is nothing else.                          *)
LEMMA TopAddress ==
    ASSUME NEW s, NEW rs, NEW p \in Int, NEW was, Addressed(s, rs, TOP, p, was)
    PROVE  AtTop(s, TOP, p)
<1>1. TOP[1][1] = "ABORT-TOP"
  BY DEF TOP
<1>2. /\ ~Activation(s, TOP, p, was) /\ ~Handling(s, TOP, p, was) /\ ~Restoring(s, TOP, p)
      /\ ~Returning(s, TOP, p, was) /\ ~AtFin(s, rs, TOP, p)
  BY <1>1, Heads DEF Program, Uses, Leaves
<1> QED BY <1>2 DEF Addressed, HandlerReturn

(* The three frames of a condition, raised at an address that is good or   *)
(* abandoned.                                                              *)
Saves(s, rs, pc, was, f1, f2, f3, t) ==
    /\ IsSeq(s) /\ Deep(s, rs) /\ ~OfC(s, Len(s)) /\ Len(was) \in {1, 2}
    /\ \/ Addressed(s, rs, pc, Len(s) + 1, was)
       \/ Len(was) = 1 /\ SavedAt(s, Len(s)) /\ pc # TOP
    /\ f1 = Return(pc, was)
    /\ Len(was) = 1 => f2 = State(was[1])
    /\ Len(was) = 2 => f2 = AllState(was[1], was[2])
    /\ f3.m = "trap" /\ BaseTrap(f3)
    /\ t = Append(Append(Append(s, f1), f2), f3)

(* They nest, and the condition's address is below them.                   *)
LEMMA RaiseSaves ==
    ASSUME NEW s, NEW rs, NEW pc, NEW was, NEW f1, NEW f2, NEW f3, NEW t,
           Saves(s, rs, pc, was, f1, f2, f3, t)
    PROVE  /\ IsSeq(t) /\ Len(t) = Len(s) + 3 /\ Len(s) \in Nat /\ Deep(t, rs)
           /\ Agree(s, t, Len(s) + 1) /\ t[Len(s) + 3] = f3
           /\ Raising(t, Len(s) + 1) /\ Saved(t, Len(s) + 1) /\ t[Len(s) + 1].was = was
           /\ Doomed(t, Len(s) + 1) => Len(was) = 1 /\ (SavedAt(s, Len(s)) \/ pc \in Backs)
<1> DEFINE n == Len(s)
           u == Append(s, f1)
           v == Append(u, f2)
<1>0. /\ IsSeq(s) /\ Deep(s, rs) /\ ~OfC(s, Len(s)) /\ Len(was) \in {1, 2}
      /\ \/ Addressed(s, rs, pc, Len(s) + 1, was)
         \/ Len(was) = 1 /\ SavedAt(s, Len(s)) /\ pc # TOP
      /\ f1 = Return(pc, was)
      /\ Len(was) = 1 => f2 = State(was[1])
      /\ Len(was) = 2 => f2 = AllState(was[1], was[2])
      /\ f3.m = "trap" /\ BaseTrap(f3)
      /\ t = Append(Append(Append(s, f1), f2), f3)
  BY DEF Saves
<1> USE <1>0
<1>1. n \in Nat
  BY SeqLen
<1>2. f1.m = "return" /\ f1.code = pc /\ f1.run = 0 /\ f1.was = was
  BY DEF Return
<1>3. /\ f2.m \in {"state", "all-state"}
      /\ Len(was) = 1 => f2.m = "state" /\ f2.frame = was[1]
      /\ Len(was) = 2 => f2.m = "all-state" /\ f2.frame = was[1] /\ f2.regs = was[2]
  BY DEF State, AllState
<1>4. IsSeq(u) /\ Len(u) = n + 1 /\ u[n + 1] = f1 /\ Agree(s, u, n + 1)
  BY <1>1, SeqAppend DEF Agree
<1>5. t = Append(v, f3)
  OBVIOUS
<1> HIDE DEF u
<1>6. IsSeq(v) /\ Len(v) = n + 2 /\ v[n + 2] = f2 /\ Agree(u, v, n + 2)
  <2>1. IsSeq(v) /\ Len(v) = Len(u) + 1 /\ v[Len(u) + 1] = f2 /\ \A i \in 1 .. Len(u) : v[i] = u[i]
    BY <1>4, SeqAppend
  <2> HIDE DEF v
  <2>2. Len(u) + 1 = n + 2
    BY <1>1, <1>4
  <2> QED BY <1>1, <1>4, <2>1, <2>2 DEF Agree
<1> HIDE DEF v
<1>7. IsSeq(t) /\ Len(t) = n + 3 /\ t[n + 3] = f3 /\ Agree(v, t, n + 3)
  <2>1. IsSeq(t) /\ Len(t) = Len(v) + 1 /\ t[Len(v) + 1] = f3 /\ \A i \in 1 .. Len(v) : t[i] = v[i]
    BY <1>5, <1>6, SeqAppend
  <2>2. Len(v) + 1 = n + 3
    BY <1>1, <1>6
  <2> QED BY <1>1, <1>6, <2>1, <2>2 DEF Agree
<1> DEFINE b == n + 1
<1>8. /\ b \in Int /\ n + 1 \in Int /\ n + 2 \in Int /\ n + 3 \in Int /\ b < n + 2 /\ b < n + 3 /\ b >= 1
      /\ n + 2 < n + 3 /\ (n + 1) - 1 = n /\ (n + 2) - 1 = n + 1 /\ (n + 3) - 1 = n + 2
      /\ b + 1 = n + 2 /\ b - 2 = n - 1 /\ n - 1 \in Int /\ n - 1 < n + 1 /\ n < n + 1 /\ n \in Int
  BY <1>1
<1>9. v[n + 1] = f1 /\ t[n + 1] = f1 /\ t[n + 2] = f2 /\ Agree(s, t, n + 1)
  <2>1. v[n + 1] = f1
    BY <1>1, <1>4, <1>6 DEF Agree
  <2>2. t[n + 1] = f1 /\ t[n + 2] = f2
    BY <1>1, <1>6, <1>7, <2>1 DEF Agree
  <2>3. Agree(s, t, n + 1)
    <3>1. \A i \in 1 .. (n + 1) - 1 : /\ i \in 1 .. (n + 2) - 1 /\ i \in 1 .. (n + 3) - 1
                                      /\ u[i] = s[i]
      BY <1>1, <1>4 DEF Agree
    <3> QED BY <1>6, <1>7, <3>1 DEF Agree
  <2> QED BY <2>1, <2>2, <2>3
<1>10. Raising(t, b) /\ Saved(t, b)
  <2>1. Raising(t, b)
    BY <1>2, <1>8, <1>9 DEF Raising, IsReturn
  <2> HIDE DEF b
  <2>2. t[b] = f1 /\ t[b + 1] = f2
    BY <1>8, <1>9 DEF b
  <2>3. Saved(t, b)
    BY <1>2, <1>3, <2>2 DEF Saved
  <2> QED BY <2>1, <2>3
<1>11. Doomed(t, b) => Len(was) = 1 /\ (SavedAt(s, n) \/ pc \in Backs)
  <2>1. SavedAt(t, n) <=> SavedAt(s, n)
    BY <1>8, <1>9, AgreeReturns
  <2> QED BY <1>2, <1>8, <1>9, <2>1 DEF Doomed
<1>12. FrameNests(u, rs, n + 1)
  <2>1. ~OfC(u, n) /\ (SavedAt(s, n) => SavedAt(u, n))
    BY <1>4, <1>8, AgreeReturns
  <2>2. Abandoned(u, n + 1) \/ Addressed(u, rs, pc, n + 1, was)
    <3>1. CASE Addressed(s, rs, pc, n + 1, was)
      <4>1. NoMoreRuns(rs, rs, n + 1)
        BY DEF NoMoreRuns
      <4> QED BY <1>4, <1>8, <3>1, <4>1, AgreeAddress
    <3>2. CASE Len(was) = 1 /\ SavedAt(s, n)
      BY <1>2, <1>4, <1>8, <2>1, <3>2 DEF Abandoned, IsReturn
    <3> QED BY <3>1, <3>2
  <2>3. pc = TOP => AtTop(u, TOP, n + 1)
    <3>1. CASE Addressed(s, rs, pc, n + 1, was)
      <4>1. pc = TOP => AtTop(s, TOP, n + 1)
        BY <1>8, <3>1, TopAddress
      <4> QED BY <1>4, <1>8, <4>1, AgreeBack
    <3>2. CASE pc # TOP
      BY <3>2
    <3> QED BY <3>1, <3>2
  <2> QED BY <1>2, <1>4, <1>8, <2>1, <2>2, <2>3 DEF FrameNests
<1>13. Deep(u, rs)
  BY <1>4, <1>12, DeepAppend DEF u
<1>14. FrameNests(v, rs, n + 2)
  <2>1. ~OfC(v, n + 1)
    BY <1>2, <1>9 DEF OfC
  <2> QED BY <1>3, <1>6, <1>8, <2>1 DEF FrameNests
<1>15. Deep(v, rs)
  <2>1. v = Append(u, f2) /\ Len(u) + 1 = n + 2
    BY <1>4, <1>8 DEF v
  <2> QED BY <1>4, <1>13, <1>14, <2>1, DeepAppend
<1>16. FrameNests(t, rs, n + 3)
  <2>1. ~OfC(t, n + 2)
    BY <1>3, <1>9 DEF OfC, IsReturn
  <2> QED BY <1>7, <1>8, <2>1 DEF FrameNests
<1>17. Deep(t, rs)
  <2>1. t = Append(v, f3) /\ Len(v) + 1 = n + 3
    BY <1>5, <1>6, <1>8
  <2> QED BY <1>6, <1>15, <1>16, <2>1, DeepAppend
<1> QED BY <1>1, <1>2, <1>7, <1>9, <1>10, <1>11, <1>17

(* A handler of the program's is set where there is a prompt.              *)
LEMMA HandlerInside ==
    ASSUME NEW s, NEW c, NEW hs, NEW rs, Sound(s, c, hs, rs), Deep(s, rs),
           NEW p \in Positions(s, "trap"), s[p].h \in Handlers
    PROVE  InRun(s, Len(s) + 1) /\ InLoad(s, Len(s) + 1)
<1> DEFINE n == Len(s)
           q == HolePos(hs, 1)
<1>1. IsSeq(s) /\ IsSeq(hs) /\ n \in Nat /\ Len(hs) \in Nat
  BY SoundFacts
<1>2. p \in 1 .. n
  BY <1>1, SeqLen DEF Positions
<1>3. hs # << >> /\ q < p
  BY Chains DEF PromptBelow
<1>4. 1 \in 1 .. Len(hs)
  <2>1. Len(hs) # 0
    BY <1>1, <1>3, SeqShort, SeqSame
  <2> QED BY <1>1, <2>1
<1>5. q \in 6 .. n + 1 /\ CodeAt(s, c, q) = TOP
  BY <1>4, SoundFacts
<1> HIDE DEF q
<1>6. q \in 1 .. n /\ q \in Int /\ q <= n + 1 /\ q # n + 1 /\ n + 1 \in Int
  BY <1>1, <1>2, <1>3, <1>5
<1>7. s[q].m = "return" /\ s[q].code = TOP
  <2>1. TOP # << >>
    <3>1. Len(TOP) = 1
      BY SeqShort DEF TOP
    <3> QED BY <3>1, SeqShort
  <2> QED BY <1>5, <1>6, <2>1 DEF CodeAt
<1>8. AtTop(s, TOP, q)
  BY <1>6, <1>7 DEF Deep, FrameNests
<1>9. InRun(s, q) /\ InLoad(s, q)
  BY <1>6, <1>8, ActsTop DEF AtTop
<1>10. Agree(s, s, q)
  BY DEF Agree
<1> QED BY <1>6, <1>9, <1>10, InsideMore


(* The care of the next handler.                                           *)
LEMMA CareFollows ==
    ASSUME NEW s, NEW c, NEW hs, NEW rs, Sound(s, c, hs, rs), Deep(s, rs),
           NEW p \in Positions(s, "trap")
    PROVE  /\ BaseTrap(s[p]) /\ BaseTrap(NextInCare(s, p)) /\ NextInCare(s, p).m = "trap"
           /\ s[p].h = "default" => NextInCare(s, p).h = "restart"
           /\ s[p].h = "restart" => NextInCare(s, p).h = "reset"
<1> DEFINE q == s[p].next
<1>1. IsSeq(s) /\ q \in Positions(s, "trap")
  BY SoundFacts, Chains
<1>2. \A i \in Positions(s, "trap") : BaseTrap(s[i])
  <2> SUFFICES ASSUME NEW i \in Positions(s, "trap") PROVE BaseTrap(s[i])
    OBVIOUS
  <2>1. i \in 1 .. Len(s) /\ s[i].m = "trap"
    BY <1>1, SeqLen DEF Positions
  <2> QED BY <2>1 DEF Deep, FrameNests
<1>3. /\ NextInCare(s, p).m = "trap" /\ NextInCare(s, p).h = s[q].h
      /\ NextInCare(s, p).type = s[q].type /\ NextInCare(s, p).next = s[q].next
  BY DEF NextInCare, Trap
<1>4. s[1].h = "reset" /\ s[2].h = "restart"
  <2>1. s[1] = Base[1] /\ s[2] = Base[2]
    <3>1. Len(Base) = 5
      BY DEF Base
    <3> QED BY <3>1 DEF Sound
  <2>2. Base[1].h = "reset" /\ Base[2].h = "restart"
    BY DEF Base, Trap
  <2> QED BY <2>1, <2>2
<1>5. s[p].h = "default" => q = 2
  BY <1>2, VMStackAssumption DEF BaseTrap
<1>6. s[p].h = "restart" => q = 1
  BY <1>2, VMStackAssumption DEF BaseTrap
<1>7. BaseTrap(NextInCare(s, p))
  <2>1. BaseTrap(s[q])
    BY <1>1, <1>2
  <2> QED BY <1>3, <2>1 DEF BaseTrap
<1> QED BY <1>2, <1>3, <1>4, <1>5, <1>6, <1>7

(* Raising a condition where the address is a good one, or may be doomed   *)
(* and the handler found is one that does not return.                      *)
LEMMA RaiseNests ==
    ASSUME NEW s, NEW pc, Sound(s, pc, holes, runs), Deep(s, runs), ~OfC(s, Len(s)),
           NEW kind, NEW c, NEW continuable, NEW func, Raise(kind, c, continuable, func, s, pc),
           NEW p, p = Match(s, IF kind = "raise" THEN FindMarker(s, "trap") ELSE FindMaxTrap(s), c),
           NEW was, was = WasOf(kind),
           \/ Addressed(s, runs, pc, Len(s) + 1, was)
           \/ kind # "signal" /\ SavedAt(s, Len(s)) /\ pc # TOP,
           kind # "signal" /\ continuable /\ (SavedAt(s, Len(s)) \/ pc \in Backs) =>
               s[p].h \in {"reset"} \cup (Handlers \ Returners)
               \/ (s[p].h \in {"default", "restart"} /\ c # "SIGCHLD")
    PROVE  Settled' /\ mode' = mode
<1> DEFINE n == Len(s)
           h == s[p].h
<1>1. IsSeq(s) /\ n \in Nat /\ p \in Positions(s, "trap")
  BY SoundFacts, Matched
<1> DEFINE f1 == Return(pc, WasOf(kind))
           f2 == SaveOf(kind)
           f3 == NextInCare(s, p)
           x == WayOf(kind, continuable)
           t == Append(Append(Append(s, f1), f2), f3)
           a == Len(t) + 1
           ins == IF h \in Returners THEN <<"RETURN">> ELSE <<"TRAP-RETURN", s[p].hole>>
           body == << <<"EXPR", a>>, ins >>
           g == Return(x, << >>)
<1>2. runs' = runs /\ mode' = mode /\ Makes(t, x, s[p], c, regs')
  BY <1>1, RaiseMakes
<1>3. /\ BaseTrap(f3) /\ f3.m = "trap"
      /\ h = "default" => f3.h = "restart"
      /\ h = "restart" => f3.h = "reset"
  BY <1>1, CareFollows
<1>4. /\ kind = "signal" => Len(was) = 2 /\ was[1] = frame /\ was[2] = regs /\ x = IHR
      /\ kind # "signal" => Len(was) = 1 /\ was[1] = frame /\ x \in {CHR, NCE}
      /\ kind # "signal" /\ x # NCE => continuable
      /\ x \in Backs /\ f1 = Return(pc, was)
  BY SeqShort DEF Backs, WasOf, WayOf
<1>5. \/ h \in Handlers /\ stack' = Append(t, g) /\ code' = body /\ frame' = a
      \/ h \notin Handlers /\ stack' = t /\ code' = << <<"PRIMITIVE", h, c>> >> \o x
  BY <1>2 DEF Makes
<1>6. runs' = runs /\ mode' = mode
  BY <1>2
<1>7. h \in Handlers => InRun(s, n + 1) /\ InLoad(s, n + 1)
  BY <1>1, HandlerInside
<1>8. /\ IsSeq(t) /\ Len(t) = n + 3 /\ Deep(t, runs)
      /\ Agree(s, t, n + 1) /\ t[n + 3] = f3
      /\ Raising(t, n + 1) /\ Saved(t, n + 1) /\ t[n + 1].was = was
      /\ Doomed(t, n + 1) => Len(was) = 1 /\ (SavedAt(s, n) \/ pc \in Backs)
  <2>1. Len(was) \in {1, 2} /\ (Len(was) = 1 <=> kind # "signal")
    BY <1>4
  <2>2. /\ Len(was) = 1 => f2 = State(was[1])
        /\ Len(was) = 2 => f2 = AllState(was[1], was[2])
    BY <1>4, <2>1 DEF SaveOf
  <2>3. \/ Addressed(s, runs, pc, n + 1, was)
        \/ Len(was) = 1 /\ SavedAt(s, n) /\ pc # TOP
    BY <2>1
  <2> DEFINE tt == t
  <2>4. tt = Append(Append(Append(s, f1), f2), f3)
    OBVIOUS
  <2>5. f1 = Return(pc, was) /\ f3.m = "trap" /\ BaseTrap(f3)
    BY <1>3, <1>4
  <2>6. IsSeq(s) /\ Deep(s, runs) /\ ~OfC(s, n)
    BY <1>1
  <2> HIDE DEF tt, f1, f2, f3
  <2>8. Saves(s, runs, pc, was, f1, f2, f3, tt)
    BY <2>1, <2>2, <2>3, <2>4, <2>5, <2>6 DEF Saves
  <2>7. /\ IsSeq(tt) /\ Len(tt) = n + 3 /\ Deep(tt, runs)
        /\ Agree(s, tt, n + 1) /\ tt[n + 3] = f3
        /\ Raising(tt, n + 1) /\ Saved(tt, n + 1) /\ tt[n + 1].was = was
        /\ Doomed(tt, n + 1) => Len(was) = 1 /\ (SavedAt(s, n) \/ pc \in Backs)
    BY <2>8, RaiseSaves
  <2> QED BY <2>7 DEF tt
<1> HIDE DEF t, g, h, x, f1, f2, f3
<1>9. Doomed(t, n + 1) /\ x # NCE =>
          h \in {"reset"} \cup (Handlers \ Returners) \/ (h \in {"default", "restart"} /\ c # "SIGCHLD")
  BY <1>4, <1>8 DEF h
<1>10. /\ n + 1 \in Int /\ n + 3 \in Nat /\ n + 4 \in Int /\ n + 5 \in Int /\ (n + 4) - 3 = n + 1
       /\ (n + 4) - 1 = n + 3 /\ n + 1 < n + 4 /\ n + 1 <= n + 5 /\ a = n + 4 /\ (n + 3) + 1 = n + 4
       /\ (n + 3) + 2 = n + 5 /\ (n + 3) - 2 = n + 1 /\ (n + 1) + 1 < n + 4 /\ n + 1 < n + 4
       /\ (n + 1) + 2 = n + 3 /\ (n + 4) + 1 = n + 5 /\ n + 4 \in Nat
  BY <1>1, <1>8
<1>11. WayBack(t, n + 1, x)
  BY <1>4, <1>8 DEF WayBack
<1>12. t[n + 3].m = "trap" /\ ~OfC(t, n + 3)
  BY <1>3, <1>8 DEF OfC, IsReturn
<1>13. CASE h \notin Handlers /\ stack' = t /\ code' = << <<"PRIMITIVE", h, c>> >> \o x
  <2>1. BaseHandler(t, code', n + 1, x)
    <3>1. t[(n + 1) + 2].h = f3.h
      BY <1>8, <1>10
    <3>2. Doomed(t, n + 1) /\ x # NCE => h = "reset" \/ (h \in {"default", "restart"} /\ c # "SIGCHLD")
      BY <1>9, <1>13
    <3> QED BY <1>3, <1>13, <3>1, <3>2 DEF BaseHandler, h
  <2>2. Handling(t, code', n + 4, <<frame', regs'>>)
    BY <1>8, <1>10, <1>11, <1>12, <2>1 DEF Handling
  <2>3. Runs(t, code', runs, <<frame', regs'>>)
    BY <1>8, <1>10, <2>2 DEF Runs, Addressed, HandlerReturn
  <2> QED BY <1>6, <1>8, <1>12, <1>13, <2>3 DEF Settled
<1>14. CASE h \in Handlers /\ stack' = Append(t, g) /\ code' = body /\ frame' = a
  <2> DEFINE u == Append(t, g)
             aa == <<a, regs'>>
  <2>1. g.m = "return" /\ g.code = x /\ g.run = 0 /\ g.was = << >>
    BY DEF Return, g
  <2>2. IsSeq(u) /\ Len(u) = n + 4 /\ u[n + 4] = g /\ Agree(t, u, n + 4)
    <3>1. IsSeq(u) /\ Len(u) = Len(t) + 1 /\ u[Len(t) + 1] = g /\ \A i \in 1 .. Len(t) : u[i] = t[i]
      BY <1>8, SeqAppend
    <3> HIDE DEF u
    <3> QED BY <1>8, <1>10, <3>1 DEF Agree
  <2>3. u = Append(t, g)
    OBVIOUS
  <2> HIDE DEF u
  <2>4. /\ ~OfC(u, n + 3) /\ Raising(u, n + 1) /\ Saved(u, n + 1) /\ u[n + 3].m = "trap"
        /\ (Doomed(u, n + 1) <=> Doomed(t, n + 1)) /\ u[n + 1] = t[n + 1]
    <3>1. ~OfC(u, n + 3) /\ u[n + 3] = t[n + 3]
      <4>1. n + 3 \in Int /\ n + 3 < n + 4 /\ n + 3 >= 1
        BY <1>1
      <4> QED BY <1>10, <1>12, <2>2, <4>1, AgreeReturns
    <3> QED BY <1>8, <1>10, <1>12, <2>2, <3>1, SavedAgree
  <2>5. WayBack(u, n + 1, x)
    BY <1>11, <2>4 DEF WayBack
  <2>6. FrameNests(u, runs, n + 4)
    <3>1. Len(<< >>) <= 1
      BY SeqShort
    <3>2. Handling(u, x, n + 4, << >>)
      BY <1>10, <2>4, <2>5, <3>1 DEF Handling
    <3>3. Addressed(u, runs, x, n + 4, << >>)
      BY <3>2 DEF Addressed, HandlerReturn
    <3>4. x # TOP
      <4>1. TOP[1][1] = "ABORT-TOP"
        BY DEF TOP
      <4>2. \A y \in Backs : y[1][1] # "ABORT-TOP"
        BY BacksFacts DEF Backs
      <4> QED BY <1>4, <4>1, <4>2
    <3> QED BY <1>10, <2>1, <2>2, <2>4, <3>3, <3>4 DEF FrameNests
  <2>7. Deep(u, runs)
    BY <1>8, <1>10, <2>3, <2>6, DeepAppend
  <2>8. ins[1] \in Leaves /\ (h \notin Returners => ins[1] = "TRAP-RETURN")
    BY DEF Leaves
  <2> HIDE DEF ins
  <2>9. Takes(body, a, << >>) /\ Len(body) = 2 /\ body[Len(body)] = ins
    BY <2>8, TakesBody
  <2> HIDE DEF a, body
  <2>10. Knows(body, aa, a)
    BY SeqShort DEF Knows
  <2> HIDE DEF aa
  <2>11. Returns(x) /\ Doomed(u, n + 1) => body[Len(body)][1] = "TRAP-RETURN"
    <3>1. {"reset", "default", "restart"} \cap Handlers = {}
      BY VMStackAssumption
    <3>2. Returns(x) /\ Doomed(u, n + 1) => h \notin Returners
      BY <1>9, <1>14, <2>4, <3>1 DEF Returns
    <3> QED BY <2>8, <2>9, <3>2
  <2>12. InRun(u, n + 5) /\ InLoad(u, n + 5)
    <3>1. InRun(t, n + 4) /\ InLoad(t, n + 4)
      <4>1. n + 1 <= n + 4
        BY <1>1
      <4> QED BY <1>7, <1>8, <1>10, <1>14, <4>1, InsideMore
    <3>2. n + 4 <= n + 5
      BY <1>1
    <3> QED BY <1>10, <2>2, <3>1, <3>2, InsideMore
  <2>13. Activation(u, body, n + 5, aa)
    <3> DEFINE k == n + 3
    <3>1. k \in Nat /\ k + 1 = n + 4 /\ k + 2 = n + 5 /\ k - 2 = n + 1
      BY <1>10
    <3>2. u[k + 1].m = "return" /\ u[k + 1].run # -1 /\ u[k + 1].was = << >> /\ u[k + 1].code = x
      BY <2>1, <2>2, <3>1
    <3> HIDE DEF k
    <3>3. Returns(u[k + 1].code) /\ Doomed(u, k - 2) => body[Len(body)][1] = "TRAP-RETURN"
      BY <2>11, <3>1, <3>2
    <3>4. Activation(u, body, k + 2, aa)
      <4>1. InRun(u, k + 2) /\ InLoad(u, k + 2) /\ Takes(body, a, << >>) /\ Knows(body, aa, a)
        BY <2>9, <2>10, <2>12, <3>1
      <4> QED BY <3>1, <3>2, <3>3, <4>1, ActsNew
    <3> QED BY <3>1, <3>4
  <2>14. Runs(u, body, runs, aa)
    BY <1>10, <2>2, <2>13 DEF Runs, Addressed
  <2>15. ~OfC(u, n + 4)
    BY <2>1, <2>2 DEF OfC
  <2> QED BY <1>6, <1>14, <2>2, <2>3, <2>7, <2>14, <2>15 DEF Settled, aa
<1> QED BY <1>5, <1>6, <1>13, <1>14


(* What is saved for a signal, or by C, is not an activation's.            *)
LEMMA ActsUnder ==
    ASSUME NEW s, IsSeq(s), NEW c, NEW was, Activation(s, c, Len(s) + 1, was)
    PROVE  ~SavedAt(s, Len(s))
<1>1. Len(s) + 1 \in Int /\ (Len(s) + 1) - 1 = Len(s)
  BY SeqLen
<1>2. ~SavedAt(s, (Len(s) + 1) - 1)
  BY <1>1, ActsTop
<1> QED BY <1>1, <1>2

(* The handler found from the top.                                         *)
LEMMA MatchedTop ==
    ASSUME NEW s, NEW pc, NEW hs, NEW rs, Sound(s, pc, hs, rs), NEW c,
           NEW p, p = Match(s, FindMarker(s, "trap"), c)
    PROVE  /\ p \in Positions(s, "trap") /\ InstanceIsa(c, s[p].type)
           /\ s[Len(s)].m = "trap" /\ s[Len(s)].type = "condition" => p = Len(s)
<1> DEFINE top == FindMarker(s, "trap")
           n == Len(s)
<1>1. IsSeq(s) /\ n \in Nat /\ n >= 5 /\ DOMAIN s = 1 .. n
  BY SoundFacts, SeqLen
<1>2. top \in Positions(s, "trap") /\ (s[n].m = "trap" => top = n)
  <2>1. 1 \in 1 .. n /\ s[1].m = "trap" /\ n \in 1 .. n
    BY <1>1, Chains DEF Positions
  <2>2. /\ top \in 0 .. n /\ (top # 0 => s[top].m = "trap")
        /\ \A i \in 1 .. n : s[i].m = "trap" => i <= top /\ top # 0
    BY <1>1, Marker
  <2> HIDE DEF top
  <2>3. ASSUME s[n].m = "trap" PROVE top = n
    <3>1. n <= top /\ top \in 0 .. n
      BY <2>1, <2>2, <2>3
    <3> HIDE DEF n
    <3> QED BY <1>1, <3>1
  <2>4. top # 0 /\ top \in 0 .. n /\ s[top].m = "trap"
    BY <2>1, <2>2
  <2>5. top \in 1 .. n
    <3> HIDE DEF n
    <3> QED BY <1>1, <2>4
  <2>6. top \in Positions(s, "trap")
    BY <1>1, <2>4, <2>5 DEF Positions
  <2> QED BY <2>3, <2>6
<1>3. \A q \in Positions(s, "trap") :
         InstanceIsa(c, s[q].type) \/ (s[q].next \in Positions(s, "trap") /\ s[q].next < q)
  <2> SUFFICES ASSUME NEW q \in Positions(s, "trap")
               PROVE  InstanceIsa(c, s[q].type) \/ (s[q].next \in Positions(s, "trap") /\ s[q].next < q)
    OBVIOUS
  <2>1. CASE q = 1
    BY <2>1, Chains DEF InstanceIsa
  <2>2. CASE q # 1
    <3>1. q > 1
      BY <1>1, <2>2 DEF Positions
    <3> QED BY <3>1, Chains
  <2> QED BY <2>1, <2>2
<1>4. s[n].type = "condition" => InstanceIsa(c, s[n].type)
  BY DEF InstanceIsa
<1> HIDE DEF top
<1>5. /\ Match(s, top, c) \in Positions(s, "trap") /\ InstanceIsa(c, s[Match(s, top, c)].type)
      /\ InstanceIsa(c, s[top].type) => Match(s, top, c) = top
  BY <1>1, <1>2, <1>3, MatchFacts
<1>6. p = Match(s, top, c)
  BY DEF top
<1> QED BY <1>2, <1>4, <1>5, <1>6

(* What an error in C meets.                                               *)
LEMMA ErrorMeets ==
    ASSUME CallbackErrors = FALSE, NEW s, NEW pc, NEW hs, NEW rs, Sound(s, pc, hs, rs), Deep(s, rs),
           MayFail(s, "error"), NEW p, p = Match(s, FindMarker(s, "trap"), "error")
    PROVE  s[p].h \in {"reset"} \cup (Handlers \ Returners) \/ s[p].h \in {"default", "restart"}
<1>1. p \in Positions(s, "trap") /\ InstanceIsa("error", s[p].type)
  BY MatchedTop
<1>2. BaseTrap(s[p])
  BY <1>1, CareFollows
<1>3. s[p].h \notin Returners
  BY DEF MayFail
<1>4. s[p].type # "SIGCHLD"
  BY <1>1 DEF InstanceIsa
<1> QED BY <1>2, <1>3, <1>4 DEF BaseTrap

(* The address an expression's primitive returns to.                       *)
LEMMA RefActs ==
    ASSUME NInv, mode = "run", code[1][1] = "EXPR", NEW pc, pc = Reference \o Rest
    PROVE  /\ Activation(stack, pc, Len(stack) + 1, <<frame>>)
           /\ \A r : Activation(stack, pc, Len(stack) + 1, <<frame, r>>)
           /\ pc \notin Backs /\ pc # TOP /\ ~SavedAt(stack, Len(stack))
           /\ Sound(stack, pc, holes, runs) /\ Fits(pc, holes, runs, Len(stack) + 1)
           /\ InRun(stack, Len(stack) + 1) /\ InLoad(stack, Len(stack) + 1)
<1> DEFINE n == Len(stack)
           was == <<frame, regs>>
<1>1. /\ IsSeq(stack) /\ n \in Nat /\ Runs(stack, code, runs, was) /\ Deep(stack, runs)
      /\ Steady
  BY AtNesting
<1>2. PICK b, own, w : ActsAt(stack, code, n + 1, was, b, own, w)
  BY <1>1, RunsAs DEF Activation
<1>3. /\ Takes(code, own, w) /\ code[1][1] \notin Leaves /\ code[1][1] \in Uses
      /\ InRun(stack, n + 1) /\ (Len(code) = 1 \/ InLoad(stack, n + 1))
  BY <1>2 DEF ActsAt, Leaves, Uses
<1>4. /\ Len(code) \in Nat /\ Len(code) >= 2 /\ Rest[Len(Rest)] = code[Len(code)]
      /\ code[1][2] = own /\ Rest[1][1] \notin Uses
      /\ \E v : Step(code[1], w, v) /\ Takes(Rest, own, v)
  BY <1>3, TakesRest DEF Rest
<1>5. Takes(Rest, own, w) /\ own = frame
  <2>1. PICK v : Step(code[1], w, v) /\ Takes(Rest, own, v)
    BY <1>4
  <2>2. v = w
    BY <2>1 DEF Step, PopsOf, PushesOf
  <2>3. own = frame
    BY <1>2, <1>3 DEF ActsAt
  <2> QED BY <2>1, <2>2, <2>3
<1>6. Takes(pc, own, w) /\ IsSeq(pc) /\ Len(pc) # 1 /\ pc[Len(pc)] = code[Len(code)]
      /\ pc[1][1] = "REF"
  <2> DEFINE r == <<"REF", own>>
  <2>1. pc = <<r>> \o Rest /\ r[1] = "REF"
    BY <1>4 DEF Reference, Self
  <2>2. Takes(<<r>> \o Rest, own, w)
    BY <1>4, <1>5, TakesForms
  <2>3. IsSeq(Rest) /\ Len(Rest) # 0
    BY <1>5 DEF Takes
  <2> HIDE DEF r
  <2>4. /\ IsSeq(pc) /\ Len(pc) = Len(Rest) + 1 /\ Len(Rest) \in Nat /\ pc[1] = r
        /\ \A i \in 1 .. Len(Rest) : pc[i + 1] = Rest[i]
    BY <2>1, <2>3, SeqCons
  <2>5. pc[Len(pc)] = Rest[Len(Rest)] /\ Len(pc) # 1
    BY <2>3, <2>4
  <2> QED BY <1>4, <2>1, <2>2, <2>4, <2>5
<1>7. ASSUME NEW was2, Len(was2) >= 1, was2[1] = frame PROVE Activation(stack, pc, n + 1, was2)
  <2>1. Knows(pc, was2, own)
    BY <1>5, <1>7 DEF Knows
  <2>2. Len(code) # 1 /\ n + 1 \in Int
    BY <1>1, <1>4
  <2>3. ActsAt(stack, pc, n + 1, was2, b, own, w)
    BY <1>2, <1>6, <2>1, <2>2, ActsStay
  <2> QED BY <2>3 DEF Activation
<1>8. Activation(stack, pc, n + 1, <<frame>>)
  <2> DEFINE x == <<frame>>
  <2>1. Len(x) >= 1 /\ x[1] = frame
    BY SeqShort
  <2> HIDE DEF x
  <2>2. Activation(stack, pc, n + 1, x)
    BY <1>7, <2>1
  <2> QED BY <2>2 DEF x
<1>13. ASSUME NEW r PROVE Activation(stack, pc, n + 1, <<frame, r>>)
  <2> DEFINE x == <<frame, r>>
  <2>1. Len(x) >= 1 /\ x[1] = frame
    BY SeqShort
  <2> HIDE DEF x
  <2>2. Activation(stack, pc, n + 1, x)
    BY <1>7, <2>1
  <2> QED BY <2>2 DEF x
<1>9. pc \notin Backs /\ pc # TOP
  <2>1. TOP[1][1] = "ABORT-TOP"
    BY DEF TOP
  <2>2. \A x \in Backs : x[1][1] # "REF"
    BY BacksFacts DEF Backs
  <2> QED BY <1>6, <2>1, <2>2
<1>10. ~SavedAt(stack, n)
  BY <1>1, <1>8, ActsUnder
<1>11. Fits(pc, holes, runs, n + 1) /\ Sound(stack, pc, holes, runs)
  <2>1. code[1][1] \notin Special /\ code[1][1] \notin Ends
    BY DEF Special, Ends
  <2>2. Fits(Rest, holes, runs, n + 1) /\ code # TOP /\ code # FIN
    BY <1>1, <2>1, Ordinary
  <2>3. Easy(<<"REF", Self>>)
    BY DEF Easy, InstructionOK
  <2>4. Fits(pc, holes, runs, n + 1)
    BY <2>2, <2>3, HarmlessShort, MoreFits DEF Reference
  <2>5. Sound(stack, pc, holes, runs)
    BY <1>1, <2>2, <2>4, Continue DEF Steady
  <2> QED BY <2>4, <2>5
<1>12. InLoad(stack, n + 1)
  BY <1>3, <1>4
<1> QED BY <1>3, <1>8, <1>9, <1>10, <1>11, <1>12, <1>13

-----------------------------------------------------------------------------
(* The conditions that are raised.                                         *)

(* The frames C pushes to call a function.                                 *)
LEMMA InvokedDeep ==
    ASSUME NEW s, IsSeq(s), NEW rs, Deep(s, rs), ~OfC(s, Len(s)), NEW pc, pc # TOP, NEW g,
           g.m = "all-state"
    PROVE  LET t == Append(Append(s, CReturn(pc)), g)
           IN /\ IsSeq(t) /\ Len(t) = Len(s) + 2 /\ Len(s) \in Nat /\ Deep(t, rs)
              /\ OfC(t, Len(s) + 1) /\ ~OfC(t, Len(s) + 2) /\ Agree(s, t, Len(s) + 1)
              /\ t[Len(s) + 1] = CReturn(pc) /\ t[Len(s) + 2] = g
<1> DEFINE n == Len(s)
           f == CReturn(pc)
           sa == Append(s, f)
           t == Append(sa, g)
<1>1. n \in Nat /\ (n + 1) - 1 = n /\ (n + 2) - 1 = n + 1 /\ n + 1 \in Int /\ n + 2 \in Int /\ n < n + 1
      /\ n + 1 < n + 2 /\ n + 1 >= 1 /\ n \in Int
  BY SeqLen
<1>2. f.m = "return" /\ f.code = pc /\ f.run = -1
  BY DEF CReturn
<1> HIDE DEF f
<1>3. IsSeq(sa) /\ Len(sa) = n + 1 /\ sa[n + 1] = f /\ Agree(s, sa, n + 1)
  BY <1>1, SeqAppend DEF Agree
<1>4. FrameNests(sa, rs, n + 1)
  <2>1. ~OfC(sa, n)
    BY <1>1, <1>3, AgreeReturns
  <2> QED BY <1>1, <1>2, <1>3, <2>1 DEF FrameNests
<1>5. Deep(sa, rs)
  BY <1>3, <1>4, DeepAppend
<1>6. OfC(sa, n + 1)
  BY <1>1, <1>2, <1>3 DEF OfC, IsReturn
<1> HIDE DEF sa
<1>7. IsSeq(t) /\ Len(t) = n + 2 /\ t[n + 2] = g /\ Agree(sa, t, n + 2)
  <2>1. IsSeq(t) /\ Len(t) = Len(sa) + 1 /\ t[Len(sa) + 1] = g /\ \A i \in 1 .. Len(sa) : t[i] = sa[i]
    BY <1>3, SeqAppend
  <2>2. Len(sa) + 1 = n + 2 /\ (n + 2) - 1 = Len(sa)
    BY <1>1, <1>3
  <2> HIDE DEF t
  <2> QED BY <2>1, <2>2 DEF Agree
<1>8. FrameNests(t, rs, n + 2)
  BY <1>7 DEF FrameNests
<1>9. Deep(t, rs)
  <2>1. Len(sa) + 1 = n + 2
    BY <1>1, <1>3
  <2> QED BY <1>3, <1>5, <1>8, <2>1, DeepAppend
<1> HIDE DEF t, n
<1>10. OfC(t, n + 1)
  BY <1>1, <1>6, <1>7, AgreeReturns
<1>11. ~OfC(t, n + 2)
  BY <1>7 DEF OfC, IsReturn
<1>12. Agree(s, t, n + 1)
  <2>1. \A i \in 1 .. n : i \in 1 .. n + 1
    BY <1>1
  <2> QED BY <1>1, <1>3, <1>7, <2>1 DEF Agree
<1>13. t[n + 1] = f
  <2>1. n + 1 \in 1 .. n + 1
    BY <1>1
  <2> QED BY <1>1, <1>3, <1>7, <2>1 DEF Agree
<1> QED BY <1>1, <1>7, <1>9, <1>10, <1>11, <1>12, <1>13 DEF t, n, sa, f

(* The primitives that raise.                                              *)
LEMMA RaiseFormNests ==
    ASSUME NInv, RaiseForm \/ ReraiseForm
    PROVE  Settled' /\ mode' = mode
<1> DEFINE pc == Reference \o Rest
           n == Len(stack)
<1>1. mode = "run" /\ code[1][1] = "EXPR" /\ code[1][1] # "EXIT"
  BY DEF RaiseForm, ReraiseForm, At
<1>2. \/ \E c \in Conditions, continuable \in BOOLEAN :
            Raise("raise", c, continuable, TRUE, stack, pc)
      \/ Raise("reraise", "error", TRUE, TRUE, stack, pc)
  BY DEF RaiseForm, ReraiseForm
<1>3. pc = Reference \o Rest
  OBVIOUS
<1> HIDE DEF pc
<1>4. /\ Activation(stack, pc, n + 1, <<frame>>) /\ Sound(stack, pc, holes, runs)
      /\ pc \notin Backs /\ ~SavedAt(stack, n)
  BY <1>1, <1>3, RefActs
<1>5. Deep(stack, runs) /\ ~OfC(stack, n)
  BY <1>1, AtNesting
<1>6. ASSUME NEW kind \in {"raise", "reraise"}, NEW c, NEW continuable,
             Raise(kind, c, continuable, TRUE, stack, pc)
      PROVE  Settled' /\ mode' = mode
  <2> DEFINE p == Match(stack, IF kind = "raise" THEN FindMarker(stack, "trap") ELSE FindMaxTrap(stack), c)
             was == WasOf(kind)
  <2>1. was = <<frame>>
    BY <1>6 DEF WasOf
  <2>2. Addressed(stack, runs, pc, n + 1, was)
    BY <1>4, <2>1 DEF Addressed
  <2> HIDE DEF p, was
  <2>3. p = Match(stack, IF kind = "raise" THEN FindMarker(stack, "trap") ELSE FindMaxTrap(stack), c)
        /\ was = WasOf(kind)
    BY DEF p, was
  <2>4. kind # "signal" /\ continuable /\ (SavedAt(stack, n) \/ pc \in Backs) =>
               stack[p].h \in {"reset"} \cup (Handlers \ Returners)
               \/ (stack[p].h \in {"default", "restart"} /\ c # "SIGCHLD")
    BY <1>4
  <2> DEFINE func == TRUE
  <2>5. Raise(kind, c, continuable, func, stack, pc)
    BY <1>6
  <2> HIDE DEF func
  <2> QED BY <1>4, <1>5, <2>2, <2>3, <2>4, <2>5, RaiseNests
<1> QED BY <1>2, <1>6

(* An error in C, over the frames C pushed.                                *)
LEMMA ErrorNests ==
    ASSUME CallbackErrors = FALSE, NEW s, NEW pc, Sound(s, pc, holes, runs), Deep(s, runs),
           ~OfC(s, Len(s)), SavedAt(s, Len(s)), pc # TOP, NEW continuable, NEW func,
           continuable => MayFail(s, "error"),
           Raise("raise", "error", continuable, func, s, pc)
    PROVE  Settled' /\ mode' = mode
<1> DEFINE p == Match(s, FindMarker(s, "trap"), "error")
           was == WasOf("raise")
           kind == "raise"
           c == "error"
<1>1. continuable => s[p].h \in {"reset"} \cup (Handlers \ Returners)
                       \/ s[p].h \in {"default", "restart"}
  BY ErrorMeets
<1>2. p = Match(s, IF kind = "raise" THEN FindMarker(s, "trap") ELSE FindMaxTrap(s), c)
      /\ was = WasOf(kind) /\ kind # "signal" /\ c # "SIGCHLD" /\ Raise(kind, c, continuable, func, s, pc)
  OBVIOUS
<1> HIDE DEF p, was, kind, c
<1> QED BY <1>1, <1>2, RaiseNests

(* A primitive called back fails, or what C does after it.                 *)
LEMMA CallbackFailsNests ==
    ASSUME CallbackErrors = FALSE, NInv, CallbackFails
    PROVE  Settled' /\ mode' = mode
<1> DEFINE pc == Reference \o Rest
           n == Len(stack)
<1>1. mode = "run" /\ code[1][1] = "EXPR" /\ code[1][1] # "EXIT"
      /\ code[1][1] \notin Special
  BY DEF CallbackFails, At, Special
<1>2. pc = Reference \o Rest
  OBVIOUS
<1>11. PICK continuable \in BOOLEAN, r \in {regs, Callable} :
           /\ continuable => MayFail(Invoked(r), "error")
           /\ Raise("raise", "error", continuable, r.func, Invoked(r), pc)
  BY DEF CallbackFails
<1> DEFINE g == AllState(frame, r)
           s == Append(Append(stack, CReturn(pc)), g)
<1> HIDE DEF pc
<1>3. pc # TOP /\ Fits(pc, holes, runs, n + 1)
  BY <1>1, <1>2, RefActs
<1>4. Deep(stack, runs) /\ ~OfC(stack, n) /\ Steady /\ IsSeq(stack) /\ n \in Nat
  BY <1>1, AtNesting
<1>5. Sound(s, pc, holes, runs)
  <2>1. WellTyped
    BY <1>4 DEF Steady
  <2>2. r \in Registers
    BY <2>1, CallableTyped DEF WellTyped
  <2> QED BY <1>1, <1>3, <1>4, <2>2, InvokedSound
<1>6. g.m = "all-state"
  BY DEF AllState
<1>7. Invoked(r) = s
  BY <1>4, SeqAppends DEF Invoked, pc
<1> HIDE DEF g
<1>8. /\ Len(s) = n + 2 /\ Deep(s, runs) /\ ~OfC(s, n + 2) /\ s[n + 2] = g
  BY <1>3, <1>4, <1>6, InvokedDeep
<1> DEFINE func == r.func
<1>9. (continuable => MayFail(s, "error")) /\ Raise("raise", "error", continuable, func, s, pc)
  BY <1>7, <1>11
<1> HIDE DEF s, func
<1>10. ~OfC(s, Len(s)) /\ SavedAt(s, Len(s))
  BY <1>4, <1>6, <1>8 DEF SavedAt
<1> QED BY <1>3, <1>5, <1>8, <1>9, <1>10, ErrorNests

(* The evaluator finds a mistake.                                          *)
LEMMA EvaluateFailsNests ==
    ASSUME CallbackErrors = FALSE, NInv, EvaluateFails
    PROVE  Settled' /\ mode' = mode
<1> DEFINE n == Len(stack)
<1>1. mode = "run" /\ code[1][1] = "EVALUATE" /\ code[1][1] # "EXIT"
  BY DEF EvaluateFails, At
<1>2. /\ Steady /\ Deep(stack, runs) /\ ~OfC(stack, n) /\ IsSeq(stack)
      /\ Runs(stack, code, runs, <<frame, regs>>)
  BY <1>1, AtNesting
<1>3. Evaluator(stack, code)
  BY <1>1, <1>2, RunsAs
<1>4. SavedAt(stack, n)
  BY <1>3 DEF Evaluator, SavedAt
<1>5. Evaluating(stack, code, holes, runs) /\ code # TOP /\ code # FIN
  <2>1. FIN[1][1] = "FINISH" /\ TOP[1][1] = "ABORT-TOP"
    BY DEF FIN, TOP
  <2> QED BY <1>1, <1>2, <2>1, Running DEF Steady
<1>6. Fits(Rest, holes, runs, n + 1)
  BY <1>5 DEF Evaluating, Rest
<1>7. Sound(stack, Rest, holes, runs) /\ Rest # TOP
  BY <1>2, <1>5, <1>6, Continue, PlainIsNeither DEF Steady, Fits
<1>8. PICK continuable \in BOOLEAN, func \in {TRUE, Restorable(regs)} :
          /\ continuable => MayFail(stack, "error")
          /\ Raise("raise", "error", continuable, func, stack, Rest)
  BY DEF EvaluateFails
<1> QED BY <1>2, <1>4, <1>7, <1>8, ErrorNests

(* A value that cannot be invoked becomes FUNC.                            *)
LEMMA PopFunctionNests ==
    ASSUME NInv, PopFunction
    PROVE  Settled' /\ mode' = mode
<1> DEFINE n == Len(stack)
           was == <<frame, regs>>
           was2 == <<frame', regs'>>
           ins == <<"FUNCTION-INVOKE">>
           c2 == <<ins>> \o Rest
<1>1. /\ mode = "run" /\ code[1][1] = "CALL" /\ code[1][1] # "EXIT"
      /\ code' = c2 /\ UNCHANGED <<stack, runs, mode>>
  BY DEF PopFunction, At
<1>2. /\ IsSeq(stack) /\ n \in Nat /\ Deep(stack, runs) /\ ~OfC(stack, n)
      /\ Runs(stack, code, runs, was)
  BY <1>1, AtNesting
<1>3. PICK b, own, w : ActsAt(stack, code, n + 1, was, b, own, w)
  <2>1. Activation(stack, code, n + 1, was)
    BY <1>1, <1>2, RunsAs
  <2> QED BY <2>1 DEF Activation
<1>4. Takes(code, own, w) /\ code[1][1] \notin Leaves
  BY <1>1, <1>3 DEF ActsAt, Leaves
<1>5. PICK v : Step(code[1], w, v) /\ Takes(Rest, own, v)
  BY <1>4, TakesRest DEF Rest
<1>6. /\ Rest[1][1] = "RESTORE-STATE" /\ Rest[Len(Rest)] = code[Len(code)]
      /\ Len(code) \in Nat /\ Len(code) >= 2
  BY <1>1, <1>4, TakesRest DEF Rest
<1>7. v = w /\ IsSeq(w)
  BY <1>1, <1>4, <1>5 DEF Step, Takes, PopsOf, PushesOf
<1>8. /\ ins[1] = "FUNCTION-INVOKE" /\ ins[1] \in Program \ Leaves /\ ins[1] \notin Uses
      /\ ins[1] \notin {"EXPR", "REF", "POP-ABORT"} /\ Step(ins, w, w)
      /\ Rest[1][1] \notin Uses
  BY <1>6 DEF Program, Leaves, Uses, Step, PopsOf, PushesOf
<1> HIDE DEF ins, was
<1>9. Takes(c2, own, w)
  BY <1>5, <1>6, <1>7, <1>8, TakesMore
<1>10. c2[1] = ins /\ c2[Len(c2)] = Rest[Len(Rest)]
  <2>1. IsSeq(Rest) /\ Len(Rest) # 0
    BY <1>5 DEF Takes
  <2>2. /\ Len(c2) = Len(Rest) + 1 /\ Len(Rest) \in Nat /\ c2[1] = ins
        /\ \A i \in 1 .. Len(Rest) : c2[i + 1] = Rest[i]
    BY <2>1, SeqCons
  <2> QED BY <2>1, <2>2
<1> HIDE DEF c2, was2
<1>11. Knows(c2, was2, own)
  BY <1>8, <1>10 DEF Knows
<1>12. Activation(stack, c2, n + 1, was2)
  <2>1. n + 1 \in Int /\ Len(code) # 1
    BY <1>2, <1>6
  <2>2. ActsAt(stack, c2, n + 1, was2, b, own, w)
    BY <1>3, <1>6, <1>9, <1>10, <1>11, <2>1, ActsStay
  <2> QED BY <2>2 DEF Activation
<1>13. Runs(stack, c2, runs, was2)
  BY <1>12 DEF Runs, Addressed
<1> QED BY <1>1, <1>2, <1>13 DEF Settled, was2

(* It cannot be invoked.                                                   *)
LEMMA FunctionInvokeNests ==
    ASSUME NInv, FunctionInvoke
    PROVE  Settled' /\ mode' = mode
<1> DEFINE n == Len(stack)
           was0 == <<frame, regs>>
           was == WasOf("raise")
           kind == "raise"
           c == "error"
           continuable == TRUE
           func == FALSE
           p == Match(stack, FindMarker(stack, "trap"), "error")
<1>1. /\ mode = "run" /\ code[1][1] = "FUNCTION-INVOKE" /\ code[1][1] # "EXIT"
      /\ code[1][1] \notin Special /\ code[1][1] \notin Ends
      /\ Raise(kind, c, continuable, func, stack, Rest)
  BY DEF FunctionInvoke, At, Special, Ends
<1>2. /\ Steady /\ IsSeq(stack) /\ n \in Nat /\ Deep(stack, runs) /\ ~OfC(stack, n)
      /\ Runs(stack, code, runs, was0)
  BY <1>1, AtNesting
<1>3. Activation(stack, code, n + 1, was0)
  BY <1>1, <1>2, RunsAs
<1>4. PICK b, own, w : ActsAt(stack, code, n + 1, was0, b, own, w)
  BY <1>3 DEF Activation
<1>5. Takes(code, own, w) /\ code[1][1] \notin Leaves
  BY <1>1, <1>4 DEF ActsAt, Leaves
<1>6. PICK v : Step(code[1], w, v) /\ Takes(Rest, own, v)
  BY <1>5, TakesRest DEF Rest
<1>7. /\ Rest[1][1] = "RESTORE-STATE" /\ Rest[Len(Rest)] = code[Len(code)]
      /\ Len(code) \in Nat /\ Len(code) >= 2
  BY <1>1, <1>5, TakesRest DEF Rest
<1>8. v = w
  BY <1>1, <1>6 DEF Step, PopsOf, PushesOf
<1>9. Rest \notin Backs /\ Rest # TOP
  <2>1. TOP[1][1] = "ABORT-TOP"
    BY DEF TOP
  <2>2. \A x \in Backs : x[1][1] # "RESTORE-STATE"
    BY BacksFacts DEF Backs
  <2> QED BY <1>7, <2>1, <2>2
<1> HIDE DEF was0
<1>10. ~SavedAt(stack, n)
  BY <1>2, <1>3, ActsUnder
<1>11. was = WasOf(kind) /\ kind # "signal"
       /\ p = Match(stack, IF kind = "raise" THEN FindMarker(stack, "trap") ELSE FindMaxTrap(stack), c)
  OBVIOUS
<1> HIDE DEF was, kind, c, continuable, func, p
<1>12. Activation(stack, Rest, n + 1, was)
  <2>1. Knows(Rest, was, own)
    BY <1>7 DEF Knows, Uses
  <2>2. n + 1 \in Int /\ Len(code) # 1
    BY <1>2, <1>7
  <2>3. ActsAt(stack, Rest, n + 1, was, b, own, w)
    BY <1>4, <1>6, <1>7, <1>8, <2>1, <2>2, ActsStay
  <2> QED BY <2>3 DEF Activation
<1>13. Addressed(stack, runs, Rest, n + 1, was)
  BY <1>12 DEF Addressed
<1>14. Sound(stack, Rest, holes, runs)
  BY <1>1, <1>2, Ordinary, Continue DEF Steady
<1> QED BY <1>1, <1>2, <1>9, <1>10, <1>11, <1>13, <1>14, RaiseNests

(* FUNC fails idio_vm_restore_all_state.                                   *)
LEMMA RestoreFailsNests ==
    ASSUME CallbackErrors = FALSE, NInv, RestoreAllStateFails \/ InvokeCFails
    PROVE  Settled' /\ mode' = mode
<1> DEFINE n == Len(stack)
           continuable == FALSE
           func == FALSE
           pc == IF code[1][1] = "RESTORE-ALL-STATE" THEN Rest ELSE code
<1>1. /\ mode = "run" /\ code[1][1] \in {"RESTORE-ALL-STATE", "INVOKE-C-DONE"} /\ code[1][1] # "EXIT"
      /\ code[1][1] \notin Special
      /\ Top.m = "all-state" /\ Raise("raise", "error", continuable, func, stack, pc)
  BY DEF RestoreAllStateFails, InvokeCFails, At, Special
<1>2. /\ Steady /\ IsSeq(stack) /\ n \in Nat /\ n >= 5 /\ Deep(stack, runs) /\ ~OfC(stack, n)
      /\ Sound(stack, code, holes, runs)
  BY <1>1, AtNesting
<1>3. SavedAt(stack, n)
  BY <1>1, <1>2 DEF SavedAt, Top
<1>4. pc # TOP /\ Sound(stack, pc, holes, runs)
  <2>1. CASE code[1][1] = "INVOKE-C-DONE"
    <3>1. TOP[1][1] = "ABORT-TOP"
      BY DEF TOP
    <3> QED BY <1>2, <2>1, <3>1
  <2>2. CASE code[1][1] = "RESTORE-ALL-STATE"
    <3>1. code[1][1] \notin Ends
      BY <2>2 DEF Ends
    <3>2. Fits(Rest, holes, runs, n + 1) /\ code # TOP /\ code # FIN
      BY <1>1, <1>2, <3>1, Ordinary
    <3>3. Rest # TOP
      BY <3>2, PlainIsNeither DEF Fits
    <3>4. Sound(stack, Rest, holes, runs)
      BY <1>2, <3>2, Continue
    <3> QED BY <2>2, <3>3, <3>4
  <2> QED BY <1>1, <2>1, <2>2
<1>5. continuable => MayFail(stack, "error")
  OBVIOUS
<1> HIDE DEF continuable, func, pc
<1> QED BY <1>1, <1>2, <1>3, <1>4, <1>5, ErrorNests

(* Nothing has run when main loads, and an activation has a run.           *)
LEMMA MainAlone ==
    ASSUME NEW s, NEW c, NEW hs, NEW rs, Sound(s, c, hs, rs)
    PROVE  /\ rs # << >> => ~Main(s, c, Len(s) + 1)
           /\ rs = << >> => ~InRun(s, Len(s) + 1)
<1> DEFINE n == Len(s)
<1>1. /\ IsSeq(rs) /\ n \in Nat /\ Len(rs) \in Nat
      /\ \A r \in 1 .. Len(rs) : rs[r].ss0 \in 5 .. n /\ CodeAt(s, c, rs[r].ss0 + 1) = FIN
  BY SoundFacts
<1>2. ASSUME rs # << >>, Main(s, c, n + 1) PROVE FALSE
  <2>1. Len(rs) # 0
    <3>1. \E S : rs \in Seq(S)
      BY <1>1 DEF IsSeq
    <3> QED BY <1>2, <3>1
  <2>2. 1 \in 1 .. Len(rs)
    BY <1>1, <2>1
  <2> DEFINE q == rs[1].ss0 + 1
  <2>3. q \in 6 .. n + 1 /\ CodeAt(s, c, q) = FIN
    BY <1>1, <2>2
  <2> HIDE DEF q
  <2>4. CASE q = n + 1
    <3>1. c = FIN
      BY <2>3, <2>4 DEF CodeAt
    <3>2. FIN[1][1] = "FINISH"
      BY DEF FIN
    <3> QED BY <1>2, <3>1, <3>2 DEF Main
  <2>5. CASE q # n + 1
    <3>1. q \in 1 .. n /\ n + 1 # q /\ n \in Nat
      BY <1>1, <2>3, <2>5
    <3>2. q \in 1 .. (n + 1) - 1
      BY <3>1
    <3>3. s[q].m # "return"
      BY <1>2, <3>2 DEF Main
    <3>4. FIN = << >>
      BY <2>3, <3>1, <3>3 DEF CodeAt
    <3>5. Len(FIN) = 1
      BY SeqShort DEF FIN
    <3> QED BY <3>4, <3>5, SeqShort
  <2> QED BY <2>4, <2>5
<1>3. ASSUME rs = << >>, InRun(s, n + 1) PROVE FALSE
  <2>1. Len(rs) = 0
    BY <1>3, SeqShort
  <2>2. PICK q \in 1 .. (n + 1) - 1 : s[q].m = "return" /\ s[q].code = FIN
    BY <1>3 DEF InRun
  <2>3. q \in 1 .. n + 1 /\ q # n + 1
    BY <1>1
  <2>4. CodeAt(s, c, q) = FIN
    BY <2>2, <2>3 DEF CodeAt
  <2>5. \E r \in 1 .. Len(rs) : rs[r].ss0 + 1 = q
    BY <2>3, <2>4 DEF Sound, RunsOK
  <2> QED BY <2>1, <2>5
<1> QED BY <1>2, <1>3

(* A signal.                                                               *)
LEMMA SignalNests ==
    ASSUME NInv, Signal
    PROVE  Settled' /\ mode' = mode
<1> DEFINE n == Len(stack)
           was == <<frame, regs>>
           func == regs.func
<1>1. /\ mode = "run" /\ runs # << >> /\ Raise("signal", "SIGCHLD", TRUE, func, stack, code)
      /\ code[1][1] \notin {"EVALUATE", "INVOKE-C-DONE", "PUSH-ABORT"}
  BY DEF Signal
<1>2. Steady
  BY <1>1, AtSteady DEF NInv
<1>3. /\ Sound(stack, code, holes, runs) /\ Deep(stack, runs) /\ ~OfC(stack, n)
      /\ Runs(stack, code, runs, was)
  BY <1>2 DEF Steady, NInv, Settled
<1>4. ~Main(stack, code, n + 1)
  BY <1>1, <1>3, MainAlone
<1>5. Addressed(stack, runs, code, n + 1, was)
  <2>1. n + 1 \in Int
    BY <1>3, SoundFacts
  <2>2. ~Called(stack, code, n + 1) /\ ~Starts(stack, code) /\ ~Evaluator(stack, code)
    BY <1>1, <2>1, Heads
  <2> QED BY <1>3, <1>4, <2>2 DEF Runs
<1> DEFINE p == Match(stack, FindMaxTrap(stack), "SIGCHLD")
           kind == "signal"
           c == "SIGCHLD"
           continuable == TRUE
<1>6. /\ p = Match(stack, IF kind = "raise" THEN FindMarker(stack, "trap") ELSE FindMaxTrap(stack), c)
      /\ was = WasOf(kind) /\ kind = "signal" /\ Raise(kind, c, continuable, func, stack, code)
  BY <1>1 DEF WasOf
<1> HIDE DEF p, kind, c, was, continuable, func
<1> QED BY <1>3, <1>5, <1>6, RaiseNests

-----------------------------------------------------------------------------
(* The base handlers.                                                      *)

(* A base handler at work, in the care of the next.                        *)
LEMMA HandlerThere ==
    ASSUME NInv, mode = "run", code[1][1] = "PRIMITIVE", NEW n, n = Len(stack)
    PROVE  /\ n \in Nat /\ Raising(stack, n - 2) /\ Saved(stack, n - 2) /\ stack[n].m = "trap"
           /\ WayBack(stack, n - 2, Rest) /\ Rest \in Backs /\ BaseTrap(stack[n])
           /\ code[1][2] = "default" => stack[n].h = "restart"
           /\ code[1][2] = "restart" => stack[n].h = "reset"
           /\ Doomed(stack, n - 2) /\ Rest # NCE =>
                 code[1][2] = "reset" \/ (code[1][2] \in {"default", "restart"} /\ code[1][3] # "SIGCHLD")
<1> DEFINE was == <<frame, regs>>
<1>1. /\ IsSeq(stack) /\ n \in Nat /\ n >= 5 /\ Runs(stack, code, runs, was)
      /\ Deep(stack, runs)
  BY AtNesting
<1>2. Handling(stack, code, n + 1, was)
  BY <1>1, RunsAs
<1>3. (n + 1) - 3 = n - 2 /\ (n + 1) - 1 = n /\ (n - 2) + 2 = n /\ n \in 1 .. n
  BY <1>1
<1>4. Raising(stack, n - 2) /\ Saved(stack, n - 2) /\ stack[n].m = "trap"
  BY <1>2, <1>3 DEF Handling
<1>5. PICK x : /\ WayBack(stack, n - 2, x)
               /\ code = x \/ BaseHandler(stack, code, n - 2, x)
  BY <1>2, <1>3 DEF Handling
<1>6. x \in Backs
  BY <1>5 DEF WayBack, Backs
<1>7. code # x
  <2>1. \A y \in Backs : y[1][1] # "PRIMITIVE"
    BY BacksFacts DEF Backs
  <2> QED BY <1>6, <2>1
<1>8. PICK h, e : /\ code = << <<"PRIMITIVE", h, e>> >> \o x
                  /\ h = "default" => stack[(n - 2) + 2].h = "restart"
                  /\ h = "restart" => stack[(n - 2) + 2].h = "reset"
                  /\ Doomed(stack, n - 2) /\ x # NCE =>
                        h = "reset" \/ (h \in {"default", "restart"} /\ e # "SIGCHLD")
  BY <1>5, <1>7 DEF BaseHandler
<1>9. code[1] = <<"PRIMITIVE", h, e>> /\ Rest = x
  BY <1>6, <1>8, BacksFacts DEF Rest
<1>10. code[1][2] = h /\ code[1][3] = e
  BY <1>9
<1>11. BaseTrap(stack[n])
  BY <1>1, <1>3, <1>4 DEF Deep, FrameNests
<1> QED BY <1>1, <1>3, <1>4, <1>5, <1>6, <1>8, <1>9, <1>10, <1>11

(* A base handler returns.                                                 *)
LEMMA HandledNests ==
    ASSUME NInv, mode = "run", code[1][1] = "PRIMITIVE",
           ~Doomed(stack, Len(stack) - 2) \/ Rest = NCE, Handled
    PROVE  Settled' /\ mode' = mode
<1> DEFINE n == Len(stack)
           was == <<frame, regs>>
<1>1. Deep(stack, runs) /\ ~OfC(stack, n)
  BY AtNesting
<1>2. n = Len(stack)
  OBVIOUS
<1>3. code' = Rest /\ UNCHANGED <<stack, runs, frame, regs, mode>>
  BY DEF Handled
<1>4. /\ n \in Nat /\ Raising(stack, n - 2) /\ Saved(stack, n - 2) /\ stack[n].m = "trap"
      /\ WayBack(stack, n - 2, Rest)
  <2> HIDE DEF n
  <2> QED BY <1>2, HandlerThere
<1>5. (n + 1) - 3 = n - 2 /\ (n + 1) - 1 = n
  BY <1>4
<1> HIDE DEF n
<1>6. Handling(stack, Rest, n + 1, was)
  BY <1>2, <1>4, <1>5 DEF Handling
<1>7. Runs(stack, Rest, runs, was)
  BY <1>2, <1>6 DEF Runs, Addressed, HandlerReturn
<1> QED BY <1>1, <1>2, <1>3, <1>7 DEF Settled

(* A base handler raises the condition again.                              *)
LEMMA AgainNests ==
    ASSUME NInv, mode = "run", code[1][1] = "PRIMITIVE", code[1][2] \in {"default", "restart"},
           NEW c, code[1][2] = "default" => c # "SIGCHLD", NEW func,
           Raise("raise", c, TRUE, func, stack, Rest)
    PROVE  Settled' /\ mode' = mode
<1> DEFINE n == Len(stack)
           was == WasOf("raise")
           kind == "raise"
           p == Match(stack, FindMarker(stack, "trap"), c)
           continuable == TRUE
<1>1. Deep(stack, runs) /\ ~OfC(stack, n) /\ Steady
  BY AtNesting
<1>2. n = Len(stack)
  OBVIOUS
<1>3. /\ n \in Nat /\ Raising(stack, n - 2) /\ Saved(stack, n - 2) /\ stack[n].m = "trap"
      /\ WayBack(stack, n - 2, Rest) /\ Rest \in Backs /\ BaseTrap(stack[n])
      /\ code[1][2] = "default" => stack[n].h = "restart"
      /\ code[1][2] = "restart" => stack[n].h = "reset"
  <2> HIDE DEF n
  <2> QED BY <1>2, HandlerThere
<1>4. (n + 1) - 3 = n - 2 /\ (n + 1) - 1 = n
  BY <1>3
<1>5. Len(was) = 1
  BY SeqShort DEF WasOf
<1>6. Sound(stack, Rest, holes, runs)
  <2>1. code[1][1] \notin Special /\ code[1][1] \notin Ends
    BY DEF Special, Ends
  <2> QED BY <1>1, <2>1, Ordinary, Continue DEF Steady
<1>7. /\ p = Match(stack, IF kind = "raise" THEN FindMarker(stack, "trap") ELSE FindMaxTrap(stack), c)
      /\ was = WasOf(kind) /\ Raise(kind, c, continuable, func, stack, Rest)
  OBVIOUS
<1>8. stack[n].type = "condition"
  <2>1. {"reset", "restart"} \cap Handlers = {}
    BY VMStackAssumption
  <2> QED BY <1>3, <2>1 DEF BaseTrap
<1>9. p = n
  BY <1>3, <1>6, <1>8, MatchedTop
<1> HIDE DEF n, was, kind, p, continuable
<1>10. Handling(stack, Rest, n + 1, was)
  BY <1>3, <1>4, <1>5 DEF Handling
<1>11. Addressed(stack, runs, Rest, n + 1, was)
  BY <1>10 DEF Addressed, HandlerReturn
<1>12. stack[p].h = "reset" \/ (stack[p].h = "restart" /\ c # "SIGCHLD")
  BY <1>3, <1>9
<1> QED BY <1>1, <1>2, <1>6, <1>7, <1>11, <1>12, RaiseNests

(* FUNC fails what C called for a base handler.                            *)
LEMMA NotifyFailsNests ==
    ASSUME CallbackErrors = FALSE, NInv, mode = "run", code[1][1] = "PRIMITIVE",
           Raise("raise", "error", FALSE, FALSE,
                 stack \o <<CReturn(Rest), AllState(frame, regs)>>, Rest)
    PROVE  Settled' /\ mode' = mode
<1> DEFINE n == Len(stack)
           g == AllState(frame, regs)
           s == Append(Append(stack, CReturn(Rest)), g)
           func == FALSE
           continuable == FALSE
<1>1. Deep(stack, runs) /\ ~OfC(stack, n) /\ Steady /\ IsSeq(stack) /\ n \in Nat
  BY AtNesting
<1>2. code[1][1] \notin Special /\ code[1][1] \notin Ends
  BY DEF Special, Ends
<1>3. Fits(Rest, holes, runs, n + 1) /\ Rest # TOP
  <2>1. Fits(Rest, holes, runs, n + 1)
    BY <1>1, <1>2, Ordinary
  <2> QED BY <2>1, PlainIsNeither DEF Fits
<1>4. Sound(s, Rest, holes, runs)
  <2>1. regs \in Registers
    BY <1>1 DEF Steady, WellTyped
  <2> QED BY <1>1, <1>2, <1>3, <2>1, InvokedSound
<1>5. stack \o <<CReturn(Rest), AllState(frame, regs)>> = s
  BY <1>1, SeqAppends
<1>6. g.m = "all-state"
  BY DEF AllState
<1> HIDE DEF g
<1>7. /\ Len(s) = n + 2 /\ Deep(s, runs) /\ ~OfC(s, n + 2) /\ s[n + 2] = g
  BY <1>1, <1>3, <1>6, InvokedDeep
<1>8. Raise("raise", "error", continuable, func, s, Rest) /\ (continuable => MayFail(s, "error"))
  BY <1>5
<1> HIDE DEF s, func, continuable
<1>9. ~OfC(s, Len(s)) /\ SavedAt(s, Len(s))
  BY <1>1, <1>6, <1>7 DEF SavedAt
<1> QED BY <1>3, <1>4, <1>7, <1>8, <1>9, ErrorNests

(* What the base handlers do, but for restarting.                          *)
LEMMA BaseHandlerNests ==
    ASSUME CallbackErrors = FALSE, NInv,
           \/ DefaultSigchld \/ DefaultHandler
           \/ RestartHandler /\ Handled /\ code[1][3] = "SIGCHLD"
           \/ RestartHandler /\ Raise("raise", code[1][3], TRUE, regs.func, stack, Rest)
    PROVE  Settled' /\ mode' = mode
<1>1. mode = "run" /\ code[1][1] = "PRIMITIVE"
      /\ code[1][2] \in {"default-SIGCHLD", "default", "restart"}
  BY DEF DefaultSigchld, DefaultHandler, RestartHandler, At
<1>2. Doomed(stack, Len(stack) - 2) /\ Rest # NCE =>
         code[1][2] = "reset" \/ (code[1][2] \in {"default", "restart"} /\ code[1][3] # "SIGCHLD")
  <2> DEFINE n == Len(stack)
  <2>1. n = Len(stack)
    OBVIOUS
  <2> HIDE DEF n
  <2>2. Doomed(stack, n - 2) /\ Rest # NCE =>
         code[1][2] = "reset" \/ (code[1][2] \in {"default", "restart"} /\ code[1][3] # "SIGCHLD")
    BY <1>1, <2>1, HandlerThere
  <2> QED BY <2>1, <2>2
<1>3. CASE Handled /\ (code[1][2] = "default-SIGCHLD" \/ code[1][3] = "SIGCHLD")
  BY <1>1, <1>2, <1>3, HandledNests
<1>4. CASE Raise("raise", code[1][3], TRUE, regs.func, stack, Rest)
           /\ (code[1][2] = "default" => code[1][3] # "SIGCHLD")
           /\ code[1][2] \in {"default", "restart"}
  <2> DEFINE c == code[1][3]
             func == regs.func
  <2>1. Raise("raise", c, TRUE, func, stack, Rest) /\ (code[1][2] = "default" => c # "SIGCHLD")
    BY <1>4
  <2> HIDE DEF c, func
  <2> QED BY <1>1, <1>4, <2>1, AgainNests
<1>5. CASE Notify /\ (code[1][2] = "default-SIGCHLD" \/ code[1][3] = "SIGCHLD")
  <2>1. Handled \/ Raise("raise", "error", FALSE, FALSE,
                         stack \o <<CReturn(Rest), AllState(frame, regs)>>, Rest)
    BY <1>5 DEF Notify
  <2> QED BY <1>1, <1>3, <1>5, <2>1, NotifyFailsNests
<1>6. CASE DefaultSigchld
  BY <1>5, <1>6 DEF DefaultSigchld
<1>7. CASE DefaultHandler
  BY <1>4, <1>5, <1>7 DEF DefaultHandler
<1>8. CASE RestartHandler /\ Raise("raise", code[1][3], TRUE, regs.func, stack, Rest)
  BY <1>4, <1>8 DEF RestartHandler
<1>9. CASE RestartHandler /\ Handled /\ code[1][3] = "SIGCHLD"
  BY <1>3, <1>9
<1> QED BY <1>6, <1>7, <1>8, <1>9

-----------------------------------------------------------------------------
(* The continuations that are restored.                                    *)

(* The code of a hole continues the activation of its prompt.              *)
LEMMA HoleContinues ==
    ASSUME Sound(stack, code, holes, runs), Settled, NEW j \in 1 .. Len(holes)
    PROVE  /\ HolePos(holes, j) \in 6 .. Len(stack) + 1 /\ holes[j].code = R
           /\ ContinuationOK(holes[j], stack, holes, runs, HolePos(holes, j))
           /\ Continues(stack, R, HolePos(holes, j))
<1> DEFINE i == HolePos(holes, j)
           n == Len(stack)
           was == <<frame, regs>>
<1>1. IsSeq(stack) /\ n \in Nat /\ i \in 6 .. n + 1 /\ CodeAt(stack, code, i) = TOP
  <2>1. IsSeq(stack) /\ n \in Nat
    BY SoundFacts
  <2>2. \A l \in 1 .. Len(holes) : HolePos(holes, l) \in 6 .. n + 1
    BY SoundFacts
  <2>3. \A l \in 1 .. Len(holes) : CodeAt(stack, code, HolePos(holes, l)) = TOP
    BY SoundFacts
  <2> QED BY <2>1, <2>2, <2>3
<1>2. HoleOK(stack, code, holes, runs, j)
  BY DEF Sound, HolesOK
<1>3. holes[j].code = R /\ ContinuationOK(holes[j], stack, holes, runs, i)
  BY <1>2 DEF HoleOK, R
<1> HIDE DEF i
<1>4. AtTop(stack, TOP, i)
  <2>1. TOP[1][1] = "ABORT-TOP" /\ TOP # << >>
    <3>1. TOP[1][1] = "ABORT-TOP" /\ Len(TOP) = 1
      BY SeqShort DEF TOP
    <3> QED BY <3>1, SeqShort
  <2>2. CASE i = n + 1
    <3>1. code = TOP
      BY <1>1, <2>2 DEF CodeAt
    <3>2. Runs(stack, code, runs, was)
      BY DEF Settled
    <3> HIDE DEF was
    <3>3. AtTop(stack, code, n + 1)
      BY <1>1, <2>1, <3>1, <3>2, RunsAs
    <3> QED BY <2>2, <3>1, <3>3
  <2>3. CASE i # n + 1
    <3>1. i \in 1 .. n
      BY <1>1, <2>3
    <3>2. stack[i].m = "return" /\ stack[i].code = TOP
      BY <1>1, <2>1, <2>3 DEF CodeAt
    <3>3. FrameNests(stack, runs, i)
      BY <3>1 DEF Settled, Deep
    <3> QED BY <3>2, <3>3 DEF FrameNests
  <2> QED BY <2>2, <2>3
<1>5. Continues(stack, R, i)
  BY <1>4 DEF AtTop, Continues
<1> QED BY <1>1, <1>3, <1>5 DEF i

(* ABORT #1 leads back to main; ABORT #2 is that of an expression at the   *)
(* top, or leads back to main too.                                         *)
LEMMA AbortContinues ==
    ASSUME Sound(stack, code, holes, runs), Settled,
           NEW q \in {FindAbort1(stack), FindAbort2(stack)} \ {0}
    PROVE  \/ stack[q].k = MainK
           \/ /\ q \in 6 .. Len(stack) /\ ContinuationOK(stack[q].k, stack, holes, runs, q)
              /\ Continues(stack, stack[q].k.code, q)
<1> DEFINE n == Len(stack)
<1>1. IsSeq(stack) /\ n \in Nat /\ n >= 5 /\ DOMAIN stack = 1 .. n
  BY SoundFacts, SeqLen
<1>2. /\ \A p \in Positions(stack, "abort") :
             stack[p].next = 0 \/ (stack[p].next \in Positions(stack, "abort") /\ stack[p].next < p)
      /\ 5 \in Positions(stack, "abort") /\ stack[5].k = MainK
      /\ \A p \in Positions(stack, "abort") :
             p # 5 => p \in 6 .. n /\ ContinuationOK(stack[p].k, stack, holes, runs, p)
  BY Chains
<1>3. Positions(stack, "abort") # {}
  BY <1>2
<1>4. /\ q \in Positions(stack, "abort")
      /\ \/ stack[q].next = 0
         \/ stack[q].next # 0 /\ stack[stack[q].next].next = 0
  BY <1>1, <1>2, <1>3, AbortFacts
<1>5. stack[5].next = 0
  <2>1. stack[5] = Base[5] /\ Base[5].next = 0
    <3>1. Len(Base) = 5 /\ Base[5].next = 0
      BY DEF Base, Abort
    <3> QED BY <3>1 DEF Sound
  <2> QED BY <2>1
<1>6. \A p \in Positions(stack, "abort") : stack[p].next = 0 => p = 5
  <2> SUFFICES ASSUME NEW p \in Positions(stack, "abort"), stack[p].next = 0, p # 5
               PROVE  FALSE
    OBVIOUS
  <2>1. p \in 6 .. n /\ stack[p].m = "abort"
    BY <1>2 DEF Positions
  <2>2. p \in 1 .. n /\ p - 1 \in 0 .. n /\ 5 \in 1 .. p - 1
    BY <1>1, <2>1
  <2>3. stack[p].next = FindMarker(SubSeq(stack, 1, p - 1), "abort")
    BY <2>1, <2>2 DEF Sound, FrameOK, ChainOK
  <2> DEFINE t == SubSeq(stack, 1, p - 1)
  <2>4. IsSeq(t) /\ Len(t) = p - 1 /\ t[5] = stack[5]
    <3> DEFINE x == p - 1
    <3>1. x \in 0 .. Len(stack) /\ 5 \in 1 .. x
      BY <2>2
    <3> HIDE DEF x
    <3>2. IsSeq(SubSeq(stack, 1, x)) /\ Len(SubSeq(stack, 1, x)) = x /\ SubSeq(stack, 1, x)[5] = stack[5]
      BY <1>1, <3>1, SeqCut
    <3> QED BY <3>2 DEF x
  <2>5. t[5].m = "abort"
    BY <1>2, <2>4 DEF Positions
  <2> HIDE DEF t
  <2>6. FindMarker(t, "abort") # 0
    BY <2>2, <2>4, <2>5, Marker
  <2> QED BY <2>3, <2>6 DEF t
<1>7. CASE stack[q].next = 0
  BY <1>2, <1>4, <1>6, <1>7
<1>8. CASE stack[q].next # 0 /\ stack[stack[q].next].next = 0
  <2>1. stack[q].next = 5
    BY <1>2, <1>4, <1>6, <1>8
  <2>2. q # 5
    BY <1>5, <1>8
  <2>3. q \in 6 .. n /\ ContinuationOK(stack[q].k, stack, holes, runs, q) /\ stack[q].m = "abort"
    BY <1>2, <1>4, <2>2 DEF Positions
  <2>4. q \in 1 .. n
    BY <1>1, <2>3
  <2>5. Continues(stack, stack[q].k.code, q)
    BY <2>1, <2>3, <2>4 DEF Settled, Deep, FrameNests
  <2> QED BY <2>3, <2>5
<1> QED BY <1>4, <1>7, <1>8

(* Restoring a continuation that continues what is below it.               *)
LEMMA RestoreNests ==
    ASSUME IsSeq(stack), Deep(stack, runs), IsSeq(runs), NEW k, NEW r0, Restore(k, r0), NEW i \in 1 .. Len(stack) + 1,
           k.stack = SubSeq(stack, 1, i - 1), k.run \in 0 .. Len(runs),
           Continues(stack, k.code, i)
    PROVE  Settled' /\ mode' = mode
<1> DEFINE m == i - 1
           t == SubSeq(stack, 1, m)
           rs2 == SubSeq(runs, 1, k.run)
           was == <<frame', regs'>>
<1>1. /\ stack' = t /\ code' = k.code /\ runs' = rs2 /\ mode' = mode
  BY DEF Restore
<1>2. Len(stack) \in Nat /\ m \in 0 .. Len(stack) /\ m + 1 = i /\ i \in Int /\ m = i - 1
  <2>1. Len(stack) \in Nat
    BY SeqLen
  <2> QED BY <2>1
<1>3. \A p : NoMoreRuns(runs, rs2, p)
  <2>1. Len(rs2) = k.run /\ \A r \in 1 .. k.run : rs2[r] = runs[r]
    BY SeqCut
  <2>2. Len(runs) \in Nat
    BY SeqLen
  <2>3. \A r \in 1 .. k.run : r \in 1 .. Len(runs)
    BY <2>2
  <2> QED BY <2>1, <2>3 DEF NoMoreRuns
<1> HIDE DEF m, rs2
<1>4. Deep(t, rs2) /\ Agree(stack, t, i)
  BY <1>2, <1>3, DeepFirst
<1>5. Len(t) = m
  BY <1>2, SeqCut
<1>6. Continues(t, k.code, i)
  BY <1>2, <1>4, AgreeBack
<1> HIDE DEF t
<1>7. ~OfC(t, Len(t)) /\ Runs(t, k.code, rs2, was)
  <2>1. CASE Activation(t, k.code, i, << >>)
    <3>1. ~OfC(t, Len(t))
      BY <1>2, <1>5, <2>1, ActsTop
    <3>2. ~(Len(<< >>) >= 1)
      BY SeqShort
    <3> HIDE DEF was
    <3>3. Activation(t, k.code, i, was)
      BY <2>1, <3>2, ActsWas
    <3> QED BY <1>2, <1>5, <3>1, <3>3 DEF Runs, Addressed
  <2>2. CASE Main(t, k.code, i)
    <3>1. ~OfC(t, Len(t))
      <4> SUFFICES ASSUME OfC(t, Len(t)) PROVE FALSE
        OBVIOUS
      <4>1. m >= 1 /\ t[m].m = "return"
        BY <1>5 DEF OfC, IsReturn
      <4>2. m \in 1 .. i - 1
        BY <1>2, <4>1
      <4> QED BY <2>2, <4>1, <4>2 DEF Main
    <3> QED BY <1>2, <1>5, <2>2, <3>1 DEF Runs
  <2> QED BY <1>6, <2>1, <2>2 DEF Continues
<1> QED BY <1>1, <1>4, <1>7 DEF Settled, was

(* main's continuation.                                                    *)
LEMMA MainRestores ==
    ASSUME IsSeq(stack), Deep(stack, runs), IsSeq(runs), NEW r0, Restore(MainK, r0)
    PROVE  Settled' /\ mode' = mode
<1> DEFINE i == 1
           k == MainK
<1>1. Len(stack) \in Nat /\ Len(runs) \in Nat
  BY SeqLen
<1>2. i \in 1 .. Len(stack) + 1 /\ k.run \in 0 .. Len(runs)
  BY <1>1 DEF MainK
<1>3. k.stack = SubSeq(stack, 1, i - 1)
  <2> DEFINE z == SubSeq(stack, 1, 0)
             e == << >>
  <2>1. 0 \in 0 .. Len(stack)
    BY <1>1
  <2>2. IsSeq(z) /\ Len(z) = 0 /\ IsSeq(e) /\ Len(e) = 0
    BY <2>1, SeqCut, SeqShort
  <2> HIDE DEF z, e
  <2>3. \A j \in 1 .. 0 : z[j] = e[j]
    OBVIOUS
  <2>4. z = e
    BY <2>2, <2>3, SeqSame
  <2>5. k.stack = e
    BY DEF MainK, e
  <2> QED BY <2>4, <2>5 DEF z
<1>4. Continues(stack, k.code, i)
  <2>1. k.code = << <<"EXIT">> >> /\ \A q \in 1 .. i - 1 : stack[q].m # "return"
    BY DEF MainK
  <2> HIDE DEF k, i
  <2> QED BY <2>1 DEF Continues, Main
<1>5. Restore(k, r0)
  OBVIOUS
<1> HIDE DEF k, i
<1> QED BY <1>2, <1>3, <1>4, <1>5, RestoreNests

(* Restoring one of them.                                                  *)
LEMMA GoesBack ==
    ASSUME Steady, Settled, NEW k, NEW r0, Restore(k, r0), NEW i \in 6 .. Len(stack) + 1,
           ContinuationOK(k, stack, holes, runs, i), Continues(stack, k.code, i)
    PROVE  Settled' /\ mode' = mode
<1>1. IsSeq(stack) /\ IsSeq(runs) /\ Deep(stack, runs) /\ Len(stack) \in Nat
  BY SoundFacts DEF Steady, Settled
<1>2. k.stack = SubSeq(stack, 1, i - 1) /\ k.run \in 0 .. Len(runs) /\ i \in 1 .. Len(stack) + 1
  BY <1>1 DEF ContinuationOK, RunsBelow
<1> QED BY <1>1, <1>2, RestoreNests

(* The prompt's end, and a handler's trap-return.                          *)
LEMMA HoleNests ==
    ASSUME NInv, AbortTop \/ TrapReturn
    PROVE  Settled' /\ mode' = mode
<1>1. /\ Steady /\ Restore(holes[Len(holes)], Callable) /\ code[1][1] \in {"ABORT-TOP", "TRAP-RETURN"}
  BY AtNesting DEF AbortTop, TrapReturn, At
<1>2. Len(holes) \in 1 .. Len(holes)
  BY <1>1, HoleThere
<1>3. Sound(stack, code, holes, runs) /\ Settled
  BY <1>1 DEF Steady, NInv
<1> QED BY <1>1, <1>2, <1>3, HoleContinues, GoesBack

(* An ABORT.                                                               *)
LEMMA AbortNests ==
    ASSUME NInv, Steady, NEW q \in {FindAbort1(stack), FindAbort2(stack)} \ {0},
           NEW r, Restore(stack[q].k, r)
    PROVE  Settled' /\ mode' = mode
<1>1. Sound(stack, code, holes, runs) /\ Settled
  BY DEF Steady, NInv
<1>2. IsSeq(stack) /\ IsSeq(runs) /\ Deep(stack, runs) /\ Len(stack) \in Nat
  BY <1>1, SoundFacts DEF Settled
<1>3. CASE stack[q].k = MainK
  BY <1>2, <1>3, MainRestores
<1>4. CASE /\ q \in 6 .. Len(stack) /\ ContinuationOK(stack[q].k, stack, holes, runs, q)
           /\ Continues(stack, stack[q].k.code, q)
  <2>1. q \in 6 .. Len(stack) + 1
    BY <1>2, <1>4
  <2> QED BY <1>1, <1>4, <2>1, GoesBack
<1> QED BY <1>1, <1>3, <1>4, AbortContinues

(* The handlers that go back to the top.                                   *)
LEMMA ResetNests ==
    ASSUME NInv,
           \/ ResetHandler \/ NonContErr
           \/ RestartHandler /\ FindAbort2(stack) # 0 /\ Restore(stack[FindAbort2(stack)].k, regs)
    PROVE  Settled' /\ mode' = mode
<1>1. Steady
  BY AtNesting DEF ResetHandler, NonContErr, RestartHandler, At
<1>2. CASE Restore(stack[FindAbort1(stack)].k, regs)
  BY <1>1, <1>2, AbortOneThere, AbortNests
<1>3. CASE FindAbort2(stack) # 0 /\ Restore(stack[FindAbort2(stack)].k, regs)
  <2>1. FindAbort2(stack) \in {FindAbort1(stack), FindAbort2(stack)} \ {0}
    BY <1>3
  <2> QED BY <1>1, <1>3, <2>1, AbortNests
<1> QED BY <1>2, <1>3 DEF ResetHandler, NonContErr

(* A run ends.                                                             *)
LEMMA FinishNests ==
    ASSUME NInv, FinishRun
    PROVE  Settled' /\ mode' = mode
<1> DEFINE n == Len(stack)
           l == Len(runs)
           r == runs[l]
           rs2 == SubSeq(runs, 1, l - 1)
           was == <<frame, regs>>
<1>1. /\ Steady /\ code[1][1] = "FINISH" /\ IsSeq(stack) /\ n \in Nat
      /\ Deep(stack, runs) /\ Runs(stack, code, runs, was) /\ ~OfC(stack, n)
  BY AtNesting DEF FinishRun, At
<1>2. code = FIN
  BY <1>1, Running DEF Steady
<1>3. runs # << >> /\ r.ss0 = n
  BY <1>1, <1>2, RunEnds DEF Steady
<1>4. IsSeq(runs) /\ l \in Nat /\ l >= 1
  <2>1. IsSeq(runs) /\ l \in Nat
    BY <1>1, SoundFacts DEF Steady
  <2>2. l # 0
    <3>1. PICK S : runs \in Seq(S)
      BY <2>1 DEF IsSeq
    <3> QED BY <1>3, <3>1
  <2> QED BY <2>1, <2>2
<1>5. /\ code' = r.after /\ runs' = rs2
      /\ UNCHANGED <<stack, frame, regs, mode>>
  BY <1>3 DEF FinishRun, Front
<1>6. \A p : NoMoreRuns(runs, rs2, p)
  <2> DEFINE j == l - 1
  <2>1. j \in 0 .. l
    BY <1>4
  <2> HIDE DEF j
  <2>2. Len(SubSeq(runs, 1, j)) = j /\ \A q \in 1 .. j : SubSeq(runs, 1, j)[q] = runs[q]
    BY <1>4, <2>1, SeqCut
  <2>3. \A q \in 1 .. j : q \in 1 .. l
    BY <1>4, <2>1
  <2> QED BY <2>2, <2>3 DEF NoMoreRuns, j
<1>7. Continues(stack, r.after, n + 1) \/ Called(stack, r.after, n + 1)
  <2>1. AtFin(stack, runs, code, n + 1)
    BY <1>1, RunsAs
  <2>2. l \in 1 .. l
    BY <1>4
  <2> QED BY <1>3, <2>1, <2>2 DEF AtFin
<1> HIDE DEF r, rs2
<1>8. Deep(stack, rs2)
  <2>1. Agree(stack, stack, n + 1) /\ n \in 0 .. n
    BY <1>1 DEF Agree
  <2>2. \A p \in 1 .. n : FrameNests(stack, rs2, p)
    BY <1>1, <1>6, <2>1, DeepPart
  <2> QED BY <2>2 DEF Deep
<1>9. Runs(stack, r.after, rs2, was)
  <2>1. CASE Activation(stack, r.after, n + 1, << >>)
    <3>1. ~(Len(<< >>) >= 1)
      BY SeqShort
    <3> HIDE DEF was
    <3>2. Activation(stack, r.after, n + 1, was)
      BY <2>1, <3>1, ActsWas
    <3> QED BY <3>2 DEF Runs, Addressed
  <2> QED BY <1>7, <2>1 DEF Runs, Continues
<1> QED BY <1>1, <1>5, <1>8, <1>9 DEF Settled, was

-----------------------------------------------------------------------------
(* main, and load.                                                         *)

(* main starts to load.                                                    *)
LEMMA ReplNests ==
    ASSUME NInv, Repl
    PROVE  Settled' /\ mode' = mode
<1> DEFINE n == Len(stack)
           was == <<frame, regs>>
           c == << <<"LOAD", -1>>, <<"EXIT">> >>
           t == Append(stack, Handle)
<1>1. mode = "run" /\ code[1][1] = "REPL" /\ code[1][1] # "EXIT"
      /\ stack' = t /\ code' = c /\ UNCHANGED <<frame, regs, runs, mode>>
  BY DEF Repl, At
<1>2. IsSeq(stack) /\ n \in Nat /\ Runs(stack, code, runs, was)
  BY <1>1, AtNesting
<1>3. \A q \in 1 .. n : stack[q].m # "return"
  <2>1. Main(stack, code, n + 1)
    BY <1>1, <1>2, RunsAs
  <2> QED BY <1>2, <2>1 DEF Main
<1>4. Len(t) = n + 1 /\ t[n + 1] = Handle /\ Handle.m = "value" /\ \A q \in 1 .. n : t[q] = stack[q]
  BY <1>2, SeqAppend DEF Handle
<1> HIDE DEF t
<1>5. Main(t, c, (n + 1) + 1)
  <2>1. \A q \in 1 .. n + 1 : t[q].m # "return"
    BY <1>2, <1>3, <1>4
  <2>2. ((n + 1) + 1) - 1 = n + 1
    BY <1>2
  <2> QED BY <2>1, <2>2 DEF Main
<1>6. Runs(t, c, runs, was)
  BY <1>4, <1>5 DEF Runs
<1> HIDE DEF c
<1>7. /\ Handle.m \notin {"return", "all-state", "abort"} /\ Handle.m # "trap"
  BY <1>4
<1>8. Runs(Append(stack, Handle), code', runs, <<frame', regs'>>)
  BY <1>1, <1>6 DEF t, was
<1>9. stack' = Append(stack, Handle) /\ runs' = runs /\ mode' = mode
  BY <1>1 DEF t
<1> QED BY <1>1, <1>7, <1>8, <1>9, FramePushed

(* main exits.                                                             *)
LEMMA ExitNests ==
    ASSUME NInv, Exit
    PROVE  Settled' /\ mode' = "exit"
BY DEF NInv, Exit, Settled

(* An expression is read.                                                  *)
LEMMA LoadReadsNests ==
    ASSUME NInv, LoadReads
    PROVE  Settled' /\ mode' = mode
<1> DEFINE n == Len(stack)
           was == <<frame, regs>>
           kc == IF runs = << >> THEN << <<"REPL">> >> ELSE Rest
           k == Continuation(stack, kc, frame)
           f == Abort(FindMarker(stack, "abort"), k)
           g == CReturn(Rest)
           h == AllState(frame, regs)
           sa == Append(stack, f)
           t == Append(Append(sa, g), h)
           op == <<"EVALUATE", code[1][2]>>
           c2 == <<op>> \o Rest
<1>1. mode = "run" /\ code[1][1] = "LOAD" /\ code[1][1] # "EXIT"
      /\ code[1][1] \notin Special /\ code[1][1] \notin Ends
  BY DEF LoadReads, At, Special, Ends
<1>2. /\ Steady /\ Deep(stack, runs) /\ ~OfC(stack, n) /\ Runs(stack, code, runs, was)
      /\ Sound(stack, code, holes, runs)
      /\ IsSeq(stack) /\ n \in Nat /\ n >= 5
  BY <1>1, AtNesting
<1>3. Rest # TOP /\ IsSeq(Rest) /\ IsSeq(code) /\ code # << >>
  BY <1>1, <1>2, Ordinary, PlainIsNeither DEF Fits, Plain
<1>4. stack' = t /\ code' = c2 /\ UNCHANGED <<frame, regs, runs, mode>>
  <2>1. stack \o <<f, g, h>> = t
    BY <1>2, SeqAppends
  <2> HIDE DEF f, g, h, sa, t
  <2>2. stack' = stack \o <<f, g, h>>
    BY DEF LoadReads, f, g, h, k, kc
  <2> QED BY <2>1, <2>2 DEF LoadReads
<1>5. f.m = "abort" /\ f.next = FindMarker(stack, "abort") /\ f.k.code = kc
  BY DEF Abort, Continuation
<1>6. h.m = "all-state" /\ op[1] = "EVALUATE" /\ op[2] = code[1][2]
  BY DEF AllState
<1> HIDE DEF k, f, h
<1>7. Activation(stack, code, n + 1, was) \/ Main(stack, code, n + 1)
  BY <1>1, <1>2, RunsAs
<1>8. ASSUME Activation(stack, code, n + 1, was)
      PROVE  InLoad(stack, n + 1) /\ InRun(stack, n + 1) /\ Activation(stack, code, n + 1, << >>)
  <2>1. PICK b, own, w : ActsAt(stack, code, n + 1, was, b, own, w)
    BY <1>8 DEF Activation
  <2>2. Takes(code, own, w) /\ code[1][1] \notin Leaves /\ code[1][1] \notin Uses
    BY <1>1, <2>1 DEF ActsAt, Leaves, Uses
  <2>3. Len(code) # 1
    <3> DEFINE l == Len(code)
    <3>1. l \in Nat /\ l >= 2
      BY <2>2, TakesRest
    <3> HIDE DEF l
    <3>2. l # 1
      BY <3>1
    <3> QED BY <3>2 DEF l
  <2>4. InLoad(stack, n + 1) /\ InRun(stack, n + 1)
    BY <2>1, <2>3 DEF ActsAt
  <2> DEFINE e == << >>
  <2>5. Knows(code, e, own)
    BY <2>2 DEF Knows
  <2> HIDE DEF e, was
  <2>6. n + 1 \in Int
    BY <1>2
  <2>7. ActsAt(stack, code, n + 1, e, b, own, w)
    BY <2>1, <2>2, <2>3, <2>5, <2>6, ActsStay
  <2> QED BY <2>4, <2>7 DEF Activation, e
<1>9. Continues(stack, code, n + 1)
  BY <1>7, <1>8 DEF Continues
<1>10. IsSeq(sa) /\ Len(sa) = n + 1 /\ sa[n + 1] = f /\ Agree(stack, sa, n + 1)
  BY <1>2, SeqAppend DEF Agree
<1>11. f.next = 5 => Continues(stack, kc, n + 1)
  <2>1. CASE runs = << >>
    <3>1. Main(stack, code, n + 1)
      BY <1>2, <1>7, <1>8, <2>1, MainAlone
    <3> QED BY <2>1, <3>1 DEF Main, Continues
  <2>2. CASE runs # << >>
    <3>1. InLoad(stack, n + 1)
      BY <1>2, <1>7, <1>8, <2>2, MainAlone
    <3>2. PICK q \in 6 .. (n + 1) - 1 : stack[q].m = "abort"
      BY <3>1 DEF InLoad
    <3>3. q \in 1 .. n /\ q >= 6 /\ q \in Nat
      BY <1>2
    <3> DEFINE z == FindMarker(stack, "abort")
    <3>4. z \in 0 .. n /\ q <= z
      BY <1>2, <3>2, <3>3, Marker
    <3> HIDE DEF z
    <3>5. z # 5
      BY <1>2, <3>3, <3>4
    <3> QED BY <1>5, <3>5 DEF z
  <2> QED BY <2>1, <2>2
<1> HIDE DEF sa, kc
<1>12. FrameNests(sa, runs, n + 1)
  <2>1. ~OfC(sa, n) /\ (n + 1) - 1 = n
    BY <1>2, <1>10, AgreeReturns
  <2>2. f.next = 5 => Continues(sa, kc, n + 1)
    <3>1. n + 1 \in Int
      BY <1>2
    <3> QED BY <1>10, <1>11, <3>1, AgreeBack
  <2> QED BY <1>5, <1>10, <2>1, <2>2 DEF FrameNests
<1>13. Deep(sa, runs)
  BY <1>2, <1>10, <1>12, DeepAppend DEF sa
<1>14. ~OfC(sa, n + 1)
  BY <1>5, <1>10 DEF OfC, IsReturn
<1>15. /\ IsSeq(t) /\ Len(t) = Len(sa) + 2 /\ Deep(t, runs)
       /\ OfC(t, Len(sa) + 1) /\ ~OfC(t, Len(sa) + 2) /\ Agree(sa, t, Len(sa) + 1)
       /\ t[Len(sa) + 2] = h
  BY <1>3, <1>6, <1>10, <1>13, <1>14, InvokedDeep
<1> HIDE DEF g, t
<1>16. /\ Len(t) = n + 3 /\ OfC(t, n + 2) /\ ~OfC(t, n + 3) /\ Agree(sa, t, n + 2) /\ t[n + 3] = h
       /\ (n + 3) - 2 = n + 1 /\ (n + 3) - 1 = n + 2 /\ n + 3 >= 8
  <2>1. (n + 1) + 1 = n + 2 /\ (n + 1) + 2 = n + 3
    BY <1>2
  <2> QED BY <1>2, <1>10, <1>15, <2>1
<1>17. t[n + 1] = f /\ Agree(stack, t, n + 1)
  <2>1. \A i \in 1 .. (n + 2) - 1 : t[i] = sa[i]
    BY <1>16 DEF Agree
  <2>2. n + 1 \in 1 .. (n + 2) - 1 /\ \A i \in 1 .. (n + 1) - 1 : i \in 1 .. (n + 2) - 1
    BY <1>2
  <2> QED BY <1>10, <2>1, <2>2 DEF Agree
<1>18. LoadsAt(t, c2, n + 1)
  <2> DEFINE ins == code[1]
  <2>1. Len(code) # 0
    <3>1. PICK S : code \in Seq(S)
      BY <1>3 DEF IsSeq
    <3> QED BY <1>3, <3>1
  <2>2. code = <<ins>> \o Rest
    BY <1>3, <2>1, SeqSplit DEF Rest
  <2>3. c2[1] = op /\ Tail(c2) = Rest
    <3> HIDE DEF op
    <3> QED BY <1>3, SeqCons
  <2>4. Continues(t, code, n + 1)
    <3>1. n + 1 \in Int
      BY <1>2
    <3> QED BY <1>9, <1>17, <3>1, AgreeBack
  <2> HIDE DEF ins, c2, op
  <2>5. ins[1] = "LOAD" /\ ins[2] = c2[1][2] /\ Continues(t, <<ins>> \o Tail(c2), n + 1)
    BY <1>1, <1>6, <2>2, <2>3, <2>4 DEF ins
  <2> QED BY <2>5 DEF LoadsAt
<1>19. c2[1][1] = "EVALUATE"
  <2> HIDE DEF op
  <2>1. c2[1] = op
    BY <1>3, SeqCons
  <2> QED BY <1>6, <2>1
<1> HIDE DEF c2, n
<1>20. Evaluator(t, c2)
  BY <1>5, <1>6, <1>16, <1>17, <1>18, <1>19 DEF Evaluator
<1>21. Runs(t, c2, runs, was)
  BY <1>20 DEF Runs
<1> QED BY <1>4, <1>15, <1>16, <1>21 DEF Settled, was

-----------------------------------------------------------------------------
(* The VM is run again.                                                    *)

(* The frame of a run, over what C has to tidy up.                         *)
LEMMA RunDeep ==
    ASSUME NEW s, IsSeq(s), Deep(s, runs), ~OfC(s, Len(s)), IsSeq(runs),
           \A r \in 1 .. Len(runs) : runs[r].ss0 # Len(s) /\ runs[r].ss0 \in Nat,
           NEW after, Continues(s, after, Len(s) + 1) \/ Called(s, after, Len(s) + 1),
           NEW rec, rec.ss0 = Len(s), rec.after = after
    PROVE  LET t == Append(s, Finish(Len(runs) + 1))
           IN /\ IsSeq(t) /\ Len(t) = Len(s) + 1 /\ Len(s) \in Nat
              /\ Deep(t, Append(runs, rec)) /\ ~OfC(t, Len(s) + 1)
              /\ Agree(s, t, Len(s) + 1)
              /\ t[Len(s) + 1].m = "return" /\ t[Len(s) + 1].code = FIN
              /\ t[Len(s) + 1].was = << >> /\ t[Len(s) + 1].run # -1
<1> DEFINE n == Len(s)
           l == Len(runs)
           f == Finish(l + 1)
           t == Append(s, f)
           rs2 == Append(runs, rec)
<1>1. n \in Nat /\ l \in Nat /\ n \in 0 .. n /\ (n + 1) - 1 = n /\ n + 1 \in Int /\ n \in Int /\ n < n + 1
  BY SeqLen
<1>2. f.m = "return" /\ f.code = FIN /\ f.was = << >> /\ f.run # -1
  <2>1. f.run = l + 1 /\ l + 1 # -1
    BY <1>1 DEF Finish
  <2> QED BY <2>1 DEF Finish
<1> HIDE DEF f
<1>3. IsSeq(t) /\ Len(t) = n + 1 /\ t[n + 1] = f /\ Agree(s, t, n + 1)
  BY <1>1, SeqAppend DEF Agree
<1>4. Len(rs2) = l + 1 /\ rs2[l + 1] = rec /\ \A r \in 1 .. l : rs2[r] = runs[r]
  BY SeqAppend
<1> HIDE DEF t, rs2
<1>5. \A r \in 1 .. l + 1 : r = l + 1 \/ r \in 1 .. l
  BY <1>1
<1>6. \A p \in 1 .. n : NoMoreRuns(runs, rs2, p)
  <2> SUFFICES ASSUME NEW p \in 1 .. n, NEW r \in 1 .. l + 1, rs2[r].ss0 + 1 = p
               PROVE  r \in 1 .. l
    BY <1>4 DEF NoMoreRuns
  <2>1. p # n + 1
    BY <1>1
  <2> QED BY <1>4, <1>5, <2>1
<1>7. \A p \in 1 .. n : FrameNests(t, rs2, p)
  <2> DEFINE m == n
  <2>1. m \in 0 .. Len(s) /\ Agree(s, t, m + 1) /\ \A p \in 1 .. m : NoMoreRuns(runs, rs2, p)
    BY <1>1, <1>3, <1>6
  <2>2. Len(s) \in Nat
    BY <1>1
  <2> HIDE DEF m
  <2>3. \A p \in 1 .. m : FrameNests(t, rs2, p)
    BY <2>1, <2>2, DeepPart
  <2> QED BY <2>3 DEF m
<1>8. AtFin(t, rs2, FIN, n + 1)
  <2> SUFFICES ASSUME NEW r \in 1 .. l + 1, rs2[r].ss0 + 1 = n + 1
               PROVE  Continues(t, rs2[r].after, n + 1) \/ Called(t, rs2[r].after, n + 1)
    BY <1>4 DEF AtFin
  <2>1. r = l + 1
    <3> SUFFICES ASSUME r \in 1 .. l PROVE FALSE
      BY <1>5
    <3>1. runs[r].ss0 + 1 = n + 1 /\ runs[r].ss0 \in Nat /\ runs[r].ss0 # n
      BY <1>4
    <3> QED BY <1>1, <3>1
  <2>2. Continues(s, after, n + 1) => Continues(t, after, n + 1)
    BY <1>1, <1>3, AgreeBack
  <2>3. Called(s, after, n + 1) => Called(t, after, n + 1)
    BY <1>1, <1>3, AgreeBack
  <2> QED BY <1>4, <2>1, <2>2, <2>3
<1>9. FrameNests(t, rs2, n + 1)
  <2>1. ~OfC(t, n)
    BY <1>1, <1>3, AgreeReturns
  <2>2. FIN # TOP
    <3>1. FIN[1][1] = "FINISH" /\ TOP[1][1] = "ABORT-TOP"
      BY DEF FIN, TOP
    <3> QED BY <3>1
  <2>3. Addressed(t, rs2, FIN, n + 1, << >>)
    BY <1>8 DEF Addressed
  <2> QED BY <1>1, <1>2, <1>3, <2>1, <2>2, <2>3 DEF FrameNests
<1>10. Deep(t, rs2)
  <2>1. \A p \in 1 .. n + 1 : p = n + 1 \/ p \in 1 .. n
    BY <1>1
  <2> QED BY <1>3, <1>7, <1>9, <2>1 DEF Deep
<1>11. ~OfC(t, n + 1)
  BY <1>2, <1>3 DEF OfC
<1> QED BY <1>1, <1>2, <1>3, <1>10, <1>11 DEF t, rs2, f

(* load goes on with the rest of its expressions.                          *)
LEMMA LoadAgain ==
    ASSUME NEW s, NEW p \in Int, NEW c, IsSeq(c), NEW ins, ins[1] = "LOAD",
           Continues(s, <<ins>> \o c, p), NEW ins2, ins2[1] = "LOAD",
           ins[2] = -1 => ins2 = <<"LOAD", -1>>
    PROVE  Continues(s, <<ins2>> \o c, p)
<1> DEFINE c1 == <<ins>> \o c
           c2 == <<ins2>> \o c
           e == << >>
<1>1. c1[1] = ins /\ Tail(c1) = c /\ c2[1] = ins2 /\ Tail(c2) = c
  BY SeqCons
<1>2. ASSUME Activation(s, c1, p, e) PROVE Activation(s, c2, p, e)
  <2>1. PICK b, own, w : ActsAt(s, c1, p, e, b, own, w)
    BY <1>2 DEF Activation
  <2>2. Takes(c1, own, w)
    BY <2>1 DEF ActsAt
  <2> HIDE DEF c1, e
  <2>3. /\ c1[1][1] \notin Leaves /\ c1[1][1] = "LOAD"
        /\ ins2[1] \in Program \ Leaves /\ ins2[1] \notin {"EXPR", "REF", "POP-ABORT", "CALL", "PROMPT", "FUNCTION-INVOKE"}
        /\ ins2[1] \notin Uses /\ ins2[1] \notin {"PUSH-DYNAMIC", "PUSH-TRAP", "RESTORE-STATE"}
    BY <1>1 DEF Leaves, Program, Uses
  <2>4. /\ \E v : Step(c1[1], w, v) /\ Takes(c, own, v)
        /\ Len(c1) \in Nat /\ Len(c1) >= 2
        /\ c[1][1] \notin Uses /\ c[Len(c)] = c1[Len(c1)]
    <3>1. /\ \E v : Step(c1[1], w, v) /\ Takes(Tail(c1), own, v)
          /\ Len(c1) \in Nat /\ Len(c1) >= 2
          /\ Tail(c1)[Len(Tail(c1))] = c1[Len(c1)]
          /\ Tail(c1)[1][1] \in Uses => c1[1][1] \in {"PUSH-DYNAMIC", "PUSH-TRAP", "RESTORE-STATE"}
      BY <2>2, <2>3, TakesRest
    <3> QED BY <1>1, <2>3, <3>1
  <2>5. PICK v : Step(c1[1], w, v) /\ Takes(c, own, v)
    BY <2>4
  <2>6. Step(ins2, w, v) /\ IsSeq(w)
    BY <1>1, <2>2, <2>5 DEF Step, Takes
  <2>7. Takes(c2, own, w)
    BY <2>3, <2>4, <2>5, <2>6, TakesMore
  <2> HIDE DEF c2
  <2>8. c2[1][1] \notin Leaves /\ c2[1][1] \notin Uses
    BY <1>1, <2>3
  <2>9. c2[Len(c2)] = c1[Len(c1)]
    <3>1. Tail(c2)[Len(Tail(c2))] = c2[Len(c2)]
      BY <2>7, <2>8, TakesRest
    <3> QED BY <1>1, <2>4, <3>1
  <2>10. Knows(c2, e, own) /\ Len(c1) # 1
    BY <2>4, <2>8 DEF Knows
  <2>11. ActsAt(s, c2, p, e, b, own, w)
    BY <2>1, <2>7, <2>9, <2>10, ActsStay
  <2> QED BY <2>11 DEF Activation
<1>3. ASSUME Main(s, c1, p) PROVE Main(s, c2, p)
  <2>1. c1 = << <<"LOAD", -1>>, <<"EXIT">> >>
    <3>1. c1 \in {<< <<"REPL">> >>, << <<"LOAD", -1>>, <<"EXIT">> >>, << <<"EXIT">> >>}
      BY <1>3 DEF Main
    <3>2. << <<"REPL">> >>[1][1] = "REPL" /\ << <<"EXIT">> >>[1][1] = "EXIT" /\ c1[1][1] = "LOAD"
      BY <1>1
    <3> HIDE DEF c1
    <3> QED BY <3>1, <3>2
  <2>2. c1[1] = <<"LOAD", -1>>
    <3> DEFINE x == <<"LOAD", -1>>
               y == <<"EXIT">>
    <3>1. c1 = <<x, y>>
      BY <2>1
    <3> HIDE DEF c1, x, y
    <3> QED BY <3>1, SeqShort DEF x
  <2>3. ins = <<"LOAD", -1>> /\ ins2 = ins
    BY <1>1, <2>2
  <2>4. c2 = c1
    BY <2>3
  <2> HIDE DEF c1, c2
  <2> QED BY <1>3, <2>4
<1> QED BY <1>2, <1>3 DEF Continues

(* The code generated is run.                                              *)
LEMMA LoadRunsNests ==
    ASSUME NInv, LoadRuns
    PROVE  Settled' /\ mode' = mode
<1> DEFINE n == Len(stack)
           m == n - 3
           l == Len(runs)
           was == <<frame, regs>>
           s == SubSeq(stack, 1, m)
           k == code[1][2]
           left == IF k > 0 THEN k - 1 ELSE k
           op == <<"LOAD", left>>
           after == <<op>> \o Rest
           rec == [ss0 |-> Len(s), after |-> after, pause |-> pause - 1]
           t == Append(s, Finish(l + 1))
<1>1. mode = "run" /\ code[1][1] = "EVALUATE" /\ code[1][1] # "EXIT"
  BY DEF LoadRuns, At
<1>2. /\ Steady /\ Deep(stack, runs) /\ Runs(stack, code, runs, was)
      /\ Sound(stack, code, holes, runs) /\ IsSeq(stack) /\ n \in Nat /\ n >= 5
  BY <1>1, AtNesting
<1>3. RunC(s, after, Loaded, frame, Regs(frame, regs.func), pause - 1)
  BY DEF LoadRuns, Loaded
<1>4. /\ stack' = t /\ code' = Loaded /\ runs' = Append(runs, rec) /\ mode' = mode
  BY <1>3 DEF RunC
<1>5. Evaluator(stack, code)
  BY <1>1, <1>2, RunsAs
<1>6. n >= 8 /\ stack[n - 2].m = "abort" /\ LoadsAt(stack, code, n - 2)
  BY <1>5 DEF Evaluator
<1>7. m \in Nat /\ m \in 0 .. n /\ m + 1 = n - 2 /\ m >= 5 /\ m + 1 \in 1 .. n /\ m + 1 \in Int
      /\ m + 1 # n + 1 /\ m < m + 1 /\ (m + 1) - 1 = m /\ m \in Int
  BY <1>2, <1>6
<1>8. PICK ins : ins[1] = "LOAD" /\ ins[2] = k /\ Continues(stack, <<ins>> \o Rest, m + 1)
  BY <1>6, <1>7 DEF LoadsAt, Rest
<1> HIDE DEF n
<1>9. IsSeq(Rest)
  <2>1. FIN[1][1] = "FINISH" /\ TOP[1][1] = "ABORT-TOP"
    BY DEF FIN, TOP
  <2>2. Evaluating(stack, code, holes, runs)
    BY <1>1, <1>2, <2>1, Running DEF Steady
  <2> QED BY <2>2 DEF Evaluating, Fits, Plain, Rest
<1>10. Continues(stack, after, m + 1)
  <2>1. op[1] = "LOAD" /\ (k = -1 => op = <<"LOAD", -1>>)
    <3>1. k = -1 => left = -1
      OBVIOUS
    <3> QED BY <3>1
  <2> HIDE DEF op, k, m
  <2> QED BY <1>7, <1>8, <1>9, <2>1, LoadAgain
<1>11. IsSeq(s) /\ Len(s) = m /\ Deep(s, runs) /\ Agree(stack, s, m + 1)
  <2>1. \A p : NoMoreRuns(runs, runs, p)
    BY DEF NoMoreRuns
  <2>2. m \in 0 .. Len(stack)
    BY <1>7 DEF n
  <2> HIDE DEF m
  <2> QED BY <1>2, <1>7, <2>1, <2>2, SeqCut, DeepFirst
<1>12. ~OfC(s, m)
  <2>1. FrameNests(stack, runs, m + 1) /\ stack[m + 1].m = "abort"
    BY <1>2, <1>6, <1>7 DEF Deep, n
  <2>2. ~OfC(stack, m)
    BY <1>7, <2>1 DEF FrameNests
  <2> HIDE DEF m, s
  <2> QED BY <1>7, <1>11, <2>2, AgreeReturns
<1>13. IsSeq(runs) /\ \A r \in 1 .. l : runs[r].ss0 # Len(s) /\ runs[r].ss0 \in Nat
  <2>1. /\ IsSeq(runs)
        /\ \A r \in 1 .. l : runs[r].ss0 \in 5 .. n /\ CodeAt(stack, code, runs[r].ss0 + 1) = FIN
    BY <1>2, SoundFacts DEF n
  <2>2. CodeAt(stack, code, m + 1) = << >>
    BY <1>6, <1>7 DEF CodeAt, n
  <2>3. FIN # << >>
    <3>1. Len(FIN) = 1
      BY SeqShort DEF FIN
    <3> QED BY <3>1, SeqShort
  <2>4. \A x : x = Len(s) => x + 1 = m + 1
    BY <1>11
  <2>5. \A x \in 5 .. n : x \in Nat
    OBVIOUS
  <2> HIDE DEF m, s
  <2> QED BY <2>1, <2>2, <2>3, <2>4, <2>5
<1>14. Continues(s, after, m + 1)
  <2> HIDE DEF m, s, after
  <2> QED BY <1>7, <1>10, <1>11, AgreeBack
<1>15. rec.ss0 = Len(s) /\ rec.after = after
  OBVIOUS
<1> HIDE DEF rec, s, after, k, m
<1>16. /\ Len(t) = Len(s) + 1 /\ Deep(t, Append(runs, rec)) /\ ~OfC(t, Len(s) + 1)
       /\ t[Len(s) + 1].m = "return" /\ t[Len(s) + 1].code = FIN
       /\ t[Len(s) + 1].was = << >> /\ t[Len(s) + 1].run # -1
  BY <1>11, <1>12, <1>13, <1>14, <1>15, RunDeep
<1> HIDE DEF t
<1>17. Starts(t, Loaded)
  <2>1. Len(t) >= 1
    BY <1>7, <1>11, <1>16
  <2> QED BY <1>16, <2>1 DEF Starts
<1>18. \A rs, x : Runs(t, Loaded, rs, x)
  BY <1>17 DEF Runs
<1> QED BY <1>4, <1>16, <1>18 DEF Settled

(* A closure is called back.                                               *)
LEMMA ClosureNests ==
    ASSUME NInv, CallbackClosure
    PROVE  Settled' /\ mode' = mode
<1> DEFINE n == Len(stack)
           l == Len(runs)
           pc == Reference \o Rest
           after == << <<"INVOKE-C-DONE">> >>
           a == n + 3
           ins == <<"RETURN">>
           body == << <<"EXPR", a>>, ins >>
<1>1. mode = "run" /\ code[1][1] = "EXPR" /\ code[1][1] # "EXIT"
  BY DEF CallbackClosure, At
<1>2. Deep(stack, runs) /\ ~OfC(stack, n) /\ IsSeq(stack) /\ n \in Nat /\ Sound(stack, code, holes, runs)
  BY <1>1, AtNesting
<1>3. pc = Reference \o Rest
  OBVIOUS
<1>23. PICK r : RunC(Invoked(r), after, body, a, Regs(a, r.func), pause)
  BY DEF CallbackClosure
<1> DEFINE g == AllState(frame, r)
           s == Append(Append(stack, CReturn(pc)), g)
           rec == [ss0 |-> Len(s), after |-> after, pause |-> pause]
           t == Append(s, Finish(l + 1))
           aa == <<a, Regs(a, r.func)>>
<1>4. Invoked(r) = s
  BY <1>2, SeqAppends DEF Invoked
<1>5. RunC(s, after, body, a, Regs(a, r.func), pause)
  BY <1>4, <1>23
<1>6. /\ stack' = t /\ code' = body /\ runs' = Append(runs, rec) /\ mode' = mode
      /\ frame' = a /\ regs' = Regs(a, r.func)
  BY <1>5 DEF RunC
<1> HIDE DEF pc
<1>7. /\ pc # TOP /\ Activation(stack, pc, n + 1, <<frame, r>>)
      /\ InRun(stack, n + 1) /\ InLoad(stack, n + 1)
  BY <1>1, <1>3, RefActs
<1>8. g.m = "all-state" /\ g.frame = frame /\ g.regs = r
  BY DEF AllState
<1> HIDE DEF g
<1>9. /\ IsSeq(s) /\ Len(s) = n + 2 /\ Deep(s, runs)
      /\ OfC(s, n + 1) /\ ~OfC(s, n + 2) /\ Agree(stack, s, n + 1)
      /\ s[n + 1] = CReturn(pc) /\ s[n + 2] = g
  BY <1>2, <1>7, <1>8, InvokedDeep
<1> HIDE DEF s
<1>10. n + 1 \in Int /\ (n + 3) - 2 = n + 1 /\ (n + 3) - 1 = n + 2 /\ (n + 2) + 1 = n + 3 /\ n + 2 \in Nat
       /\ n + 3 \in Int /\ n + 1 < n + 3 /\ n + 1 <= n + 4 /\ (n + 2) + 2 = n + 4 /\ n + 4 \in Int
       /\ (n + 3) + 1 = n + 4
  BY <1>2
<1>11. IsSeq(runs) /\ \A i \in 1 .. l : runs[i].ss0 # Len(s) /\ runs[i].ss0 \in Nat
  <2>1. /\ IsSeq(runs) /\ \A i \in 1 .. l : runs[i].ss0 \in 5 .. n
    BY <1>2, SoundFacts
  <2>2. \A x \in 5 .. n : x \in Nat /\ x # n + 2
    BY <1>2
  <2> QED BY <1>9, <2>1, <2>2
<1>12. Called(s, after, Len(s) + 1)
  <2>1. Activation(s, pc, n + 1, <<frame, r>>)
    <3> DEFINE was == <<frame, r>>
    <3>1. Activation(stack, pc, n + 1, was)
      BY <1>7
    <3> HIDE DEF was
    <3>2. Activation(s, pc, n + 1, was)
      BY <1>9, <1>10, <3>1, AgreeBack
    <3> QED BY <3>2 DEF was
  <2>2. s[n + 1].code = pc
    BY <1>9 DEF CReturn
  <2>3. Called(s, after, n + 3)
    BY <1>8, <1>9, <1>10, <2>1, <2>2 DEF Called
  <2> QED BY <1>9, <1>10, <2>3
<1>13. rec.ss0 = Len(s) /\ rec.after = after
  OBVIOUS
<1> HIDE DEF rec, after
<1>14. ~OfC(s, Len(s))
  BY <1>9
<1>15. /\ Len(t) = Len(s) + 1 /\ Deep(t, Append(runs, rec)) /\ ~OfC(t, Len(s) + 1)
       /\ Agree(s, t, Len(s) + 1)
       /\ t[Len(s) + 1].m = "return" /\ t[Len(s) + 1].code = FIN
       /\ t[Len(s) + 1].was = << >> /\ t[Len(s) + 1].run # -1
  BY <1>9, <1>11, <1>12, <1>13, <1>14, RunDeep
<1> HIDE DEF t
<1>16. Len(t) = n + 3 /\ Len(s) + 1 = n + 3 /\ Agree(stack, t, n + 1)
  <2>1. \A i \in 1 .. (n + 1) - 1 : i \in 1 .. (Len(s) + 1) - 1
    BY <1>2, <1>9
  <2> QED BY <1>9, <1>10, <1>15, <2>1 DEF Agree
<1>17. Takes(body, a, << >>) /\ Knows(body, aa, a)
  <2>1. ins[1] \in Leaves
    BY DEF Leaves
  <2> HIDE DEF ins, a
  <2>2. Takes(body, a, << >>)
    BY <2>1, TakesBody
  <2> QED BY <2>2, SeqShort DEF Knows
<1>18. InRun(t, n + 4) /\ InLoad(t, n + 4)
  BY <1>7, <1>10, <1>16, InsideMore
<1>19. FIN \notin Backs
  <2>1. \A x \in Backs : x[1][1] # "FINISH"
    BY BacksFacts DEF Backs
  <2>2. FIN[1][1] = "FINISH"
    BY DEF FIN
  <2> QED BY <2>1, <2>2
<1> HIDE DEF a, body, aa
<1>20. Activation(t, body, n + 4, aa)
  <2> DEFINE k == n + 2
  <2>1. k \in Nat /\ k + 1 = n + 3 /\ k + 2 = n + 4
    BY <1>10
  <2>2. t[k + 1].m = "return" /\ t[k + 1].run # -1 /\ t[k + 1].was = << >> /\ t[k + 1].code \notin Backs
    BY <1>15, <1>16, <1>19, <2>1
  <2>3. InRun(t, k + 2) /\ InLoad(t, k + 2)
    BY <1>18, <2>1
  <2> HIDE DEF k
  <2>4. Activation(t, body, k + 2, aa)
    BY <1>17, <2>1, <2>2, <2>3, ActsNew DEF Returns
  <2> QED BY <2>1, <2>4
<1>21. \A rs : Runs(t, body, rs, aa)
  BY <1>10, <1>16, <1>20 DEF Runs, Addressed
<1>22. ~OfC(t, Len(t))
  BY <1>15, <1>16
<1> QED BY <1>6, <1>15, <1>21, <1>22 DEF Settled, aa

-----------------------------------------------------------------------------
(* An expression that is loaded, and the end of a call from C.             *)

(* The code of a loaded expression, after its ABORT is set.                *)
LEMMA TakesLoaded ==
    LET c == << <<"EXPR", 0>>, <<"POP-ABORT">>, <<"RETURN">> >>
    IN /\ Takes(c, 0, <<"abort">>) /\ Len(c) = 3 /\ c[1][1] = "EXPR"
       /\ c[Len(c)][1] = "RETURN"
<1> DEFINE x == <<"EXPR", 0>>
           y == <<"POP-ABORT">>
           z == <<"RETURN">>
           w == <<"abort">>
           c1 == <<z>>
           c2 == <<y>> \o c1
           c3 == <<x>> \o c2
           c == <<x, y, z>>
<1>1. /\ x[1] = "EXPR" /\ x[2] = 0 /\ y[1] = "POP-ABORT" /\ z[1] = "RETURN"
      /\ x[1] \in Program \ Leaves /\ y[1] \in Program \ Leaves /\ z[1] \in Leaves
      /\ z[1] \notin Uses /\ y[1] \notin Uses
      /\ y[1] \notin {"EXPR", "REF", "CALL", "PROMPT", "FUNCTION-INVOKE"} /\ x[1] \notin {"POP-ABORT", "CALL", "PROMPT", "FUNCTION-INVOKE"}
  BY DEF Program, Leaves, Uses
<1>2. IsSeq(w) /\ w = w \o << >>
  BY SeqShort
<1>3. Step(y, w, << >>) /\ Step(x, w, w)
  BY <1>1, <1>2 DEF Step, PopsOf, PushesOf
<1>4. c = c3 /\ Len(c) = 3 /\ c[1] = x /\ c[3] = z
  <2> HIDE DEF x, y, z
  <2>1. <<x, y, z>> = <<x>> \o <<y, z>> /\ <<y, z>> = <<y>> \o <<z>>
    BY SeqTriple, SeqPair
  <2> QED BY <2>1, SeqShort
<1> HIDE DEF x, y, z, w, c
<1>5. Takes(c1, 0, << >>) /\ Len(c1) = 1 /\ c1[1] = z
  BY <1>1, TakesLast
<1> HIDE DEF c1
<1>6. Takes(c2, 0, w) /\ c2[1] = y
  <2>1. IsSeq(c1)
    BY <1>5 DEF Takes
  <2>2. c2[1] = y
    BY <2>1, SeqCons
  <2>3. c1[1][1] \notin Uses
    BY <1>1, <1>5
  <2> DEFINE e == << >>
  <2>4. Takes(c1, 0, e) /\ Step(y, w, e)
    BY <1>3, <1>5
  <2> HIDE DEF e
  <2>5. Takes(c2, 0, w)
    BY <1>1, <1>2, <1>5, <2>3, <2>4, TakesMore
  <2> QED BY <2>2, <2>5
<1> HIDE DEF c2
<1>7. Takes(c3, 0, w)
  BY <1>1, <1>2, <1>3, <1>6, TakesMore
<1> HIDE DEF c3
<1>8. Takes(c, 0, w) /\ Len(c) = 3 /\ c[1][1] = "EXPR" /\ c[Len(c)][1] = "RETURN"
  BY <1>1, <1>4, <1>7
<1> QED BY <1>8 DEF x, y, z, w, c

(* The ABORT of an expression that is loaded.                              *)
LEMMA PushAbortNests ==
    ASSUME NInv, PushAbort
    PROVE  Settled' /\ mode' = mode
<1> DEFINE n == Len(stack)
           k == Continuation(stack, R, frame)
           f == Abort(FindMarker(stack, "abort"), k)
           c2 == << <<"EXPR", 0>>, <<"POP-ABORT">>, <<"RETURN">> >>
           sa == Append(stack, f)
           was == <<0, regs>>
           w == <<"abort">>
           e == << >>
<1>1. mode = "run" /\ code[1][1] = "PUSH-ABORT" /\ code[1][1] # "EXIT"
  BY DEF PushAbort, At
<1>2. /\ Deep(stack, runs) /\ IsSeq(stack) /\ n \in Nat /\ n >= 5 /\ ~OfC(stack, n)
      /\ Runs(stack, code, runs, <<frame, regs>>)
  BY <1>1, AtNesting
<1>3. Starts(stack, code)
  BY <1>1, <1>2, RunsAs
<1>4. /\ code = Loaded /\ stack[n].m = "return" /\ stack[n].code = FIN
      /\ stack[n].was = << >> /\ stack[n].run # -1
  BY <1>3 DEF Starts
<1>5. stack' = sa /\ code' = c2 /\ <<frame', regs'>> = was /\ runs' = runs /\ mode' = mode
  <2>1. /\ Min({i \in DOMAIN code : code[i] = <<"POP-ABORT">>}) = 3
        /\ SubSeq(code, 3 + 1, Len(code)) = << <<"RETURN">> >> /\ Rest = c2
    BY <1>4, LoadedFacts DEF Rest
  <2> QED BY <2>1 DEF PushAbort, Push, R
<1>6. f.m = "abort" /\ f.k.code = R
  BY DEF Abort, Continuation
<1> HIDE DEF f
<1>7. IsSeq(sa) /\ Len(sa) = n + 1 /\ sa[n + 1] = f /\ Agree(stack, sa, n + 1) /\ sa[n] = stack[n]
  <2>1. n \in 1 .. n
    BY <1>2
  <2> QED BY <1>2, <2>1, SeqAppend DEF Agree
<1> HIDE DEF sa
<1>8. FIN \notin Backs
  <2>1. \A x \in Backs : x[1][1] # "FINISH"
    BY BacksFacts DEF Backs
  <2>2. FIN[1][1] = "FINISH"
    BY DEF FIN
  <2> QED BY <2>1, <2>2
<1>9. /\ n \in 1 .. (n + 1) - 1 /\ n \in 1 .. (n + 2) - 1 /\ n + 1 \in 6 .. (n + 2) - 1
      /\ (n + 2) - 1 = n + 1 /\ (n + 2) - 1 - n = 1 /\ (n + 1) - 1 = n /\ n + 1 \in Int
      /\ \A j \in n + 1 .. (n + 2) - 1 : j = n + 1
      /\ (n + 1) + 1 = n + 2
  BY <1>2
<1>10. InRun(sa, n + 1) /\ InRun(sa, n + 2) /\ InLoad(sa, n + 2)
  BY <1>4, <1>6, <1>7, <1>9 DEF InRun, InLoad
<1>11. Activation(sa, R, n + 1, e)
  <2> DEFINE m == n - 1
             ins == <<"RETURN">>
  <2>1. m \in Nat /\ m + 1 = n /\ m + 2 = n + 1
    BY <1>2
  <2>2. ins[1] \in Leaves /\ ins[1] \notin Uses
    BY DEF Leaves, Uses
  <2>3. R = <<ins>>
    BY DEF R
  <2> HIDE DEF m, ins
  <2>4. Takes(R, 0, << >>) /\ Len(R) = 1 /\ R[1] = ins
    BY <2>2, <2>3, TakesLast
  <2>5. Knows(R, e, 0)
    BY <2>2, <2>4 DEF Knows
  <2>6. /\ sa[m + 1].m = "return" /\ sa[m + 1].run # -1 /\ sa[m + 1].was = << >>
        /\ sa[m + 1].code \notin Backs /\ InRun(sa, m + 2)
    BY <1>4, <1>7, <1>8, <1>10, <2>1
  <2> HIDE DEF e
  <2>7. Activation(sa, R, m + 2, e)
    BY <2>1, <2>4, <2>5, <2>6, ActsNew DEF Returns
  <2> QED BY <2>1, <2>7
<1>12. FrameNests(sa, runs, n + 1)
  <2>1. ~OfC(sa, n)
    BY <1>4, <1>7 DEF OfC
  <2> QED BY <1>6, <1>7, <1>9, <1>11, <2>1 DEF FrameNests, Continues
<1>13. Deep(sa, runs)
  BY <1>2, <1>7, <1>12, DeepAppend DEF sa
<1>14. Activation(sa, c2, n + 2, was)
  <2>1. Takes(c2, 0, w) /\ Len(c2) = 3 /\ c2[1][1] = "EXPR"
    BY TakesLoaded
  <2>2. Len(was) >= 1 /\ was[1] = 0 /\ Len(w) = 1 /\ w[1] = "abort"
    BY SeqShort
  <2> HIDE DEF c2, was, w, n
  <2>3. \A j \in 1 .. Len(w) : w[j] = sa[(n + 2) - j].m
    <3>1. \A j \in 1 .. 1 : j = 1
      OBVIOUS
    <3>2. sa[(n + 2) - 1].m = "abort"
      BY <1>6, <1>7, <1>9
    <3>3. \A j \in 1 .. 1 : w[j] = sa[(n + 2) - j].m
      BY <2>2, <3>1, <3>2
    <3> QED BY <2>2, <3>3
  <2>4. \A j \in n + 1 .. (n + 2) - 1 : Owned(sa[j], 0)
    BY <1>6, <1>7, <1>9 DEF Owned
  <2>5. ActsAt(sa, c2, n + 2, was, n, 0, w)
    BY <1>4, <1>7, <1>8, <1>9, <1>10, <2>1, <2>2, <2>3, <2>4 DEF ActsAt, Returns
  <2> QED BY <2>5 DEF Activation
<1> HIDE DEF c2, was
<1>15. Runs(sa, c2, runs, was)
  BY <1>7, <1>9, <1>14 DEF Runs, Addressed
<1>16. ~OfC(sa, Len(sa))
  BY <1>6, <1>7 DEF OfC, IsReturn
<1> QED BY <1>5, <1>13, <1>15, <1>16 DEF Settled

(* C goes back to the code that called it; it finds its own frames.        *)
LEMMA InvokeCDoneNests ==
    ASSUME NInv, InvokeCDone
    PROVE  Settled' /\ mode' = mode
<1> DEFINE n == Len(stack)
           m == n - 2
           t == SubSeq(stack, 1, m)
           c2 == stack[n - 1].code
           was == <<stack[n].frame, stack[n].regs>>
<1>1. mode = "run" /\ code[1][1] = "INVOKE-C-DONE" /\ code[1][1] # "EXIT"
  BY DEF InvokeCDone, At
<1>2. /\ Deep(stack, runs) /\ IsSeq(stack) /\ n \in Nat /\ n >= 5
      /\ Runs(stack, code, runs, <<frame, regs>>)
  BY <1>1, AtNesting
<1>3. Called(stack, code, n + 1)
  BY <1>1, <1>2, RunsAs
<1>4. /\ (n + 1) - 2 = n - 1 /\ (n + 1) - 1 = n /\ m \in 0 .. n /\ m + 1 = n - 1 /\ m + 1 \in Int
      /\ (m + 1) - 1 = m
  BY <1>2
<1>5. OfC(stack, n - 1) /\ stack[n].m = "all-state" /\ Activation(stack, c2, n - 1, was)
  BY <1>3, <1>4 DEF Called
<1>6. stack[n - 1].m = "return"
  BY <1>5 DEF OfC, IsReturn
<1>7. stack' = t /\ code' = c2 /\ <<frame', regs'>> = was /\ runs' = runs /\ mode' = mode
  BY <1>5, <1>6 DEF InvokeCDone
<1> HIDE DEF c2, was
<1>8. Activation(stack, c2, m + 1, was)
  BY <1>4, <1>5
<1>9. Len(t) = m /\ Deep(t, runs) /\ Agree(stack, t, m + 1)
  <2>1. \A p : NoMoreRuns(runs, runs, p)
    BY DEF NoMoreRuns
  <2>2. m \in 0 .. Len(stack)
    BY <1>4
  <2> HIDE DEF m
  <2> QED BY <1>2, <2>1, <2>2, SeqCut, DeepFirst
<1> HIDE DEF m, t
<1>10. Activation(t, c2, m + 1, was)
  BY <1>4, <1>8, <1>9, AgreeBack
<1>11. ~OfC(t, Len(t))
  BY <1>4, <1>9, <1>10, ActsTop
<1>12. Runs(t, c2, runs, was)
  BY <1>9, <1>10 DEF Runs, Addressed
<1> QED BY <1>7, <1>9, <1>11, <1>12 DEF Settled

(***************************************************************************)
(* The nesting invariant.                                                  *)
(***************************************************************************)

(* What restart-condition-handler does, one of three things.               *)
LEMMA RestartCases ==
    ASSUME RestartHandler
    PROVE  \/ RestartHandler /\ Handled /\ code[1][3] = "SIGCHLD"
           \/ RestartHandler /\ FindAbort2(stack) # 0 /\ Restore(stack[FindAbort2(stack)].k, regs)
           \/ RestartHandler /\ Raise("raise", code[1][3], TRUE, regs.func, stack, Rest)
<1>1. CASE interactive /\ code[1][3] = "SIGCHLD"
  BY <1>1 DEF RestartHandler
<1>2. CASE ~(interactive /\ code[1][3] = "SIGCHLD") /\ interactive /\ FindAbort2(stack) # 0
  BY <1>2 DEF RestartHandler
<1>3. CASE ~(interactive /\ code[1][3] = "SIGCHLD") /\ ~(interactive /\ FindAbort2(stack) # 0)
  BY <1>3 DEF RestartHandler
<1> QED BY <1>1, <1>2, <1>3

(* A step of the machine is one of a VM that runs.                         *)
LEMMA StepsRun == Machine \/ Signal => mode = "run"
BY DEF Machine, Signal, At, Repl, LoadEnds, Exit, LoadReads, LoadRuns, EvaluateFails, Value,
       Application, TrapForm, DynamicForm, RaiseForm, ReraiseForm, CallbackClosure, CallbackFails,
       LoadForm, PushAbort, PopAbort, Ref, PreserveState, RestoreState, RestoreAllState, Call,
       RestoreAllStateFails, PopFunction, FunctionInvoke, InvokeCFails, LoadFile, ReturnFrom, PushTrap, PopTrap, PushDynamic, PopDynamic, Prompt, AbortTop,
       TrapReturn, DefaultSigchld, DefaultHandler, RestartHandler, ResetHandler, NonContErr,
       FinishRun, InvokeCDone, Expands

(* A step but the last leaves the VM running, with each activation's part  *)
(* of the stack holding what its code takes.                               *)
LEMMA NestsStep ==
    ASSUME CallbackErrors = FALSE, NInv, Machine \/ Signal, ~Exit
    PROVE  Settled' /\ mode' = "run"
<1>1. mode = "run"
  BY StepsRun
<1>2. CASE Repl \/ LoadReads \/ LoadRuns \/ EvaluateFails
  BY <1>1, <1>2, ReplNests, LoadReadsNests, LoadRunsNests, EvaluateFailsNests
<1>3. CASE LoadEnds
  BY <1>1, <1>3, LoadEndsNests DEF LoadEnds
<1>4. CASE Value \/ Application \/ TrapForm \/ DynamicForm \/ LoadForm \/ Ref
  <2>1. mode' = mode
    BY <1>4 DEF Value, Application, TrapForm, DynamicForm, LoadForm, Ref, Expands
  <2> QED BY <1>1, <1>4, <2>1, ExpandNests
<1>5. CASE RaiseForm \/ ReraiseForm \/ CallbackClosure \/ CallbackFails
  BY <1>1, <1>5, RaiseFormNests, ClosureNests, CallbackFailsNests
<1>6. CASE PreserveState \/ LoadFile \/ PushTrap \/ PushDynamic
  <2>1. mode' = mode
    BY <1>6 DEF PreserveState, LoadFile, PushTrap, PushDynamic, Push
  <2> QED BY <1>1, <1>6, <2>1, PushNests
<1>7. CASE PushAbort
  BY <1>1, <1>7, PushAbortNests
<1>8. CASE Call \/ Prompt
  <2>1. mode' = mode
    BY <1>8 DEF Call, Prompt, Push
  <2> QED BY <1>1, <1>8, <2>1, CallNests, PromptNests
<1>9. CASE PopAbort \/ RestoreState \/ RestoreAllState \/ PopTrap \/ PopDynamic
  BY <1>9, PopNests
<1>10. CASE ReturnFrom
  BY <1>10, ReturnNests
<1>11. CASE AbortTop \/ TrapReturn
  BY <1>1, <1>11, HoleNests
<1>12. CASE DefaultSigchld \/ DefaultHandler
  BY <1>1, <1>12, BaseHandlerNests
<1>13. CASE RestartHandler
  BY <1>1, <1>13, RestartCases, BaseHandlerNests, ResetNests
<1>14. CASE ResetHandler \/ NonContErr
  BY <1>1, <1>14, ResetNests
<1>15. CASE FinishRun \/ InvokeCDone
  BY <1>1, <1>15, FinishNests, InvokeCDoneNests
<1>16. CASE Signal
  BY <1>1, <1>16, SignalNests
<1>17. CASE PopFunction \/ FunctionInvoke
  BY <1>1, <1>17, PopFunctionNests, FunctionInvokeNests
<1>18. CASE RestoreAllStateFails \/ InvokeCFails
  BY <1>1, <1>18, RestoreFailsNests
<1> QED BY <1>2, <1>3, <1>4, <1>5, <1>6, <1>7, <1>8, <1>9, <1>10, <1>11, <1>12, <1>13, <1>14,
           <1>15, <1>16, <1>17, <1>18 DEF Machine

(* Every step keeps it.                                                    *)
LEMMA NestsKeeps == CallbackErrors = FALSE /\ NInv /\ [Next]_vars => NInv'
<1> SUFFICES ASSUME CallbackErrors = FALSE, NInv, [Next]_vars PROVE NInv'
  OBVIOUS
<1>1. IInv'
  BY StepKeeps DEF NInv
<1>2. CASE (Machine \/ Signal) /\ ~Exit
  <2>1. Settled' /\ mode' = "run"
    BY <1>2, NestsStep
  <2> QED BY <1>1, <2>1 DEF NInv, IInv
<1>3. CASE Exit
  <2>1. Settled' /\ mode' = "exit"
    BY <1>3, ExitNests
  <2>2. UNCHANGED <<stack, code, holes, runs>>
    BY <1>3 DEF Exit
  <2> QED BY <1>1, <2>1, <2>2 DEF NInv
<1>4. CASE UNCHANGED vars
  BY <1>1, <1>4 DEF NInv, Settled, vars
<1> QED BY <1>2, <1>3, <1>4 DEF Next, Ended

(* The base is the VM's own.                                               *)
LEMMA NestsStarts == Init => NInv
<1> SUFFICES ASSUME Init PROVE NInv
  OBVIOUS
<1>1. IInv
  BY StartsSteady
<1>2. /\ stack = Base /\ code = << <<"REPL">> >> /\ frame = 0 /\ regs = Regs(0, TRUE)
      /\ holes = << >> /\ runs = << >> /\ mode = "run"
  BY DEF Init
<1>3. Len(Base) = 5 /\ IsSeq(Base)
  <2>1. Base \in Seq({Base[i] : i \in 1 .. 5})
    BY DEF Base
  <2> QED BY <2>1 DEF Base, IsSeq
<1>4. /\ Base[1] = Trap(1, "condition", "reset", 1, 0, 0)
      /\ Base[2] = Trap(1, "condition", "restart", 2, 0, 0)
      /\ Base[3] = Trap(2, "condition", "default", 3, 0, 0)
      /\ Base[4] = Trap(3, "SIGCHLD", "default-SIGCHLD", 4, 0, 0)
      /\ Base[5] = Abort(0, MainK)
  BY DEF Base
<1>5. \A i \in 1 .. 5 : i = 1 \/ i = 2 \/ i = 3 \/ i = 4 \/ i = 5
  OBVIOUS
<1>6. /\ \A i \in 1 .. 4 : Base[i].m = "trap" /\ BaseTrap(Base[i])
      /\ Base[5].m = "abort" /\ Base[5].next = 0
  BY <1>4 DEF Trap, Abort, BaseTrap
<1>7. \A i \in 1 .. 5 : Base[i].m # "return" /\ ~OfC(Base, i)
  BY <1>5, <1>6 DEF OfC, IsReturn
<1>8. ASSUME NEW p \in 1 .. 5 PROVE FrameNests(Base, << >>, p)
  <2>1. Base[p].m # "return"
    BY <1>7
  <2>2. Base[p].m = "trap" => BaseTrap(Base[p])
    BY <1>5, <1>6
  <2>3. ~OfC(Base, p - 1)
    <3>1. p - 1 \in 1 .. 5 \/ ~(p - 1 >= 1)
      OBVIOUS
    <3> QED BY <1>7, <3>1 DEF OfC, IsReturn
  <2>4. ~(Base[p].m = "abort" /\ Base[p].next = 5)
    BY <1>5, <1>6
  <2> QED BY <2>1, <2>2, <2>3, <2>4 DEF FrameNests
<1>9. Deep(Base, << >>)
  BY <1>3, <1>8 DEF Deep
<1>10. Main(Base, << <<"REPL">> >>, 6)
  <2>1. \A q \in 1 .. 6 - 1 : Base[q].m # "return"
    BY <1>7
  <2> QED BY <2>1 DEF Main
<1>11. Settled
  <2>1. Len(Base) + 1 = 6
    BY <1>3
  <2>2. ~OfC(Base, Len(Base))
    BY <1>3, <1>7
  <2> QED BY <1>2, <1>9, <1>10, <2>1, <2>2 DEF Settled, Runs
<1>12. Sound(stack, code, holes, runs) \/ Leaving(stack, code, holes, runs)
  BY <1>1, <1>2 DEF IInv
<1> QED BY <1>1, <1>2, <1>11, <1>12 DEF NInv

(* FRAME is that of the activation whose code looks at it: whatever was    *)
(* called, handled or restored since, the expression that runs next finds  *)
(* the frame it was compiled for.  CallbackErrors = FALSE: a handler that  *)
(* returns for an error raised in C goes back to the code, not to C.       *)
THEOREM FrameIsOwnSafe ==
    ASSUME CallbackErrors = FALSE
    PROVE  Spec => []FrameIsOwn
<1>1. NInv => FrameIsOwn
  <2> SUFFICES ASSUME NInv, mode = "run", code[1][1] \in {"EXPR", "REF"}
               PROVE  frame = code[1][2]
    BY DEF FrameIsOwn
  <2>1. IsSeq(stack) /\ Runs(stack, code, runs, <<frame, regs>>)
    BY AtNesting
  <2>2. Activation(stack, code, Len(stack) + 1, <<frame, regs>>)
    BY <2>1, RunsAs
  <2>3. PICK b, own, w : ActsAt(stack, code, Len(stack) + 1, <<frame, regs>>, b, own, w)
    BY <2>2 DEF Activation
  <2>4. Takes(code, own, w) /\ <<frame, regs>>[1] = own
    BY <2>3 DEF ActsAt, Uses
  <2>5. code[1][2] = own
    BY <2>4, TakesRest DEF Leaves
  <2> QED BY <2>4, <2>5
<1>2. Init => NInv
  BY NestsStarts
<1>3. NInv /\ [Next]_vars => NInv'
  BY NestsKeeps
<1> QED BY <1>1, <1>2, <1>3, PTL DEF Spec

(* A handler that returned leaves no trace: back where the condition was   *)
(* raised, FRAME is as it was, and after a signal, which may come between  *)
(* any two instructions, every register is.                                *)
THEOREM HandlerTransparentSafe ==
    ASSUME CallbackErrors = FALSE
    PROVE  Spec => []HandlerTransparent
<1>1. NInv => HandlerTransparent
  <2> SUFFICES ASSUME NInv, At("RETURN"), Top.m = "return", Top.was # << >>
               PROVE  frame = Top.was[1] /\ (Len(Top.was) = 2 => regs = Top.was[2])
    BY DEF HandlerTransparent
  <2>1. mode = "run" /\ code[1][1] = "RETURN"
    BY DEF At
  <2>2. IsSeq(stack) /\ Len(stack) \in Nat /\ Runs(stack, code, runs, <<frame, regs>>)
    BY <2>1, AtNesting
  <2> DEFINE was == <<frame, regs>>
             n == Len(stack)
  <2>3. Activation(stack, code, n + 1, was) \/ Returning(stack, code, n + 1, was)
    BY <2>1, <2>2, RunsAs
  <2>4. CASE Activation(stack, code, n + 1, was)
    <3>1. PICK b, own, w : ActsAt(stack, code, n + 1, was, b, own, w)
      BY <2>4 DEF Activation
    <3>2. Takes(code, own, w) /\ Len(w) = ((n + 1) - 1) - b /\ b \in 1 .. (n + 1) - 1 /\ stack[b].was = << >>
      BY <3>1 DEF ActsAt
    <3>3. w = << >>
      BY <2>1, <3>2, TakesLeaf DEF Leaves
    <3>4. Len(w) = 0
      BY <3>3
    <3>5. b = n
      BY <2>2, <3>2, <3>4
    <3> QED BY <3>2, <3>5 DEF Top
  <2>5. CASE Returning(stack, code, n + 1, was)
    <3>1. n + 1 - 1 = n
      BY <2>2
    <3>2. Covers(was, stack[n].was)
      BY <2>5, <3>1 DEF Returning
    <3> QED BY <3>2 DEF Covers, Top
  <2> QED BY <2>3, <2>4, <2>5
<1>2. Init => NInv
  BY NestsStarts
<1>3. NInv /\ [Next]_vars => NInv'
  BY NestsKeeps
<1> QED BY <1>1, <1>2, <1>3, PTL DEF Spec

(***************************************************************************)
(* What an activation's part of the stack holds is what its code wants.    *)
(***************************************************************************)

(* The parts of Nested: the return frame below position i, the marks from  *)
(* i down to it, the code kept there, and what is asked of them.           *)
BelowOf(s, i) == Max({j \in Positions(s, "return") : j < i} \cup {0})
Marks(s, i) == [j \in 1 .. i - 1 - BelowOf(s, i) |-> s[i - j].m]
Kept(c, i) ==
    LET ofRun == {n \in DOMAIN runs : runs[n].ss0 + 1 = i}
    IN IF c = FIN /\ ofRun # {} THEN runs[Max(ofRun)].after ELSE c
Held(s, c, i) ==
    \/ BelowOf(s, i) = 0
    \/ c # << >> /\ Last(c)[1] = "NON-CONT-ERR"
    \/ Marks(s, i) = Wants(c)

(* The return frame below is the last one there is.                        *)
LEMMA BelowIs ==
    ASSUME NEW s, IsSeq(s), NEW p \in 1 .. Len(s) + 1, NEW b \in 0 .. p - 1,
           b # 0 => s[b].m = "return", \A j \in b + 1 .. p - 1 : s[j].m # "return"
    PROVE  BelowOf(s, p) = b
<1> DEFINE T == {j \in Positions(s, "return") : j < p} \cup {0}
<1>1. Len(s) \in Nat /\ DOMAIN s = 1 .. Len(s)
  BY SeqLen
<1>2. T \in SUBSET (0 .. Len(s)) /\ T # {}
  BY <1>1 DEF Positions
<1>3. b \in T
  BY <1>1 DEF Positions
<1>4. \A j \in T : j <= b
  BY <1>1 DEF Positions
<1> HIDE DEF T
<1>5. Max(T) \in T /\ \A m \in T : m <= Max(T)
  BY <1>1, <1>2, Greatest
<1>6. Max(T) = b
  <2>1. \A j \in T : j \in Int
    BY <1>1, <1>2
  <2>2. Max(T) <= b
    BY <1>4, <1>5
  <2>3. b <= Max(T)
    BY <1>3, <1>5
  <2>4. Max(T) \in Int /\ b \in Int
    BY <1>3, <1>5, <2>1
  <2> QED BY <2>2, <2>3, <2>4
<1> QED BY <1>6 DEF BelowOf, T

(* So are the marks down to it.                                            *)
LEMMA MarksAre ==
    ASSUME NEW s, IsSeq(s), NEW p \in 1 .. Len(s) + 1, NEW b \in 1 .. p - 1,
           s[b].m = "return", \A j \in b + 1 .. p - 1 : s[j].m # "return",
           NEW w, IsSeq(w), Len(w) = p - 1 - b, \A j \in 1 .. Len(w) : w[j] = s[p - j].m
    PROVE  Marks(s, p) = w
<1>1. Len(s) \in Nat
  BY SeqLen
<1>2. BelowOf(s, p) = b
  BY <1>1, BelowIs
<1> DEFINE n == p - 1 - b
           f == [j \in 1 .. n |-> s[p - j].m]
<1>3. n \in Nat
  BY <1>1
<1>4. Marks(s, p) = f
  BY <1>2 DEF Marks
<1>5. /\ f = [j \in 1 .. n |-> f[j]]
      /\ \A j \in 1 .. n : f[j] = s[p - j].m
  OBVIOUS
<1>6. Len(w) = n
  OBVIOUS
<1> HIDE DEF f, n
<1>7. IsSeq(f) /\ Len(f) = n
  BY <1>3, <1>5, SeqMake
<1>8. f = w
  BY <1>5, <1>6, <1>7, SeqSame
<1> QED BY <1>4, <1>8

(* An activation.                                                          *)
LEMMA ActsHold ==
    ASSUME NEW s, IsSeq(s), NEW p \in 1 .. Len(s) + 1, NEW c, NEW was, Activation(s, c, p, was)
    PROVE  Held(s, c, p)
<1>1. PICK b, own, w : ActsAt(s, c, p, was, b, own, w)
  BY DEF Activation
<1>2. /\ b \in 1 .. p - 1 /\ s[b].m = "return" /\ \A j \in b + 1 .. p - 1 : s[j].m # "return"
      /\ Len(w) = p - 1 - b /\ \A j \in 1 .. Len(w) : w[j] = s[p - j].m
      /\ Takes(c, own, w)
  BY <1>1 DEF ActsAt, Owned
<1>3. IsSeq(w)
  BY <1>2 DEF Takes
<1>4. Marks(s, p) = w
  BY <1>2, <1>3, MarksAre
<1>5. Wants(c) = w
  BY <1>2, TakesWanting, WantsIs
<1> QED BY <1>4, <1>5 DEF Held

(* What is on the stack where a handler runs, and after it.                *)
LEMMA MarksFew ==
    ASSUME NEW s, IsSeq(s), NEW p \in 1 .. Len(s) + 1
    PROVE  /\ IsReturn(s, p - 1) => Marks(s, p) = << >>
           /\ IsReturn(s, p - 2) /\ s[p - 1].m # "return" => Marks(s, p) = <<s[p - 1].m>>
           /\ IsReturn(s, p - 3) /\ s[p - 1].m # "return" /\ s[p - 2].m # "return" =>
                 Marks(s, p) = <<s[p - 1].m, s[p - 2].m>>
<1>1. Len(s) \in Nat
  BY SeqLen
<1>2. ASSUME IsReturn(s, p - 1) PROVE Marks(s, p) = << >>
  <2> DEFINE w == << >>
             b == p - 1
  <2>1. b \in 1 .. p - 1 /\ s[b].m = "return"
    BY <1>1, <1>2 DEF IsReturn
  <2>2. \A j \in b + 1 .. p - 1 : s[j].m # "return"
    BY <1>1
  <2>3. IsSeq(w) /\ Len(w) = p - 1 - b /\ \A j \in 1 .. Len(w) : w[j] = s[p - j].m
    BY <1>1, SeqShort
  <2> HIDE DEF w, b
  <2>4. Marks(s, p) = w
    BY <2>1, <2>2, <2>3, MarksAre
  <2> QED BY <2>4 DEF w
<1>3. ASSUME IsReturn(s, p - 2), s[p - 1].m # "return" PROVE Marks(s, p) = <<s[p - 1].m>>
  <2> DEFINE w == <<s[p - 1].m>>
             b == p - 2
  <2>1. b \in 1 .. p - 1 /\ s[b].m = "return"
    BY <1>1, <1>3 DEF IsReturn
  <2>2. \A j \in b + 1 .. p - 1 : s[j].m # "return"
    <3>1. \A j \in b + 1 .. p - 1 : j = p - 1
      BY <1>1
    <3> QED BY <1>3, <3>1
  <2>3. IsSeq(w) /\ Len(w) = 1 /\ w[1] = s[p - 1].m
    BY SeqShort
  <2>4. Len(w) = p - 1 - b /\ \A j \in 1 .. Len(w) : w[j] = s[p - j].m
    <3>1. 1 = p - 1 - b
      BY <1>1
    <3>2. \A j \in 1 .. 1 : j = 1
      OBVIOUS
    <3> QED BY <2>3, <3>1, <3>2
  <2>5. IsSeq(w)
    BY <2>3
  <2> HIDE DEF w, b
  <2>6. Marks(s, p) = w
    BY <2>1, <2>2, <2>4, <2>5, MarksAre
  <2> QED BY <2>6 DEF w
<1>4. ASSUME IsReturn(s, p - 3), s[p - 1].m # "return", s[p - 2].m # "return"
      PROVE  Marks(s, p) = <<s[p - 1].m, s[p - 2].m>>
  <2> DEFINE w == <<s[p - 1].m, s[p - 2].m>>
             b == p - 3
  <2>1. b \in 1 .. p - 1 /\ s[b].m = "return"
    BY <1>1, <1>4 DEF IsReturn
  <2>2. \A j \in b + 1 .. p - 1 : s[j].m # "return"
    <3>1. \A j \in b + 1 .. p - 1 : j = p - 1 \/ j = p - 2
      BY <1>1
    <3> QED BY <1>4, <3>1
  <2>3. IsSeq(w) /\ Len(w) = 2 /\ w[1] = s[p - 1].m /\ w[2] = s[p - 2].m
    BY SeqShort
  <2>4. Len(w) = p - 1 - b /\ \A j \in 1 .. Len(w) : w[j] = s[p - j].m
    <3>1. 2 = p - 1 - b
      BY <1>1
    <3>2. \A j \in 1 .. 2 : j = 1 \/ j = 2
      OBVIOUS
    <3> QED BY <2>3, <3>1, <3>2
  <2>5. IsSeq(w)
    BY <2>3
  <2> HIDE DEF w, b
  <2>6. Marks(s, p) = w
    BY <2>1, <2>2, <2>4, <2>5, MarksAre
  <2> QED BY <2>6 DEF w
<1> QED BY <1>2, <1>3, <1>4

(* One more instruction in front leaves the last one last.                 *)
LEMMA PairEnds ==
    ASSUME NEW ins, NEW y, IsSeq(y), Len(y) = 1
    PROVE  Len(<<ins>> \o y) = 2 /\ (<<ins>> \o y)[2] = y[1] /\ <<ins>> \o y # << >>
<1>1. \A i \in 1 .. Len(y) : (<<ins>> \o y)[i + 1] = y[i]
  BY SeqCons
<1>2. Len(<<ins>> \o y) = Len(y) + 1 /\ <<ins>> \o y # << >>
  BY SeqCons
<1>3. 1 \in 1 .. Len(y) /\ 1 + 1 = 2
  OBVIOUS
<1> QED BY <1>1, <1>2, <1>3

(* A handler that is called in C's way, and the way back from any.         *)
LEMMA HandlersHold ==
    ASSUME NEW s, IsSeq(s), NEW p \in 1 .. Len(s) + 1, NEW c, NEW was, HandlerReturn(s, c, p, was)
    PROVE  Held(s, c, p)
<1>1. Len(s) \in Nat
  BY SeqLen
<1>2. CASE Handling(s, c, p, was)
  <2> DEFINE b == p - 3
  <2>1. Raising(s, b) /\ Saved(s, b) /\ s[p - 1].m = "trap" /\ IsReturn(s, b)
    BY <1>2 DEF Handling, Raising
  <2>2. PICK x : WayBack(s, b, x) /\ (c = x \/ BaseHandler(s, c, b, x))
    BY <1>2 DEF Handling
  <2>3. PICK h, e : c = x \/ c = << <<"PRIMITIVE", h, e>> >> \o x
    BY <2>2 DEF BaseHandler
  <2>4. b + 1 = p - 2 /\ b \in Int
    BY <1>1
  <2> HIDE DEF b
  <2>5. CASE x = NCE
    <3> DEFINE ins == <<"PRIMITIVE", h, e>>
    <3>1. IsSeq(NCE) /\ Len(NCE) = 1 /\ NCE[1] = <<"NON-CONT-ERR">>
      BY BacksFacts
    <3> HIDE DEF ins
    <3>2. Len(<<ins>> \o NCE) = 2 /\ (<<ins>> \o NCE)[2] = NCE[1] /\ <<ins>> \o NCE # << >>
      BY <3>1, PairEnds
    <3>3. NCE # << >>
      BY <3>1, SeqShort
    <3>4. c = NCE \/ c = <<ins>> \o NCE
      BY <2>3, <2>5 DEF ins
    <3>5. c # << >> /\ c[Len(c)] = <<"NON-CONT-ERR">>
      BY <3>1, <3>2, <3>3, <3>4
    <3> QED BY <3>5 DEF Held, Last
  <2>6. CASE x = CHR
    <3>1. Len(s[b].was) = 1 \/ (Len(s[b].was) = 2 /\ x = IHR)
      BY <2>2 DEF WayBack
    <3>2. CHR # IHR
      BY BacksFacts
    <3>3. s[p - 2].m = "state"
      BY <2>1, <2>4, <2>6, <3>1, <3>2 DEF Saved
    <3>4. Marks(s, p) = <<"trap", "state">>
      BY <2>1, <3>3, MarksFew DEF b
    <3>5. Wants(c) = <<"trap", "state">>
      BY <2>3, <2>6, WantsOf
    <3> QED BY <3>4, <3>5 DEF Held
  <2>7. CASE x = IHR
    <3>1. Len(s[b].was) = 2 \/ (Len(s[b].was) = 1 /\ x \in {CHR, NCE})
      BY <2>2 DEF WayBack
    <3>2. CHR # IHR /\ NCE # IHR
      BY BacksFacts
    <3>3. s[p - 2].m = "all-state"
      BY <2>1, <2>4, <2>7, <3>1, <3>2 DEF Saved
    <3>4. Marks(s, p) = <<"trap", "all-state">>
      BY <2>1, <3>3, MarksFew DEF b
    <3>5. Wants(c) = <<"trap", "all-state">>
      BY <2>3, <2>7, WantsOf
    <3> QED BY <3>4, <3>5 DEF Held
  <2> QED BY <2>2, <2>5, <2>6, <2>7 DEF WayBack
<1>3. CASE Restoring(s, c, p)
  <2> DEFINE b == p - 2
  <2>1. Raising(s, b) /\ Saved(s, b) /\ IsReturn(s, b)
    BY <1>3 DEF Restoring, Raising
  <2>2. b + 1 = p - 1
    BY <1>1
  <2>3. \/ Len(s[b].was) = 1 /\ c = << <<"RESTORE-STATE">>, <<"RETURN">> >>
        \/ Len(s[b].was) = 2 /\ c = << <<"RESTORE-ALL-STATE">>, <<"RETURN">> >>
    BY <1>3 DEF Restoring
  <2>4. \/ s[p - 1].m = "state" /\ Wants(c) = <<"state">>
        \/ s[p - 1].m = "all-state" /\ Wants(c) = <<"all-state">>
    BY <2>1, <2>2, <2>3, WantsOf DEF Saved
  <2>5. Marks(s, p) = <<s[p - 1].m>>
    BY <2>1, <2>4, MarksFew
  <2> QED BY <2>4, <2>5 DEF Held
<1>4. CASE Returning(s, c, p, was)
  <2>1. IsReturn(s, p - 1) /\ c = R
    BY <1>4 DEF Returning, Raising
  <2>2. Marks(s, p) = << >> /\ Wants(c) = << >>
    BY <2>1, MarksFew, WantsOf
  <2> QED BY <2>2 DEF Held
<1> QED BY <1>2, <1>3, <1>4 DEF HandlerReturn

(* C's frames, and main's.                                                 *)
LEMMA OthersHold ==
    ASSUME NEW s, IsSeq(s), NEW p \in 1 .. Len(s) + 1, NEW c
    PROVE  /\ Main(s, c, p) => Held(s, c, p)
           /\ Called(s, c, p) => Held(s, c, p)
           /\ AtTop(s, c, p) => Held(s, c, p)
           /\ Continues(s, c, p) => Held(s, c, p)
<1>1. Len(s) \in Nat
  BY SeqLen
<1>2. ASSUME Main(s, c, p) PROVE Held(s, c, p)
  <2>1. \A j \in 0 + 1 .. p - 1 : s[j].m # "return"
    BY <1>2 DEF Main
  <2>2. 0 \in 0 .. p - 1
    BY <1>1
  <2>3. BelowOf(s, p) = 0
    BY <2>1, <2>2, BelowIs
  <2> QED BY <2>3 DEF Held
<1>3. ASSUME Called(s, c, p) PROVE Held(s, c, p)
  <2>1. IsReturn(s, p - 2) /\ s[p - 1].m = "all-state" /\ c = << <<"INVOKE-C-DONE">> >>
    BY <1>3 DEF Called, OfC
  <2>2. Marks(s, p) = <<"all-state">>
    BY <2>1, MarksFew
  <2>3. Wants(c) = <<"all-state">>
    BY <2>1, WantsOf
  <2> QED BY <2>2, <2>3 DEF Held
<1>4. ASSUME AtTop(s, c, p) PROVE Held(s, c, p)
  <2>1. c = TOP /\ Held(s, R, p)
    BY <1>4, ActsHold DEF AtTop
  <2>2. Wants(c) = Wants(R)
    BY <2>1, WantsOf
  <2>3. Len(R) = 1 /\ R[1] = <<"RETURN">>
    BY SeqShort DEF R
  <2>4. Last(R)[1] # "NON-CONT-ERR"
    BY <2>3 DEF Last
  <2> QED BY <2>1, <2>2, <2>4 DEF Held
<1>5. ASSUME Continues(s, c, p) PROVE Held(s, c, p)
  BY <1>2, <1>5, ActsHold DEF Continues
<1> QED BY <1>2, <1>3, <1>4, <1>5

(* Code at an address, and the address of a run, which stands on what C    *)
(* does after it.                                                          *)
LEMMA AddressHolds ==
    ASSUME NEW s, IsSeq(s), NEW p \in 1 .. Len(s) + 1, NEW c, NEW was, IsSeq(runs),
           Addressed(s, runs, c, p, was),
           c = FIN => \E r \in 1 .. Len(runs) : runs[r].ss0 + 1 = p
    PROVE  Held(s, Kept(c, p), p)
<1>1. Len(runs) \in Nat /\ DOMAIN runs = 1 .. Len(runs)
  BY SeqLen
<1>2. CASE c # FIN
  <2>1. Kept(c, p) = c
    BY <1>2 DEF Kept
  <2>2. AtTop(s, c, p) \/ Activation(s, c, p, was) \/ HandlerReturn(s, c, p, was)
    BY <1>2 DEF Addressed, AtFin
  <2> QED BY <2>1, <2>2, ActsHold, HandlersHold, OthersHold
<1>3. CASE c = FIN
  <2> DEFINE T == {n \in DOMAIN runs : runs[n].ss0 + 1 = p}
  <2>1. T # {} /\ T \in SUBSET (0 .. Len(runs))
    BY <1>1, <1>3
  <2>2. Max(T) \in T
    BY <1>1, <2>1, Greatest
  <2>3. Kept(c, p) = runs[Max(T)].after
    BY <1>3, <2>1 DEF Kept
  <2>4. Max(T) \in 1 .. Len(runs) /\ runs[Max(T)].ss0 + 1 = p
    BY <1>1, <2>2
  <2> HIDE DEF T
  <2>5. AtFin(s, runs, c, p)
    <3>1. c[1][1] = "FINISH"
      BY <1>3 DEF FIN
    <3>2. p \in Int
      OBVIOUS
    <3>3. ~AtTop(s, c, p) /\ ~Activation(s, c, p, was) /\ ~HandlerReturn(s, c, p, was)
      BY <3>1, <3>2, Heads DEF HandlerReturn, Program, Uses, Leaves
    <3> QED BY <3>3 DEF Addressed
  <2>6. Continues(s, runs[Max(T)].after, p) \/ Called(s, runs[Max(T)].after, p)
    BY <2>4, <2>5 DEF AtFin
  <2> QED BY <2>3, <2>6, OthersHold
<1> QED BY <1>2, <1>3

(* A whole stack is nested when each of its parts is.                      *)
LEMMA NestedParts ==
    ASSUME NEW s, IsSeq(s), NEW pc, IsSeq(runs),
           Deep(s, runs),
           \A p \in 1 .. Len(s) : s[p].m = "return" /\ s[p].code = FIN =>
               \E r \in 1 .. Len(runs) : runs[r].ss0 + 1 = p,
           pc[1][1] = "EVALUATE" \/ Held(s, Kept(pc, Len(s) + 1), Len(s) + 1)
    PROVE  Nested(s, pc)
<1>1. Len(s) \in Nat /\ DOMAIN s = 1 .. Len(s)
  BY SeqLen
<1> DEFINE C(i) == IF i > Len(s) THEN pc ELSE s[i].code
<1>2. ASSUME NEW i \in Positions(s, "return") \cup {Len(s) + 1}
      PROVE  \/ i \in Positions(s, "return") /\ s[i].run = -1
             \/ i > Len(s) /\ pc[1][1] = "EVALUATE"
             \/ /\ i \in Positions(s, "return") /\ s[i].run = 0
                /\ s[i - 1].m = "all-state"
             \/ Held(s, Kept(C(i), i), i)
  <2>1. CASE i = Len(s) + 1
    <3>1. i > Len(s)
      BY <1>1, <2>1
    <3>2. C(i) = pc
      BY <3>1
    <3> QED BY <2>1, <3>1, <3>2
  <2>2. CASE i # Len(s) + 1
    <3>1. i \in 1 .. Len(s) /\ s[i].m = "return" /\ i \in Positions(s, "return")
      BY <1>1, <2>2 DEF Positions
    <3>2. ~(i > Len(s))
      BY <1>1, <3>1
    <3>3. C(i) = s[i].code
      BY <3>2
    <3>4. FrameNests(s, runs, i)
      BY <3>1 DEF Deep
    <3>5. s[i].run = -1 \/ Abandoned(s, i) \/ Addressed(s, runs, s[i].code, i, s[i].was)
      BY <3>1, <3>4 DEF FrameNests
    <3>6. CASE s[i].run = -1
      BY <3>1, <3>6
    <3>7. CASE Abandoned(s, i)
      <4>1. s[i].run = 0 /\ s[i - 1].m = "all-state"
        BY <3>7 DEF Abandoned, SavedAt
      <4> QED BY <3>1, <4>1
    <3>8. CASE Addressed(s, runs, s[i].code, i, s[i].was)
      <4>1. i \in 1 .. Len(s) + 1
        BY <1>1, <3>1
      <4>2. s[i].code = FIN => \E r \in 1 .. Len(runs) : runs[r].ss0 + 1 = i
        BY <3>1
      <4>3. Held(s, Kept(s[i].code, i), i)
        BY <3>8, <4>1, <4>2, AddressHolds
      <4> QED BY <3>3, <4>3
    <3> QED BY <3>5, <3>6, <3>7, <3>8
  <2> QED BY <2>1, <2>2
<1> QED BY <1>2 DEF Nested, Held, Marks, BelowOf, Kept

(* The stack of the code that runs.                                        *)
LEMMA RunningNested ==
    ASSUME NInv, Sound(stack, code, holes, runs)
    PROVE  Nested(stack, code)
<1> DEFINE n == Len(stack)
           was == <<frame, regs>>
<1>1. IsSeq(stack) /\ IsSeq(runs) /\ n \in Nat
  BY SoundFacts
<1>2. Deep(stack, runs) /\ Runs(stack, code, runs, was)
  BY DEF NInv, Settled
<1>3. \A p \in 1 .. n + 1 : CodeAt(stack, code, p) = FIN => \E r \in 1 .. Len(runs) : runs[r].ss0 + 1 = p
  BY DEF Sound, RunsOK
<1>4. ASSUME NEW p \in 1 .. n, stack[p].m = "return", stack[p].code = FIN
      PROVE  \E r \in 1 .. Len(runs) : runs[r].ss0 + 1 = p
  <2>1. p # n + 1 /\ p \in 1 .. n + 1
    BY <1>1
  <2>2. CodeAt(stack, code, p) = FIN
    BY <1>4, <2>1 DEF CodeAt
  <2> QED BY <1>3, <2>1, <2>2
<1>5. n + 1 \in 1 .. n + 1 /\ CodeAt(stack, code, n + 1) = code
  BY <1>1 DEF CodeAt
<1>6. code[1][1] = "FINISH" \/ Kept(code, n + 1) = code
  <2>1. CASE code = FIN
    BY <2>1 DEF FIN
  <2>2. CASE code # FIN
    BY <2>2 DEF Kept
  <2> QED BY <2>1, <2>2
<1>7. code[1][1] = "EVALUATE" \/ Held(stack, Kept(code, n + 1), n + 1)
  <2>1. CASE Addressed(stack, runs, code, n + 1, was)
    <3> HIDE DEF n, was
    <3>1. code = FIN => \E r \in 1 .. Len(runs) : runs[r].ss0 + 1 = n + 1
      BY <1>3, <1>5
    <3>2. n + 1 \in 1 .. Len(stack) + 1
      BY <1>5 DEF n
    <3> QED BY <1>1, <2>1, <3>1, <3>2, AddressHolds
  <2>2. CASE Main(stack, code, n + 1)
    <3>1. code[1][1] # "FINISH"
      BY <2>2 DEF Main
    <3> QED BY <1>1, <1>5, <1>6, <2>2, <3>1, OthersHold
  <2>3. CASE Called(stack, code, n + 1)
    <3>1. code[1][1] # "FINISH"
      BY <2>3 DEF Called
    <3> QED BY <1>1, <1>5, <1>6, <2>3, <3>1, OthersHold
  <2>4. CASE Starts(stack, code)
    <3>1. code[1][1] # "FINISH" /\ code = Loaded
      BY <2>4 DEF Starts, Loaded
    <3>2. IsReturn(stack, (n + 1) - 1)
      <4>1. (n + 1) - 1 = n
        BY <1>1
      <4> QED BY <2>4, <4>1 DEF Starts, IsReturn
    <3>3. Marks(stack, n + 1) = << >>
      BY <1>1, <1>5, <3>2, MarksFew
    <3>4. Wants(code) = << >>
      BY <3>1, WantsOf
    <3> QED BY <1>6, <3>1, <3>3, <3>4 DEF Held
  <2>5. CASE Evaluator(stack, code)
    BY <2>5 DEF Evaluator
  <2> QED BY <1>2, <2>1, <2>2, <2>3, <2>4, <2>5 DEF Runs
<1> QED BY <1>1, <1>2, <1>4, <1>7, NestedParts

(* The stack a continuation restores.                                      *)
LEMMA RestoredNested ==
    ASSUME NInv, Sound(stack, code, holes, runs), NEW i \in 6 .. Len(stack) + 1, NEW k,
           ContinuationOK(k, stack, holes, runs, i), Continues(stack, k.code, i)
    PROVE  Nested(k.stack, k.code)
<1> DEFINE n == Len(stack)
           s == SubSeq(stack, 1, i - 1)
<1>1. IsSeq(stack) /\ IsSeq(runs) /\ n \in Nat /\ Deep(stack, runs)
  BY SoundFacts DEF NInv, Settled
<1>2. i - 1 \in 0 .. n /\ (i - 1) + 1 = i
  BY <1>1
<1>3. IsSeq(s) /\ Len(s) = i - 1 /\ \A p \in 1 .. i - 1 : s[p] = stack[p]
  BY <1>1, <1>2, SeqCut
<1>4. k.stack = s
  BY DEF ContinuationOK
<1>5. Deep(s, runs) /\ Agree(stack, s, i)
  <2>1. \A p : NoMoreRuns(runs, runs, p)
    BY DEF NoMoreRuns
  <2> QED BY <1>1, <1>2, <2>1, DeepFirst
<1>6. \A p \in 1 .. n + 1 : CodeAt(stack, code, p) = FIN => \E r \in 1 .. Len(runs) : runs[r].ss0 + 1 = p
  BY DEF Sound, RunsOK
<1>7. ASSUME NEW p \in 1 .. Len(s), s[p].m = "return", s[p].code = FIN
      PROVE  \E r \in 1 .. Len(runs) : runs[r].ss0 + 1 = p
  <2>1. p \in 1 .. i - 1 /\ p # n + 1 /\ p \in 1 .. n + 1
    BY <1>1, <1>2, <1>3
  <2>2. CodeAt(stack, code, p) = FIN
    BY <1>3, <1>7, <2>1 DEF CodeAt
  <2> QED BY <1>6, <2>1, <2>2
<1>8. Continues(s, k.code, i)
  BY <1>5, AgreeBack
<1>9. Kept(k.code, i) = k.code
  <2>1. k.code[1][1] # "FINISH"
    <3>1. CASE Main(s, k.code, i)
      BY <3>1 DEF Main
    <3>2. CASE Activation(s, k.code, i, << >>)
      <4>1. i \in Int
        OBVIOUS
      <4>2. k.code[1][1] \in Program
        BY <3>2, <4>1, Heads
      <4> QED BY <4>2 DEF Program, Uses, Leaves
    <3> QED BY <1>8, <3>1, <3>2 DEF Continues
  <2>2. k.code # FIN
    BY <2>1 DEF FIN
  <2> QED BY <2>2 DEF Kept
<1>10. Len(s) + 1 = i
  BY <1>2, <1>3
<1> HIDE DEF s
<1>11. Held(s, Kept(k.code, Len(s) + 1), Len(s) + 1)
  <2>1. i \in 1 .. Len(s) + 1
    BY <1>10
  <2> QED BY <1>3, <1>8, <1>9, <1>10, <2>1, OthersHold
<1>12. Nested(s, k.code)
  BY <1>1, <1>3, <1>5, <1>7, <1>11, NestedParts
<1> QED BY <1>4, <1>12

(* A stack with nothing on it, as main's continuation leaves it.           *)
LEMMA EmptyNested == \A pc : Nested(<< >>, pc)
<1> TAKE pc
<1>1. Len(<< >>) = 0 /\ IsSeq(<< >>) /\ Positions(<< >>, "return") = {}
  BY SeqShort DEF Positions
<1>2. 1 \in 1 .. Len(<< >>) + 1 /\ 0 \in 0 .. 1 - 1 /\ \A j \in 0 + 1 .. 1 - 1 : FALSE
  BY <1>1
<1>3. BelowOf(<< >>, 1) = 0
  BY <1>1, <1>2, BelowIs
<1>4. \A i \in Positions(<< >>, "return") \cup {Len(<< >>) + 1} : i = 1
  BY <1>1
<1>5. \A i \in Positions(<< >>, "return") \cup {Len(<< >>) + 1} : BelowOf(<< >>, i) = 0
  BY <1>3, <1>4
<1> QED BY <1>5 DEF Nested, BelowOf

(* What may be restored.                                                   *)
LEMMA ContinuationsNested ==
    ASSUME NInv, Sound(stack, code, holes, runs), NEW k \in Continuations
    PROVE  Nested(k.stack, k.code)
<1>1. Settled /\ IsSeq(holes) /\ DOMAIN holes = 1 .. Len(holes)
  BY SoundFacts, SeqLen DEF NInv
<1>2. CASE k \in Range(holes)
  <2>1. PICK j \in 1 .. Len(holes) : k = holes[j]
    BY <1>1, <1>2 DEF Range
  <2> DEFINE i == HolePos(holes, j)
  <2>2. /\ i \in 6 .. Len(stack) + 1 /\ k.code = R
        /\ ContinuationOK(k, stack, holes, runs, i) /\ Continues(stack, R, i)
    BY <1>1, <2>1, HoleContinues
  <2> HIDE DEF i
  <2> QED BY <2>2, RestoredNested
<1>3. CASE \E q \in {FindAbort1(stack), FindAbort2(stack)} \ {0} : k = stack[q].k
  <2>1. PICK q \in {FindAbort1(stack), FindAbort2(stack)} \ {0} : k = stack[q].k
    BY <1>3
  <2>2. \/ k = MainK
        \/ /\ q \in 6 .. Len(stack) /\ ContinuationOK(k, stack, holes, runs, q)
           /\ Continues(stack, k.code, q)
    BY <1>1, <2>1, AbortContinues
  <2>3. CASE k = MainK
    <3>1. k.stack = << >>
      BY <2>3 DEF MainK
    <3> QED BY <3>1, EmptyNested
  <2>4. CASE k # MainK
    <3>1. q \in 6 .. Len(stack) + 1
      BY <2>2, <2>4, SoundFacts
    <3> QED BY <2>2, <2>4, <3>1, RestoredNested
  <2> QED BY <2>3, <2>4
<1>4. \/ k \in Range(holes)
      \/ \E q \in {FindAbort1(stack), FindAbort2(stack)} \ {0} : k = stack[q].k
  BY DEF Continuations
<1> QED BY <1>2, <1>3, <1>4

(* However control leaves an expression (a return, a handler that returns  *)
(* or unwinds, a signal between any two instructions, an ABORT, the end of *)
(* a run of C's), the stack holds what the code that runs next will pop,   *)
(* under every address it may go back to and in every continuation that    *)
(* may be restored; so no instruction that pops panics.                    *)
THEOREM WellNestedSafe ==
    ASSUME CallbackErrors = FALSE
    PROVE  Spec => []WellNested
<1>1. NInv => WellNested
  <2> SUFFICES ASSUME NInv PROVE WellNested
    OBVIOUS
  <2>1. mode # "panic"
    BY DEF NInv
  <2>2. CASE Sound(stack, code, holes, runs)
    BY <2>1, <2>2, RunningNested, ContinuationsNested DEF WellNested
  <2>3. CASE Leaving(stack, code, holes, runs)
    <3>1. Continuations = {} /\ stack = << >>
      BY <2>3, NoneLeft DEF Leaving
    <3> QED BY <2>1, <3>1, EmptyNested DEF WellNested
  <2> QED BY <2>2, <2>3 DEF NInv
<1>2. Init => NInv
  BY NestsStarts
<1>3. NInv /\ [Next]_vars => NInv'
  BY NestsKeeps
<1> QED BY <1>1, <1>2, <1>3, PTL DEF Spec
=============================================================================
