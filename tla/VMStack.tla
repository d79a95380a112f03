------------------------------- MODULE VMStack -------------------------------
(***************************************************************************)
(* The VM's stack, src/src/vm.c: calls, traps and condition handlers,      *)
(* signals, dynamic bindings, ABORTs, the continuations of prompts, and    *)
(* the C functions that run the VM again from inside a primitive.          *)
(*                                                                         *)
(* One VM is a stack and a program counter.  The program counter is here   *)
(* the sequence of instructions still to do in the current activation, so  *)
(* a return frame or a continuation keeps such a sequence; an expression   *)
(* not looked at yet is one EXPR, which expands to any form the evaluator  *)
(* knows.  The cells one operation pushes together are one frame, and the  *)
(* addresses in the stack ("next") are positions of frames, 0 for none.    *)
(*                                                                         *)
(* idio_vm_run is recursive: `runs' are its C activations.  Each has its   *)
(* own sigjmp_buf, a continuation remembers that of its run, and restoring *)
(* it leaves every run above.  Position 0 in `runs' is main's REPL loop.   *)
(***************************************************************************)
EXTENDS Integers, Sequences, FiniteSets, FiniteSetsExt, SequencesExt

CONSTANTS
    Returners,      \* handlers (closures) that return a value
    Unwinders,      \* handlers that end in trap-return
    TrapForms,      \* condition types a trap expression names, as sequences
    Vars,           \* dynamic (or environ) variables
    CallbackErrors, \* may errors inside C callbacks meet a Returner?
    Bounds          \* bounds: forms to use, frames for one to be entered,
                    \* expressions in a file that is loaded, and signals

Handlers == Returners \cup Unwinders
Conditions == {"error", "SIGCHLD"}
Forms == {"call", "misapply", "trap", "dynamic", "raise", "reraise", "callback",
          "load"}

ASSUME VMStackAssumption ==
    /\ Handlers \cap {"default", "restart", "reset", "default-SIGCHLD"} = {}
    /\ TrapForms \subseteq Seq(Conditions)
    /\ CallbackErrors \in BOOLEAN
    /\ Bounds \subseteq
          [forms : SUBSET Forms, stack : Nat, file : Nat, signals : Nat]

VARIABLES
    stack,      \* IDIO_THREAD_STACK
    code,       \* IDIO_THREAD_PC
    frame,      \* IDIO_THREAD_FRAME: the activation, by its return frame
    regs,       \* VAL, FUNC, EXPR, REG1, REG2: whose values they hold,
                \* and whether FUNC can be invoked
    holes,      \* IDIO_THREAD_HOLES: the continuations of prompts
    runs,       \* C activations of idio_vm_run
    pause,      \* idio_gc->pause
    interactive,    \* idio_job_control_interactive
    bound,      \* one of Bounds, with the signals still to be delivered
    mode        \* "run", "exit" or "panic"

vars == <<stack, code, frame, regs, holes, runs, pause, interactive, bound,
          mode>>

(* The registers: of the activation f, and whether FUNC can be invoked; as *)
(* they are when a closure, a primitive or a continuation is called.       *)
Regs(f, func) == [of |-> f, func |-> func]
Registers == [of : Nat, func : BOOLEAN]
Callable == Regs(regs.of, TRUE)

(* idio_vm_restore_all_state verifies FUNC, unless interactive.            *)
Restorable(r) == interactive \/ r.func

-----------------------------------------------------------------------------
(* Frames.  The last fields of "trap" and "return" are for the properties: *)
(* the trap expression a trap frame comes from (its first frame), the trap *)
(* expression whose handler a copy protects, the hole of the trap's        *)
(* prompt; and the registers as they were when a return address was        *)
(* pushed for a condition.                                                 *)

Trap(next, type, h, id, for, hole) ==
    [m |-> "trap", next |-> next, type |-> type, h |-> h, id |-> id,
     for |-> for, hole |-> hole]
Return(pc, was) == [m |-> "return", code |-> pc, run |-> 0, was |-> was]
State(f) == [m |-> "state", frame |-> f]
AllState(f, r) == [m |-> "all-state", frame |-> f, regs |-> r]
Dynamic(next, v) == [m |-> "dynamic", next |-> next, var |-> v]
Abort(next, k) == [m |-> "abort", next |-> next, k |-> k]
Handle == [m |-> "value"]

(* idio_vm_invoke_C_thread's return address, which C pops itself (-1)       *)
CReturn(pc) == [m |-> "return", code |-> pc, run |-> -1, was |-> << >>]

(* run_C's return address, idio_vm_FINISH_pc, in the i-th run.             *)
FIN == << <<"FINISH">> >>
Finish(i) == [m |-> "return", code |-> FIN, run |-> i, was |-> << >>]

Positions(s, m) == {i \in DOMAIN s : s[i].m = m}

(* idio_vm_find_stack_marker, without and with max.                        *)
FindMarker(s, m) == Max(Positions(s, m) \cup {0})
FindMaxTrap(s) ==
    LET traps == Positions(s, "trap")
    IN Max({p \in traps : \A q \in traps : s[q].next <= s[p].next})

InstanceIsa(c, type) == type \in {c, "condition"}

(* The walk down the trap frames from `start'.                             *)
Match(s, start, c) ==
    LET walk[p \in Positions(s, "trap")] ==
            IF InstanceIsa(c, s[p].type) THEN p ELSE walk[s[p].next]
    IN walk[start]

(* idio_vm_find_abort_1: the first ABORT; idio_vm_find_abort_2: the one    *)
(* above it, 0 when there is none.                                         *)
FindAbort1(s) ==
    LET walk[p \in Positions(s, "abort")] ==
            IF s[p].next = 0 THEN p ELSE walk[s[p].next]
    IN walk[FindMarker(s, "abort")]
FindAbort2(s) ==
    LET top == FindMarker(s, "abort")
        above == {p \in Positions(s, "abort") : s[p].next # 0}
        walk[p \in above] == IF s[s[p].next].next = 0 THEN p ELSE walk[s[p].next]
    IN IF s[top].next = 0 THEN 0 ELSE walk[top]

-----------------------------------------------------------------------------
(* Instructions are tuples; the first element is the name.                 *)

CHRKeepsTrap == << <<"RESTORE-STATE">>, <<"RETURN">> >>
CHR == << <<"POP-TRAP">>, <<"RESTORE-STATE">>, <<"RETURN">> >>
IHR == << <<"POP-TRAP">>, <<"RESTORE-ALL-STATE">>, <<"RETURN">> >>
NCE == << <<"NON-CONT-ERR">> >>

At(op) == mode = "run" /\ code[1][1] = op
Rest == Tail(code)
Top == stack[Len(stack)]

PauseKept(i) == pause

(* The pause counter idio_vm_run i (main's REPL, 0) saved when it started. *)
PauseOf(i) == IF i = 0 THEN 0 ELSE runs[i].pause

(* idio_continuation                                                       *)
Continuation(s, pc, f) ==
    [stack |-> s, code |-> pc, frame |-> f, run |-> Len(runs),
     holes |-> holes]

RestoreInCurrentRun(k, r) ==
    /\ stack' = k.stack /\ code' = k.code /\ frame' = k.frame
    /\ regs' = r
    /\ holes' = k.holes
    /\ UNCHANGED <<runs, pause, interactive, bound, mode>>

RestoreNoHoles(k, r) ==
    /\ stack' = k.stack /\ code' = k.code /\ frame' = k.frame
    /\ regs' = r
    /\ holes' = << >>
    /\ runs' = SubSeq(runs, 1, k.run)
    /\ pause' = PauseOf(k.run)
    /\ UNCHANGED <<interactive, bound, mode>>

(* idio_vm_restore_continuation; siglongjmp leaves the runs above k's, and *)
(* the run it lands in resets the pause counter.                           *)
Restore(k, r) ==
    /\ stack' = k.stack /\ code' = k.code /\ frame' = k.frame
    /\ regs' = r
    /\ holes' = k.holes
    /\ runs' = SubSeq(runs, 1, k.run)
    /\ pause' = PauseOf(k.run)
    /\ UNCHANGED <<interactive, bound, mode>>

OwnInCare(s, p) ==
    Trap(s[p].next, s[p].type, s[p].h, s[p].id, s[p].id, s[p].hole)

(* The frame a handler runs under: that of the trap after its own, with    *)
(* that trap's next.                                                       *)
NextInCare(s, p) ==
    LET n == s[p].next
    IN Trap(s[n].next, s[n].type, s[n].h, s[n].id, s[p].id, s[n].hole)

(* idio_vm_raise_condition, from C or an instruction, with stack s, return *)
(* address pc and FUNC what it is then: calling a handler leaves it alone. *)
Raise(kind, c, continuable, func, s, pc) ==
    LET p == Match(s, IF kind = "raise" THEN FindMarker(s, "trap")
                      ELSE FindMaxTrap(s), c)
        s1 == IF kind = "signal"
              THEN s \o <<Return(pc, <<frame, regs>>), AllState(frame, regs)>>
              ELSE s \o <<Return(pc, <<frame>>), State(frame)>>
        s2 == Append(s1, NextInCare(s, p))
        back == IF kind = "signal" THEN IHR
                ELSE IF continuable THEN CHR ELSE NCE
        h == s[p].h
        a == Len(s2) + 1
    IN /\ IF h \in Handlers
          THEN /\ stack' = Append(s2, Return(back, << >>))
               /\ code' = << <<"EXPR", a>>,
                             IF h \in Returners THEN <<"RETURN">>
                             ELSE <<"TRAP-RETURN", s[p].hole>> >>
               /\ frame' = a
          ELSE /\ stack' = s2
               /\ code' = << <<"PRIMITIVE", h, c>> >> \o back
               /\ UNCHANGED frame
       /\ regs' = Regs(a, func)
       /\ pause' = PauseOf(Len(runs))
       /\ UNCHANGED <<holes, runs, interactive, mode>>

-----------------------------------------------------------------------------
(* The base of the stack: the traps of idio_vm_thread_init, without those  *)
(* for command status errors, and main's ABORT, whose continuation exits.  *)
MainK == [stack |-> << >>, code |-> << <<"EXIT">> >>, frame |-> 0, run |-> 0,
          holes |-> << >>]
Base == <<Trap(1, "condition", "reset", 1, 0, 0),
          Trap(1, "condition", "restart", 2, 0, 0),
          Trap(2, "condition", "default", 3, 0, 0),
          Trap(3, "SIGCHLD", "default-SIGCHLD", 4, 0, 0),
          Abort(0, MainK)>>

Init ==
    /\ stack = Base /\ code = << <<"REPL">> >> /\ frame = 0
    /\ regs = Regs(0, TRUE)
    /\ holes = << >> /\ runs = << >> /\ pause = 0
    /\ interactive \in BOOLEAN
    /\ bound \in Bounds /\ mode = "run"

(* main: idio_load_handle_C of the input handle, kept on the stack; when   *)
(* that returns, main exits.                                               *)
Repl ==
    /\ At("REPL")
    /\ stack' = Append(stack, Handle)
    /\ code' = << <<"LOAD", -1>>, <<"EXIT">> >>
    /\ UNCHANGED <<frame, regs, holes, runs, pause, interactive, bound, mode>>

(* idio_vm_run_C, with the registers r and the pause counter at p          *)
RunC(s, after, pc, f, r, p) ==
    /\ stack' = Append(s, Finish(Len(runs) + 1))
    /\ runs' = Append(runs, [ss0 |-> Len(s), after |-> after, pause |-> p])
    /\ code' = pc
    /\ frame' = f /\ regs' = r
    /\ pause' = p
    /\ UNCHANGED <<holes, interactive, bound, mode>>

(* idio_load_handle, once round the loop: the next expression is read, and *)
(* evaluated under an ABORT of its own by idio_vm_invoke_C, with the       *)
(* collector paused.  That ABORT's continuation belongs to the run load    *)
(* was called in, so at the REPL it leads back to main.                    *)
LoadReads ==
    /\ At("LOAD") /\ code[1][2] # 0
    /\ LET k == Continuation(stack,
                             IF runs = << >> THEN << <<"REPL">> >> ELSE Rest,
                             frame)
       IN stack' = stack \o <<Abort(FindMarker(stack, "abort"), k),
                              CReturn(Rest), AllState(frame, regs)>>
    /\ code' = << <<"EVALUATE", code[1][2]>> >> \o Rest
    /\ pause' = pause + 1
    /\ UNCHANGED <<frame, regs, holes, runs, interactive, bound, mode>>

LoadRunsResumesTwice ==
    /\ At("EVALUATE") /\ Restorable(regs)
    /\ RunC(SubSeq(stack, 1, Len(stack) - 3), << <<"LOAD", -1>> >> \o Rest,
            << <<"PUSH-ABORT">>, <<"EXPR", 0>>, <<"POP-ABORT">>,
               <<"RETURN">> >>, frame, Regs(frame, regs.func), pause - 2)

(* The code generated is run.                                              *)
LoadRuns ==
    /\ At("EVALUATE") /\ Restorable(regs)
    /\ LET n == code[1][2]
           left == IF n > 0 THEN n - 1 ELSE n
       IN RunC(SubSeq(stack, 1, Len(stack) - 3),
               << <<"LOAD", left>> >> \o Rest,
               << <<"PUSH-ABORT">>, <<"EXPR", 0>>, <<"POP-ABORT">>,
                  <<"RETURN">> >>, frame, Regs(frame, regs.func), pause - 1)

(* A handler that returns goes back to the PC in the thread, not to C: a   *)
(* continuable error in C code that has pushed frames of its own may meet  *)
(* one only where CallbackErrors says so.                                  *)
MayFail(s, c) ==
    CallbackErrors \/ s[Match(s, FindMarker(s, "trap"), c)].h \notin Returners

(* The evaluator finds a mistake, and has made FUNC a symbol; or FUNC      *)
(* fails idio_vm_invoke_C.  Each time at the REPL leaves the handle main   *)
(* pushed on the stack; two are allowed for.                               *)
EvaluateFails ==
    /\ At("EVALUATE")
    /\ runs = << >> => Len(stack) <= Len(Base) + 4
    /\ \E continuable \in BOOLEAN, func \in {TRUE, Restorable(regs)} :
          /\ continuable => func /\ MayFail(stack, "error")
          /\ Raise("raise", "error", continuable, func, stack, Rest)
    /\ UNCHANGED bound

(* End of file: the handle comes off the stack.                            *)
LoadEnds ==
    /\ At("LOAD") /\ code[1][2] <= 0
    /\ stack' = IF Top.m = "value" THEN Front(stack) ELSE stack
    /\ code' = Rest
    /\ UNCHANGED <<frame, regs, holes, runs, pause, interactive, bound, mode>>

(* main's end, and its continuation.                                       *)
Exit ==
    /\ At("EXIT")
    /\ mode' = "exit"
    /\ UNCHANGED <<stack, code, frame, regs, holes, runs, pause, interactive,
                   bound>>

-----------------------------------------------------------------------------
(* What the evaluator makes of an expression: idio_meaning and the         *)
(* functions it calls.  A call keeps FRAME for the reference after it.     *)

Expands(to) ==
    /\ At("EXPR")
    /\ code' = to \o Rest
    /\ UNCHANGED <<stack, frame, regs, holes, runs, pause, interactive, bound,
                   mode>>

Self == code[1][2]
Enters(form) == form \in bound.forms /\ Len(stack) <= bound.stack
Reference == << <<"REF", Self>> >>

Value == Expands(<< >>)

Application ==
    /\ Enters("call")
    /\ Expands(<< <<"PRESERVE-STATE">>, <<"CALL">>, <<"RESTORE-STATE">> >>
                 \o Reference)

(* trap is a macro: prompt-at trap-return-tag {%trap ...}                  *)
TrapForm ==
    /\ Enters("trap")
    /\ \E form \in TrapForms, h \in Handlers :
          Expands(<< <<"PRESERVE-STATE">>, <<"PROMPT", form, h>>,
                     <<"RESTORE-STATE">> >> \o Reference)

DynamicForm ==
    /\ Enters("dynamic")
    /\ \E v \in Vars :
          Expands(<< <<"PUSH-DYNAMIC", v>>, <<"EXPR", Self>>,
                     <<"POP-DYNAMIC">> >>)

(* A primitive raises: the primitives raise and reraise, or an error.      *)
RaiseForm ==
    /\ At("EXPR") /\ Enters("raise")
    /\ \E c \in Conditions, continuable \in BOOLEAN :
          Raise("raise", c, continuable, TRUE, stack, Reference \o Rest)
    /\ UNCHANGED bound

ReraiseForm ==
    /\ At("EXPR") /\ Enters("reraise")
    /\ Raise("reraise", "error", TRUE, TRUE, stack, Reference \o Rest)
    /\ UNCHANGED bound

(* idio_vm_invoke_C from a primitive such as fold-array, or, FUNC as it    *)
(* is, from the instruction that reads or sets a computed variable         *)
Invoked(r) == stack \o <<CReturn(Reference \o Rest), AllState(frame, r)>>

CallbackClosure ==
    /\ At("EXPR") /\ Enters("callback")
    /\ \E r \in {regs, Callable} :
          LET a == Len(stack) + 3
          IN RunC(Invoked(r), << <<"INVOKE-C-DONE">> >>,
                  << <<"EXPR", a>>, <<"RETURN">> >>, a, Regs(a, r.func), pause)

(* The function called back is a primitive, run by C itself, and fails; or *)
(* FUNC does when it has returned.                                         *)
CallbackFails ==
    /\ At("EXPR") /\ Enters("callback")
    /\ \E continuable \in BOOLEAN, r \in {regs, Callable} :
          /\ continuable => MayFail(Invoked(r), "error")
          /\ Raise("raise", "error", continuable, r.func, Invoked(r),
                   Reference \o Rest)
    /\ UNCHANGED bound

(* load of another file                                                    *)
LoadForm ==
    /\ Enters("load")
    /\ Expands(<< <<"PRESERVE-STATE">>, <<"LOAD-FILE">>, <<"RESTORE-STATE">> >>
                 \o Reference)

-----------------------------------------------------------------------------
(* Instructions: idio_vm_run1.                                             *)

Push(f) ==
    /\ stack' = Append(stack, f)
    /\ UNCHANGED <<holes, runs, pause, interactive, bound, mode>>

(* An instruction that pops panics when it does not find its marker.       *)
Popped(m) ==
    /\ stack' = Front(stack)
    /\ mode' = IF Top.m = m THEN mode ELSE "panic"
    /\ UNCHANGED <<holes, runs, pause, interactive, bound>>

PushAbortVanilla ==
    /\ At("PUSH-ABORT")
    /\ Push(Abort(FindMarker(stack, "abort"), Continuation(stack, code, frame)))
    /\ frame' = 0 /\ code' = Rest
    /\ UNCHANGED regs

(* idio_vm_push_offset_abort: the continuation is of what follows the      *)
(* POP-ABORT, and the ABORT is not on its stack.                           *)
PushAbort ==
    /\ At("PUSH-ABORT")
    /\ LET pop == Min({i \in DOMAIN code : code[i] = <<"POP-ABORT">>})
           k == Continuation(stack, SubSeq(code, pop + 1, Len(code)), frame)
       IN Push(Abort(FindMarker(stack, "abort"), k))
    /\ frame' = 0 /\ code' = Rest
    /\ UNCHANGED regs

PopAbort ==
    /\ At("POP-ABORT")
    /\ Popped("abort")
    /\ code' = Rest
    /\ UNCHANGED <<frame, regs>>

Ref ==
    /\ At("REF")
    /\ code' = Rest
    /\ UNCHANGED <<stack, frame, regs, holes, runs, pause, interactive, bound,
                   mode>>

PreserveState ==
    /\ At("PRESERVE-STATE")
    /\ Push(State(frame))
    /\ code' = Rest
    /\ UNCHANGED <<frame, regs>>

RestoreStateKeepsFrame ==
    /\ At("RESTORE-STATE")
    /\ Popped("state")
    /\ code' = Rest
    /\ UNCHANGED <<frame, regs>>

RestoreState ==
    /\ At("RESTORE-STATE")
    /\ Popped("state")
    /\ frame' = IF Top.m = "state" THEN Top.frame ELSE frame
    /\ code' = Rest
    /\ UNCHANGED regs

RestoreAllStateKeepsRegs ==
    /\ At("RESTORE-ALL-STATE") /\ Restorable(Top.regs)
    /\ Popped("all-state")
    /\ frame' = IF Top.m = "all-state" THEN Top.frame ELSE frame
    /\ code' = Rest
    /\ UNCHANGED regs

(* idio_vm_restore_all_state, and where the FUNC it pops cannot be invoked *)
(* again: what it has popped goes back on the stack.                       *)
RestoreAllState ==
    /\ At("RESTORE-ALL-STATE")
    /\ Top.m = "all-state" => Restorable(Top.regs)
    /\ Popped("all-state")
    /\ IF Top.m = "all-state" THEN frame' = Top.frame /\ regs' = Top.regs
                               ELSE UNCHANGED <<frame, regs>>
    /\ code' = Rest

RestoreAllStateFails ==
    /\ At("RESTORE-ALL-STATE")
    /\ Top.m = "all-state" /\ ~Restorable(Top.regs)
    /\ Raise("raise", "error", FALSE, FALSE, stack, Rest)
    /\ UNCHANGED bound

(* POP-FUNCTION and FUNCTION-INVOKE of a closure                           *)
Call ==
    /\ At("CALL")
    /\ Push(Return(Rest, << >>))
    /\ LET a == Len(stack) + 1
       IN /\ frame' = a /\ regs' = Regs(a, TRUE)
          /\ code' = << <<"EXPR", a>>, <<"RETURN">> >>

(* The two apart, of a value that cannot be invoked, such as #f.           *)
PopFunction ==
    /\ At("CALL") /\ "misapply" \in bound.forms
    /\ regs' = Regs(regs.of, FALSE)
    /\ code' = << <<"FUNCTION-INVOKE">> >> \o Rest
    /\ UNCHANGED <<stack, frame, holes, runs, pause, interactive, bound, mode>>

FunctionInvoke ==
    /\ At("FUNCTION-INVOKE")
    /\ Raise("raise", "error", TRUE, FALSE, stack, Rest)
    /\ UNCHANGED bound

LoadFile ==
    /\ At("LOAD-FILE")
    /\ Push(Handle)
    /\ regs' = Callable
    /\ code' = << <<"LOAD", bound.file>> >> \o Rest
    /\ UNCHANGED frame

ReturnFrom ==
    /\ At("RETURN")
    /\ Popped("return")
    /\ code' = IF Top.m = "return" THEN Top.code ELSE code
    /\ UNCHANGED <<frame, regs>>

PushTrapOnTop ==
    /\ At("PUSH-TRAP")
    /\ Push(Trap(Len(stack), code[1][2], code[1][3],
                 Len(stack) + 1 - code[1][4], 0, Len(holes)))
    /\ code' = Rest
    /\ UNCHANGED <<frame, regs>>

PushTrap ==
    /\ At("PUSH-TRAP")
    /\ Push(Trap(FindMarker(stack, "trap"), code[1][2], code[1][3],
                 Len(stack) + 1 - code[1][4], 0, Len(holes)))
    /\ code' = Rest
    /\ UNCHANGED <<frame, regs>>

PopTrap ==
    /\ At("POP-TRAP")
    /\ Popped("trap")
    /\ code' = Rest
    /\ UNCHANGED <<frame, regs>>

PushDynamic ==
    /\ At("PUSH-DYNAMIC")
    /\ Push(Dynamic(FindMarker(stack, "dynamic"), code[1][2]))
    /\ code' = Rest
    /\ UNCHANGED <<frame, regs>>

PopDynamic ==
    /\ At("POP-DYNAMIC")
    /\ Popped("dynamic")
    /\ code' = Rest
    /\ UNCHANGED <<frame, regs>>

(* prompt-at* calls call/cc, records the hole and runs its thunk, here the *)
(* %trap: idio_meaning_trap pushes a frame for each of the condition       *)
(* types, the first type last.                                             *)
Prompt ==
    /\ At("PROMPT")
    /\ LET form == code[1][2]
           h == code[1][3]
           s == Append(stack, Return(Rest, << >>))
           a == Len(s) + 1
           n == Len(form)
       IN /\ stack' = Append(s, Return(<< <<"ABORT-TOP">> >>, << >>))
          /\ holes' = Append(holes,
                             Continuation(s, << <<"RETURN">> >>, Len(s)))
          /\ code' = [i \in 1 .. n |->
                         <<"PUSH-TRAP", form[n + 1 - i], h, i - 1>>]
                     \o << <<"EXPR", a>> >>
                     \o [i \in 1 .. n |-> <<"POP-TRAP">>]
                     \o << <<"RETURN">> >>
          /\ frame' = a
    /\ regs' = Callable
    /\ UNCHANGED <<runs, pause, interactive, bound, mode>>

(* abort-top!: pop the top hole and invoke its continuation.  trap-return  *)
(* is unwind-to*: the topmost hole with trap's tag, here any hole.         *)
AbortTop ==
    /\ At("ABORT-TOP")
    /\ Restore(holes[Len(holes)], Callable)

TrapReturn ==
    /\ At("TRAP-RETURN")
    /\ Restore(holes[Len(holes)], Callable)

-----------------------------------------------------------------------------
(* The base handlers are primitives and run inside Raise.                  *)

Handled ==
    /\ code' = Rest
    /\ UNCHANGED <<stack, frame, regs, holes, runs, pause, interactive, bound,
                   mode>>

(* do-job-notification, called by default-SIGCHLD-handler through          *)
(* idio_vm_invoke_C: what that does with FUNC when it has returned.        *)
Notify ==
    IF Restorable(regs) THEN Handled
    ELSE /\ Raise("raise", "error", FALSE, FALSE,
                  stack \o <<CReturn(Rest), AllState(frame, regs)>>, Rest)
         /\ UNCHANGED bound

DefaultSigchld ==
    /\ At("PRIMITIVE") /\ code[1][2] = "default-SIGCHLD"
    /\ Notify

(* default-condition-handler, without the debugger, which is imported on   *)
(* request.                                                                *)
DefaultHandler ==
    /\ At("PRIMITIVE") /\ code[1][2] = "default"
    /\ IF code[1][3] = "SIGCHLD" THEN Notify
       ELSE /\ Raise("raise", code[1][3], TRUE, regs.func, stack, Rest)
            /\ UNCHANGED bound

(* restart-condition-handler: ABORT #2 when interactive.                   *)
RestartHandler ==
    /\ At("PRIMITIVE") /\ code[1][2] = "restart"
    /\ LET abort == FindAbort2(stack)
       IN IF interactive /\ code[1][3] = "SIGCHLD" THEN Handled
          ELSE IF interactive /\ abort # 0 THEN Restore(stack[abort].k, regs)
          ELSE /\ Raise("raise", code[1][3], TRUE, regs.func, stack, Rest)
               /\ UNCHANGED bound

(* reset-condition-handler and NON-CONT-ERR: ABORT #1.      *)
ResetHandler ==
    /\ At("PRIMITIVE") /\ code[1][2] = "reset"
    /\ Restore(stack[FindAbort1(stack)].k, regs)

NonContErr ==
    /\ At("NON-CONT-ERR")
    /\ Restore(stack[FindAbort1(stack)].k, regs)

-----------------------------------------------------------------------------
(* Back to C: idio_vm_run's end.  The stack must be as it was, or the run  *)
(* bails out to an ABORT.                                                  *)
FinishRun ==
    /\ At("FINISH")
    /\ LET r == runs[Len(runs)]
           abort == IF interactive THEN FindAbort2(stack)
                    ELSE FindAbort1(stack)
       IN IF Len(stack) = r.ss0
          THEN /\ code' = r.after
               /\ runs' = Front(runs)
               /\ UNCHANGED <<stack, frame, regs, holes, pause, interactive,
                              bound, mode>>
          ELSE IF abort # 0 THEN Restore(stack[abort].k, regs)
          ELSE Restore(MainK, regs)

(* The end of idio_vm_invoke_C_thread.                                     *)
InvokeCDone ==
    /\ At("INVOKE-C-DONE")
    /\ LET n == Len(stack)
       IN /\ stack[n].m = "all-state" => Restorable(stack[n].regs)
          /\ IF stack[n].m = "all-state" /\ stack[n - 1].m = "return"
             THEN /\ stack' = SubSeq(stack, 1, n - 2)
                  /\ frame' = stack[n].frame /\ regs' = stack[n].regs
                  /\ code' = stack[n - 1].code
                  /\ mode' = mode
             ELSE /\ mode' = "panic"
                  /\ UNCHANGED <<stack, frame, regs, code>>
    /\ UNCHANGED <<holes, runs, pause, interactive, bound>>

(* The PC is past the end of the run; no handler goes back to it.          *)
InvokeCFails ==
    /\ At("INVOKE-C-DONE")
    /\ Top.m = "all-state" /\ ~Restorable(Top.regs)
    /\ Raise("raise", "error", FALSE, FALSE, stack, code)
    /\ UNCHANGED bound

(* idio_vm_run looks for a recorded signal after every instruction.        *)
Signal ==
    /\ mode = "run" /\ runs # << >>
    /\ code[1][1] \notin {"LOAD", "EVALUATE", "PRIMITIVE", "INVOKE-C-DONE",
                           "PUSH-ABORT"}
    /\ bound.signals > 0 /\ bound' = [bound EXCEPT !.signals = @ - 1]
    /\ Raise("signal", "SIGCHLD", TRUE, regs.func, stack, code)

Ended == mode # "run" /\ UNCHANGED vars

Machine ==
    \/ Repl \/ LoadEnds \/ Exit
    \/ LoadReads \/ LoadRuns \/ EvaluateFails
    \/ Value \/ Application \/ TrapForm \/ DynamicForm \/ RaiseForm
    \/ ReraiseForm \/ CallbackClosure \/ CallbackFails \/ LoadForm
    \/ PushAbort \/ PopAbort \/ Ref \/ PreserveState \/ RestoreState
    \/ RestoreAllState \/ RestoreAllStateFails \/ Call \/ PopFunction
    \/ FunctionInvoke \/ LoadFile \/ ReturnFrom \/ PushTrap \/ PopTrap
    \/ PushDynamic \/ PopDynamic \/ Prompt \/ AbortTop \/ TrapReturn
    \/ DefaultSigchld \/ DefaultHandler \/ RestartHandler \/ ResetHandler
    \/ NonContErr \/ FinishRun \/ InvokeCDone \/ InvokeCFails

Next == Machine \/ Signal \/ Ended

Spec == Init /\ [][Next]_vars
FairSpec == Spec /\ WF_vars(Machine)

-----------------------------------------------------------------------------
(* Properties.                                                             *)

(* Frames are of the kinds vm.c names; counts are not negative, the pause  *)
(* counter among them.                                                     *)
TypeOK ==
    /\ \A i \in DOMAIN stack :
          stack[i].m \in {"trap", "return", "state", "all-state", "dynamic",
                         "abort", "value"}
    /\ frame \in Nat /\ regs \in Registers /\ pause \in Nat
    /\ \A i \in DOMAIN runs : runs[i].ss0 \in Nat /\ runs[i].pause \in Nat
    /\ interactive \in BOOLEAN
    /\ bound \in [forms : SUBSET Forms, stack : Nat, file : Nat, signals : Nat]
    /\ mode \in {"run", "exit", "panic"}

PushesOf == [op \in {"PUSH-ABORT", "PRESERVE-STATE", "PUSH-TRAP",
                     "PUSH-DYNAMIC"} |->
    CASE op = "PUSH-ABORT" -> "abort"
      [] op = "PRESERVE-STATE" -> "state"
      [] op = "PUSH-TRAP" -> "trap"
      [] op = "PUSH-DYNAMIC" -> "dynamic"]
PopsOf == [op \in {"POP-ABORT", "RESTORE-STATE", "POP-TRAP", "POP-DYNAMIC",
                   "RESTORE-ALL-STATE", "LOAD", "INVOKE-C-DONE"} |->
    CASE op = "POP-ABORT" -> "abort"
      [] op = "RESTORE-STATE" -> "state"
      [] op = "POP-TRAP" -> "trap"
      [] op = "POP-DYNAMIC" -> "dynamic"
      [] op \in {"RESTORE-ALL-STATE", "INVOKE-C-DONE"} -> "all-state"
      [] op = "LOAD" -> "value"]

(* The markers the code of an activation will pop that it has not pushed   *)
(* itself, the first to be popped first: what its rest wants, and what its *)
(* first instruction pops or without what it pushes.                       *)
Wanted(ins, rest) ==
    IF ins[1] \in DOMAIN PopsOf THEN <<PopsOf[ins[1]]>> \o rest
    ELSE IF /\ ins[1] \in DOMAIN PushesOf
            /\ rest # << >> /\ Head(rest) = PushesOf[ins[1]]
         THEN Tail(rest)
    ELSE rest
Wants(pc) ==
    LET want[i \in 1 .. Len(pc) + 1] ==
            IF i = Len(pc) + 1 THEN << >> ELSE Wanted(pc[i], want[i + 1])
    IN want[1]

(* Every activation's part of the stack holds what its code will pop, in   *)
(* that order: between two return frames, what the code at the upper one   *)
(* wants.  A FINISH frame stands on what C has to tidy up after the run.   *)
(* Left out: the frames C pushed, which C pops by number, and the address  *)
(* an error left over them, or over those of a signal, which no handler    *)
(* should go back to; and what lies under a NON-CONT-ERR, which leaves it  *)
(* all.                                                                    *)
Nested(s, pc) ==
    LET returns == Positions(s, "return")
        OfC(i) == i \in returns /\ s[i].run = -1
        Below(i) == Max({j \in returns : j < i} \cup {0})
        Kept(i) ==
            LET c == IF i > Len(s) THEN pc ELSE s[i].code
                ofRun == {n \in DOMAIN runs : runs[n].ss0 + 1 = i}
            IN IF c = FIN /\ ofRun # {} THEN runs[Max(ofRun)].after ELSE c
    IN \A i \in returns \cup {Len(s) + 1} :
          \/ Below(i) = 0 \/ OfC(i)
          \/ i > Len(s) /\ pc[1][1] = "EVALUATE"
          \/ i \in returns /\ s[i].run = 0 /\ s[i - 1].m = "all-state"
          \/ Kept(i) # << >> /\ Last(Kept(i))[1] = "NON-CONT-ERR"
          \/ [j \in 1 .. i - 1 - Below(i) |-> s[i - j].m] = Wants(Kept(i))

(* What may still be restored: ABORTs #1 and #2, the only ones anything    *)
(* looks for, and the holes.                                               *)
Continuations ==
    Range(holes) \cup
    (IF Positions(stack, "abort") = {} THEN {}
     ELSE {stack[i].k : i \in {FindAbort1(stack), FindAbort2(stack)} \ {0}})

(* vm.c panics when an instruction that pops finds another marker than its *)
(* own.  Whatever way control leaves an expression (a return, a handler,   *)
(* a signal between any two instructions, an ABORT, a prompt), the stack   *)
(* is the one the code about to run expects, and so it is in every         *)
(* continuation that may still be restored.                                *)
WellNested ==
    /\ mode # "panic"
    /\ mode = "run" => Nested(stack, code)
    /\ \A k \in Continuations : Nested(k.stack, k.code)

(* vm.c:6716, "We shouldn't be anywhere other than one beyond              *)
(* idio_vm_FINISH_pc ... and we shouldn't have left the stack in a mess":  *)
(* the return frames of the C runs are on the stack each where its run     *)
(* found it, so no run bails out; and a continuation that may be restored  *)
(* belongs to a run that has not ended, so siglongjmp never goes to a C    *)
(* frame that is gone.                                                     *)
StandsOn(s, pc, n) ==
    /\ n <= Len(runs)
    /\ \A i \in 1 .. n :
          LET at == runs[i].ss0 + 1
          IN IF at > Len(s) THEN i = n /\ at = Len(s) + 1 /\ pc = FIN
             ELSE s[at].m = "return" /\ s[at].code = FIN
    /\ \A i \in Positions(s, "return") :
          s[i].run > 0 => s[i].run <= n /\ i = runs[s[i].run].ss0 + 1
JumpsLive ==
    mode = "run" => /\ StandsOn(stack, code, Len(runs))
                    /\ \A k \in Continuations : StandsOn(k.stack, k.code, k.run)

(* The chains through the stack: a trap, dynamic or abort frame points to  *)
(* an older one of its kind, whatever has been popped or restored between, *)
(* so a walk ends at the base; and find_abort_1 finds main's.              *)
ChainsDescend ==
    mode = "run" =>
      \A i \in DOMAIN stack :
        CASE stack[i].m = "trap" ->
               i > 1 => stack[i].next < i /\ stack[stack[i].next].m = "trap"
          [] stack[i].m \in {"dynamic", "abort"} ->
               stack[i].next = FindMarker(SubSeq(stack, 1, i - 1), stack[i].m)
          [] OTHER -> TRUE

(* FRAME is that of the activation whose code looks at it.                 *)
FrameIsOwn ==
    mode = "run" /\ code[1][1] \in {"EXPR", "REF"} => frame = code[1][2]

(* When a handler has returned and the VM is about to go back to where the *)
(* condition was raised, FRAME is as it was then, and after a signal every *)
(* register is, FUNC among them.                                           *)
HandlerTransparent ==
    At("RETURN") /\ Top.m = "return" /\ Top.was # << >> =>
        /\ frame = Top.was[1]
        /\ Len(Top.was) = 2 => regs = Top.was[2]

(* vm.c:2963, "We need to run this code in the care of the next handler on *)
(* the stack (not the current handler)": the trap frame pushed for a       *)
(* handler to run under is of another trap expression, except at the base. *)
InCareOfNext ==
    \A i \in Positions(stack, "trap") :
        stack[i].for # 0 => stack[i].id # stack[i].for \/ stack[i].id = 1

(* A handler's trap-return, and the end of a prompt, find a hole, however  *)
(* many continuations have been restored since the prompt was set.         *)
TrapReturnHasPrompt == At("TRAP-RETURN") \/ At("ABORT-TOP") => holes # << >>

(* The collector is paused inside the evaluator and nowhere else, although *)
(* an error jumps out of it past the resume (vm.c:6405, 6431).             *)
PauseBalanced == mode = "run" => pause = IF At("EVALUATE") THEN 1 ELSE 0

(* doc/ref/conditions/handlers-Idio-trap-return-doc.rst and                *)
(* handlers-intro.rst: trap-return in a handler returns from the trap the  *)
(* handler was given to.                                                   *)
TrapReturnsFromOwnTrap == At("TRAP-RETURN") => code[1][2] = Len(holes)

(* However conditions are raised and handled, every top-level expression   *)
(* ends: the REPL reads the next one, or the shell exits.  Fairness: the   *)
(* VM's loop runs.                                                         *)
TopLevelEnds == (runs # << >>) ~> (runs = << >>)
=============================================================================
