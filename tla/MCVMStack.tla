----------------------------- MODULE MCVMStack ------------------------------
(* Finite instances of VMStack.                                            *)
EXTENDS VMStack

(* Either kind of condition, one at a time.                                *)
Single == {<<"error">>, <<"SIGCHLD">>}

Bound(forms, n, s) == [forms |-> forms, stack |-> n, file |-> 1, signals |-> s]

(* Few forms and a deep stack, or all of them and a shallower one: at 12   *)
(* frames an expression is inside a trap, at 16 inside its handler (17, of *)
(* a value that was applied), at 21 in the handler of a trap within a      *)
(* trap.  A second expression of a file meets the FUNC the first one left. *)
Core == {Bound(Forms, 13, 1),
         Bound({"trap", "raise", "reraise"}, 21, 0),
         Bound({"trap", "call"}, 16, 2),
         Bound({"trap", "callback", "raise"}, 17, 0),
         Bound({"trap", "load"}, 18, 0),
         Bound({"dynamic", "callback", "load", "raise"}, 16, 0),
         Bound({"trap", "call", "misapply"}, 17, 1),
         Bound({"trap", "call", "misapply", "callback"}, 18, 0),
         [Bound({"trap", "call", "misapply", "load"}, 17, 0) EXCEPT !.file = 2]}

(* Traps and conditions raised in them.                                    *)
Traps == {Bound({"trap", "raise"}, 18, 0)}
=============================================================================
