--------------------------------- MODULE GC ---------------------------------
(***************************************************************************)
(* The Idio memory manager, src/src/gc.c: one generation of cells, a       *)
(* stop-the-world mark and sweep collector, weak hash tables and           *)
(* finalizers.                                                             *)
(*                                                                         *)
(* A cell is an idio_t.  It is on exactly one of the lists `used', `free'  *)
(* and `weak', or it belongs to the C allocator (OS).  The lists are sets  *)
(* here: nothing depends on their order.  A colour of "LGREY" stands for   *)
(* membership of gc->grey: idio_gc_gcc_mark pushes a cell exactly when it  *)
(* makes it LGREY, idio_gc_process_grey pops it when it makes it BLACK.    *)
(*                                                                         *)
(* The interpreter only collects between two VM instructions, when what a  *)
(* primitive allocated is already stored somewhere the thread reaches; so  *)
(* an allocation and the store of the new cell are one action.             *)
(***************************************************************************)
EXTENDS Integers, FiniteSets

CONSTANTS
    Obj,        \* cells a program can be given
    Thr,        \* the cell of the current thread, whose registers are roots
    Table,      \* the weak hash tables (finalizers, properties, ...)
    FinTab,     \* idio_gc_finalizer_hash
    Const,      \* keys that are no cells: fixnums, constants
    AllocPool,  \* IDIO_GC_ALLOC_POOL, cells taken from the C allocator at once
    AllocMany,  \* IDIO_GC_ALLOC_MANY
    NewKinds,   \* bound: kinds of the cells a program makes
    MaxRefs,    \* bound: references held by one cell
    MaxEntries, \* bound: entries of one weak table
    MaxPause,   \* bound: nesting of idio_gc_pause
    MaxRoots    \* bound: cells protected beside the thread and the tables

Cell == Obj \cup Table

ASSUME GCAssumption ==
    /\ Thr \in Obj
    /\ FinTab \in Table
    /\ Obj \cap Table = {}
    /\ Const \cap Cell = {}
    /\ IsFiniteSet(Cell)
    /\ AllocPool \in Nat \ {0}
    /\ AllocMany \in Nat
    /\ NewKinds \subseteq {"simple", "substring", "compound"}
    /\ MaxRefs \in Nat /\ MaxEntries \in Nat /\ MaxPause \in Nat
    /\ MaxRoots \in Nat

Kind == {"none", "simple", "substring", "compound", "pointer"}
Colour == {"WHITE", "LGREY", "BLACK"}
Phase == {"mutate", "grey", "weak1", "flush1", "weak2", "flush2", "trim",
          "sweep", "objfree", "ended", "exited"}
Key == Cell \cup Const
Entry == Table \X Key \X Cell

VARIABLES
    kind, refs,         \* o->type and the cells o points at
    colour,             \* o->colour
    used, free, weak,   \* gc->used, gc->free, gc->weak
    roots,              \* gc->roots and gc->autos
    tab,                \* the key/value pairs of each weak table
    fin,                \* o->finalizer
    hashnil,            \* idio_gc_finalizer_hash is #n
    nfree, igets,       \* gc->stats
    request, pause,     \* IDIO_GC_FLAG_REQUEST, gc->pause
    phase, scan, todo,  \* where the collector is, entries and cells to visit
    runs,               \* history: finalizer calls for the cell's current life
    strong              \* history: weak tables marked as ordinary ones this time

heap == <<kind, refs, used, free, nfree>>
weakState == <<weak, tab, fin, hashnil, runs, strong>>
control == <<igets, request, pause>>
vars == <<kind, refs, colour, used, free, weak, roots, tab, fin, hashnil,
          nfree, igets, request, pause, phase, scan, todo, runs, strong>>

InUse == used \cup weak
Grey == {o \in Cell : colour[o] = "LGREY"}
Black == {o \in Cell : colour[o] = "BLACK"}
Entries == UNION {{<<t, e[1], e[2]>> : e \in tab[t]} : t \in weak}
HasFinalizer(o) == \E v \in Cell : <<o, v>> \in tab[FinTab]

-----------------------------------------------------------------------------
(* What the collector goes by: a set of cells is retained when it has the  *)
(* roots and, with a cell, the cells it points at and the values its weak  *)
(* entries carry.  A program also reaches the value of a key that is a     *)
(* constant, which it can always name: Reachable is the least retained set *)
(* that has those.                                                         *)

Retained(S) ==
    /\ roots \subseteq S
    /\ \A o \in S : refs[o] \subseteq S
    /\ \A e \in Entries : e[2] \in S => e[3] \in S

ConstValues == {e[3] : e \in {e \in Entries : e[2] \in Const}}

Reachable ==
    LET closed == {S \in SUBSET Cell : Retained(S) /\ ConstValues \subseteq S}
    IN {o \in Cell : \A S \in closed : o \in S}

(* The value of a constant key is not held by its entry alone.             *)
HeldOtherwise ==
    \A o \in ConstValues : \A S \in SUBSET Cell : Retained(S) => o \in S

(* The cells a program can name: not the weak tables, nor the C pointers   *)
(* the finalizer table holds.                                              *)
Named == {o \in Reachable \ Table : kind[o] # "pointer"}

-----------------------------------------------------------------------------
(* A weak table is white until the first collection after                  *)
(* idio_gc_add_weak_object and black ever after; the tables the            *)
(* interpreter makes for itself are black once it has bootstrapped.        *)
Init ==
    /\ kind = [o \in Cell |-> IF o \in Table \cup {Thr} THEN "compound" ELSE "none"]
    /\ refs = [o \in Cell |-> {}]
    /\ \E old \in SUBSET Table :
          colour = [o \in Cell |-> IF o \in old THEN "BLACK" ELSE "WHITE"]
    /\ used = {Thr}
    /\ free = {}
    /\ weak = Table
    /\ roots = {Thr} \cup Table
    /\ tab = [t \in Table |-> {}]
    /\ fin = [o \in Cell |-> FALSE]
    /\ hashnil = FALSE
    /\ nfree = 0
    /\ igets = 0
    /\ request = FALSE
    /\ pause = 0
    /\ phase = "mutate"
    /\ scan = {}
    /\ todo = {}
    /\ runs = [o \in Cell |-> 0]
    /\ strong = {}

Running == phase = "mutate" /\ ~hashnil

-----------------------------------------------------------------------------
(* Allocation: the head of the free list, or a new pool.                   *)

FromFree(o) ==
    /\ o \in free
    /\ free' = free \ {o}
    /\ nfree' = nfree - 1
    /\ request' = (request \/ igets > AllocMany)

FromPool(o) ==
    /\ free = {}
    /\ \E P \in SUBSET (Obj \ InUse) :
          /\ o \in P
          /\ Cardinality(P) = AllocPool
          /\ free' = P \ {o}
          /\ nfree' = nfree + (AllocPool - 1)
    /\ request' = TRUE

Get(o, k) ==
    /\ FromFree(o) \/ FromPool(o)
    /\ igets' = igets + 1
    /\ kind' = [kind EXCEPT ![o] = k]
    /\ colour' = [colour EXCEPT ![o] = "WHITE"]
    /\ runs' = [runs EXCEPT ![o] = 0]
    /\ used' = used \cup {o}

(* A primitive makes a cell and stores it in a compound one.               *)
Alloc(o, k, p) ==
    /\ Running
    /\ kind[p] = "compound"
    /\ Cardinality(refs[p]) < MaxRefs
    /\ Get(o, k)
    /\ refs' = [refs EXCEPT ![o] = {}, ![p] = @ \cup {o}]
    /\ fin' = [fin EXCEPT ![o] = FALSE]
    /\ UNCHANGED <<weak, roots, tab, hashnil, strong, pause, phase, scan, todo>>

(* A substring keeps its parent string.                                    *)
AllocSubstring(o, s, p) ==
    /\ Running
    /\ kind[p] = "compound"
    /\ kind[s] = "simple" /\ "substring" \in NewKinds
    /\ Cardinality(refs[p]) < MaxRefs
    /\ Get(o, "substring")
    /\ refs' = [refs EXCEPT ![o] = {s}, ![p] = @ \cup {o}]
    /\ fin' = [fin EXCEPT ![o] = FALSE]
    /\ UNCHANGED <<weak, roots, tab, hashnil, strong, pause, phase, scan, todo>>

Link(p, o) ==
    /\ Running
    /\ kind[p] = "compound"
    /\ o \notin refs[p]
    /\ Cardinality(refs[p]) < MaxRefs
    /\ refs' = [refs EXCEPT ![p] = @ \cup {o}]
    /\ UNCHANGED <<kind, colour, used, free, nfree, roots, control, phase, scan,
                   todo, weakState>>

Unlink(p, o) ==
    /\ Running
    /\ o \in refs[p]
    /\ refs' = [refs EXCEPT ![p] = @ \ {o}]
    /\ UNCHANGED <<kind, colour, used, free, nfree, roots, control, phase, scan,
                   todo, weakState>>

Protect(o) ==
    /\ Running
    /\ o \notin roots
    /\ Cardinality(roots \cap Obj) <= MaxRoots
    /\ roots' = roots \cup {o}
    /\ UNCHANGED <<heap, colour, control, phase, scan, todo, weakState>>

Expose(o) ==
    /\ Running
    /\ o \in roots \ {Thr}
    /\ roots' = roots \ {o}
    /\ UNCHANGED <<heap, colour, control, phase, scan, todo, weakState>>

WeakPut(t, k, v) ==
    /\ Running
    /\ t # FinTab
    /\ LET others == {e \in tab[t] : e[1] # k} IN
          /\ Cardinality(others) < MaxEntries
          /\ tab' = [tab EXCEPT ![t] = others \cup {<<k, v>>}]
    /\ UNCHANGED <<heap, colour, roots, control, phase, scan, todo,
                   weak, fin, hashnil, runs, strong>>

(* The C pointer to the finalizer is a cell, held by the entry alone.      *)
RegisterFinalizer(o, c) ==
    /\ Running
    /\ o # Thr /\ ~fin[o] /\ ~HasFinalizer(o)
    /\ runs[o] = 0
    /\ Cardinality(tab[FinTab]) < MaxEntries
    /\ c # o /\ Get(c, "pointer")
    /\ refs' = [refs EXCEPT ![c] = {}]
    /\ tab' = [tab EXCEPT ![FinTab] = @ \cup {<<o, c>>}]
    /\ fin' = [fin EXCEPT ![o] = TRUE, ![c] = FALSE]
    /\ UNCHANGED <<weak, roots, hashnil, strong, pause, phase, scan, todo>>

(* The flag goes, the entry stays.                                         *)
DeregisterFinalizer(o) ==
    /\ Running
    /\ fin[o]
    /\ fin' = [fin EXCEPT ![o] = FALSE]
    /\ UNCHANGED <<heap, colour, roots, control, phase, scan, todo,
                   weak, tab, hashnil, runs, strong>>

Pause ==
    /\ Running
    /\ pause < MaxPause
    /\ pause' = pause + 1
    /\ UNCHANGED <<heap, colour, roots, igets, request, phase, scan, todo, weakState>>

(* Faulty variant: no floor on the counter.                                *)
ResumeUnfloored ==
    /\ Running
    /\ pause' = pause - 1
    /\ UNCHANGED <<heap, colour, roots, igets, request, phase, scan, todo, weakState>>

Resume ==
    /\ Running
    /\ pause' = IF pause - 1 < 0 THEN 0 ELSE pause - 1
    /\ UNCHANGED <<heap, colour, roots, igets, request, phase, scan, todo, weakState>>

-----------------------------------------------------------------------------
(* Faulty variant: a substring does not mark its parent.                   *)
GccMarkShallow(c, S) ==
    [o \in Cell |->
        IF o \in S /\ c[o] = "WHITE" /\ kind[o] # "none"
        THEN IF kind[o] = "compound" THEN "LGREY" ELSE "BLACK"
        ELSE c[o]]

(* Marking.  A compound cell goes on the grey list, any other is black at  *)
(* once; a substring marks its parent, which is not compound.              *)

GccMark(c, S) ==
    LET deep == S \cup UNION {refs[o] : o \in {s \in S : kind[s] = "substring"}}
    IN [o \in Cell |->
          IF o \in deep /\ c[o] = "WHITE" /\ kind[o] # "none"
          THEN IF kind[o] = "compound" THEN "LGREY" ELSE "BLACK"
          ELSE c[o]]

(* Faulty variant: the colours of the last collection stay.                *)
WhitenNothing(u) == colour

(* idio_gc_collect up to the marking of the roots: the cells of the used   *)
(* list are whitened, those of the weak list are not.                      *)
Whiten(u) == [o \in Cell |-> IF o \in u THEN "WHITE" ELSE colour[o]]

StartCollect ==
    /\ pause = 0
    /\ request' = FALSE
    /\ colour' = GccMark(Whiten(used), roots)
    /\ phase' = "grey"
    /\ strong' = {t \in weak : colour[t] = "WHITE"}
    /\ UNCHANGED <<heap, roots, igets, pause, scan, todo, weak, tab, fin, hashnil,
                   runs>>

PossiblyCollect ==
    /\ Running
    /\ request
    /\ StartCollect

CollectAll ==
    /\ Running
    /\ StartCollect

Children(o) ==
    refs[o] \cup (IF o \in Table
                  THEN {c \in Cell : \E e \in tab[o] : c = e[1] \/ c = e[2]}
                  ELSE {})

ProcessGrey(o) ==
    /\ phase \in {"grey", "flush1", "flush2"}
    /\ o \in Grey
    /\ colour' = GccMark([colour EXCEPT ![o] = "BLACK"], Children(o))
    /\ UNCHANGED <<heap, roots, control, phase, scan, todo, weakState>>

Goto(from, to, entries, cells) ==
    /\ phase = from
    /\ phase' = to
    /\ scan' = entries
    /\ todo' = cells
    /\ UNCHANGED <<heap, colour, roots, request, pause, weakState>>

StartWeak ==
    /\ Grey = {}
    /\ Goto("grey", "weak1", Entries, {})
    /\ UNCHANGED igets

LiveKey(e) == e[2] \in Cell /\ colour[e[2]] = "BLACK"
DeadKey(e) == e[2] \in Cell /\ colour[e[2]] # "BLACK"

(* Pass 1 of idio_gc_mark_weak.  The order of a scan is that of the hash   *)
(* buckets, which is any order.  A constant has no colour and its entry is *)
(* passed over.                                                            *)
WeakPass1(e) ==
    /\ phase = "weak1"
    /\ e \in scan
    /\ scan' = scan \ {e}
    /\ colour' = IF LiveKey(e) THEN GccMark(colour, {e[3]}) ELSE colour
    /\ UNCHANGED <<heap, roots, control, phase, todo, weakState>>

EndPass1 ==
    /\ scan = {}
    /\ Goto("weak1", "flush1", {}, {})
    /\ UNCHANGED igets

(* Faulty variant: the scan is started again whatever the last one did.    *)
RepeatPass1 ==
    /\ Grey = {}
    /\ Goto("flush1", "weak1", Entries, {})
    /\ UNCHANGED igets

(* The scan is not started again: `o' is NULL when the outer loop repeats. *)
StartPass2 ==
    /\ Grey = {}
    /\ Goto("flush1", "weak2", Entries, {})
    /\ UNCHANGED igets

(* Faulty variant: the value of a live key is left white.                  *)
WeakPass2KeepKey(e) ==
    /\ phase = "weak2"
    /\ e \in scan /\ LiveKey(e)
    /\ scan' = scan \ {e}
    /\ UNCHANGED <<heap, colour, roots, control, phase, todo, weakState>>

WeakPass2Keep(e) ==
    /\ phase = "weak2"
    /\ e \in scan /\ LiveKey(e)
    /\ scan' = scan \ {e}
    /\ colour' = GccMark(colour, {e[3]})
    /\ UNCHANGED <<heap, roots, control, phase, todo, weakState>>

(* The entry of a constant stays, and nothing is done about its value.     *)
WeakPass2Pass(e) ==
    /\ phase = "weak2"
    /\ e \in scan /\ e[2] \in Const
    /\ scan' = scan \ {e}
    /\ UNCHANGED <<heap, colour, roots, control, phase, todo, weakState>>

(* idio_gc_finalizer_run, for a cell whose flag is set.                    *)
FinalizerRun(o) ==
    /\ fin' = [fin EXCEPT ![o] = fin[o] /\ ~(~hashnil /\ HasFinalizer(o))]
    /\ runs' = [runs EXCEPT ![o] =
                  IF fin[o] /\ ~hashnil /\ HasFinalizer(o) THEN @ + 1 ELSE @]
    /\ phase' = IF fin[o] /\ ~hashnil /\ ~HasFinalizer(o) THEN "exited" ELSE phase

(* Faulty variant: a dead key is dropped and not finalized.                *)
WeakPass2DropQuietly(e) ==
    /\ phase = "weak2"
    /\ e \in scan /\ DeadKey(e)
    /\ scan' = scan \ {e}
    /\ tab' = [tab EXCEPT ![e[1]] = @ \ {<<e[2], e[3]>>}]
    /\ UNCHANGED <<heap, colour, roots, control, phase, todo, weak, fin, hashnil,
                   runs, strong>>

WeakPass2Drop(e) ==
    /\ phase = "weak2"
    /\ e \in scan /\ DeadKey(e)
    /\ scan' = scan \ {e}
    /\ FinalizerRun(e[2])
    /\ tab' = [tab EXCEPT ![e[1]] = @ \ {<<e[2], e[3]>>}]
    /\ UNCHANGED <<heap, colour, roots, control, todo, weak, hashnil, strong>>

EndPass2 ==
    /\ scan = {}
    /\ Goto("weak2", "flush2", {}, {})
    /\ UNCHANGED igets

EndMark ==
    /\ Grey = {}
    /\ Goto("flush2", "trim", {}, {})
    /\ UNCHANGED igets

-----------------------------------------------------------------------------
(* Sweeping.  A long free list is cut first.                               *)

(* Faulty variant: a cell that is given back is still counted.             *)
TrimUncounted(o) ==
    /\ phase = "trim"
    /\ nfree > AllocMany /\ o \in free
    /\ free' = free \ {o}
    /\ UNCHANGED <<kind, refs, used, nfree, colour, roots, control, phase, scan,
                   todo, weakState>>

Trim(o) ==
    /\ phase = "trim"
    /\ nfree > AllocMany /\ o \in free
    /\ free' = free \ {o}
    /\ nfree' = nfree - 1
    /\ UNCHANGED <<kind, refs, used, colour, roots, control, phase, scan, todo,
                   weakState>>

StartSweep ==
    /\ nfree <= AllocMany
    /\ Goto("trim", "sweep", {}, used)
    /\ UNCHANGED igets

SweepKeep(o) ==
    /\ phase = "sweep"
    /\ o \in todo /\ colour[o] # "WHITE"
    /\ todo' = todo \ {o}
    /\ UNCHANGED <<heap, colour, roots, control, phase, scan, weakState>>

SweepFree(o) ==
    /\ phase = "sweep"
    /\ o \in todo /\ colour[o] = "WHITE"
    /\ todo' = todo \ {o}
    /\ FinalizerRun(o)
    /\ used' = used \ {o}
    /\ free' = free \cup {o}
    /\ nfree' = nfree + 1
    /\ kind' = [kind EXCEPT ![o] = "none"]
    /\ refs' = [refs EXCEPT ![o] = {}]
    /\ UNCHANGED <<colour, roots, control, scan, weak, tab, hashnil, strong>>

EndSweep ==
    /\ todo = {}
    /\ Goto("sweep", IF hashnil THEN "objfree" ELSE "mutate", {}, {})
    /\ igets' = 0

-----------------------------------------------------------------------------
(* Shutdown: the remaining finalizers are run, the weak tables become      *)
(* ordinary cells, every root is exposed, and what is left is collected    *)
(* unless the collector is paused.                                         *)

(* Faulty variants: the finalizer table stays in place after its           *)
(* finalizers have run; the finalizers are not run.                        *)
FinalGCKeepsTable ==
    /\ Running
    /\ runs' = [o \in Cell |-> IF HasFinalizer(o) /\ fin[o] THEN runs[o] + 1 ELSE runs[o]]
    /\ weak' = {}
    /\ used' = used \cup weak
    /\ roots' = {}
    /\ request' = FALSE
    /\ colour' = Whiten(used \cup weak)
    /\ phase' = "grey"
    /\ UNCHANGED <<kind, refs, free, nfree, tab, fin, hashnil, igets, pause, scan,
                   todo, strong>>

FinalGCRunsNone ==
    /\ Running
    /\ hashnil' = TRUE
    /\ weak' = {}
    /\ used' = used \cup weak
    /\ roots' = {}
    /\ request' = FALSE
    /\ colour' = Whiten(used \cup weak)
    /\ phase' = "grey"
    /\ UNCHANGED <<kind, refs, free, nfree, tab, fin, runs, igets, pause, scan,
                   todo, strong>>

FinalGC ==
    /\ Running
    /\ runs' = [o \in Cell |-> IF HasFinalizer(o) /\ fin[o] THEN runs[o] + 1 ELSE runs[o]]
    /\ hashnil' = TRUE
    /\ weak' = {}
    /\ used' = used \cup weak
    /\ roots' = {}
    /\ IF pause = 0
       THEN /\ request' = FALSE
            /\ colour' = Whiten(used \cup weak)
            /\ phase' = "grey"
       ELSE /\ phase' = "objfree"
            /\ UNCHANGED <<request, colour>>
    /\ UNCHANGED <<kind, refs, free, nfree, tab, fin, igets, pause, scan, todo,
                   strong>>

ObjFree ==
    /\ phase = "objfree"
    /\ phase' = "ended"
    /\ pause' = 0
    /\ free' = {}
    /\ used' = {}
    /\ UNCHANGED <<kind, refs, nfree, colour, roots, igets, request, scan, todo,
                   weakState>>

Ended == phase \in {"ended", "exited"} /\ UNCHANGED vars

-----------------------------------------------------------------------------
Collector ==
    \/ \E o \in Cell : ProcessGrey(o) \/ Trim(o) \/ SweepKeep(o) \/ SweepFree(o)
    \/ \E e \in scan : \/ WeakPass1(e)
                       \/ WeakPass2Keep(e) \/ WeakPass2Drop(e) \/ WeakPass2Pass(e)
    \/ StartWeak \/ EndPass1 \/ StartPass2 \/ EndPass2 \/ EndMark
    \/ StartSweep \/ EndSweep \/ ObjFree

Mutator ==
    \/ /\ Running
       /\ \E p \in Named :
             \/ \E o \in Obj : \/ \E k \in NewKinds \ {"substring"} : Alloc(o, k, p)
                               \/ RegisterFinalizer(p, o)
             \/ \E o \in Named : \/ Link(p, o) \/ Unlink(p, o)
                                 \/ \E n \in Obj : AllocSubstring(n, o, p)
                                 \/ \E t \in Table : WeakPut(t, p, o)
             \/ \E t \in Table, k \in Const : WeakPut(t, k, p)
             \/ Protect(p) \/ Expose(p) \/ DeregisterFinalizer(p)
    \/ Pause \/ Resume \/ PossiblyCollect \/ CollectAll \/ FinalGC

Next == Mutator \/ Collector \/ Ended

Spec == Init /\ [][Next]_vars

FairSpec == Spec /\ WF_vars(Collector)

-----------------------------------------------------------------------------
TypeOK ==
    /\ kind \in [Cell -> Kind]
    /\ refs \in [Cell -> SUBSET Cell]
    /\ colour \in [Cell -> Colour]
    /\ used \subseteq Cell /\ free \subseteq Cell /\ weak \subseteq Table
    /\ roots \subseteq Cell
    /\ tab \in [Table -> SUBSET (Key \X Cell)]
    /\ fin \in [Cell -> BOOLEAN]
    /\ hashnil \in BOOLEAN
    /\ nfree \in Nat /\ igets \in Nat /\ pause \in Nat
    /\ request \in BOOLEAN
    /\ phase \in Phase
    /\ scan \subseteq Entry
    /\ todo \subseteq Cell
    /\ runs \in [Cell -> Nat]
    /\ strong \subseteq Table

(* What the program can reach is never freed: the collector may only put   *)
(* on the free list (idio_gc_sweep) a cell no root, strong reference or    *)
(* value of a live weak key leads to.  Like NoDangling this needs a        *)
(* program in which the values of constant keys are HeldOtherwise.         *)
ReachableInUse == Reachable \subseteq InUse

(* Between collections no pointer dangles: neither a cell in use nor a     *)
(* weak table entry, whose keys idio_gc_run_all_finalizers dereferences    *)
(* even when nothing else does, refers to a freed cell.  That is as long   *)
(* as the values of constant keys are HeldOtherwise: nothing marks a value *)
(* that only such a key's entry has, and the entry stays when it is freed. *)
NoDangling ==
    phase = "mutate" =>
        /\ \A o \in InUse : refs[o] \subseteq InUse
        /\ \A e \in Entries : {e[2], e[3]} \subseteq InUse \cup Const

(* A collection keeps no garbage: what is marked when the sweep starts is  *)
(* reachable, counting the entries of a weak table as strong only in the   *)
(* first collection after idio_gc_add_weak_object, which still finds the   *)
(* table white.                                                            *)
OnlyReachableKept ==
    phase = "sweep" =>
        \A S \in SUBSET Cell :
            /\ Retained(S)
            /\ \A e \in Entries : e[1] \in strong => {e[2], e[3]} \subseteq S \cup Const
            => Black \cap used \subseteq S

(* gc->stats.nfree counts the free list, as idio_gc_obj_free asserts when  *)
(* the interpreter ends; the lists share no cell.                          *)
FreeListCounted ==
    /\ phase # "ended" => nfree = Cardinality(free)
    /\ used \cap free = {} /\ used \cap weak = {} /\ weak \cap free = {}

(* idio_gc_finalizer_run never meets a cell whose flag is set but which    *)
(* the finalizer table lost, which ends the process with exit (4).         *)
FinalizerFound == phase # "exited"

(* A finalizer runs at most once in the life of a cell, whichever of the   *)
(* collector's two calls and of the one at shutdown comes first.           *)
FinalizedOnce == \A o \in Cell : runs[o] <= 1

(* After shutdown every finalizer that was registered and not deregistered *)
(* has been run, so no descriptor or library handle is left behind.        *)
FinalizersAllRun ==
    hashnil => \A o \in Cell : fin[o] => runs[o] = 1

(* The collector finalizes garbage only: a cell whose finalizer it ran is  *)
(* not marked, so the sweep frees it.  idio_gc_mark_weak says it repeats   *)
(* its first pass until no more values are marked, so that no key in use   *)
(* is taken for a dead one.                                                *)
FinalizedIsGarbage ==
    ~hashnil => \A o \in InUse : runs[o] > 0 => colour[o] = "WHITE"

(* A collection that starts comes to an end.                               *)
CollectionEnds ==
    phase \in {"grey", "sweep"} ~> phase \in {"mutate", "ended"}
=============================================================================
