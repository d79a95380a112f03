------------------------------ MODULE GCProofs ------------------------------
(***************************************************************************)
(* Proofs about GC for any number of cells, weak tables and references.    *)
(***************************************************************************)
EXTENDS GC, TLAPS, FiniteSetTheorems

Marked(o) == colour[o] # "WHITE"

(* The lists are disjoint and the free list is counted.                    *)
Lists ==
    /\ used \cap free = {} /\ used \cap weak = {} /\ weak \cap free = {}
    /\ phase # "ended" => nfree = Cardinality(free)

(* What a cell on a list looks like.                                       *)
Cells ==
    /\ phase # "ended" =>
          /\ \A o \in Cell : Marked(o) => o \in InUse
          /\ \A o \in InUse : kind[o] # "none"
          /\ roots \subseteq InUse
    /\ \A t \in Table : refs[t] = {}
    /\ \A o \in Cell : kind[o] \notin {"substring", "compound"} => refs[o] = {}

(* Until the sweep starts, what is in use is closed under references.      *)
Intact == phase \notin {"sweep", "objfree", "ended", "exited"}

Closed ==
    Intact =>
        /\ \A o \in InUse : refs[o] \subseteq InUse
        /\ \A t \in weak : \A e \in tab[t] : e[1] \in InUse \cup Const /\ e[2] \in InUse
        /\ \A o \in InUse : kind[o] = "substring" =>
               \A s \in refs[o] : kind[s] = "simple"

(* The collector's side: the roots are marked, a black cell points at no   *)
(* white one, an entry pass 2 has left in place has a black key or one     *)
(* that is no cell.                                                        *)
Marking == phase \in {"grey", "weak1", "flush1", "weak2", "flush2", "trim", "sweep"}

TriColour ==
    /\ Marking =>
          /\ \A o \in roots : Marked(o)
          /\ \A o \in Black : \A s \in refs[o] : Marked(s)
          /\ hashnil => \A o \in Cell : ~Marked(o)
    /\ phase \in {"weak1", "weak2"} => scan \subseteq Entries
    /\ phase = "weak2" =>
          \A e \in Entries \ scan : e[2] \in Cell => colour[e[2]] = "BLACK" /\ Marked(e[3])
    /\ phase \in {"flush2", "trim", "sweep"} =>
          \A e \in Entries : e[2] \in Cell => colour[e[2]] = "BLACK" /\ Marked(e[3])
    /\ phase \in {"trim", "sweep"} => Grey = {}

Sweeping ==
    phase = "sweep" =>
        /\ todo \subseteq used
        /\ used \ todo \subseteq Black
        /\ \A o \in Black : kind[o] = "substring" =>
               \A s \in refs[o] : kind[s] = "simple"

(* Finalizers: a flag has its entry until shutdown, and was never run.     *)
Finalizers ==
    /\ phase # "exited"
    /\ weak = (IF hashnil THEN {} ELSE Table)
    /\ ~hashnil => \A o \in Cell : fin[o] => HasFinalizer(o) /\ runs[o] = 0
    /\ hashnil => \A o \in Cell : fin[o] => runs[o] = 1
    /\ \A o \in Cell : runs[o] <= 1
    /\ hashnil => phase # "mutate" /\ roots = {}
    /\ phase \in {"objfree", "ended"} => hashnil

IInv == TypeOK /\ Lists /\ Cells /\ Closed /\ TriColour /\ Sweeping /\ Finalizers

-----------------------------------------------------------------------------
(* The entries of the weak tables, one by one.                             *)
LEMMA EntriesDef ==
    ASSUME TypeOK
    PROVE  \A e : e \in Entries <=>
               \E t \in weak : \E p \in tab[t] : e = <<t, p[1], p[2]>>
BY DEF Entries

(* An entry is a table of the weak list, a key and a value.                *)
LEMMA EntriesTyped ==
    ASSUME TypeOK
    PROVE  /\ Entries \subseteq Entry
           /\ \A e \in Entry : e \in Entries <=> e[1] \in weak /\ <<e[2], e[3]>> \in tab[e[1]]
<1>1. \A t \in weak : \A p \in tab[t] : /\ t \in Table
                                         /\ p \in Key \X Cell
                                         /\ p = <<p[1], p[2]>>
  BY DEF TypeOK
<1>2. \A t, k, v : <<t, k, v>>[1] = t /\ <<t, k, v>>[2] = k /\ <<t, k, v>>[3] = v
  OBVIOUS
<1>3. Entries \subseteq Entry
  BY <1>1, EntriesDef DEF Entry
<1>4. ASSUME NEW e \in Entry
      PROVE  e \in Entries <=> e[1] \in weak /\ <<e[2], e[3]>> \in tab[e[1]]
  <2>1. e = <<e[1], e[2], e[3]>>
    BY DEF Entry
  <2>2. ASSUME e \in Entries PROVE e[1] \in weak /\ <<e[2], e[3]>> \in tab[e[1]]
    BY <2>2, <1>1, <1>2, EntriesDef
  <2>3. ASSUME e[1] \in weak, <<e[2], e[3]>> \in tab[e[1]] PROVE e \in Entries
    BY <2>1, <2>3, EntriesDef
  <2> QED BY <2>2, <2>3
<1> QED BY <1>3, <1>4

(* What GccMark does to one cell.                                          *)
LEMMA GccMarkFacts ==
    ASSUME TypeOK, NEW c \in [Cell -> Colour], NEW S \in SUBSET Cell
    PROVE  /\ GccMark(c, S) \in [Cell -> Colour]
           /\ \A o \in Cell : c[o] # "WHITE" => GccMark(c, S)[o] = c[o]
           /\ \A o \in S : kind[o] # "none" => GccMark(c, S)[o] # "WHITE"
           /\ \A o \in S : kind[o] = "substring" =>
                  \A s \in refs[o] : kind[s] # "none" => GccMark(c, S)[s] # "WHITE"
           /\ \A o \in Cell : c[o] = "WHITE" /\ GccMark(c, S)[o] # "WHITE" =>
                  \/ o \in S
                  \/ \E s \in S : kind[s] = "substring" /\ o \in refs[s]
           /\ \A o \in Cell : c[o] = "WHITE" /\ GccMark(c, S)[o] = "BLACK" =>
                  kind[o] \notin {"none", "compound"}
BY DEF GccMark, TypeOK, Colour

(* One call of the marker keeps the tri-colour condition when the white    *)
(* cells that black ones point at are among those it is given.             *)
LEMMA MarkStep ==
    ASSUME TypeOK, Cells, Closed, Intact,
           NEW c \in [Cell -> Colour], NEW S \in SUBSET InUse,
           \A o \in Cell : c[o] # "WHITE" => o \in InUse,
           \A o \in Cell : c[o] = "BLACK" =>
               \A s \in refs[o] : c[s] # "WHITE" \/ s \in S
    PROVE  /\ GccMark(c, S) \in [Cell -> Colour]
           /\ \A o \in Cell : c[o] # "WHITE" => GccMark(c, S)[o] = c[o]
           /\ \A o \in S : GccMark(c, S)[o] # "WHITE"
           /\ \A o \in Cell : GccMark(c, S)[o] # "WHITE" => o \in InUse
           /\ \A o \in Cell : GccMark(c, S)[o] = "BLACK" =>
                  \A s \in refs[o] : GccMark(c, S)[s] # "WHITE"
<1> DEFINE d == GccMark(c, S)
<1>1. S \in SUBSET Cell
  BY DEF TypeOK, InUse, Cell
<1>2. /\ \A o \in InUse : kind[o] # "none"
      /\ \A o \in InUse : refs[o] \subseteq InUse
      /\ \A o \in InUse : kind[o] = "substring" => \A s \in refs[o] : kind[s] = "simple"
      /\ \A o \in Cell : kind[o] \notin {"substring", "compound"} => refs[o] = {}
      /\ InUse \subseteq Cell
  BY DEF Cells, Closed, Intact, TypeOK, InUse, Cell
<1>3. d \in [Cell -> Colour] /\ \A o \in Cell : c[o] # "WHITE" => d[o] = c[o]
  BY <1>1, GccMarkFacts
<1>4. \A o \in S : d[o] # "WHITE"
  BY <1>1, <1>2, GccMarkFacts
<1>5. ASSUME NEW o \in Cell, d[o] # "WHITE" PROVE o \in InUse
  BY <1>1, <1>2, <1>5, GccMarkFacts
<1>6. ASSUME NEW o \in Cell, d[o] = "BLACK", NEW s \in refs[o] PROVE d[s] # "WHITE"
  <2>1. s \in Cell
    BY DEF TypeOK
  <2>2. CASE c[o] = "BLACK"
    BY <2>1, <2>2, <1>3, <1>4
  <2>3. CASE c[o] = "LGREY"
    BY <2>3, <1>3, <1>6
  <2>4. CASE c[o] = "WHITE"
    <3>1. kind[o] \notin {"none", "compound"}
      BY <2>4, <1>1, <1>6, GccMarkFacts
    <3>2. kind[o] = "substring"
      BY <3>1, <1>2
    <3>3. o \in S \/ \E x \in S : kind[x] = "substring" /\ o \in refs[x]
      BY <2>4, <1>1, <1>6, GccMarkFacts
    <3>4. o \in S
      BY <3>2, <3>3, <1>2
    <3>5. kind[s] = "simple"
      BY <3>2, <3>4, <1>2
    <3> QED BY <3>2, <3>4, <3>5, <1>1, GccMarkFacts
  <2> QED BY <2>2, <2>3, <2>4 DEF Colour
<1> QED BY <1>3, <1>4, <1>5, <1>6

(* Whatever the phase, the cells in use (before the sweep), the black ones *)
(* (during it) or no cell at all (after it) are a retained set; with what  *)
(* constant keys have held elsewhere it is all that can be reached.        *)
LEMMA ReachableKept ==
    ASSUME IInv, HeldOtherwise
    PROVE  Reachable \subseteq InUse
<1>1. CASE Intact
  <2>1. InUse \in SUBSET Cell
    BY DEF IInv, TypeOK, InUse, Cell
  <2>2. roots \subseteq InUse /\ \A o \in InUse : refs[o] \subseteq InUse
    BY <1>1 DEF IInv, Cells, Closed, Intact
  <2>3. \A e \in Entries : e[3] \in InUse
    BY <1>1, EntriesDef DEF IInv, Closed
  <2>4. Retained(InUse)
    BY <2>2, <2>3 DEF Retained
  <2> QED BY <2>1, <2>4 DEF Reachable, HeldOtherwise
<1>2. CASE phase = "sweep"
  <2>1. Black \in SUBSET Cell /\ Black \subseteq InUse
    BY <1>2 DEF IInv, Cells, Black, Marked
  <2>2. \A o \in Cell : Marked(o) => o \in Black
    BY <1>2 DEF IInv, TriColour, Grey, Black, Marked, TypeOK, Colour
  <2>3. roots \subseteq Black /\ \A o \in Black : refs[o] \subseteq Black
    BY <1>2, <2>2 DEF IInv, TriColour, Marking, TypeOK, Black
  <2>4. \A e \in Entries : e[2] \in Black => e[3] \in Black
    BY <1>2, <2>1, <2>2, EntriesTyped DEF IInv, TriColour, Entry
  <2>5. Retained(Black)
    BY <2>3, <2>4 DEF Retained
  <2> QED BY <2>1, <2>5 DEF Reachable, HeldOtherwise
<1>3. CASE phase \in {"objfree", "ended"}
  <2>1. roots = {} /\ Entries = {}
    BY <1>3 DEF IInv, Finalizers, Entries
  <2>2. Retained({})
    BY <2>1 DEF Retained
  <2> QED BY <2>2 DEF Reachable, HeldOtherwise
<1> QED BY <1>1, <1>2, <1>3 DEF IInv, Finalizers, TypeOK, Phase, Intact

(* The values of constant keys are in use then, by the same argument.      *)
LEMMA ConstValuesKept ==
    ASSUME IInv, HeldOtherwise
    PROVE  ConstValues \subseteq InUse
<1>1. ConstValues \subseteq Reachable
  <2>1. \A e \in Entries : e[3] \in Cell
    BY EntriesTyped DEF IInv, Entry
  <2> QED BY <2>1 DEF ConstValues, Reachable
<1> QED BY <1>1, ReachableKept
-----------------------------------------------------------------------------
(* What a primitive can name is a cell in use, no weak table.              *)
LEMMA NamedInUse ==
    ASSUME IInv, HeldOtherwise
    PROVE  /\ Named \subseteq InUse
           /\ InUse \subseteq Cell
           /\ \A o \in Named : o \notin Table
BY ReachableKept DEF Named, IInv, TypeOK, InUse, Cell

(* Counting a finite list of cells.                                        *)
LEMMA Counting ==
    ASSUME GCAssumption, NEW S \in SUBSET Cell
    PROVE  /\ Cardinality(S) \in Nat
           /\ \A x \in S : Cardinality(S \ {x}) = Cardinality(S) - 1 /\ Cardinality(S) > 0
           /\ \A x \in Cell \ S : Cardinality(S \cup {x}) = Cardinality(S) + 1
<1>1. IsFiniteSet(S)
  BY FS_Subset DEF GCAssumption
<1>2. Cardinality(S) \in Nat
  BY <1>1, FS_CardinalityType
<1>3. ASSUME NEW x \in S
      PROVE  Cardinality(S \ {x}) = Cardinality(S) - 1 /\ Cardinality(S) > 0
  <2>1. Cardinality(S \ {x}) = Cardinality(S) - 1 /\ IsFiniteSet(S \ {x})
    BY <1>1, FS_RemoveElement
  <2>2. Cardinality(S \ {x}) \in Nat
    BY <2>1, FS_CardinalityType
  <2> QED BY <2>1, <2>2, <1>2
<1>4. ASSUME NEW x \in Cell \ S PROVE Cardinality(S \cup {x}) = Cardinality(S) + 1
  BY <1>1, FS_AddElement
<1> QED BY <1>2, <1>3, <1>4

(* idio_gc_get hands out a cell of no list and keeps the free list counted. *)
LEMMA GetFacts ==
    ASSUME IInv, HeldOtherwise, GCAssumption, phase = "mutate",
           NEW o \in Obj, NEW k \in Kind, Get(o, k)
    PROVE  /\ o \in Cell /\ o \notin InUse /\ o \notin free' /\ o \notin Table
           /\ free' \subseteq Cell /\ free' \cap used = {} /\ free' \cap weak = {}
           /\ nfree' \in Nat /\ nfree' = Cardinality(free')
           /\ request' \in BOOLEAN /\ igets' \in Nat
<1>1. /\ o \in Cell /\ free \subseteq Cell /\ nfree \in Nat /\ igets \in Nat
      /\ request \in BOOLEAN /\ o \notin Table
      /\ nfree = Cardinality(free)
      /\ used \cap free = {} /\ weak \cap free = {}
  BY DEF IInv, TypeOK, Lists, Cell, GCAssumption
<1>2. CASE FromFree(o)
  <2>1. free' = free \ {o} /\ o \in free /\ nfree' = nfree - 1
    BY <1>2 DEF FromFree
  <2>2. nfree' \in Nat /\ nfree' = Cardinality(free')
    BY <1>1, <2>1, Counting
  <2>3. request' \in BOOLEAN /\ igets' \in Nat
    BY <1>1, <1>2 DEF FromFree, Get
  <2> QED BY <1>1, <2>1, <2>2, <2>3 DEF InUse
<1>3. CASE FromPool(o)
  <2>1. PICK P \in SUBSET (Obj \ InUse) :
             /\ o \in P /\ Cardinality(P) = AllocPool
             /\ free' = P \ {o} /\ nfree' = nfree + (AllocPool - 1)
    BY <1>3 DEF FromPool
  <2>2. P \in SUBSET Cell /\ free = {}
    BY <1>3 DEF FromPool, Cell
  <2>3. Cardinality(free') = AllocPool - 1
    BY <2>1, <2>2, Counting
  <2>4. nfree = 0
    BY <1>1, <2>2, FS_EmptySet
  <2>5. nfree' \in Nat /\ nfree' = Cardinality(free')
    BY <2>1, <2>3, <2>4 DEF GCAssumption
  <2>6. request' \in BOOLEAN /\ igets' \in Nat
    BY <1>1, <1>3 DEF FromPool, Get
  <2> QED BY <1>1, <2>1, <2>2, <2>5, <2>6 DEF InUse
<1> QED BY <1>2, <1>3 DEF Get

(* A new cell o, stored in p or kept by a table entry, preserves the       *)
(* invariant.                                                              *)
LEMMA NewCellStep ==
    ASSUME IInv, HeldOtherwise, GCAssumption, Running,
           NEW o \in Obj, NEW k \in {"simple", "substring", "compound", "pointer"},
           Get(o, k),
           refs' \in [Cell -> SUBSET Cell],
           refs'[o] \subseteq InUse,
           k \in {"simple", "pointer"} => refs'[o] = {},
           k = "substring" => \A s \in refs'[o] : kind[s] = "simple",
           \A x \in Cell \ {o} : \/ refs'[x] = refs[x]
                                 \/ /\ refs'[x] = refs[x] \cup {o}
                                    /\ kind[x] = "compound" /\ x \notin Table,
           UNCHANGED <<weak, roots, hashnil, pause, phase, scan, todo, strong>>
    PROVE  /\ Lists' /\ Cells' /\ Sweeping'
           /\ kind' \in [Cell -> Kind] /\ refs' \in [Cell -> SUBSET Cell]
           /\ colour' \in [Cell -> Colour] /\ runs' \in [Cell -> Nat]
           /\ used' \subseteq Cell
           /\ \A x \in InUse' : refs'[x] \subseteq InUse'
           /\ \A x \in InUse' : kind'[x] = "substring" => \A s \in refs'[x] : kind'[s] = "simple"
<1>1. /\ o \in Cell /\ o \notin InUse /\ o \notin free' /\ o \notin Table
      /\ free' \subseteq Cell /\ free' \cap used = {} /\ free' \cap weak = {}
      /\ nfree' \in Nat /\ nfree' = Cardinality(free')
  BY GetFacts DEF Running, Kind
<1>2. /\ kind' = [kind EXCEPT ![o] = k] /\ colour' = [colour EXCEPT ![o] = "WHITE"]
      /\ runs' = [runs EXCEPT ![o] = 0] /\ used' = used \cup {o}
  BY DEF Get
<1>3. phase = "mutate" /\ phase' = "mutate" /\ InUse' = InUse \cup {o}
  BY <1>1, <1>2, NamedInUse DEF Running, InUse
<1>4. /\ kind' \in [Cell -> Kind] /\ refs' \in [Cell -> SUBSET Cell]
      /\ colour' \in [Cell -> Colour] /\ runs' \in [Cell -> Nat]
      /\ used' \subseteq Cell
  BY <1>1, <1>2, <1>3, NamedInUse DEF IInv, TypeOK, Kind, Colour
<1>5. Lists'
  BY <1>1, <1>2, <1>3 DEF IInv, Lists, InUse
<1>6. Cells'
  <2>1. \A t \in Table : refs'[t] = {}
    BY <1>1, <1>3 DEF IInv, Cells, TypeOK, Cell
  <2>2. \A x \in Cell : kind'[x] \notin {"substring", "compound"} => refs'[x] = {}
    BY <1>2, <1>3 DEF IInv, Cells, TypeOK
  <2>3. \A x \in Cell : colour'[x] # "WHITE" => x \in InUse'
    BY <1>2, <1>3 DEF IInv, Cells, TypeOK, Marked
  <2>4. \A x \in InUse' : kind'[x] # "none"
    BY <1>1, <1>2, <1>3, NamedInUse DEF IInv, Cells, TypeOK
  <2>5. roots' \subseteq InUse'
    BY <1>3 DEF IInv, Cells
  <2> QED BY <2>1, <2>2, <2>3, <2>4, <2>5 DEF Cells, Marked
<1>7. \A x \in InUse' : refs'[x] \subseteq InUse'
  BY <1>1, <1>3, NamedInUse DEF IInv, Closed, Intact, TypeOK
<1>8. \A x \in InUse' : kind'[x] = "substring" => \A s \in refs'[x] : kind'[s] = "simple"
  BY <1>1, <1>2, <1>3, NamedInUse DEF IInv, Closed, Intact, TypeOK
<1>9. Sweeping'
  BY <1>3 DEF Sweeping
<1> QED BY <1>4, <1>5, <1>6, <1>7, <1>8, <1>9
(* Outside a collection only the lists, the cells and the finalizers can   *)
(* go wrong.                                                               *)
LEMMA AllocStep ==
    ASSUME IInv, HeldOtherwise, GCAssumption,
           NEW o \in Obj, NEW k \in {"simple", "compound"}, NEW p \in Named, Alloc(o, k, p)
    PROVE  IInv'
<1>1. Running /\ Get(o, k) /\ kind[p] = "compound" /\ p \in InUse /\ p \notin Table
  BY NamedInUse DEF Alloc
<1>2. /\ refs' = [refs EXCEPT ![o] = {}, ![p] = @ \cup {o}]
      /\ UNCHANGED <<weak, roots, tab, hashnil, pause, phase, scan, todo, strong>>
      /\ fin' = [fin EXCEPT ![o] = FALSE]
  BY DEF Alloc
<1>3. /\ free' \subseteq Cell /\ nfree' \in Nat /\ request' \in BOOLEAN /\ igets' \in Nat
      /\ o \in Cell /\ o \notin InUse
  BY <1>1, GetFacts DEF Running, Kind
<1>4. /\ refs' \in [Cell -> SUBSET Cell]
      /\ refs'[o] = {} /\ refs'[o] \subseteq InUse
      /\ \A x \in Cell \ {o} : \/ refs'[x] = refs[x]
                              \/ /\ refs'[x] = refs[x] \cup {o}
                                 /\ kind[x] = "compound" /\ x \notin Table
  BY <1>1, <1>2, <1>3, NamedInUse DEF IInv, TypeOK
<1>5. /\ Lists' /\ Cells' /\ Sweeping'
      /\ kind' \in [Cell -> Kind] /\ refs' \in [Cell -> SUBSET Cell]
      /\ colour' \in [Cell -> Colour] /\ runs' \in [Cell -> Nat]
      /\ used' \subseteq Cell
      /\ \A x \in InUse' : refs'[x] \subseteq InUse'
      /\ \A x \in InUse' : kind'[x] = "substring" => \A s \in refs'[x] : kind'[s] = "simple"
  <2>1. CASE k = "simple"
    <3>1. Get(o, "simple")
      BY <1>1, <2>1
    <3> QED BY <1>1, <1>2, <1>4, <3>1, NewCellStep
  <2>2. CASE k = "compound"
    <3>1. Get(o, "compound")
      BY <1>1, <2>2
    <3> QED BY <1>1, <1>2, <1>4, <3>1, NewCellStep
  <2> QED BY <2>1, <2>2
<1>6. TypeOK'
  BY <1>2, <1>5, <1>3 DEF IInv, TypeOK
<1>7. Closed'
  BY <1>1, <1>2, <1>5 DEF IInv, Closed, Intact, Running, InUse, Get
<1>8. TriColour'
  BY <1>1, <1>2 DEF TriColour, Marking, Running
<1>9. Finalizers'
  <2>1. \A x \in Cell : HasFinalizer(x)' <=> HasFinalizer(x)
    BY <1>2 DEF HasFinalizer
  <2>2. \A x \in Cell : /\ fin'[x] => fin[x] /\ x # o
                        /\ runs'[x] = IF x = o THEN 0 ELSE runs[x]
    BY <1>1, <1>2, <1>3 DEF IInv, TypeOK, Get
  <2> QED BY <1>1, <1>2, <2>1, <2>2 DEF IInv, Finalizers, Running
<1> QED BY <1>5, <1>6, <1>7, <1>8, <1>9 DEF IInv

(* idio_substring_offset_len: the new cell refers to its parent string.    *)
LEMMA AllocSubstringStep ==
    ASSUME IInv, HeldOtherwise, GCAssumption,
           NEW o \in Obj, NEW s \in Named, NEW p \in Named, AllocSubstring(o, s, p)
    PROVE  IInv'
<1>1. /\ Running /\ Get(o, "substring") /\ kind[p] = "compound" /\ p \in InUse /\ p \notin Table
      /\ s \in InUse /\ kind[s] = "simple"
  BY NamedInUse DEF AllocSubstring
<1>2. /\ refs' = [refs EXCEPT ![o] = {s}, ![p] = @ \cup {o}]
      /\ UNCHANGED <<weak, roots, tab, hashnil, pause, phase, scan, todo, strong>>
      /\ fin' = [fin EXCEPT ![o] = FALSE]
  BY DEF AllocSubstring
<1>3. /\ free' \subseteq Cell /\ nfree' \in Nat /\ request' \in BOOLEAN /\ igets' \in Nat
      /\ o \in Cell /\ o \notin InUse
  BY <1>1, GetFacts DEF Running, Kind
<1>4. /\ refs' \in [Cell -> SUBSET Cell]
      /\ refs'[o] = {s} /\ refs'[o] \subseteq InUse
      /\ \A x \in refs'[o] : kind[x] = "simple"
      /\ \A x \in Cell \ {o} : \/ refs'[x] = refs[x]
                              \/ /\ refs'[x] = refs[x] \cup {o}
                                 /\ kind[x] = "compound" /\ x \notin Table
  BY <1>1, <1>2, <1>3, NamedInUse DEF IInv, TypeOK
<1>5. /\ Lists' /\ Cells' /\ Sweeping'
      /\ kind' \in [Cell -> Kind] /\ refs' \in [Cell -> SUBSET Cell]
      /\ colour' \in [Cell -> Colour] /\ runs' \in [Cell -> Nat]
      /\ used' \subseteq Cell
      /\ \A x \in InUse' : refs'[x] \subseteq InUse'
      /\ \A x \in InUse' : kind'[x] = "substring" => \A y \in refs'[x] : kind'[y] = "simple"
  BY <1>1, <1>2, <1>4, NewCellStep
<1>6. TypeOK'
  BY <1>2, <1>5, <1>3 DEF IInv, TypeOK
<1>7. Closed'
  BY <1>1, <1>2, <1>5 DEF IInv, Closed, Intact, Running, InUse, Get
<1>8. TriColour'
  BY <1>1, <1>2 DEF TriColour, Marking, Running
<1>9. Finalizers'
  <2>1. \A x \in Cell : HasFinalizer(x)' <=> HasFinalizer(x)
    BY <1>2 DEF HasFinalizer
  <2>2. \A x \in Cell : /\ fin'[x] => fin[x] /\ x # o
                        /\ runs'[x] = IF x = o THEN 0 ELSE runs[x]
    BY <1>1, <1>2, <1>3 DEF IInv, TypeOK, Get
  <2> QED BY <1>1, <1>2, <2>1, <2>2 DEF IInv, Finalizers, Running
<1> QED BY <1>5, <1>6, <1>7, <1>8, <1>9 DEF IInv

(* idio_gc_register_finalizer: the entry and the flag appear together.     *)
LEMMA RegisterStep ==
    ASSUME IInv, HeldOtherwise, GCAssumption, NEW p \in Named, NEW o \in Obj, RegisterFinalizer(p, o)
    PROVE  IInv'
<1>1. /\ Running /\ Get(o, "pointer") /\ p \in InUse /\ p \notin Table /\ p \in Cell
      /\ p # o /\ runs[p] = 0
  BY NamedInUse DEF RegisterFinalizer
<1>2. /\ refs' = [refs EXCEPT ![o] = {}]
      /\ UNCHANGED <<weak, roots, hashnil, pause, phase, scan, todo, strong>>
      /\ fin' = [fin EXCEPT ![p] = TRUE, ![o] = FALSE]
      /\ tab' = [tab EXCEPT ![FinTab] = @ \cup {<<p, o>>}]
  BY <1>1 DEF RegisterFinalizer, IInv, TypeOK
<1>3. /\ free' \subseteq Cell /\ nfree' \in Nat /\ request' \in BOOLEAN /\ igets' \in Nat
      /\ o \in Cell /\ o \notin InUse
  BY <1>1, GetFacts DEF Running, Kind
<1>4. /\ refs' \in [Cell -> SUBSET Cell]
      /\ refs'[o] = {} /\ refs'[o] \subseteq InUse
      /\ \A x \in Cell \ {o} : refs'[x] = refs[x]
  BY <1>1, <1>2, <1>3, NamedInUse DEF IInv, TypeOK
<1>5. /\ Lists' /\ Cells' /\ Sweeping'
      /\ kind' \in [Cell -> Kind] /\ refs' \in [Cell -> SUBSET Cell]
      /\ colour' \in [Cell -> Colour] /\ runs' \in [Cell -> Nat]
      /\ used' \subseteq Cell
      /\ \A x \in InUse' : refs'[x] \subseteq InUse'
      /\ \A x \in InUse' : kind'[x] = "substring" => \A s \in refs'[x] : kind'[s] = "simple"
  BY <1>1, <1>2, <1>4, NewCellStep
<1>6. TypeOK'
  <2>1. <<p, o>> \in Key \X Cell
    BY <1>1, <1>3 DEF Key
  <2>2. tab' \in [Table -> SUBSET (Key \X Cell)]
    BY <1>2, <2>1 DEF IInv, TypeOK
  <2>3. fin' \in [Cell -> BOOLEAN]
    BY <1>2 DEF IInv, TypeOK
  <2> QED BY <1>2, <1>3, <1>5, <2>2, <2>3 DEF IInv, TypeOK
<1>7. Closed'
  <2>1. InUse' = InUse \cup {o}
    BY <1>1, <1>2 DEF InUse, Get
  <2>2. \A t \in weak' : \A e \in tab'[t] : e[1] \in InUse' \cup Const /\ e[2] \in InUse'
    BY <1>1, <1>2, <2>1 DEF IInv, Closed, Intact, Running, TypeOK
  <2> QED BY <1>5, <2>2 DEF Closed
<1>8. TriColour'
  BY <1>1, <1>2 DEF TriColour, Marking, Running
<1>9. Finalizers'
  <2>1. <<p, o>> \in tab'[FinTab] /\ tab[FinTab] \subseteq tab'[FinTab]
    BY <1>2 DEF IInv, TypeOK, GCAssumption
  <2>2. \A x \in Cell : HasFinalizer(x) => HasFinalizer(x)'
    BY <2>1 DEF HasFinalizer
  <2>3. HasFinalizer(p)'
    BY <2>1, <1>3 DEF HasFinalizer
  <2> QED BY <1>1, <1>2, <1>3, <2>2, <2>3 DEF IInv, TypeOK, Finalizers, Get, Running
<1> QED BY <1>5, <1>6, <1>7, <1>8, <1>9 DEF IInv

(* The program's other steps.                                              *)
LEMMA MutatorStep ==
    ASSUME IInv, HeldOtherwise, GCAssumption
    PROVE  /\ \A p \in Named : \A o \in Named : Link(p, o) => IInv'
           /\ \A p \in Named : \A o \in Named : Unlink(p, o) => IInv'
           /\ \A p \in Named : Protect(p) => IInv'
           /\ \A p \in Named : Expose(p) => IInv'
           /\ \A t \in Table : \A k \in Named \cup Const : \A v \in Named : WeakPut(t, k, v) => IInv'
           /\ \A p \in Named : DeregisterFinalizer(p) => IInv'
           /\ Pause => IInv'
           /\ Resume => IInv'
<1>1. ASSUME NEW p \in Named, NEW o \in Named, Link(p, o) PROVE IInv'
  <2>1. TypeOK'
    BY <1>1, NamedInUse DEF IInv, TypeOK, Link, Running, heap, weakState, control
  <2>2. Lists'
    BY <1>1, NamedInUse DEF IInv, TypeOK, Lists, Link, Running, heap, weakState, control
  <2>3. Cells'
    BY <1>1, NamedInUse DEF IInv, TypeOK, Cells, Marked, InUse, Link, Running, heap, weakState, control
  <2>4. Closed'
    BY <1>1, NamedInUse DEF IInv, TypeOK, Closed, Intact, InUse, Link, Running, heap, weakState, control
  <2>5. TriColour'
    BY <1>1, NamedInUse DEF IInv, TypeOK, TriColour, Marking, Marked, Black, Grey, Entries, Link, Running, heap, weakState, control
  <2>6. Sweeping'
    BY <1>1, NamedInUse DEF IInv, TypeOK, Sweeping, TriColour, Black, Grey, Colour, Link, Running, heap, weakState, control
  <2>7. Finalizers'
    BY <1>1, NamedInUse DEF IInv, TypeOK, Finalizers, HasFinalizer, Link, Running, heap, weakState, control
  <2> QED BY <2>1, <2>2, <2>3, <2>4, <2>5, <2>6, <2>7 DEF IInv
<1>2. ASSUME NEW p \in Named, NEW o \in Named, Unlink(p, o) PROVE IInv'
  <2>1. TypeOK'
    BY <1>2, NamedInUse DEF IInv, TypeOK, Unlink, Running, heap, weakState, control
  <2>2. Lists'
    BY <1>2, NamedInUse DEF IInv, TypeOK, Lists, Unlink, Running, heap, weakState, control
  <2>3. Cells'
    BY <1>2, NamedInUse DEF IInv, TypeOK, Cells, Marked, InUse, Unlink, Running, heap, weakState, control
  <2>4. Closed'
    BY <1>2, NamedInUse DEF IInv, TypeOK, Closed, Intact, InUse, Unlink, Running, heap, weakState, control
  <2>5. TriColour'
    BY <1>2, NamedInUse DEF IInv, TypeOK, TriColour, Marking, Marked, Black, Grey, Entries, Unlink, Running, heap, weakState, control
  <2>6. Sweeping'
    BY <1>2, NamedInUse DEF IInv, TypeOK, Sweeping, TriColour, Black, Grey, Colour, Unlink, Running, heap, weakState, control
  <2>7. Finalizers'
    BY <1>2, NamedInUse DEF IInv, TypeOK, Finalizers, HasFinalizer, Unlink, Running, heap, weakState, control
  <2> QED BY <2>1, <2>2, <2>3, <2>4, <2>5, <2>6, <2>7 DEF IInv
<1>3. ASSUME NEW p \in Named, Protect(p) PROVE IInv'
  <2>1. TypeOK'
    BY <1>3, NamedInUse DEF IInv, TypeOK, Protect, Running, heap, weakState, control
  <2>2. Lists'
    BY <1>3, NamedInUse DEF IInv, TypeOK, Lists, Protect, Running, heap, weakState, control
  <2>3. Cells'
    BY <1>3, NamedInUse DEF IInv, TypeOK, Cells, Marked, InUse, Protect, Running, heap, weakState, control
  <2>4. Closed'
    BY <1>3, NamedInUse DEF IInv, TypeOK, Closed, Intact, InUse, Protect, Running, heap, weakState, control
  <2>5. TriColour'
    BY <1>3, NamedInUse DEF IInv, TypeOK, TriColour, Marking, Marked, Black, Grey, Entries, Protect, Running, heap, weakState, control
  <2>6. Sweeping'
    BY <1>3, NamedInUse DEF IInv, TypeOK, Sweeping, TriColour, Black, Grey, Colour, Protect, Running, heap, weakState, control
  <2>7. Finalizers'
    BY <1>3, NamedInUse DEF IInv, TypeOK, Finalizers, HasFinalizer, Protect, Running, heap, weakState, control
  <2> QED BY <2>1, <2>2, <2>3, <2>4, <2>5, <2>6, <2>7 DEF IInv
<1>4. ASSUME NEW p \in Named, Expose(p) PROVE IInv'
  <2>1. TypeOK'
    BY <1>4, NamedInUse DEF IInv, TypeOK, Expose, Running, heap, weakState, control
  <2>2. Lists'
    BY <1>4, NamedInUse DEF IInv, TypeOK, Lists, Expose, Running, heap, weakState, control
  <2>3. Cells'
    BY <1>4, NamedInUse DEF IInv, TypeOK, Cells, Marked, InUse, Expose, Running, heap, weakState, control
  <2>4. Closed'
    BY <1>4, NamedInUse DEF IInv, TypeOK, Closed, Intact, InUse, Expose, Running, heap, weakState, control
  <2>5. TriColour'
    BY <1>4, NamedInUse DEF IInv, TypeOK, TriColour, Marking, Marked, Black, Grey, Entries, Expose, Running, heap, weakState, control
  <2>6. Sweeping'
    BY <1>4, NamedInUse DEF IInv, TypeOK, Sweeping, TriColour, Black, Grey, Colour, Expose, Running, heap, weakState, control
  <2>7. Finalizers'
    BY <1>4, NamedInUse DEF IInv, TypeOK, Finalizers, HasFinalizer, Expose, Running, heap, weakState, control
  <2> QED BY <2>1, <2>2, <2>3, <2>4, <2>5, <2>6, <2>7 DEF IInv
<1>5. ASSUME NEW t \in Table, NEW k \in Named \cup Const, NEW v \in Named, WeakPut(t, k, v) PROVE IInv'
  <2>1. TypeOK'
    <3>1. k \in Key /\ v \in Cell
      BY NamedInUse DEF Key
    <3> QED BY <1>5, <3>1 DEF IInv, TypeOK, WeakPut, Running, heap, weakState, control
  <2>2. Lists'
    BY <1>5, NamedInUse DEF IInv, TypeOK, Lists, WeakPut, Running, heap, weakState, control
  <2>3. Cells'
    BY <1>5, NamedInUse DEF IInv, TypeOK, Cells, Marked, InUse, WeakPut, Running, heap, weakState, control
  <2>4. Closed'
    BY <1>5, NamedInUse DEF IInv, TypeOK, Closed, Intact, InUse, WeakPut, Running, heap, weakState, control
  <2>5. TriColour'
    BY <1>5, NamedInUse DEF IInv, TypeOK, TriColour, Marking, Marked, Black, Grey, Entries, WeakPut, Running, heap, weakState, control
  <2>6. Sweeping'
    BY <1>5, NamedInUse DEF IInv, TypeOK, Sweeping, TriColour, Black, Grey, Colour, WeakPut, Running, heap, weakState, control
  <2>7. Finalizers'
    BY <1>5, NamedInUse DEF IInv, TypeOK, Finalizers, HasFinalizer, WeakPut, Running, heap, weakState, control
  <2> QED BY <2>1, <2>2, <2>3, <2>4, <2>5, <2>6, <2>7 DEF IInv
<1>6. ASSUME NEW p \in Named, DeregisterFinalizer(p) PROVE IInv'
  <2>1. TypeOK'
    BY <1>6, NamedInUse DEF IInv, TypeOK, DeregisterFinalizer, Running, heap, weakState, control
  <2>2. Lists'
    BY <1>6, NamedInUse DEF IInv, TypeOK, Lists, DeregisterFinalizer, Running, heap, weakState, control
  <2>3. Cells'
    BY <1>6, NamedInUse DEF IInv, TypeOK, Cells, Marked, InUse, DeregisterFinalizer, Running, heap, weakState, control
  <2>4. Closed'
    BY <1>6, NamedInUse DEF IInv, TypeOK, Closed, Intact, InUse, DeregisterFinalizer, Running, heap, weakState, control
  <2>5. TriColour'
    BY <1>6, NamedInUse DEF IInv, TypeOK, TriColour, Marking, Marked, Black, Grey, Entries, DeregisterFinalizer, Running, heap, weakState, control
  <2>6. Sweeping'
    BY <1>6, NamedInUse DEF IInv, TypeOK, Sweeping, TriColour, Black, Grey, Colour, DeregisterFinalizer, Running, heap, weakState, control
  <2>7. Finalizers'
    BY <1>6, NamedInUse DEF IInv, TypeOK, Finalizers, HasFinalizer, DeregisterFinalizer, Running, heap, weakState, control
  <2> QED BY <2>1, <2>2, <2>3, <2>4, <2>5, <2>6, <2>7 DEF IInv
<1>7. ASSUME Pause PROVE IInv'
  <2>1. TypeOK'
    BY <1>7, NamedInUse DEF IInv, TypeOK, Pause, Running, heap, weakState, control
  <2>2. Lists'
    BY <1>7, NamedInUse DEF IInv, TypeOK, Lists, Pause, Running, heap, weakState, control
  <2>3. Cells'
    BY <1>7, NamedInUse DEF IInv, TypeOK, Cells, Marked, InUse, Pause, Running, heap, weakState, control
  <2>4. Closed'
    BY <1>7, NamedInUse DEF IInv, TypeOK, Closed, Intact, InUse, Pause, Running, heap, weakState, control
  <2>5. TriColour'
    BY <1>7, NamedInUse DEF IInv, TypeOK, TriColour, Marking, Marked, Black, Grey, Entries, Pause, Running, heap, weakState, control
  <2>6. Sweeping'
    BY <1>7, NamedInUse DEF IInv, TypeOK, Sweeping, TriColour, Black, Grey, Colour, Pause, Running, heap, weakState, control
  <2>7. Finalizers'
    BY <1>7, NamedInUse DEF IInv, TypeOK, Finalizers, HasFinalizer, Pause, Running, heap, weakState, control
  <2> QED BY <2>1, <2>2, <2>3, <2>4, <2>5, <2>6, <2>7 DEF IInv
<1>8. ASSUME Resume PROVE IInv'
  <2>1. TypeOK'
    BY <1>8, NamedInUse DEF IInv, TypeOK, Resume, Running, heap, weakState, control
  <2>2. Lists'
    BY <1>8, NamedInUse DEF IInv, TypeOK, Lists, Resume, Running, heap, weakState, control
  <2>3. Cells'
    BY <1>8, NamedInUse DEF IInv, TypeOK, Cells, Marked, InUse, Resume, Running, heap, weakState, control
  <2>4. Closed'
    BY <1>8, NamedInUse DEF IInv, TypeOK, Closed, Intact, InUse, Resume, Running, heap, weakState, control
  <2>5. TriColour'
    BY <1>8, NamedInUse DEF IInv, TypeOK, TriColour, Marking, Marked, Black, Grey, Entries, Resume, Running, heap, weakState, control
  <2>6. Sweeping'
    BY <1>8, NamedInUse DEF IInv, TypeOK, Sweeping, TriColour, Black, Grey, Colour, Resume, Running, heap, weakState, control
  <2>7. Finalizers'
    BY <1>8, NamedInUse DEF IInv, TypeOK, Finalizers, HasFinalizer, Resume, Running, heap, weakState, control
  <2> QED BY <2>1, <2>2, <2>3, <2>4, <2>5, <2>6, <2>7 DEF IInv
<1> QED BY <1>1, <1>2, <1>3, <1>4, <1>5, <1>6, <1>7, <1>8

(* The collector's changes of phase.                                       *)
LEMMA PhaseStep ==
    ASSUME IInv, HeldOtherwise, GCAssumption
    PROVE  /\ StartWeak => IInv'
           /\ EndPass1 => IInv'
           /\ StartPass2 => IInv'
           /\ EndPass2 => IInv'
           /\ EndMark => IInv'
           /\ StartSweep => IInv'
           /\ EndSweep => IInv'
<1>1. ASSUME StartWeak PROVE IInv'
  <2>1. TypeOK'
    BY <1>1, EntriesTyped DEF IInv, TypeOK, Phase, StartWeak, Goto, heap, control, weakState
  <2>2. Lists'
    BY <1>1, NamedInUse DEF IInv, TypeOK, Lists, StartWeak, Goto, heap, control, weakState
  <2>3. Cells'
    BY <1>1, NamedInUse DEF IInv, TypeOK, Cells, Marked, InUse, StartWeak, Goto, heap, control, weakState
  <2>4. Closed'
    BY <1>1, NamedInUse DEF IInv, TypeOK, Closed, Intact, InUse, StartWeak, Goto, heap, control, weakState
  <2>5. TriColour'
    BY <1>1, NamedInUse DEF IInv, TypeOK, TriColour, Marking, Marked, Black, Grey, Entries, StartWeak, Goto, heap, control, weakState
  <2>6. Sweeping'
    BY <1>1, NamedInUse DEF IInv, TypeOK, Sweeping, TriColour, Black, Grey, Colour, StartWeak, Goto, heap, control, weakState
  <2>7. Finalizers'
    BY <1>1, NamedInUse DEF IInv, TypeOK, Finalizers, HasFinalizer, StartWeak, Goto, heap, control, weakState
  <2> QED BY <2>1, <2>2, <2>3, <2>4, <2>5, <2>6, <2>7 DEF IInv
<1>2. ASSUME EndPass1 PROVE IInv'
  <2>1. TypeOK'
    BY <1>2, EntriesTyped DEF IInv, TypeOK, Phase, EndPass1, Goto, heap, control, weakState
  <2>2. Lists'
    BY <1>2, NamedInUse DEF IInv, TypeOK, Lists, EndPass1, Goto, heap, control, weakState
  <2>3. Cells'
    BY <1>2, NamedInUse DEF IInv, TypeOK, Cells, Marked, InUse, EndPass1, Goto, heap, control, weakState
  <2>4. Closed'
    BY <1>2, NamedInUse DEF IInv, TypeOK, Closed, Intact, InUse, EndPass1, Goto, heap, control, weakState
  <2>5. TriColour'
    BY <1>2, NamedInUse DEF IInv, TypeOK, TriColour, Marking, Marked, Black, Grey, Entries, EndPass1, Goto, heap, control, weakState
  <2>6. Sweeping'
    BY <1>2, NamedInUse DEF IInv, TypeOK, Sweeping, TriColour, Black, Grey, Colour, EndPass1, Goto, heap, control, weakState
  <2>7. Finalizers'
    BY <1>2, NamedInUse DEF IInv, TypeOK, Finalizers, HasFinalizer, EndPass1, Goto, heap, control, weakState
  <2> QED BY <2>1, <2>2, <2>3, <2>4, <2>5, <2>6, <2>7 DEF IInv
<1>3. ASSUME StartPass2 PROVE IInv'
  <2>1. TypeOK'
    BY <1>3, EntriesTyped DEF IInv, TypeOK, Phase, StartPass2, Goto, heap, control, weakState
  <2>2. Lists'
    BY <1>3, NamedInUse DEF IInv, TypeOK, Lists, StartPass2, Goto, heap, control, weakState
  <2>3. Cells'
    BY <1>3, NamedInUse DEF IInv, TypeOK, Cells, Marked, InUse, StartPass2, Goto, heap, control, weakState
  <2>4. Closed'
    BY <1>3, NamedInUse DEF IInv, TypeOK, Closed, Intact, InUse, StartPass2, Goto, heap, control, weakState
  <2>5. TriColour'
    BY <1>3, NamedInUse DEF IInv, TypeOK, TriColour, Marking, Marked, Black, Grey, Entries, StartPass2, Goto, heap, control, weakState
  <2>6. Sweeping'
    BY <1>3, NamedInUse DEF IInv, TypeOK, Sweeping, TriColour, Black, Grey, Colour, StartPass2, Goto, heap, control, weakState
  <2>7. Finalizers'
    BY <1>3, NamedInUse DEF IInv, TypeOK, Finalizers, HasFinalizer, StartPass2, Goto, heap, control, weakState
  <2> QED BY <2>1, <2>2, <2>3, <2>4, <2>5, <2>6, <2>7 DEF IInv
<1>4. ASSUME EndPass2 PROVE IInv'
  <2>1. TypeOK'
    BY <1>4, EntriesTyped DEF IInv, TypeOK, Phase, EndPass2, Goto, heap, control, weakState
  <2>2. Lists'
    BY <1>4, NamedInUse DEF IInv, TypeOK, Lists, EndPass2, Goto, heap, control, weakState
  <2>3. Cells'
    BY <1>4, NamedInUse DEF IInv, TypeOK, Cells, Marked, InUse, EndPass2, Goto, heap, control, weakState
  <2>4. Closed'
    BY <1>4, NamedInUse DEF IInv, TypeOK, Closed, Intact, InUse, EndPass2, Goto, heap, control, weakState
  <2>5. TriColour'
    BY <1>4, NamedInUse DEF IInv, TypeOK, TriColour, Marking, Marked, Black, Grey, Entries, EndPass2, Goto, heap, control, weakState
  <2>6. Sweeping'
    BY <1>4, NamedInUse DEF IInv, TypeOK, Sweeping, TriColour, Black, Grey, Colour, EndPass2, Goto, heap, control, weakState
  <2>7. Finalizers'
    BY <1>4, NamedInUse DEF IInv, TypeOK, Finalizers, HasFinalizer, EndPass2, Goto, heap, control, weakState
  <2> QED BY <2>1, <2>2, <2>3, <2>4, <2>5, <2>6, <2>7 DEF IInv
<1>5. ASSUME EndMark PROVE IInv'
  <2>1. TypeOK'
    BY <1>5, EntriesTyped DEF IInv, TypeOK, Phase, EndMark, Goto, heap, control, weakState
  <2>2. Lists'
    BY <1>5, NamedInUse DEF IInv, TypeOK, Lists, EndMark, Goto, heap, control, weakState
  <2>3. Cells'
    BY <1>5, NamedInUse DEF IInv, TypeOK, Cells, Marked, InUse, EndMark, Goto, heap, control, weakState
  <2>4. Closed'
    BY <1>5, NamedInUse DEF IInv, TypeOK, Closed, Intact, InUse, EndMark, Goto, heap, control, weakState
  <2>5. TriColour'
    BY <1>5, NamedInUse DEF IInv, TypeOK, TriColour, Marking, Marked, Black, Grey, Entries, EndMark, Goto, heap, control, weakState
  <2>6. Sweeping'
    BY <1>5, NamedInUse DEF IInv, TypeOK, Sweeping, TriColour, Black, Grey, Colour, EndMark, Goto, heap, control, weakState
  <2>7. Finalizers'
    BY <1>5, NamedInUse DEF IInv, TypeOK, Finalizers, HasFinalizer, EndMark, Goto, heap, control, weakState
  <2> QED BY <2>1, <2>2, <2>3, <2>4, <2>5, <2>6, <2>7 DEF IInv
<1>6. ASSUME StartSweep PROVE IInv'
  <2>1. TypeOK'
    BY <1>6, EntriesTyped DEF IInv, TypeOK, Phase, StartSweep, Goto, heap, control, weakState
  <2>2. Lists'
    BY <1>6, NamedInUse DEF IInv, TypeOK, Lists, StartSweep, Goto, heap, control, weakState
  <2>3. Cells'
    BY <1>6, NamedInUse DEF IInv, TypeOK, Cells, Marked, InUse, StartSweep, Goto, heap, control, weakState
  <2>4. Closed'
    BY <1>6, NamedInUse DEF IInv, TypeOK, Closed, Intact, InUse, StartSweep, Goto, heap, control, weakState
  <2>5. TriColour'
    BY <1>6, NamedInUse DEF IInv, TypeOK, TriColour, Marking, Marked, Black, Grey, Entries, StartSweep, Goto, heap, control, weakState
  <2>6. Sweeping'
    <3>1. Black \subseteq InUse
      BY <1>6 DEF IInv, Cells, Black, Marked, StartSweep, Goto
    <3>2. /\ todo' = used /\ used' = used /\ refs' = refs /\ kind' = kind
          /\ colour' = colour /\ phase = "trim"
      BY <1>6 DEF StartSweep, Goto, heap
    <3> QED BY <3>1, <3>2 DEF IInv, Closed, Intact, Sweeping, Black
  <2>7. Finalizers'
    BY <1>6, NamedInUse DEF IInv, TypeOK, Finalizers, HasFinalizer, StartSweep, Goto, heap, control, weakState
  <2> QED BY <2>1, <2>2, <2>3, <2>4, <2>5, <2>6, <2>7 DEF IInv
<1>7. ASSUME EndSweep PROVE IInv'
  <2>1. TypeOK'
    BY <1>7, EntriesTyped DEF IInv, TypeOK, Phase, EndSweep, Goto, heap, control, weakState
  <2>2. Lists'
    BY <1>7, NamedInUse DEF IInv, TypeOK, Lists, EndSweep, Goto, heap, control, weakState
  <2>3. Cells'
    BY <1>7, NamedInUse DEF IInv, TypeOK, Cells, Marked, InUse, EndSweep, Goto, heap, control, weakState
  <2>4. Closed'
    <3>1. /\ UNCHANGED <<kind, refs, used, weak, tab, colour>>
          /\ phase = "sweep" /\ todo = {}
      BY <1>7 DEF EndSweep, Goto, heap, weakState
    <3>2. used \subseteq Black /\ \A o \in Cell : Marked(o) => o \in InUse
      BY <3>1 DEF IInv, Sweeping, Cells
    <3>3. \A o \in used : refs[o] \subseteq InUse
      BY <3>1, <3>2 DEF IInv, TypeOK, TriColour, Marking
    <3>4. \A o \in weak : refs[o] = {}
      BY DEF IInv, TypeOK, Cells
    <3>5. \A t \in weak : \A e \in tab[t] : e[1] \in InUse \cup Const /\ e[2] \in InUse
      <4>1. SUFFICES ASSUME NEW t \in weak, NEW e \in tab[t]
                     PROVE  e[1] \in InUse \cup Const /\ e[2] \in InUse
        OBVIOUS
      <4>2. e[1] \in Cell \cup Const /\ e[2] \in Cell
        BY DEF IInv, TypeOK, Key
      <4>3. <<t, e[1], e[2]>> \in Entries
        BY DEF Entries
      <4>4. CASE e[1] \in Cell
        <5>1. colour[e[1]] = "BLACK" /\ Marked(e[2])
          BY <3>1, <4>3, <4>4 DEF IInv, TriColour
        <5> QED BY <3>2, <4>2, <4>4, <5>1 DEF Marked
      <4>5. CASE e[1] \in Const
        <5>1. e[2] \in ConstValues
          BY <4>3, <4>5 DEF ConstValues
        <5> QED BY <4>5, <5>1, ConstValuesKept DEF IInv, Finalizers
      <4> QED BY <4>2, <4>4, <4>5
    <3>6. \A o \in used : kind[o] = "substring" => \A x \in refs[o] : kind[x] = "simple"
      BY <3>1, <3>2 DEF IInv, Sweeping
    <3> QED BY <3>1, <3>3, <3>4, <3>5, <3>6 DEF Closed, InUse
  <2>5. TriColour'
    BY <1>7, NamedInUse DEF IInv, TypeOK, TriColour, Marking, Marked, Black, Grey, Entries, EndSweep, Goto, heap, control, weakState
  <2>6. Sweeping'
    BY <1>7, NamedInUse DEF IInv, TypeOK, Sweeping, TriColour, Black, Grey, Colour, EndSweep, Goto, heap, control, weakState
  <2>7. Finalizers'
    BY <1>7, NamedInUse DEF IInv, TypeOK, Finalizers, HasFinalizer, EndSweep, Goto, heap, control, weakState
  <2> QED BY <2>1, <2>2, <2>3, <2>4, <2>5, <2>6, <2>7 DEF IInv
<1> QED BY <1>1, <1>2, <1>3, <1>4, <1>5, <1>6, <1>7

(* Trimming and sweeping, and the end.                                     *)
LEMMA SweepStep ==
    ASSUME IInv, HeldOtherwise, GCAssumption
    PROVE  /\ \A o \in Cell : Trim(o) => IInv'
           /\ \A o \in Cell : SweepKeep(o) => IInv'
           /\ \A o \in Cell : SweepFree(o) => IInv'
           /\ FinalGC => IInv'
           /\ ObjFree => IInv'
<1>1. ASSUME NEW o \in Cell, Trim(o) PROVE IInv'
  <2>1. TypeOK'
    BY <1>1, NamedInUse DEF IInv, TypeOK, Trim, heap, control, weakState
  <2>2. Lists'
    BY <1>1, Counting DEF IInv, TypeOK, Lists, Trim, weakState
  <2>3. Cells'
    BY <1>1, NamedInUse DEF IInv, TypeOK, Cells, Marked, InUse, Trim, heap, control, weakState
  <2>4. Closed'
    BY <1>1, NamedInUse DEF IInv, TypeOK, Closed, Intact, InUse, Trim, heap, control, weakState
  <2>5. TriColour'
    BY <1>1, NamedInUse DEF IInv, TypeOK, TriColour, Marking, Marked, Black, Grey, Entries, Trim, heap, control, weakState
  <2>6. Sweeping'
    BY <1>1, NamedInUse DEF IInv, TypeOK, Sweeping, TriColour, Black, Grey, Colour, Trim, heap, control, weakState
  <2>7. Finalizers'
    BY <1>1, NamedInUse DEF IInv, TypeOK, Finalizers, HasFinalizer, Trim, heap, control, weakState
  <2> QED BY <2>1, <2>2, <2>3, <2>4, <2>5, <2>6, <2>7 DEF IInv
<1>2. ASSUME NEW o \in Cell, SweepKeep(o) PROVE IInv'
  <2>1. TypeOK'
    BY <1>2, NamedInUse DEF IInv, TypeOK, SweepKeep, heap, control, weakState
  <2>2. Lists'
    BY <1>2, NamedInUse DEF IInv, TypeOK, Lists, SweepKeep, heap, control, weakState
  <2>3. Cells'
    BY <1>2, NamedInUse DEF IInv, TypeOK, Cells, Marked, InUse, SweepKeep, heap, control, weakState
  <2>4. Closed'
    BY <1>2, NamedInUse DEF IInv, TypeOK, Closed, Intact, InUse, SweepKeep, heap, control, weakState
  <2>5. TriColour'
    BY <1>2, NamedInUse DEF IInv, TypeOK, TriColour, Marking, Marked, Black, Grey, Entries, SweepKeep, heap, control, weakState
  <2>6. Sweeping'
    BY <1>2, NamedInUse DEF IInv, TypeOK, Sweeping, TriColour, Black, Grey, Colour, SweepKeep, heap, control, weakState
  <2>7. Finalizers'
    BY <1>2, NamedInUse DEF IInv, TypeOK, Finalizers, HasFinalizer, SweepKeep, heap, control, weakState
  <2> QED BY <2>1, <2>2, <2>3, <2>4, <2>5, <2>6, <2>7 DEF IInv
<1>3. ASSUME NEW o \in Cell, SweepFree(o) PROVE IInv'
  <2>1. /\ phase = "sweep" /\ o \in used /\ colour[o] = "WHITE"
        /\ UNCHANGED <<colour, roots, control, scan, weak, tab, hashnil, strong>>
        /\ todo' = todo \ {o} /\ used' = used \ {o} /\ free' = free \cup {o}
        /\ nfree' = nfree + 1 /\ kind' = [kind EXCEPT ![o] = "none"]
        /\ refs' = [refs EXCEPT ![o] = {}]
    BY <1>3 DEF SweepFree, IInv, Sweeping
  <2>2. ~hashnil => ~HasFinalizer(o)
    <3>1. SUFFICES ASSUME ~hashnil, HasFinalizer(o) PROVE FALSE
      OBVIOUS
    <3>2. PICK v \in Cell : <<o, v>> \in tab[FinTab]
      BY <3>1 DEF HasFinalizer
    <3>3. FinTab \in weak
      BY <3>1 DEF IInv, Finalizers, GCAssumption
    <3>4. <<FinTab, o, v>> \in Entries
      BY <3>2, <3>3 DEF Entries
    <3> QED BY <2>1, <3>4 DEF IInv, TriColour
  <2>3. ~hashnil => ~fin[o]
    BY <2>2 DEF IInv, Finalizers
  <2>4. /\ phase' = phase
        /\ \A x \in Cell : fin'[x] = fin[x] /\ runs'[x] = runs[x]
        /\ fin' \in [Cell -> BOOLEAN] /\ runs' \in [Cell -> Nat]
    <3>1. fin' = [fin EXCEPT ![o] = fin[o] /\ ~(~hashnil /\ HasFinalizer(o))]
      BY <1>3 DEF SweepFree, FinalizerRun
    <3>2. fin' \in [Cell -> BOOLEAN] /\ \A x \in Cell : fin'[x] = fin[x]
      BY <3>1, <2>2 DEF IInv, TypeOK
    <3>3. /\ runs' = [runs EXCEPT ![o] =
                         IF fin[o] /\ ~hashnil /\ HasFinalizer(o) THEN @ + 1 ELSE @]
          /\ phase' = IF fin[o] /\ ~hashnil /\ ~HasFinalizer(o) THEN "exited" ELSE phase
      BY <1>3 DEF SweepFree, FinalizerRun
    <3> QED BY <3>2, <3>3, <2>2, <2>3 DEF IInv, TypeOK
  <2>5. TypeOK'
    <3>1. kind' \in [Cell -> Kind] /\ refs' \in [Cell -> SUBSET Cell]
      BY <2>1 DEF IInv, TypeOK, Kind
    <3>2. free' \subseteq Cell /\ used' \subseteq Cell /\ todo' \subseteq Cell /\ nfree' \in Nat
      BY <2>1 DEF IInv, TypeOK
    <3> QED BY <2>1, <2>4, <3>1, <3>2 DEF IInv, TypeOK, control
  <2>6. Lists'
    <3>1. o \notin free
      BY <2>1 DEF IInv, Lists
    <3>2. nfree' = Cardinality(free')
      BY <2>1, <3>1, Counting DEF IInv, TypeOK, Lists
    <3> QED BY <2>1, <2>4, <3>2 DEF IInv, Lists
  <2>7. Cells'
    BY <2>1, <2>4 DEF IInv, TypeOK, Lists, Cells, TriColour, Marking, Marked, InUse
  <2>8. Closed'
    BY <2>1, <2>4 DEF Closed, Intact
  <2>9. TriColour'
    BY <2>1, <2>4 DEF IInv, TypeOK, TriColour, Marking, Marked, Black, Grey, Entries
  <2>10. Sweeping'
    BY <2>1, <2>4 DEF IInv, TypeOK, TriColour, Marking, Marked, Sweeping, Black
  <2>11. Finalizers'
    <3>1. \A x \in Cell : HasFinalizer(x)' <=> HasFinalizer(x)
      BY <2>1 DEF HasFinalizer
    <3> QED BY <2>1, <2>4, <3>1 DEF IInv, Finalizers
  <2> QED BY <2>5, <2>6, <2>7, <2>8, <2>9, <2>10, <2>11 DEF IInv
<1>4. ASSUME FinalGC PROVE IInv'
  <2>1. TypeOK'
    <3>1. runs' \in [Cell -> Nat] /\ used' \subseteq Cell
      BY <1>4 DEF IInv, TypeOK, FinalGC, Cell
    <3>2. colour' \in [Cell -> Colour] /\ phase' \in Phase /\ request' \in BOOLEAN
      BY <1>4 DEF IInv, TypeOK, FinalGC, Whiten, Colour, Phase
    <3> QED BY <1>4, <3>1, <3>2 DEF IInv, TypeOK, FinalGC
  <2>2. Lists'
    BY <1>4, NamedInUse DEF IInv, TypeOK, Lists, FinalGC, Whiten, Running
  <2>3. Cells'
    BY <1>4, NamedInUse DEF IInv, TypeOK, Cells, Marked, InUse, FinalGC, Whiten, Running
  <2>4. Closed'
    BY <1>4, NamedInUse DEF IInv, TypeOK, Closed, Intact, InUse, FinalGC, Whiten, Running
  <2>5. TriColour'
    <3>1. phase' = "grey" => \A o \in Cell : colour'[o] = "WHITE"
      BY <1>4 DEF IInv, TypeOK, Cells, Marked, InUse, FinalGC, Running, Whiten
    <3>2. phase' \in {"grey", "objfree"} /\ roots' = {}
      BY <1>4 DEF FinalGC
    <3> QED BY <3>1, <3>2 DEF TriColour, Marking, Marked, Black
  <2>6. Sweeping'
    BY <1>4, NamedInUse DEF IInv, TypeOK, Sweeping, TriColour, Black, Grey, Colour, FinalGC, Whiten, Running
  <2>7. Finalizers'
    <3>1. /\ ~hashnil /\ hashnil' /\ weak' = {} /\ roots' = {} /\ fin' = fin
          /\ phase' \in {"grey", "objfree"}
      BY <1>4 DEF FinalGC, Running
    <3>2. \A o \in Cell : runs'[o] = IF HasFinalizer(o) /\ fin[o] THEN runs[o] + 1 ELSE runs[o]
      BY <1>4 DEF FinalGC
    <3> QED BY <3>1, <3>2 DEF IInv, TypeOK, Finalizers
  <2> QED BY <2>1, <2>2, <2>3, <2>4, <2>5, <2>6, <2>7 DEF IInv
<1>5. ASSUME ObjFree PROVE IInv'
  <2>1. TypeOK'
    BY <1>5 DEF IInv, TypeOK, Phase, ObjFree, weakState
  <2>2. Lists'
    BY <1>5, NamedInUse DEF IInv, TypeOK, Lists, ObjFree, heap, control, weakState
  <2>3. Cells'
    BY <1>5, NamedInUse DEF IInv, TypeOK, Cells, Marked, InUse, ObjFree, heap, control, weakState
  <2>4. Closed'
    BY <1>5, NamedInUse DEF IInv, TypeOK, Closed, Intact, InUse, ObjFree, heap, control, weakState
  <2>5. TriColour'
    BY <1>5, NamedInUse DEF IInv, TypeOK, TriColour, Marking, Marked, Black, Grey, Entries, ObjFree, heap, control, weakState
  <2>6. Sweeping'
    BY <1>5, NamedInUse DEF IInv, TypeOK, Sweeping, TriColour, Black, Grey, Colour, ObjFree, heap, control, weakState
  <2>7. Finalizers'
    BY <1>5, NamedInUse DEF IInv, TypeOK, Finalizers, HasFinalizer, ObjFree, heap, control, weakState
  <2> QED BY <2>1, <2>2, <2>3, <2>4, <2>5, <2>6, <2>7 DEF IInv
<1> QED BY <1>1, <1>2, <1>3, <1>4, <1>5

(* Marking.  Only the colours change, so the work is in MarkStep.          *)
LEMMA StartCollectStep ==
    ASSUME IInv, Running, StartCollect
    PROVE  IInv'
<1> DEFINE c == Whiten(used)
<1>1. /\ phase = "mutate" /\ phase' = "grey" /\ colour' = GccMark(c, roots)
      /\ request' = FALSE /\ strong' \subseteq weak
      /\ UNCHANGED <<kind, refs, used, free, nfree, roots, igets, pause, scan, todo,
                     weak, tab, fin, hashnil, runs>>
  BY DEF StartCollect, Running, heap
<1>2. Intact
  BY <1>1 DEF Intact
<1>3. /\ c \in [Cell -> Colour] /\ roots \in SUBSET InUse
      /\ \A o \in Cell : c[o] # "WHITE" => o \in weak
  BY <1>1 DEF IInv, TypeOK, Cells, Marked, InUse, Whiten, Colour
<1>4. \A o \in weak : refs[o] = {}
  BY DEF IInv, TypeOK, Cells
<1>5. /\ colour' \in [Cell -> Colour]
      /\ \A o \in roots : colour'[o] # "WHITE"
      /\ \A o \in Cell : colour'[o] # "WHITE" => o \in InUse
      /\ \A o \in Cell : colour'[o] = "BLACK" => \A x \in refs[o] : colour'[x] # "WHITE"
  <2>1. \A o \in Cell : c[o] # "WHITE" => o \in InUse
    BY <1>3 DEF InUse
  <2>2. \A o \in Cell : c[o] = "BLACK" => \A x \in refs[o] : c[x] # "WHITE" \/ x \in roots
    BY <1>3, <1>4
  <2> HIDE DEF c
  <2> QED BY <1>1, <1>2, <1>3, <2>1, <2>2, MarkStep DEF IInv
<1>6. TypeOK'
  BY <1>1, <1>5 DEF IInv, TypeOK, Phase
<1>7. Lists' /\ Cells' /\ Closed' /\ Sweeping' /\ Finalizers'
  <2>1. Lists' /\ Cells'
    BY <1>1, <1>5 DEF IInv, Lists, Cells, Marked, InUse
  <2>2. Closed' /\ Sweeping'
    BY <1>1, <1>2 DEF IInv, Closed, Intact, Sweeping, InUse
  <2>3. Finalizers'
    BY <1>1 DEF IInv, Finalizers, HasFinalizer
  <2> QED BY <2>1, <2>2, <2>3
<1>8. TriColour'
  BY <1>1, <1>5 DEF TriColour, Marking, Marked, Black, Running
<1> QED BY <1>6, <1>7, <1>8 DEF IInv

(* The steps that call the marker in mid-collection.                       *)
LEMMA MarkCallStep ==
    ASSUME IInv, ~hashnil, NEW c \in [Cell -> Colour], NEW S \in SUBSET InUse,
           phase \in {"grey", "weak1", "flush1", "weak2", "flush2"},
           \A o \in Cell : colour[o] # "WHITE" <=> c[o] # "WHITE",
           \A o \in Cell : colour[o] = "BLACK" => c[o] = "BLACK",
           \A o \in Cell : c[o] = "BLACK" => \A x \in refs[o] : c[x] # "WHITE" \/ x \in S,
           colour' = GccMark(c, S), scan' \subseteq scan,
           phase = "weak2" => \A e \in scan \ scan' :
               e[2] \in Cell => colour[e[2]] = "BLACK" /\ e[3] \in S,
           UNCHANGED <<heap, roots, control, phase, todo, weakState>>
    PROVE  IInv'
<1>1. /\ colour' \in [Cell -> Colour]
      /\ \A o \in Cell : c[o] # "WHITE" => colour'[o] = c[o]
      /\ \A o \in S : colour'[o] # "WHITE"
      /\ \A o \in Cell : colour'[o] # "WHITE" => o \in InUse
      /\ \A o \in Cell : colour'[o] = "BLACK" => \A x \in refs[o] : colour'[x] # "WHITE"
  <2>1. Intact
    BY DEF Intact
  <2>2. \A o \in Cell : c[o] # "WHITE" => o \in InUse
    BY DEF IInv, Cells, Marked
  <2> QED BY <2>1, <2>2, MarkStep DEF IInv
<1>2. \A o \in Cell : /\ Marked(o) => colour'[o] # "WHITE"
                      /\ colour[o] = "BLACK" => colour'[o] = "BLACK"
  BY <1>1 DEF Marked
<1>3. TypeOK'
  BY <1>1 DEF IInv, TypeOK, heap, control, weakState
<1>4. Lists' /\ Cells'
  BY <1>1 DEF IInv, Lists, Cells, Marked, InUse, heap, weakState
<1>5. Closed' /\ Sweeping'
  BY DEF IInv, Closed, Intact, Sweeping, InUse, heap, weakState
<1>6. Finalizers'
  BY DEF IInv, Finalizers, HasFinalizer, weakState
<1>7. TriColour'
  <2>1. Entries' = Entries /\ roots' = roots /\ refs' = refs /\ phase' = phase
    BY DEF Entries, heap, weakState
  <2>2. \A e \in Entries : e[3] \in Cell
    BY EntriesTyped DEF IInv, Entry
  <2>3. Marking' => /\ \A o \in roots' : Marked(o)'
                    /\ \A o \in Black' : \A x \in refs'[o] : Marked(x)'
                    /\ ~hashnil'
    <3>1. \A o \in roots : o \in Cell /\ Marked(o)
      BY DEF IInv, TypeOK, TriColour, Marking
    <3> QED BY <1>1, <1>2, <2>1, <3>1 DEF Marked, Black, weakState
  <2>4. phase' \in {"weak1", "weak2"} => scan' \subseteq Entries'
    BY <2>1 DEF IInv, TriColour
  <2>5. phase' = "weak2" =>
            \A e \in Entries' \ scan' : e[2] \in Cell => colour'[e[2]] = "BLACK" /\ Marked(e[3])'
    BY <1>1, <1>2, <2>1, <2>2 DEF IInv, TriColour, Marked
  <2>6. phase' \in {"flush2", "trim", "sweep"} =>
            \A e \in Entries' : e[2] \in Cell => colour'[e[2]] = "BLACK" /\ Marked(e[3])'
    BY <1>1, <1>2, <2>1, <2>2 DEF IInv, TriColour, Marked
  <2>7. phase' \notin {"trim", "sweep"}
    BY <2>1
  <2> QED BY <2>3, <2>4, <2>5, <2>6, <2>7 DEF TriColour
<1> QED BY <1>3, <1>4, <1>5, <1>6, <1>7 DEF IInv

(* idio_gc_process_grey blackens one cell and marks its children.          *)
LEMMA ProcessGreyStep ==
    ASSUME IInv, NEW o \in Cell, ProcessGrey(o)
    PROVE  IInv'
<1> DEFINE c == [colour EXCEPT ![o] = "BLACK"]
           S == Children(o)
<1>1. /\ phase \in {"grey", "flush1", "flush2"} /\ colour[o] = "LGREY"
      /\ colour' = GccMark(c, S)
      /\ UNCHANGED <<heap, roots, control, phase, scan, todo, weakState>>
  BY DEF ProcessGrey, Grey
<1>7. ~hashnil
  BY <1>1 DEF IInv, TriColour, Marking, Marked
<1>2. c \in [Cell -> Colour]
  BY DEF IInv, TypeOK, Colour
<1>3. S \in SUBSET InUse
  <2>1. o \in InUse
    BY <1>1 DEF IInv, Cells, Marked
  <2>2. refs[o] \subseteq InUse
    BY <1>1, <2>1 DEF IInv, Closed, Intact
  <2>3. CASE o \in Table
    <3>1. o \in weak
      BY <1>7, <2>3 DEF IInv, Finalizers
    <3>2. \A e \in tab[o] : e[1] \in InUse \cup Const /\ e[2] \in InUse
      BY <1>1, <3>1 DEF IInv, Closed, Intact
    <3>3. InUse \subseteq Cell
      BY DEF IInv, TypeOK, InUse, Cell
    <3> QED BY <2>2, <2>3, <3>2, <3>3, GCAssumption DEF Children, GCAssumption
  <2>4. CASE o \notin Table
    BY <2>2, <2>4 DEF Children
  <2> QED BY <2>3, <2>4
<1>4. \A x \in Cell : colour[x] # "WHITE" <=> c[x] # "WHITE"
  BY <1>1 DEF IInv, TypeOK
<1>5. \A x \in Cell : colour[x] = "BLACK" => c[x] = "BLACK"
  BY DEF IInv, TypeOK
<1>6. \A x \in Cell : c[x] = "BLACK" => \A y \in refs[x] : c[y] # "WHITE" \/ y \in S
  BY <1>1, <1>4 DEF IInv, TypeOK, TriColour, Marking, Marked, Black, Children
<1> HIDE DEF c, S
<1> QED BY <1>1, <1>2, <1>3, <1>4, <1>5, <1>6, <1>7, MarkCallStep

(* idio_gc_mark_weak marks the value of a black key, in either pass, and   *)
(* passes over the entry of a constant.                                    *)
LEMMA WeakScanStep ==
    ASSUME IInv, NEW e \in scan, WeakPass1(e) \/ WeakPass2Keep(e) \/ WeakPass2Pass(e)
    PROVE  IInv'
<1>1. /\ phase \in {"weak1", "weak2"} /\ scan' = scan \ {e}
      /\ \/ colour[e[2]] = "BLACK" /\ colour' = GccMark(colour, {e[3]})
         \/ (phase = "weak1" \/ e[2] \in Const) /\ colour' = colour
      /\ UNCHANGED <<heap, roots, control, phase, todo, weakState>>
  BY DEF WeakPass1, WeakPass2Keep, WeakPass2Pass, LiveKey, heap
<1>2. e \in Entries /\ e[3] \in InUse /\ ~hashnil
  <2>1. e \in Entries
    BY <1>1 DEF IInv, TriColour
  <2>2. PICK t \in weak : \E p \in tab[t] : e = <<t, p[1], p[2]>>
    BY <2>1, EntriesDef DEF IInv
  <2>3. ~hashnil
    BY <2>2 DEF IInv, Finalizers
  <2> QED BY <1>1, <2>1, <2>2, <2>3 DEF IInv, Closed, Intact
<1>3. colour \in [Cell -> Colour] /\
      \A x \in Cell : colour[x] = "BLACK" => \A y \in refs[x] : colour[y] # "WHITE"
  BY <1>1 DEF IInv, TypeOK, TriColour, Marking, Marked, Black
<1>4. CASE colour[e[2]] = "BLACK" /\ colour' = GccMark(colour, {e[3]})
  <2>1. {e[3]} \in SUBSET InUse
    BY <1>2
  <2> QED BY <1>1, <1>2, <1>3, <1>4, <2>1, MarkCallStep
<1>5. CASE (phase = "weak1" \/ e[2] \in Const) /\ colour' = colour
  <2>1. TypeOK' /\ Lists' /\ Cells'
    BY <1>1, <1>5 DEF IInv, TypeOK, Lists, Cells, Marked, InUse, heap, control, weakState
  <2>2. Closed' /\ Sweeping' /\ Finalizers'
    BY <1>1, <1>5 DEF IInv, Closed, Intact, Sweeping, InUse, Finalizers, HasFinalizer, heap, weakState
  <2>3. TriColour'
    BY <1>1, <1>5, GCAssumption
       DEF IInv, TriColour, Marking, Marked, Black, Grey, Entries, heap, weakState, GCAssumption
  <2> QED BY <2>1, <2>2, <2>3 DEF IInv
<1> QED BY <1>1, <1>4, <1>5

(* Pass 2 drops an entry whose key is not black, after its finalizer.      *)
LEMMA WeakDropStep ==
    ASSUME IInv, NEW e \in scan, WeakPass2Drop(e)
    PROVE  IInv'
<1> DEFINE k == e[2]
<1>1. /\ phase = "weak2" /\ k \in Cell /\ colour[k] # "BLACK" /\ scan' = scan \ {e}
      /\ tab' = [tab EXCEPT ![e[1]] = @ \ {<<e[2], e[3]>>}]
      /\ UNCHANGED <<kind, refs, used, free, nfree, colour, roots, igets, request, pause,
                     todo, weak, hashnil, strong>>
      /\ fin' = [fin EXCEPT ![k] = fin[k] /\ ~(~hashnil /\ HasFinalizer(k))]
      /\ runs' = [runs EXCEPT ![k] =
                    IF fin[k] /\ ~hashnil /\ HasFinalizer(k) THEN @ + 1 ELSE @]
      /\ phase' = IF fin[k] /\ ~hashnil /\ ~HasFinalizer(k) THEN "exited" ELSE phase
  BY DEF WeakPass2Drop, DeadKey, FinalizerRun, heap, control
<1>2. e \in Entries /\ e \in Entry /\ e[1] \in weak /\ e[1] \in Table /\ k \in Cell
  BY <1>1, EntriesTyped DEF IInv, TriColour, TypeOK, Entry
<1>3. ~hashnil /\ weak = Table
  BY <1>2 DEF IInv, Finalizers
<1>4. phase' = "weak2" /\ (HasFinalizer(k) => ~fin'[k]) /\ (fin[k] => HasFinalizer(k))
  BY <1>1, <1>2, <1>3 DEF IInv, Finalizers, TypeOK
<1>5. \A t \in Table : tab'[t] \subseteq tab[t]
  BY <1>1 DEF IInv, TypeOK
<1>6. Entries' = Entries \ {e}
  <2>1. ASSUME NEW x \in Entry PROVE x \in Entries' <=> x \in Entries /\ x # e
    <3>1. x \in Entries <=> x[1] \in weak /\ <<x[2], x[3]>> \in tab[x[1]]
      BY EntriesTyped DEF IInv
    <3>2. x \in Entries' <=> \E t \in weak : \E p \in tab'[t] : x = <<t, p[1], p[2]>>
      BY <1>1 DEF Entries
    <3>3. \A t \in weak : \A p \in tab[t] : p = <<p[1], p[2]>>
      BY DEF IInv, TypeOK
    <3>4. x = <<x[1], x[2], x[3]>> /\ e = <<e[1], e[2], e[3]>>
      BY <1>2 DEF Entry
    <3>5. x \in Entries' <=> x[1] \in weak /\ <<x[2], x[3]>> \in tab'[x[1]]
      <4>1. ASSUME x \in Entries' PROVE x[1] \in weak /\ <<x[2], x[3]>> \in tab'[x[1]]
        <5>1. PICK t \in weak : \E p \in tab'[t] : x = <<t, p[1], p[2]>>
          BY <4>1, <3>2
        <5>2. PICK p \in tab'[t] : x = <<t, p[1], p[2]>>
          BY <5>1
        <5>3. p = <<p[1], p[2]>>
          BY <5>1, <3>3, <1>5, <1>3
        <5> QED BY <5>2, <5>3
      <4>2. ASSUME x[1] \in weak, <<x[2], x[3]>> \in tab'[x[1]] PROVE x \in Entries'
        BY <4>2, <3>2, <3>4
      <4> QED BY <4>1, <4>2
    <3>6. <<x[2], x[3]>> \in tab'[x[1]] <=>
              <<x[2], x[3]>> \in tab[x[1]] /\ ~(x[1] = e[1] /\ x[2] = e[2] /\ x[3] = e[3])
      BY <1>1, <1>2 DEF IInv, TypeOK, Entry
    <3> QED BY <3>1, <3>4, <3>5, <3>6
  <2>2. Entries \subseteq Entry
    BY EntriesTyped DEF IInv
  <2>3. Entries' \subseteq Entries
    <3>1. \A x : x \in Entries' => \E t \in weak : \E p \in tab'[t] : x = <<t, p[1], p[2]>>
      BY <1>1 DEF Entries
    <3>2. \A x : x \in Entries <=> \E t \in weak : \E p \in tab[t] : x = <<t, p[1], p[2]>>
      BY EntriesDef DEF IInv
    <3> QED BY <3>1, <3>2, <1>3, <1>5
  <2> QED BY <2>1, <2>2, <2>3
<1>7. TypeOK'
  <2>1. tab' \in [Table -> SUBSET (Key \X Cell)]
    BY <1>1 DEF IInv, TypeOK
  <2>2. fin' \in [Cell -> BOOLEAN]
    BY <1>1 DEF IInv, TypeOK
  <2>3. runs' \in [Cell -> Nat]
    BY <1>1, <1>2 DEF IInv, TypeOK
  <2> QED BY <1>1, <1>4, <2>1, <2>2, <2>3 DEF IInv, TypeOK, Phase
<1>8. Lists' /\ Cells' /\ Closed' /\ Sweeping'
  <2>1. Lists' /\ Cells' /\ Sweeping'
    BY <1>1, <1>4 DEF IInv, Lists, Cells, Marked, InUse, Sweeping
  <2>2. Closed'
    BY <1>1, <1>3, <1>4, <1>5 DEF IInv, Closed, Intact, InUse
  <2> QED BY <2>1, <2>2
<1>9. TriColour'
  BY <1>1, <1>4, <1>6 DEF IInv, TriColour, Marking, Marked, Black, Grey
<1>10. Finalizers'
  <2>1. \A x \in Cell \ {k} : HasFinalizer(x) => HasFinalizer(x)'
    <3>1. \A x \in Cell \ {k}, v \in Cell : <<x, v>> \in tab[FinTab] => <<x, v>> \in tab'[FinTab]
      BY <1>1 DEF IInv, TypeOK
    <3> QED BY <3>1 DEF HasFinalizer
  <2>2. \A x \in Cell \ {k} : fin'[x] = fin[x] /\ runs'[x] = runs[x]
    BY <1>1 DEF IInv, TypeOK
  <2>3. ~fin'[k] /\ runs'[k] <= 1
    BY <1>1, <1>2, <1>3, <1>4 DEF IInv, TypeOK, Finalizers
  <2> QED BY <1>1, <1>3, <1>4, <2>1, <2>2, <2>3 DEF IInv, Finalizers
<1> QED BY <1>7, <1>8, <1>9, <1>10 DEF IInv

-----------------------------------------------------------------------------
(* The invariant holds initially and every step keeps it, as long as the   *)
(* values of constant keys are held elsewhere.                             *)
THEOREM IInvInvariant == Spec /\ []HeldOtherwise => []IInv
<1>1. Init => IInv
  <2> SUFFICES ASSUME Init PROVE IInv
    OBVIOUS
  <2>2. TypeOK
    BY GCAssumption DEF Init, TypeOK, Kind, Colour, Phase, Cell
  <2>3. Lists
    BY GCAssumption, FS_EmptySet DEF Init, Lists
  <2>4. Cells
    BY GCAssumption DEF Init, Cells, Marked, InUse, Cell
  <2>5. Closed /\ TriColour /\ Sweeping
    BY GCAssumption DEF Init, Closed, TriColour, Sweeping, Marking, InUse, Cell
  <2>6. Finalizers
    BY DEF Init, Finalizers
  <2> QED BY <2>2, <2>3, <2>4, <2>5, <2>6 DEF IInv
<1>2. IInv /\ HeldOtherwise /\ [Next]_vars => IInv'
  <2> SUFFICES ASSUME IInv, HeldOtherwise, [Next]_vars PROVE IInv'
    OBVIOUS
  <2>1. CASE UNCHANGED vars
    <3>1. TypeOK' /\ Lists' /\ Cells'
      BY <2>1 DEF IInv, TypeOK, Lists, Cells, Marked, InUse, vars
    <3>2. Closed' /\ TriColour' /\ Sweeping'
      BY <2>1 DEF IInv, Closed, TriColour, Sweeping, Marked, Marking, Intact, InUse,
                  Entries, Black, Grey, vars
    <3>3. Finalizers'
      BY <2>1 DEF IInv, Finalizers, HasFinalizer, vars
    <3> QED BY <3>1, <3>2, <3>3 DEF IInv
  <2>2. CASE Mutator
    <3>1. ASSUME NEW p \in Named, NEW o \in Obj, NEW k \in NewKinds \ {"substring"},
                 Alloc(o, k, p)
          PROVE  IInv'
      BY <3>1, GCAssumption, AllocStep DEF GCAssumption
    <3>2. ASSUME NEW p \in Named, NEW o \in Obj, RegisterFinalizer(p, o) PROVE IInv'
      BY <3>2, GCAssumption, RegisterStep
    <3>3. ASSUME NEW p \in Named, NEW o \in Named, NEW n \in Obj, AllocSubstring(n, o, p)
          PROVE  IInv'
      BY <3>3, GCAssumption, AllocSubstringStep
    <3>4. CASE PossiblyCollect \/ CollectAll
      BY <3>4, StartCollectStep DEF PossiblyCollect, CollectAll
    <3>5. CASE FinalGC
      BY <3>5, GCAssumption, SweepStep
    <3> QED BY <2>2, <3>1, <3>2, <3>3, <3>4, <3>5, GCAssumption, MutatorStep DEF Mutator
  <2>3. CASE Collector
    <3>1. ASSUME NEW o \in Cell, ProcessGrey(o) PROVE IInv'
      BY <3>1, ProcessGreyStep
    <3>2. ASSUME NEW e \in scan, WeakPass1(e) \/ WeakPass2Keep(e) \/ WeakPass2Pass(e)
          PROVE  IInv'
      BY <3>2, WeakScanStep
    <3>3. ASSUME NEW e \in scan, WeakPass2Drop(e) PROVE IInv'
      BY <3>3, WeakDropStep
    <3> QED BY <2>3, <3>1, <3>2, <3>3, GCAssumption, PhaseStep, SweepStep DEF Collector
  <2>4. CASE Ended
    BY <2>1, <2>4 DEF Ended
  <2> QED BY <2>1, <2>2, <2>3, <2>4 DEF Next
<1> QED BY <1>1, <1>2, PTL DEF Spec

(* The variables keep their types.                                         *)
THEOREM TypeCorrect == Spec /\ []HeldOtherwise => []TypeOK
BY IInvInvariant, PTL DEF IInv

(* The main result: idio_gc_sweep never frees a cell that a root, a strong *)
(* reference or the value of a live weak key leads to, nor what a constant *)
(* key leads to as long as the value of every constant key is held         *)
(* elsewhere too.                                                          *)
THEOREM ReachableSafe == Spec /\ []HeldOtherwise => []ReachableInUse
<1>1. IInv /\ HeldOtherwise => ReachableInUse
  BY ReachableKept DEF ReachableInUse
<1> QED BY <1>1, IInvInvariant, PTL

(* No pointer dangles between collections, with the same proviso.          *)
THEOREM DanglingSafe == Spec /\ []HeldOtherwise => []NoDangling
<1>1. IInv => NoDangling
  <2> SUFFICES ASSUME IInv, phase = "mutate"
               PROVE  /\ \A o \in InUse : refs[o] \subseteq InUse
                      /\ \A e \in Entries : {e[2], e[3]} \subseteq InUse \cup Const
    BY DEF NoDangling
  <2>1. Intact
    BY DEF Intact
  <2>2. \A o \in InUse : refs[o] \subseteq InUse
    BY <2>1 DEF IInv, Closed
  <2>3. ASSUME NEW e \in Entries PROVE {e[2], e[3]} \subseteq InUse \cup Const
    <3>1. PICK t \in weak : \E p \in tab[t] : e = <<t, p[1], p[2]>>
      BY EntriesDef DEF IInv
    <3>2. PICK p \in tab[t] : e = <<t, p[1], p[2]>>
      BY <3>1
    <3>3. e[2] = p[1] /\ e[3] = p[2]
      BY <3>2
    <3> QED BY <2>1, <3>3 DEF IInv, Closed
  <2> QED BY <2>2, <2>3
<1> QED BY <1>1, IInvInvariant, PTL

(* A program that never puts a constant key in a weak table needs no       *)
(* proviso.                                                                *)
THEOREM CellKeysSafe ==
    ASSUME Const = {}
    PROVE  Spec => [](ReachableInUse /\ NoDangling)
<1>1. HeldOtherwise
  BY DEF HeldOtherwise, ConstValues
<1> QED BY <1>1, ReachableSafe, DanglingSafe, PTL

(* The free list is as long as gc->stats.nfree says, which                 *)
(* idio_gc_obj_free asserts, and the lists share no cell.                  *)
THEOREM FreeListSafe == Spec /\ []HeldOtherwise => []FreeListCounted
<1>1. IInv => FreeListCounted
  BY DEF IInv, Lists, FreeListCounted
<1> QED BY <1>1, IInvInvariant, PTL

(* idio_gc_finalizer_run never takes its exit (4): a cell whose flag is    *)
(* set has its entry in the finalizer table.                               *)
THEOREM FinalizersFound == Spec /\ []HeldOtherwise => []FinalizerFound
<1>1. IInv => FinalizerFound
  BY DEF IInv, Finalizers, FinalizerFound
<1> QED BY <1>1, IInvInvariant, PTL

(* No finalizer runs twice in the life of a cell, whichever of its three   *)
(* callers comes first.                                                    *)
THEOREM FinalizersOnce == Spec /\ []HeldOtherwise => []FinalizedOnce
<1>1. IInv => FinalizedOnce
  BY DEF IInv, Finalizers, FinalizedOnce
<1> QED BY <1>1, IInvInvariant, PTL

(* No registered finalizer is forgotten at shutdown.                       *)
THEOREM FinalizersRun == Spec /\ []HeldOtherwise => []FinalizersAllRun
<1>1. IInv => FinalizersAllRun
  BY DEF IInv, Finalizers, FinalizersAllRun
<1> QED BY <1>1, IInvInvariant, PTL

-----------------------------------------------------------------------------
(* The other direction: a collection keeps no garbage.  A set of cells     *)
(* would do for this collection when it has the roots, what the marked     *)
(* cells of the set point at, the entries of the tables marked as ordinary *)
(* ones and the values of the set's black keys.  Only marked cells count:  *)
(* the sweep cuts the references of the others.                            *)
Keeps(S) ==
    /\ roots \subseteq S
    /\ \A o \in S : Marked(o) => refs[o] \subseteq S
    /\ \A e \in Entries :
          /\ e[1] \in strong => {e[2], e[3]} \subseteq S \cup Const
          /\ e[2] \in S /\ colour[e[2]] = "BLACK" => e[3] \in S

(* A weak table is a root, and between collections it is never grey.       *)
TablesRooted ==
    /\ Table \subseteq roots
    /\ \A t \in Table : kind[t] = "compound"
    /\ phase = "mutate" => \A t \in Table : colour[t] # "LGREY"

(* The tables marked as ordinary cells mark their keys, so that pass 2     *)
(* drops none of their entries.                                            *)
StrongFirst ==
    /\ \A t \in Table : colour[t] = "LGREY" => t \in strong
    /\ phase = "grey" =>
          \A e \in Entries :
              e[1] \in strong /\ colour[e[1]] # "LGREY" => e[2] \in Const \/ Marked(e[2])
    /\ phase # "grey" =>
          \A e \in Entries : e[1] \in strong => e[2] \in Const \/ colour[e[2]] = "BLACK"

(* What is marked is in every set that would do.                           *)
Justified == \A S \in SUBSET Cell : Keeps(S) => \A o \in Cell : Marked(o) => o \in S

KInv == ~hashnil => TablesRooted /\ (Marking => StrongFirst /\ Justified)

(* A call of the marker on cells that every set that would do contains.    *)
LEMMA StaysJustified ==
    ASSUME IInv, Justified,
           NEW c \in [Cell -> Colour], NEW N \in SUBSET InUse,
           \A o \in Cell : Marked(o) <=> c[o] # "WHITE",
           \A o \in Cell : colour[o] = "BLACK" => c[o] = "BLACK",
           colour' = GccMark(c, N),
           UNCHANGED <<refs, roots, strong>>, Entries' = Entries,
           phase # "ended",
           \A X \in SUBSET Cell :
               Keeps(X) /\ (\A o \in Cell : Marked(o) => o \in X) => N \subseteq X
    PROVE  Justified'
<1>1. N \in SUBSET Cell /\ \A o \in N : kind[o] # "none"
  BY DEF IInv, TypeOK, Cells, InUse, Cell
<1>2. /\ \A o \in Cell : c[o] # "WHITE" => colour'[o] = c[o]
      /\ \A o \in N : colour'[o] # "WHITE"
      /\ \A o \in Cell : c[o] = "WHITE" /\ colour'[o] # "WHITE" =>
             o \in N \/ \E s \in N : o \in refs[s]
  BY <1>1, GccMarkFacts DEF IInv
<1>3. \A e \in Entries : e[2] \in Key /\ e[3] \in Cell
  BY EntriesTyped DEF IInv, Entry
<1>4. ASSUME NEW X \in SUBSET Cell, Keeps(X)', NEW o \in Cell, colour'[o] # "WHITE"
      PROVE  o \in X
  <2>1. \A x \in X : colour'[x] # "WHITE" => refs[x] \subseteq X
    BY <1>4 DEF Keeps, Marked
  <2>2. Keeps(X)
    <3>1. \A x \in X : Marked(x) => refs[x] \subseteq X
      BY <1>2, <2>1
    <3>2. \A e \in Entries : e[2] \in X /\ colour[e[2]] = "BLACK" => e[3] \in X
      <4>1. \A x \in X : colour[x] = "BLACK" => colour'[x] = "BLACK"
        BY <1>2
      <4> QED BY <4>1, <1>4 DEF Keeps
    <3> QED BY <1>4, <3>1, <3>2 DEF Keeps
  <2>3. \A x \in Cell : Marked(x) => x \in X
    BY <2>2 DEF Justified
  <2>4. N \subseteq X
    BY <2>2, <2>3
  <2> QED BY <1>2, <1>4, <2>1, <2>3, <2>4
<1> QED BY <1>4 DEF Justified, Marked

(* idio_gc_collect starts: only the roots, and what substrings among them  *)
(* refer to, are marked.                                                   *)
LEMMA StartKeeps ==
    ASSUME IInv, IInv', KInv, Running, StartCollect
    PROVE  KInv'
<1>1. /\ colour' = GccMark(Whiten(used), roots) /\ phase' = "grey"
      /\ strong' = {t \in weak : colour[t] = "WHITE"}
      /\ UNCHANGED <<kind, refs, used, free, nfree, roots, weak, tab, hashnil>>
  BY DEF StartCollect, heap
<1>2. phase = "mutate" /\ ~hashnil /\ weak = Table /\ used \cap Table = {}
  BY DEF Running, IInv, Finalizers, Lists
<1> DEFINE c == Whiten(used)
<1>3. c \in [Cell -> Colour]
  BY DEF Whiten, IInv, TypeOK, Colour
<1>4. /\ \A t \in Table : c[t] = colour[t] /\ colour[t] # "LGREY" /\ t \in roots
      /\ \A o \in Cell : c[o] # "WHITE" => o \in Table
  BY <1>2 DEF Whiten, IInv, TypeOK, Cells, Marked, InUse, KInv, TablesRooted, Cell
<1>5. roots \in SUBSET Cell /\ \A o \in roots : kind[o] # "none"
  BY <1>2 DEF IInv, TypeOK, Cells
<1> HIDE DEF c
<1>6. /\ \A o \in Cell : c[o] # "WHITE" => colour'[o] = c[o]
      /\ \A o \in roots : colour'[o] # "WHITE"
      /\ \A o \in Cell : c[o] = "WHITE" /\ colour'[o] # "WHITE" =>
             o \in roots \/ \E s \in roots : o \in refs[s]
      /\ \A o \in Cell : c[o] = "WHITE" /\ colour'[o] = "BLACK" => kind[o] # "compound"
  <2>1. colour' = GccMark(c, roots)
    BY <1>1 DEF c
  <2> QED BY <2>1, <1>3, <1>5, GccMarkFacts DEF IInv
<1>7. TablesRooted'
  BY <1>1, <1>2 DEF KInv, TablesRooted
<1>8. \A t \in Table : /\ t \in strong' <=> colour[t] = "WHITE"
                       /\ colour'[t] = "LGREY" <=> t \in strong'
  <2> SUFFICES ASSUME NEW t \in Table
               PROVE  /\ t \in strong' <=> colour[t] = "WHITE"
                      /\ colour'[t] = "LGREY" <=> t \in strong'
    OBVIOUS
  <2>1. t \in strong' <=> colour[t] = "WHITE"
    BY <1>1, <1>2
  <2>2. t \in Cell /\ kind[t] = "compound" /\ colour'[t] \in Colour
    BY <1>2 DEF Cell, KInv, TablesRooted, IInv, TypeOK
  <2>3. CASE colour[t] = "WHITE"
    BY <2>1, <2>2, <2>3, <1>4, <1>6 DEF Colour
  <2>4. CASE colour[t] # "WHITE"
    BY <2>1, <2>2, <2>4, <1>4, <1>6
  <2> QED BY <2>1, <2>3, <2>4
<1>9. StrongFirst'
  <2>1. \A e \in Entries' : e[1] \in Table
    BY EntriesTyped, <1>1, <1>2 DEF IInv, Entry, Entries
  <2> QED BY <1>1, <1>8, <2>1 DEF StrongFirst
<1>10. Justified'
  <2>1. ASSUME NEW X \in SUBSET Cell, Keeps(X)', NEW o \in Cell, colour'[o] # "WHITE"
        PROVE  o \in X
    <3>1. roots \subseteq X /\ \A x \in X : colour'[x] # "WHITE" => refs[x] \subseteq X
      BY <2>1, <1>1 DEF Keeps, Marked
    <3> QED BY <2>1, <3>1, <1>4, <1>6
  <2> QED BY <2>1 DEF Justified, Marked
<1> QED BY <1>7, <1>9, <1>10 DEF KInv

(* A cell taken off the grey list marks what every set that would do must  *)
(* have.                                                                   *)
LEMMA GreyKeeps ==
    ASSUME IInv, IInv', KInv, NEW o \in Cell, ProcessGrey(o)
    PROVE  KInv'
<1> DEFINE c == [colour EXCEPT ![o] = "BLACK"]
           N == Children(o)
<1>1. /\ phase \in {"grey", "flush1", "flush2"} /\ colour[o] = "LGREY"
      /\ colour' = GccMark(c, N)
      /\ UNCHANGED <<kind, refs, used, roots, phase, weak, tab, hashnil, strong>>
  BY DEF ProcessGrey, Grey, heap, weakState
<1>2. ~hashnil /\ weak = Table /\ Marking /\ Intact /\ o \in InUse
  BY <1>1 DEF IInv, TriColour, Finalizers, Marking, Marked, Intact, Cells
<1>3. TablesRooted /\ StrongFirst /\ Justified
  BY <1>2 DEF KInv
<1>4. Entries' = Entries
  BY <1>1 DEF Entries
<1>5. /\ c \in [Cell -> Colour]
      /\ \A x \in Cell : Marked(x) <=> c[x] # "WHITE"
      /\ \A x \in Cell : colour[x] = "BLACK" => c[x] = "BLACK"
      /\ \A x \in Cell \ {o} : c[x] = colour[x]
      /\ c[o] = "BLACK"
  BY <1>1 DEF IInv, TypeOK, Colour, Marked
<1>6. \A e \in Entry : e \in Entries <=> e[1] \in Table /\ <<e[2], e[3]>> \in tab[e[1]]
  BY <1>2, EntriesTyped DEF IInv
<1>7. \A p : p \in N => \/ p \in refs[o]
                        \/ /\ o \in Table /\ p \in Cell
                           /\ \E q \in tab[o] : p = q[1] \/ p = q[2]
  BY DEF Children
<1>8. /\ refs[o] \subseteq N
      /\ o \in Table => \A q \in tab[o] : q[1] \in N \cup Const /\ q[2] \in N
  <2>1. o \in Table => \A q \in tab[o] : q[1] \in Cell \cup Const /\ q[2] \in Cell
    BY DEF IInv, TypeOK, Key
  <2> QED BY <2>1 DEF Children
<1>9. N \in SUBSET InUse
  BY <1>1, <1>2, <1>7, GCAssumption DEF IInv, Closed, GCAssumption
<1> HIDE DEF c, N
<1>10. ASSUME NEW X \in SUBSET Cell, Keeps(X), \A x \in Cell : Marked(x) => x \in X,
              NEW p \in N
       PROVE  p \in X
  <2>1. o \in X /\ Marked(o)
    BY <1>1, <1>10 DEF Marked
  <2>2. CASE p \in refs[o]
    BY <2>1, <2>2, <1>10 DEF Keeps
  <2>3. ASSUME o \in Table, NEW q \in tab[o], p = q[1] \/ p = q[2] PROVE p \in X
    <3>1. q \in Key \X Cell /\ q = <<q[1], q[2]>> /\ <<o, q[1], q[2]>> \in Entry
      BY <2>3 DEF IInv, TypeOK, Entry
    <3>2. <<o, q[1], q[2]>> \in Entries
      BY <2>3, <3>1, <1>6
    <3>3. o \in strong
      BY <2>3, <1>1, <1>3 DEF StrongFirst
    <3>4. p \in Cell
      BY <1>7, <1>9 DEF IInv, TypeOK, InUse, Cell
    <3>5. <<o, q[1], q[2]>>[1] = o /\ <<o, q[1], q[2]>>[2] = q[1] /\ <<o, q[1], q[2]>>[3] = q[2]
      OBVIOUS
    <3>6. {q[1], q[2]} \subseteq X \cup Const
      BY <3>2, <3>3, <3>5, <1>10 DEF Keeps
    <3> QED BY <2>3, <3>4, <3>6, GCAssumption DEF GCAssumption
  <2> QED BY <2>2, <2>3, <1>7
<1>11. Justified'
  BY <1>1, <1>2, <1>3, <1>4, <1>5, <1>9, <1>10, StaysJustified DEF Marking
<1>12. /\ \A x \in Cell : c[x] # "WHITE" => colour'[x] = c[x]
       /\ \A x \in N : colour'[x] # "WHITE"
  <2>1. N \in SUBSET Cell /\ \A x \in N : kind[x] # "none"
    BY <1>9, <1>2 DEF IInv, TypeOK, Cells, InUse, Cell, Intact
  <2> QED BY <1>1, <1>5, <2>1, GccMarkFacts DEF IInv
<1>13. \A x \in Cell : /\ Marked(x) => colour'[x] # "WHITE"
                       /\ colour[x] = "BLACK" => colour'[x] = "BLACK"
                       /\ x # o /\ Marked(x) => colour'[x] = colour[x]
  BY <1>5, <1>12 DEF Marked
<1>14. TablesRooted'
  BY <1>1, <1>3 DEF TablesRooted
<1>15. StrongFirst'
  <2>1. \A t \in Table : t \in Cell /\ Marked(t)
    BY <1>2, <1>3 DEF TablesRooted, IInv, TriColour, Cell
  <2>2. \A t \in Table : colour'[t] = "LGREY" => t \in strong'
    BY <1>1, <1>3, <1>5, <1>12, <1>13, <2>1 DEF StrongFirst
  <2>3. ASSUME phase = "grey", NEW e \in Entries, e[1] \in strong, colour'[e[1]] # "LGREY"
        PROVE  e[2] \in Const \/ colour'[e[2]] # "WHITE"
    <3>1. e \in Entry /\ e[1] \in Table /\ e[2] \in Cell \cup Const /\ <<e[2], e[3]>> \in tab[e[1]]
      BY EntriesTyped, <1>6 DEF IInv, Entry, Key
    <3>2. CASE e[1] = o
      BY <3>1, <3>2, <1>8, <1>12
    <3>3. CASE e[1] # o
      BY <3>1, <3>3, <2>1, <2>3, <1>3, <1>13 DEF StrongFirst, Cell
    <3> QED BY <3>2, <3>3
  <2>4. \A e \in Entries : e[2] \in Cell \cup Const
    BY EntriesTyped DEF IInv, Entry, Key
  <2> QED BY <2>2, <2>3, <2>4, <1>1, <1>3, <1>4, <1>13 DEF StrongFirst, Marked
<1> QED BY <1>11, <1>14, <1>15 DEF KInv

(* idio_gc_mark_weak marks the value of a black key.                       *)
LEMMA ScanKeeps ==
    ASSUME IInv, IInv', KInv, NEW e \in scan,
           WeakPass1(e) \/ WeakPass2Keep(e) \/ WeakPass2Pass(e)
    PROVE  KInv'
<1>1. /\ phase \in {"weak1", "weak2"}
      /\ \/ LiveKey(e) /\ colour' = GccMark(colour, {e[3]})
         \/ colour' = colour
      /\ UNCHANGED <<kind, refs, used, roots, phase, weak, tab, hashnil, strong>>
  BY DEF WeakPass1, WeakPass2Keep, WeakPass2Pass, heap, weakState
<1>2. e \in Entries /\ e \in Entry /\ Entries' = Entries
  BY <1>1, EntriesTyped DEF IInv, TriColour, Entries
<1>3. e[3] \in InUse /\ e[3] \in Cell /\ ~hashnil
  <2>1. e[1] \in weak /\ <<e[2], e[3]>> \in tab[e[1]]
    BY <1>2, EntriesTyped DEF IInv
  <2> QED BY <2>1, <1>1, <1>2 DEF IInv, Finalizers, Closed, Intact, Entry
<1>4. TablesRooted /\ StrongFirst /\ Justified
  BY <1>1, <1>3 DEF KInv, Marking
<1>5. colour \in [Cell -> Colour]
  BY DEF IInv, TypeOK
<1>6. CASE LiveKey(e) /\ colour' = GccMark(colour, {e[3]})
  <2>1. ASSUME NEW X \in SUBSET Cell, Keeps(X), \A x \in Cell : Marked(x) => x \in X
        PROVE  {e[3]} \subseteq X
    BY <2>1, <1>2, <1>3, <1>6 DEF Keeps, Marked, LiveKey
  <2>2. Justified'
    <3>1. {e[3]} \in SUBSET InUse
      BY <1>3
    <3>2. \A o \in Cell : Marked(o) <=> colour[o] # "WHITE"
      BY DEF Marked
    <3> QED BY <1>1, <1>2, <1>4, <1>5, <1>6, <2>1, <3>1, <3>2, StaysJustified
  <2>3. \A x \in Cell : Marked(x) => colour'[x] = colour[x]
    BY <1>3, <1>5, <1>6, GccMarkFacts DEF IInv, Marked
  <2>4. \A t \in Table : t \in Cell /\ Marked(t)
    BY <1>1, <1>4 DEF TablesRooted, IInv, TriColour, Cell, Marking
  <2>5. \A x \in Entries : x[2] \in Cell \cup Const
    BY EntriesTyped DEF IInv, Entry, Key
  <2>6. TablesRooted' /\ StrongFirst'
    BY <1>1, <1>2, <1>4, <2>3, <2>4, <2>5 DEF TablesRooted, StrongFirst, Marked
  <2> QED BY <2>2, <2>6 DEF KInv
<1>7. CASE colour' = colour
  <2>1. TablesRooted' /\ StrongFirst'
    BY <1>1, <1>2, <1>4, <1>7 DEF TablesRooted, StrongFirst
  <2>2. Justified'
    BY <1>1, <1>2, <1>4, <1>7 DEF Justified, Keeps, Marked
  <2> QED BY <2>1, <2>2 DEF KInv
<1> QED BY <1>1, <1>6, <1>7

(* An entry that pass 2 drops is of no table that was marked as an         *)
(* ordinary cell, and its key is not black: no set needs it.               *)
LEMMA DropKeeps ==
    ASSUME IInv, IInv', KInv, NEW e \in scan, WeakPass2Drop(e)
    PROVE  KInv'
<1>1. /\ phase = "weak2" /\ e[2] \in Cell /\ colour[e[2]] # "BLACK"
      /\ tab' = [tab EXCEPT ![e[1]] = @ \ {<<e[2], e[3]>>}]
      /\ UNCHANGED <<kind, refs, used, colour, roots, weak, hashnil, strong>>
      /\ phase' \in {phase, "exited"}
  BY DEF WeakPass2Drop, DeadKey, FinalizerRun, heap
<1>2. phase' = "weak2"
  BY <1>1 DEF IInv, Finalizers
<1>3. e \in Entries /\ e \in Entry
  BY <1>1, EntriesTyped DEF IInv, TriColour
<1>4. e[1] \in weak /\ e[1] \in Table /\ ~hashnil /\ weak = Table
  BY <1>3, EntriesTyped DEF IInv, Finalizers, TypeOK
<1>5. TablesRooted /\ StrongFirst /\ Justified
  BY <1>1, <1>4 DEF KInv, Marking
<1>6. e[1] \notin strong
  BY <1>1, <1>3, <1>5, GCAssumption DEF StrongFirst, GCAssumption
<1>7. \A x \in Entries' : x \in Entries
  <2>1. \A t \in Table : tab'[t] \subseteq tab[t]
    BY <1>1 DEF IInv, TypeOK
  <2>2. \A x : x \in Entries' => \E t \in weak : \E p \in tab'[t] : x = <<t, p[1], p[2]>>
    BY <1>1 DEF Entries
  <2>3. \A x : x \in Entries <=> \E t \in weak : \E p \in tab[t] : x = <<t, p[1], p[2]>>
    BY EntriesDef DEF IInv
  <2> QED BY <2>1, <2>2, <2>3, <1>4
<1>8. \A x \in Entries : x \in Entries' \/ (x[1] = e[1] /\ x[2] = e[2])
  <2>1. SUFFICES ASSUME NEW x \in Entries, ~(x[1] = e[1] /\ x[2] = e[2])
                 PROVE  x \in Entries'
    OBVIOUS
  <2>2. PICK t \in weak : \E p \in tab[t] : x = <<t, p[1], p[2]>>
    BY EntriesDef DEF IInv
  <2>3. PICK p \in tab[t] : x = <<t, p[1], p[2]>>
    BY <2>2
  <2>4. x[1] = t /\ x[2] = p[1] /\ p = <<p[1], p[2]>>
    BY <2>3, <1>4 DEF IInv, TypeOK
  <2>5. p \in tab'[t]
    BY <1>1, <1>4, <2>1, <2>4 DEF IInv, TypeOK
  <2> QED BY <2>3, <2>5, <1>1 DEF Entries
<1>9. TablesRooted' /\ StrongFirst'
  BY <1>1, <1>2, <1>5, <1>7 DEF TablesRooted, StrongFirst
<1>10. Justified'
  <2>1. ASSUME NEW X \in SUBSET Cell, Keeps(X)' PROVE Keeps(X)
    BY <2>1, <1>1, <1>6, <1>8 DEF Keeps, Marked
  <2> QED BY <2>1, <1>1, <1>5 DEF Justified, Marked
<1> QED BY <1>9, <1>10 DEF KInv

(* The collector goes on to its next pass; the sweep changes white cells.  *)
LEMMA CollectorKeeps ==
    ASSUME IInv, IInv', KInv,
           \/ StartWeak \/ EndPass1 \/ StartPass2 \/ EndPass2 \/ EndMark
           \/ StartSweep \/ EndSweep \/ ObjFree
           \/ \E o \in Cell : Trim(o) \/ SweepKeep(o) \/ SweepFree(o)
    PROVE  KInv'
<1> DEFINE Frame ==
             /\ UNCHANGED <<colour, roots, weak, tab, hashnil, strong>>
             /\ phase # "mutate"
             /\ phase' = "mutate" => phase = "sweep"
             /\ phase' = "grey" => phase = "grey"
             /\ Marking' => Marking
             /\ phase = "grey" /\ phase' # "grey" => Grey = {}
             /\ \A o \in Cell : Marked(o) => refs'[o] = refs[o] /\ kind'[o] = kind[o]
<1>1. Frame
  <2>1. CASE \/ StartWeak \/ EndPass1 \/ StartPass2 \/ EndPass2 \/ EndMark
             \/ StartSweep \/ EndSweep \/ ObjFree
    BY <2>1 DEF StartWeak, EndPass1, StartPass2, EndPass2, EndMark, StartSweep, EndSweep,
                ObjFree, Goto, heap, weakState, Marking
  <2>2. ASSUME NEW o \in Cell, Trim(o) \/ SweepKeep(o) PROVE Frame
    BY <2>2 DEF Trim, SweepKeep, heap, control, weakState, Marking
  <2>3. ASSUME NEW o \in Cell, SweepFree(o) PROVE Frame
    BY <2>3 DEF SweepFree, FinalizerRun, control, Marking, Marked, IInv, TypeOK
  <2> HIDE DEF Frame
  <2> QED BY <2>1, <2>2, <2>3
<1> SUFFICES ASSUME ~hashnil PROVE TablesRooted' /\ (Marking' => StrongFirst' /\ Justified')
  BY <1>1 DEF KInv
<1>2. Marking /\ TablesRooted /\ StrongFirst /\ Justified
  <2>1. Marking
    BY <1>1 DEF IInv, TypeOK, Phase, Marking, Finalizers
  <2> QED BY <2>1 DEF KInv
<1>3. \A t \in Table : t \in Cell /\ Marked(t)
  BY <1>2 DEF TablesRooted, IInv, TriColour, Cell
<1>4. Entries' = Entries
  BY <1>1 DEF Entries
<1>5. TablesRooted'
  BY <1>1, <1>2, <1>3 DEF TablesRooted, IInv, TriColour, Grey
<1>6. StrongFirst'
  <2>1. CASE phase = "grey" /\ phase' # "grey"
    <3>1. \A o \in Cell : Marked(o) => colour[o] = "BLACK"
      BY <1>1, <2>1 DEF Grey, Marked, IInv, TypeOK, Colour
    <3>2. \A e \in Entries : e[1] \in Table /\ e[2] \in Cell \cup Const
      BY EntriesTyped DEF IInv, Entry, Key
    <3> QED BY <1>1, <1>2, <1>3, <1>4, <2>1, <3>1, <3>2 DEF StrongFirst, Marked
  <2>2. CASE phase = "grey" <=> phase' = "grey"
    BY <1>1, <1>2, <1>4, <2>2 DEF StrongFirst, Marked
  <2> QED BY <2>1, <2>2, <1>1
<1>7. Justified'
  <2>1. ASSUME NEW X \in SUBSET Cell, Keeps(X)' PROVE Keeps(X)
    BY <2>1, <1>1, <1>4 DEF Keeps, Marked
  <2> QED BY <2>1, <1>1, <1>2 DEF Justified, Marked
<1> QED BY <1>5, <1>6, <1>7

(* The program never exposes a weak table nor changes its type.            *)
LEMMA MutatorKeeps ==
    ASSUME IInv, HeldOtherwise, KInv, IInv', GCAssumption, Mutator,
           ~(PossiblyCollect \/ CollectAll \/ FinalGC)
    PROVE  KInv'
<1> DEFINE Frame ==
             /\ Running /\ phase' = phase /\ UNCHANGED hashnil
             /\ \A t \in Table : t \in Cell /\ kind'[t] = kind[t] /\ colour'[t] = colour[t]
                                 /\ (t \in roots => t \in roots')
<1>1. Frame
  <2>1. ASSUME NEW o \in Obj, NEW k \in {"simple", "compound", "substring", "pointer"}, Get(o, k)
        PROVE  \A t \in Table : t \in Cell /\ kind'[t] = kind[t] /\ colour'[t] = colour[t]
    BY <2>1 DEF Get, IInv, TypeOK, GCAssumption, Cell
  <2>2. ASSUME NEW p \in Named, NEW o \in Obj, NEW k \in NewKinds \ {"substring"},
               Alloc(o, k, p)
        PROVE  Frame
    BY <2>1, <2>2 DEF Alloc, GCAssumption, Cell
  <2>3. ASSUME NEW p \in Named, NEW o \in Obj, RegisterFinalizer(p, o) PROVE Frame
    BY <2>1, <2>3 DEF RegisterFinalizer, Cell
  <2>4. ASSUME NEW p \in Named, NEW o \in Named, NEW n \in Obj, AllocSubstring(n, o, p)
        PROVE  Frame
    BY <2>1, <2>4 DEF AllocSubstring, Cell
  <2>5. ASSUME NEW p \in Named, Protect(p) \/ Expose(p) PROVE Frame
    BY <2>5, NamedInUse DEF Protect, Expose, heap, weakState, control, Cell
  <2>6. ASSUME NEW p \in Named, NEW o \in Named,
               \/ Link(p, o) \/ Unlink(p, o) \/ DeregisterFinalizer(p)
               \/ \E t \in Table : WeakPut(t, p, o)
        PROVE  Frame
    BY <2>6 DEF Link, Unlink, DeregisterFinalizer, WeakPut, heap, weakState, control, Cell
  <2>9. ASSUME NEW p \in Named, NEW t \in Table, NEW k \in Const, WeakPut(t, k, p) PROVE Frame
    BY <2>9 DEF WeakPut, heap, weakState, control, Cell
  <2>7. ASSUME NEW p \in Named, DeregisterFinalizer(p) PROVE Frame
    BY <2>7 DEF DeregisterFinalizer, heap, weakState, control, Cell
  <2>8. CASE Pause \/ Resume
    BY <2>8 DEF Pause, Resume, heap, weakState, control, Cell
  <2> HIDE DEF Frame
  <2> QED BY <2>2, <2>3, <2>4, <2>5, <2>6, <2>7, <2>8, <2>9 DEF Mutator
<1>2. TablesRooted'
  BY <1>1 DEF KInv, TablesRooted, Running
<1> QED BY <1>1, <1>2 DEF KInv, Running, Marking

(* What is marked when the sweep starts is reachable.                      *)
THEOREM KeptSafe == Spec /\ []HeldOtherwise => []OnlyReachableKept
<1>1. Init => KInv
  BY GCAssumption DEF Init, KInv, TablesRooted, Marking, Cell
<1>2. KInv /\ IInv /\ HeldOtherwise /\ IInv' /\ [Next]_vars => KInv'
  <2> SUFFICES ASSUME KInv, IInv, HeldOtherwise, IInv', [Next]_vars PROVE KInv'
    OBVIOUS
  <2>1. CASE UNCHANGED vars
    <3>1. UNCHANGED <<TablesRooted, StrongFirst, Justified>>
      <4>1. Entries' = Entries
        BY <2>1 DEF Entries, vars
      <4>2. ASSUME NEW X \in SUBSET Cell PROVE Keeps(X)' <=> Keeps(X)
        BY <2>1, <4>1 DEF Keeps, Marked, vars
      <4> QED BY <2>1, <4>1, <4>2 DEF TablesRooted, StrongFirst, Justified, Marked, vars
    <3> QED BY <2>1, <3>1 DEF KInv, Marking, vars
  <2>2. CASE PossiblyCollect \/ CollectAll
    BY <2>2, StartKeeps DEF PossiblyCollect, CollectAll
  <2>3. CASE FinalGC
    BY <2>3 DEF FinalGC, KInv
  <2>4. CASE Mutator /\ ~(PossiblyCollect \/ CollectAll \/ FinalGC)
    BY <2>4, GCAssumption, MutatorKeeps
  <2>5. CASE Collector
    <3>1. ASSUME NEW o \in Cell, ProcessGrey(o) PROVE KInv'
      BY <3>1, GreyKeeps
    <3>2. ASSUME NEW e \in scan, WeakPass1(e) \/ WeakPass2Keep(e) \/ WeakPass2Pass(e)
          PROVE  KInv'
      BY <3>2, ScanKeeps
    <3>3. ASSUME NEW e \in scan, WeakPass2Drop(e) PROVE KInv'
      BY <3>3, DropKeeps
    <3> QED BY <2>5, <3>1, <3>2, <3>3, CollectorKeeps DEF Collector
  <2>6. CASE Ended
    BY <2>1, <2>6 DEF Ended
  <2> QED BY <2>1, <2>2, <2>3, <2>4, <2>5, <2>6 DEF Next
<1>3. IInv /\ KInv => OnlyReachableKept
  <2> SUFFICES ASSUME IInv, KInv, phase = "sweep", NEW S \in SUBSET Cell, Retained(S),
                      \A e \in Entries : e[1] \in strong => {e[2], e[3]} \subseteq S \cup Const
               PROVE  Black \cap used \subseteq S
    BY DEF OnlyReachableKept
  <2>1. CASE hashnil
    BY <2>1 DEF IInv, TriColour, Marking, Marked, Black
  <2>2. CASE ~hashnil
    <3>1. Keeps(S)
      BY DEF Keeps, Retained
    <3>2. Justified
      BY <2>2 DEF KInv, Marking
    <3> QED BY <3>1, <3>2 DEF Justified, Black, Marked
  <2> QED BY <2>1, <2>2
<1> QED BY <1>1, <1>2, <1>3, IInvInvariant, PTL DEF Spec
=============================================================================
