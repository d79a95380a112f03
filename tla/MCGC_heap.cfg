\* Strong references: cells come and go, the free list is cut.
SPECIFICATION Spec
CONSTANTS
    Obj = {thr, a, b, c}
    Thr = thr
    Table = {f}
    FinTab = f
    Const = {}
    AllocPool = 2
    AllocMany = 1
    NewKinds = {"simple", "substring", "compound"}
    MaxRefs = 2
    MaxEntries = 0
    MaxPause = 1
    MaxRoots = 1
SYMMETRY Sym
INVARIANTS TypeOK ReachableInUse OnlyReachableKept FreeListCounted
