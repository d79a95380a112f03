SPECIFICATION Spec
CONSTANTS
    Obj = {thr, a, b, c}
    Thr = thr
    Table = {f, p}
    FinTab = f
    Const = {}
    AllocPool = 3
    AllocMany = 9
    NewKinds = {"compound"}
    MaxRefs = 1
    MaxEntries = 2
    MaxPause = 0
    MaxRoots = 0
SYMMETRY Sym
INVARIANT FinalizedIsGarbage
