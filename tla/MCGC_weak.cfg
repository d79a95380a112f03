SPECIFICATION FairSpec
CONSTANTS
    Obj = {thr, a, b}
    Thr = thr
    Table = {f, p}
    FinTab = f
    Const = {k}
    AllocPool = 2
    AllocMany = 9
    NewKinds = {"compound"}
    MaxRefs = 1
    MaxEntries = 2
    MaxPause = 0
    MaxRoots = 0

INVARIANTS NoDangling FinalizerFound FinalizedOnce FinalizersAllRun
PROPERTY CollectionEnds

\* A value that only a constant key's entry has is freed: see NoDangling.
CONSTRAINT HeldOtherwise
