SPECIFICATION Spec
CONSTANTS
    k1 = k1
    k2 = k2
    k3 = k3
    k4 = k4
    k5 = k5
    x = x
    y = y
    Key = {k1, k2, k3, k4, k5}
    Value = {x, y}
    HashOf <- Hashes
    Sizes <- PowersOfTwo
    InitSizes = {1, 128}
    MaxOther = 2
    UserHash = TRUE
INVARIANT EntriesLive
SYMMETRY Alike
