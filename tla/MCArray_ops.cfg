SPECIFICATION Spec
CONSTANTS
    Value = {x, y}
    Index <- Indexes
    Size <- Sizes
    GrowBy = 2
    MaxLen = 5
    MaxStack = 3
    MaxSaved = 2

INVARIANTS TypeOK SpareIsDefault CopiesFit
PROPERTY IsVector
