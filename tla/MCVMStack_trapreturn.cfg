SPECIFICATION Spec
CONSTANTS
    Returners = {"ret"}
    Unwinders = {"unw"}
    TrapForms <- Single
    Vars = {"v"}
    CallbackErrors = FALSE
    Bounds <- Traps

INVARIANT TrapReturnsFromOwnTrap
