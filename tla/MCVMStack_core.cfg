SPECIFICATION FairSpec
CONSTANTS
    Returners = {"ret"}
    Unwinders = {"unw"}
    TrapForms <- Single
    Vars = {"v"}
    CallbackErrors = FALSE
    Bounds <- Core

INVARIANTS TypeOK WellNested JumpsLive ChainsDescend FrameIsOwn HandlerTransparent InCareOfNext TrapReturnHasPrompt PauseBalanced
PROPERTY TopLevelEnds
