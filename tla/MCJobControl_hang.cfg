SPECIFICATION ShellSpec
CONSTANTS
    fgjob = fgjob
    bgjob = bgjob
    p1 = p1
    p2 = p2
    p3 = p3
    Job = {fgjob, bgjob}
    Proc = {p1, p2, p3}
    NoJob = NoJob
    NoProc = NoProc
    Setups <- Undisturbed

PROPERTY WaitsForItsJob
