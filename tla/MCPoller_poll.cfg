SPECIFICATION FairSpec
CONSTANTS
    handle = handle
    int1 = int1
    int2 = int2
    d1 = d1
    d2 = d2
    d3 = d3
    int3 = int3
    Fdh = {handle, int1, int2, int3}
    Fd = {d1, d2, d3}
    FdOf <- Descriptor
    Event = {"POLLIN", "POLLOUT"}
    Always = {"POLLHUP"}
    Timeouts <- Waits
    MaxGiven = 2

INVARIANTS TypeOK ReportsReady FitsAsGiven RefusedAfterFailure
PROPERTY PollEnds
