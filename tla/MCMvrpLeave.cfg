SPECIFICATION Spec
CONSTANTS
    NULL = NULL
    Vid = {1}
    p2pmac = FALSE
    JoinTime = 1
    LeaveTime = 3
    LeaveAllTimes = {4, 5}
    PeriodicTime = 2
    GcTime = 4
    Punctual = TRUE
    Frames <- MC_LiveFrames
PROPERTY
    LeaveTimeIsKept
