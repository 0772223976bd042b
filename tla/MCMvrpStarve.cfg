SPECIFICATION FairSpec
CONSTANTS
    NULL = NULL
    Vid = {1, 2}
    p2pmac = FALSE
    JoinTime = 1
    LeaveTime = 2
    LeaveAllTimes = {3}
    PeriodicTime = 1
    GcTime = 1
    Punctual = TRUE
    Frames <- MC_Flapping
PROPERTY
    LeavingEnds
