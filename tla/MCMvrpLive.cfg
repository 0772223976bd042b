SPECIFICATION FairSpec
CONSTANTS
    NULL = NULL
    Vid = {1}
    p2pmac = TRUE
    JoinTime = 2
    LeaveTime = 2
    LeaveAllTimes = {6, 7}
    PeriodicTime = 3
    GcTime = 3
    Punctual = TRUE
    Frames <- MC_LiveFrames
PROPERTIES
    DeclarationIsSent
    WithdrawalEnds
