SPECIFICATION Spec
CONSTANTS
    NULL = NULL
    Vid = {1, 2}
    p2pmac = FALSE
    JoinTime = 1
    LeaveTime = 1
    LeaveAllTimes = {2}
    PeriodicTime = 1
    GcTime = 1
    Punctual = FALSE
    Frames <- MC_Frames
INVARIANTS
    TypeOK
    LeavingIsTimed
    DeclarationKept
    ClientsAreRight
    QuietIsHeard
    OnlyDeclaredIsSent
PROPERTY
    WithdrawalIsSent
