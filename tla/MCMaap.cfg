SPECIFICATION Spec
SYMMETRY MC_Symmetry
CONSTANTS
    Ptr = {r1, r2, r3}
    Sender = {c1, c2}
    RangeLen = 3
    Lengths = {1, 2, 4}
    AttemptBases <- MC_Attempts
    Packets <- MC_Packets
    ProbeDelays = {1}
    MaxId = 2
    MaxNotifies = 1
    NULL = NULL
    AddressBase = 10
    MaxCount = 15
    Word = 64
    SrcMac = 5
    ConflictMac = 1
    Retransmits = 1
    AnnounceDelays = {2}
CHECK_DEADLOCK FALSE
INVARIANTS
    TypeOK
    QueueTreeAgree
    Disjoint
    OneLiveRangePerId
    TimerArmed
    FlagsCounted
    ClientIsRight
    NothingLeaks
    
PROPERTY
    DefendedIsStable
