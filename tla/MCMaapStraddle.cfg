SPECIFICATION Spec
CONSTANTS
    Ptr = {r1}
    Sender = {c1}
    RangeLen = 2
    Lengths = {1}
    AttemptBases = {0}
    Packets <- MC_StraddlingPackets
    ProbeDelays = {1}
    MaxId = 1
    MaxNotifies = 1
    NULL = NULL
    AddressBase = 10
    MaxCount = 15
    Word = 64
    SrcMac = 5
    ConflictMac = 1
    Retransmits = 1
    AnnounceDelays = {2}
CHECK_DEADLOCK FALSE
PROPERTY
    AllOverlapsFlagged
