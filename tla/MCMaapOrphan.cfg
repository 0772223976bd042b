SPECIFICATION Spec
CONSTANTS
    Ptr = {r1, r2}
    Sender = {c1}
    RangeLen = 2
    Lengths = {1}
    AttemptBases = {0}
    Packets = {}
    ProbeDelays = {1}
    MaxId = 2
    MaxNotifies = 1
    NULL = NULL
    AddressBase = 10
    MaxCount = 15
    Word = 64
    SrcMac = 5
    ConflictMac = 1
    Retransmits = 1
    AnnounceDelays = {2}
CHECK_DEADLOCK FALSE
INVARIANT
    EveryNodeHasRange
