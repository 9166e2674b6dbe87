SPECIFICATION FairSpec
CONSTANTS
    Base = 2
    MAGIC_0 = 1
    MAGIC_1 = 0
    ChecksumByte = 0
    Payloads <- LookAlikes
    Sides = {"host", "device"}
    MaxSent = 3
    MaxFaults = 1
INVARIANTS
    DeliveredInOrder
PROPERTIES
    AlignmentIsKept
    ReceiverReturns
    CleanMessagesArrive
CHECK_DEADLOCK FALSE
