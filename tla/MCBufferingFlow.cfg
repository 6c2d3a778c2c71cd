\* Writes of 1 to 3 bytes against an MTU of 3, one failing underlying write.
CONSTANTS
    MTU = 3
    Sizes = {1, 2, 3}
    MaxWrites = 4
    MaxParts = 2
    MaxCalls = 5
    MaxFailures = 1
SPECIFICATION Spec
CHECK_DEADLOCK FALSE
INVARIANT TypeOK
INVARIANT SentWithinMTU
INVARIANT InOrder
INVARIANT NoSilentLoss
INVARIANT NetBufAccounting
