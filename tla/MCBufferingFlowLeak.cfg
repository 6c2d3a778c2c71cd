\* The spec says net buffers are given back on every path; after WriteMsgAndClose one is kept.
CONSTANTS
    MTU = 3
    Sizes = {1, 2, 3}
    MaxWrites = 4
    MaxParts = 2
    MaxCalls = 5
    MaxFailures = 1
SPECIFICATION Spec
CHECK_DEADLOCK FALSE
INVARIANT NetBufReleasedOnClose
