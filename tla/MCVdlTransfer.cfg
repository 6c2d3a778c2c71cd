CONSTANTS
    Strs = {"a", "b"}
    Keys = {"R", "W"}
    MaxList = 1
    WriterTypes <- MCWriterTypes
    Names = {"a"}
    MaxServers = 1
    WriterUnions <- MCWriterUnions
    WriterEntries <- MCWriterEntries
    Fields <- MCFields
    InitPermissions <- MCInitPermissions
    InitReplies <- MCInitReplies
SPECIFICATION Spec
INVARIANTS
    RoundTrip
    CutReadNoPartial
    ReplyRoundTrip
    CutReplyNoPartial
