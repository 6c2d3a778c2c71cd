CONSTANTS
    Names <- MCNames
    NameLen <- MCNameLen
    RecvSetDefault = TRUE
    RecvForPeer = TRUE
    Senders = {s1, s2}
    UseArgFile = TRUE
    AttackerHasAddr = TRUE
    StaleFile <- MCNoFile
    MaxFaults = 1
SPECIFICATION FairSpec
INVARIANTS
    TypeOK
    AttackerLearnsNothing
    OnlySenderBlessings

    
