CONSTANTS
    Names <- MCNames
    NameLen <- MCNameLen
    RecvSetDefault = TRUE
    RecvForPeer = TRUE
    Senders = {s1, s2}
    UseArgFile = FALSE
    AttackerHasAddr = FALSE
    StaleFile <- MCNoFile
    MaxFaults = 0
INIT Init
NEXT Next
INVARIANT ReportedIsInstalled
