CONSTANTS
    Names <- MCNames
    NameLen <- MCNameLen
    RecvSetDefault = TRUE
    RecvForPeer = TRUE
    Senders = {s1}
    UseArgFile = TRUE
    AttackerHasAddr = FALSE
    StaleFile <- MCStaleFile
    MaxFaults = 0
INIT Init
NEXT Next
INVARIANT ArgFileRoundTrip
