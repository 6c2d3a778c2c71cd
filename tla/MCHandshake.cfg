\* Man in the middle: authentication and Setup integrity from version 14.
CONSTANTS
    VersionsOf <- MCVersionsOf
    MtuOf <- MCMtuOf
    TokensOf <- MCTokensOf
    LocalRID <- MCLocalRID
    DialedRID = "ridA"
    NullRID = "null"
    RIDs <- MCRIDs
    V14 = 14
    DialerIsServer = FALSE
    DialerTrusts <- MCTrusts
    AuthorizedPeers = {}
    AttackerVersions <- MCAttackerVersions
    AttackerTokens <- MCAttackerTokens
    MITM = TRUE
SPECIFICATION Spec
INVARIANT TypeOK
INVARIANT PeerAuthentic
INVARIANT SetupAgreement
INVARIANT CompletedBothWays
