\* Man in the middle: a downgrade below version 14 goes unnoticed.
CONSTANTS
    VersionsOf <- MCVersionsOf
    MtuOf <- MCMtuOf
    TokensOf <- MCTokensOf
    LocalRID <- MCLocalRID
    DialedRID = "ridA"
    NullRID = "null"
    RIDs <- MCRIDs
    V14 = 14
    DialerIsServer = FALSE
    DialerTrusts <- MCTrusts
    AuthorizedPeers = {}
    AttackerVersions <- MCAttackerVersions
    AttackerTokens <- MCAttackerTokens
    MITM = TRUE
SPECIFICATION Spec



INVARIANT NoDowngrade
