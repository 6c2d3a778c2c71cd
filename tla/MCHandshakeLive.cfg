\* Honest network, goroutines scheduled fairly: both handshakes complete.
CONSTANTS
    VersionsOf <- MCVersionsOf
    MtuOf <- MCMtuOf
    TokensOf <- MCTokensOf
    LocalRID <- MCLocalRID
    DialedRID = "ridA"
    NullRID = "null"
    RIDs <- MCRIDs
    V14 = 14
    DialerIsServer = FALSE
    DialerTrusts <- MCTrusts
    AuthorizedPeers = {}
    AttackerVersions <- MCAttackerVersions
    AttackerTokens <- MCAttackerTokens
    MITM = FALSE
SPECIFICATION FairSpec



PROPERTY HandshakeCompletes
