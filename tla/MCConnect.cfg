SPECIFICATION ConnSpec
CONSTANTS
    h1 = h1
    h1b = h1b
    h2 = h2
    loc = loc
    Entry <- MCEntry
    Local <- MCLocal
    Name <- MCName
    RawName <- TripleRaw
    ClientName <- TripleClient
    AllName = "all"
    MayFail <- AnyFailure
INVARIANTS
    ConnTypeOK
    ClientsConnected
    LostOnlyByName
    FailureTold
PROPERTY ConnectSettles
