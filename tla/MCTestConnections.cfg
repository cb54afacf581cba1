SPECIFICATION TestSpec
CONSTANTS
    h1 = h1
    h1b = h1b
    h2 = h2
    loc = loc
    net1 = net1
    net2 = net2
    Entry <- MCEntry
    Local <- MCLocal
    Name <- MCName
    RawName <- MCRaw
    ClientName <- MCClientName
    AllName = "all"
    MayFail <- AnyFailure
    Net <- MCNet
    NetHosts <- MCNetHosts
    NetBastion <- MCNetBastion
    ErrNamed <- MCErrNamed
INVARIANT TestTypeOK
PROPERTIES
    TruthfulMarks
    BastionErrorStops
