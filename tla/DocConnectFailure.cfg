SPECIFICATION Spec
CONSTANTS
    r1 = r1
    r2 = r2
    r3 = r3
    l1 = l1
    l2 = l2
    lc = lc
    Entry <- MCEntry
    Local <- MCLocal
    Name <- MCName
    RawName <- MCRaw
    ClientName <- MCClientName
    AllName = "all"
    MayFail <- ConnectFailure
    LocalClient = lc
    CmdName <- MCCmdName
    Playbooks <- RemotePlaybooks
INVARIANT ConnectFailureReported
