SPECIFICATION InFairSpec
CONSTANTS
    r1 = r1
    r2 = r2
    r3 = r3
    l1 = l1
    l2 = l2
    lc = lc
    Entry <- MCEntry
    Local <- MCLocal
    Name <- MCName
    RawName <- MCRaw
    ClientName <- MCClientName
    AllName = "all"
    MayFail <- AnyFailure
    LocalClient = lc
    CmdName <- MCInputCmdName
    Playbooks <- InputPlaybooks
    Stdin = {"bash", "feed"}
    Reads = {"bash"}
    Quitters = {l2}
    Chunks = 3
    Room = 1
INVARIANTS
    InputTypeOK
    InputInOrder
    InputWhole
    InputFailsNothing
PROPERTY Termination
