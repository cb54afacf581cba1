SPECIFICATION NsSpec
CONSTANTS
    r1 = r1
    r2 = r2
    r3 = r3
    l1 = l1
    lc = lc
    Entry <- MCEntry
    Local <- MCLocal
    Name <- MCName
    RawName <- MCRaw
    ClientName <- MCClientName
    AllName = "all"
    MayFail <- SomeFailure
    LocalClient = lc
    CmdName <- MCCmdName
    Playbooks <- PassPlaybooks
    Var <- MCVar
    Key <- MCKey
    HostKey <- MCHostKey
    BastionKey = "jump"
    TubeOf <- MCTubeOf
    NoTube = "none"
    OwnHost = "own"
    HomeOf <- MCHomeOf
    Registers <- MCRegisters
    TubeMayFail <- TubeFailure
INVARIANTS
    NamespacesTypeOK
    NoForeignVariable
    TubeHandedOn
    TubesEmptied
