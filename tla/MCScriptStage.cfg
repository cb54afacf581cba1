SPECIFICATION StSpec
CONSTANTS
    r1 = r1
    r2 = r2
    r3 = r3
    l1 = l1
    l2 = l2
    lc = lc
    Entry <- MCEntry
    Local <- MCLocal
    Name <- MCName
    RawName <- MCRaw
    ClientName <- MCClientName
    AllName = "all"
    MayFail <- SomeFailure
    LocalClient = lc
    CmdName <- MCCmdName
    Playbooks <- PassPlaybooks
    HomeOf <- MCHomeOf
    SudoCmds = {"root"}
    SudoRight = {r1, r3}
    SudoAsksNone = {r2, l1}
    SizeOf <- MCSizeOf
    OldText <- MCOldText
    Leftovers <- MCLeftovers
    StageMayFail <- StageFailure
INVARIANTS
    ScriptStageTypeOK
    SuccessMeansRan
    OwnEnvironment
    NoOtherScript
    HomesCleaned
