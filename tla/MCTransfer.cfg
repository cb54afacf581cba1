SPECIFICATION TrSpec
CONSTANTS
    Place <- MCPlace
    Dir <- MCDir
    File <- MCFile
    ParentOf <- MCParentOf
    Junk = {"d/.DS_Store"}
    Unreadable <- MCUnreadable
    Content = {"v1", "v2", "tiny"}
    SizeOf <- MCSizeOf
    PartSize <- MCPartSize
    Trees <- MCTrees
    Orders <- MCOrders
    MayFail <- MCMayFail
    MaxInvocation = 3
INVARIANTS
    TransferTypeOK
    CopiedWhole
    FailureStops
PROPERTY
    WholeStaysWhole
