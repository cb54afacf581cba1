SPECIFICATION PSSpec
CONSTANTS
    Var <- MCVar
    Lit <- MCLit
    OsEnv <- MCOsEnv
    Network <- MCNetwork
    NetHosts <- MCNetHosts
    LocalHost <- MCLocalHost
    UserOf <- MCUserOf
    Me = "root"
    Setups <- MCSetups
    ValueMayFail = TRUE
INVARIANTS
    PlaySetupTypeOK
    HostsAsFiltered
    NearestWins
    ReferencesResolve
