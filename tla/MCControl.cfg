SPECIFICATION FairControlSpec
CONSTANTS
    Addrs <- TwoAddrs
    Tasks = {t1, t2, t3}
    Unreadable = Unreadable
    Files <- MCFiles
    CommandCap = 1
    FailureCap = 1
INVARIANTS
    DeadBindingsReported
    BindingsAsConfigured
PROPERTIES
    ReloadCompletesList
    DroppedBindingsClose
    ReloadEnds
CHECK_DEADLOCK FALSE
