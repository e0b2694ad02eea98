SPECIFICATION ControlSpec
CONSTANTS
    Addrs <- TwoAddrs
    Tasks = {t1, t2, t3}
    Unreadable = Unreadable
    Files <- MCFiles
    CommandCap = 1
    FailureCap = 1
PROPERTY
    WorkingBindingsKept
CHECK_DEADLOCK FALSE
