SPECIFICATION ServerSpec
CONSTANTS
    Ids = {s1}
    Conns = {k1, k2}
    None = None
    Nicks <- MCNicks
    Star = "*"
    Fold <- MCFold
    Users = {"usr"}
    Reals = {"real"}
    Reasons = {}
    Caps = {}
    Chans = {}
    ChanKeys = {}
    Masks = {}
    Match <- MCMatch
    Topics = {}
    Truncate <- MCTruncate
    Trips <- MCTrips
    Changes <- NoChanges
    Configs <- OpersOnly
    NoPassword = ""
    Requests <- KillRequests
    Panicking = {}
INVARIANT
    TaskUsesOwnClient
