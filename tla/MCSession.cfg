SPECIFICATION Spec
CONSTANTS
    Ids = {c1, c2}
    None = None
    Nicks <- CaseNicks
    Star = "*"
    Fold <- MCFold
    Users = {"usr"}
    Reals = {"real"}
    Reasons = {"lunch"}
    Caps = {}
    Chans = {"x"}
    ChanKeys = {"split"}
    Masks = {"*zz"}
    Match <- MCMatch
    Topics = {}
    Truncate <- MCTruncate
    Trips <- MCTrips
    Changes <- Breaking
    Configs <- Passwords
    NoPassword = ""
    Requests <- SessionRequests
    Panicking <- SessionRequests
SYMMETRY Symmetry
INVARIANTS
    TypeOK
    NicksConsistent
    RegisteredComplete
    PasswordRequired
    WhoFinds
    WhoAgrees
