SPECIFICATION Spec
CONSTANTS
    Ids = {c1, c2, c3}
    None = None
    Nicks <- CaseNicks
    Star = "*"
    Fold <- MCFold
    Users = {"usr"}
    Reals = {"real"}
    Reasons = {}
    Caps = {}
    Chans = {}
    ChanKeys = {}
    Masks = {}
    Match <- MCMatch
    Topics = {}
    Truncate <- MCTruncate
    Trips <- MCTrips
    Changes <- NoChanges
    Configs <- NewPassword
    NoPassword = ""
    Requests <- LoginRequests
    Panicking = {}
PROPERTY
    PasswordToRegister
