SPECIFICATION DSpec
CONSTANTS
    Ids = {c1, c2, c3}
    None = None
    Nicks = {ann, bob, cat}
    Star = "*"
    Fold <- MCFold
    Users = {"usr"}
    Reals = {"real"}
    Reasons = {}
    Caps = {}
    Chans = {x}
    ChanKeys = {}
    Masks = {}
    Match <- MCMatch
    Topics = {"topic"}
    Truncate <- MCTruncate
    Trips <- MCTrips
    Changes <- RankChanges
    Configs <- OpersOnly
    NoPassword = ""
    Requests <- RankRequests
    Panicking = {}
SYMMETRY FullSymmetry
INVARIANTS
    MembersSeeChannel
    AuthorsKnown
PROPERTIES
    OperatorsFromOperators
