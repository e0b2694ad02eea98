SPECIFICATION DSpec
CONSTANTS
    Ids = {c1, c2, c3}
    None = None
    Nicks = {ann, bob, cat}
    Star = "*"
    Fold <- MCFold
    Users = {"usr"}
    Reals = {"real"}
    Reasons = {}
    Caps = {}
    Chans = {x, y}
    ChanKeys = {}
    Masks = {"*zz"}
    Match <- MCMatch
    Topics = {}
    Truncate <- MCTruncate
    Trips <- MCTrips
    Changes <- Banning
    Configs <- Hidden
    NoPassword = ""
    Requests <- ChannelRequests
    Panicking = {"Join", "User"}
SYMMETRY FullSymmetry
INVARIANTS
    MembersRegistered
    MembersSeeChannel
    ListAgrees
PROPERTIES
    RemovalSweepsChannels
    EmptiedOnlyByKick
    ImplementsRooms
    LeaversTold
