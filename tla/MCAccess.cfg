SPECIFICATION DSpec
CONSTANTS
    Ids = {c1, c2}
    None = None
    Nicks = {"ann", "bob"}
    Star = "*"
    Fold <- MCFold
    Users = {"usr"}
    Reals = {"real"}
    Reasons = {}
    Caps = {}
    Chans = {"x"}
    ChanKeys = {"key", "keylong", "split"}
    Masks = {"*nn", "bob!~usr"}
    Match <- MCMatch
    Topics = {}
    Truncate <- MCTruncate
    Trips <- MCTrips
    Changes <- AccessChanges
    Configs <- OpersOnly
    NoPassword = ""
    Requests <- AccessRequests
    Panicking = {"Join", "ModeChannelSet"}
SYMMETRY Symmetry
INVARIANTS
    MembersSeeChannel
PROPERTIES
    EntryControlled
