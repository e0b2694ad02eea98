SPECIFICATION TextSpec
CONSTANTS
    ParamsLength = 3
    NoMessage = NoMessage
    Heads <- MCHeads
    LineChars = {"x", " ", ":"}
    TagChars <- MCTagChars
    ModeChars = {"+", "-", "i", "k", "l", "b", "o", "X"}
    ModeParams <- MCModeParams
    MaxLine = 6
    MaxTag = 3
    MaxModes = 4
    Wide = {"e"}
    MaskChars = {"a", "*", "?", ","}
    MaxMask = 4
    Names <- MCNames
    MaxRaw = 5
CHECK_DEADLOCK FALSE
INVARIANTS
    RelayKeepsMessage
    ParamsByDefinition
    TagValueKept
    QueryByDefinition
    NoticeReadsAsApplied
    ListIsKept
    MatchesByDefinition
