SPECIFICATION Spec
CONSTANTS
    Asked = {"aliases", "files", "patterns"}
    Key <- MCKey
    Value <- MCValue
    Empty = ""
    NoValue = "valueless"
    Number <- MCNumber
    Flag <- MCFlag
    Word = {"all", "main"}
    True = "true"
    Wide = 256
    DefaultBranches <- MCDefaultBranches
    Matches <- MCMatches
    Negated = {"!main"}
    Ours <- MCOurs
    Other <- MCOther
    Base <- MCBase
    Action <- MCAction
    Patterns = {"m*", "!main"}
    Branch = {"main", "mine"}
    Starts <- MCStarts
    MaxCommands = 2
    MaxFaults = 1
INVARIANTS
    SettingsFollowTheDocs
    RegisteredMeansInEffect
    UnregisteredMeansGone
    ProtectDecides
PROPERTIES
    RegisterKeepsWhatThereIs
CHECK_DEADLOCK FALSE
