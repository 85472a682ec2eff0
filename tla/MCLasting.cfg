SPECIFICATION FairLastingSpec
CONSTANTS
    Proc = {p1, p2}
    Identity <- MCIdentity
    Setting = {default, changed}
    Default = default
    MaxToken = 2
    MaxFault = 1
    None = None
    Failed = Failed
    Answers <- MCAnswers
    Pools = {TRUE, FALSE}
    ReadCap = 1
INVARIANTS
    StoreTypeOK
    SingleFlight
    OneEntryPerAccount
    TokenNotLost
PROPERTIES
    SettingsKept
    BookSpec
    WaitersReturn
    TurnSettles
CHECK_DEADLOCK FALSE
