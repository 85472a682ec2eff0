SPECIFICATION ServiceSpec
CONSTANTS
    a1 = a1
    a2 = a2
    Account = {a1, a2}
    Request = {r1, r2}
    Limit = 1
    Order <- MCOrder
    MaxProbe = 2
    Body = {"auto", "explicit"}
    None = None
    Error = {"QUOTA_429", "TRANSPORT", "UPSTREAM_STRUCTURED"}
    Cooldown <- MCCooldown
    RateLimitCooldown = 1
    RetryAfter = {1}
    AttemptCap = 1
    Backoff <- MCBackoff
    ImageTicks = 1
    MinResults = 2
    MaxResults = 2
    WindowTicks = 0
    OpenTicks = 1
    Passwords = {"p", "q"}
    Generated = "generated"
    Ways = {"env", "file", "flag"}
    Admins = {r1, r2}
    HistoryLength = 1
    MaxStarts = 3
    MaxFail = 1
    SignIns = {"pkce", "device", "password"}
    Kind <- MCKind
    Visitors = {r1, r2}
    Consoles = {r1, r2}
    Proxy = {"p1"}
    Level = {"info", "debug"}
    Senders = {r1, r2}
    Entries <- MCEntries
    MaxTries = 3
    MaxUnsaved = 1
    Answers <- MCAnswers
    Pools = {FALSE}
    ReadCap = 1
SYMMETRY Symmetry
INVARIANTS
    ServiceTypeOK
    NoHoldAndWait
    FailoverElsewhere
    ChoiceStays
    SignInTrue
    SettingsTrue
    RotationFair
    TurnTellsTruly
PROPERTIES
    BlamesTheCalled
