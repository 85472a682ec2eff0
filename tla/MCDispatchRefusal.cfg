SPECIFICATION RefusalSpec
CONSTANTS
    a1 = a1
    a2 = a2
    Account = {a1, a2}
    Request = {r1, r2}
    Limit = 1
    Order <- MCOrder
    MaxProbe = 2
    Body = {"auto", "explicit"}
    None = None
    Error = {"QUOTA_429", "UPSTREAM_STRUCTURED"}
    Cooldown <- MCCooldown
    RateLimitCooldown = 1
    RetryAfter = {1}
    AttemptCap = 1
    Backoff <- MCBackoff
    ImageTicks = 2
    MinResults = 10
    MaxResults = 10
    WindowTicks = 0
    OpenTicks = 1
INVARIANT
    CoolingIsTrue
