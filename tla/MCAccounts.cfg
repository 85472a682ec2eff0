SPECIFICATION FairAccountsSpec
CONSTANTS
    AccountId = {a1, a2}
    Request = {r1, r2, r3}
    Limit = 1
    Account = {a1}
    Cooldown <- MCCooldown
    Backoff <- MCBackoff
    Error = {"QUOTA_429", "RETRY_AFTER_429", "METERING_429", "AUTH_EXPIRED_401", "FORBIDDEN_403", "TRANSPORT", "OVERLOAD_503", "PLAIN_TRANSPORT", "PLAIN_UNKNOWN", "UPSTREAM_STRUCTURED", "CLIENT_CANCELED"}
    RateLimitCooldown = 2
    RetryAfter = {1, 2}
    AttemptCap = 2
    ImageTicks = 3
    MinResults = 2
    MaxResults = 3
    WindowTicks = 2
    OpenTicks = 2
INVARIANTS
    TypeOK
    SlotAccounting
    NoLostWakeup
    HealthTypeOK
    MarksExpire
    WindowSane
PROPERTIES
    AcquireReturns
    PoolSpec
    AccountsRecover
    CircuitCloses
