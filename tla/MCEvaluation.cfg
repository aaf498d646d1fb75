CONSTANTS
    m1 = m1
    m2 = m2
    Markets = {m1, m2}
    Resources <- Tokens
    HourlyLimit <- MCHourlyLimit
    DailyLimit = 5
    MarketLimit = 2
    Quota <- MCQuota
    Reserve <- MCReserve
    Usages <- MCUsages
    Excess <- MCExcess
    Hour = 2
    Day = 3
    HoldThreshold = 2
    InvalidThreshold = 2
    Cooldown = 1
    Answers <- MCAnswers
    BookAnswers <- MCBooks
    SoftFactor = 90
    MaxRetries = 1
    GrokRetries = 1
    MaxEvaluations = 2
    MaxTime = 3
SPECIFICATION Spec
INVARIANTS
    SpendBounded
    RepeatedFailuresCool
    OnlyReflectedRoutes
    SentimentNotWasted
PROPERTIES
    BlockedOncePerWindow
    NoFirstCallInCooldown
    EvaluationEnds
CHECK_DEADLOCK FALSE
