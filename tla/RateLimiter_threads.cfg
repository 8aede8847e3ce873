SPECIFICATION Spec
CONSTANTS
    Ips = {i1, i2}
    ChatSessions = {c1}
    Threads = {t1, t2}
    RatePerMin = 2
    OauthRatePerMin = 1
    RatePerDay = 1
    CreatePerDay = 1
    MaxTrackedIps = 2
    MaxTrackedDayKeys = 1
    Minute = 1
    Day = 2
    MaxClock = 2
    NoSession = NoSession
SYMMETRY Symmetry
INVARIANTS
    MinuteCapHolds
    OverAdmissionBounded
PROPERTIES
    EvictionNeedsFlood
CHECK_DEADLOCK FALSE
