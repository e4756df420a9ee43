SPECIFICATION MCFairSpec
CONSTANTS
    YearLen = 2
    BronzeRun = 1
    SilverRun = 2
    GoldRun = 2
    Handler = {h1, h2}
    Reader = {r1}
    Cycle = {c1}
    t1 = t1
    Tenant = {t1}
    TenantOf <- OneTenant
    Reported = {"RENT_ONTIME", "MESSAGE_REPLY"}
    Faults = FALSE
    MaxRequests = 4
INVARIANTS
    CompletedViewShowsPlatinum
    LoopFindsRuns
    PlatinumBringsSilver
PROPERTY QualifiedYearCloses
CHECK_DEADLOCK FALSE
