SPECIFICATION Spec
CONSTANTS
    YearLen = 2
    BronzeRun = 1
    SilverRun = 2
    GoldRun = 2
    Handler = {h1, h2}
    Reader = {}
    Cycle = {c1}
    t1 = t1
    Tenant = {t1}
    TenantOf <- OneTenant
    Reported = {"RENT_ONTIME", "MESSAGE_REPLY"}
    Faults = TRUE
    MaxRequests = 4
INVARIANTS
    TypeOK
    SnapshotNeverOverstates
    BadgeRowsBounded
    ClaimRowsBounded
    UndisturbedSnapshotExact
    JokerlessYearIsPerfect
PROPERTY LedgerSpec
SYMMETRY Symmetric
CHECK_DEADLOCK FALSE
