SPECIFICATION Spec
CONSTANTS
    Handler = {h1, h2}
    Agency = {a1, a2}
    Row = {"owner", "property", "tenant", "unit", "lease", "schedule", "payment"}
    KindOf <- MCKindOf
    Role = {"SYSTEM_ADMIN", "AGENCY_STAFF", "VIEWER"}
    None = None
INVARIANTS
    TypeOK
    ReferencesStayHome
    PaidIsBacked
PROPERTIES
    WritesStayHome
    StaffKeepToTheirRows
SYMMETRY Symmetric
CHECK_DEADLOCK FALSE
