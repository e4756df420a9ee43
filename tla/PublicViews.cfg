SPECIFICATION Spec
CONSTANTS
    None = None
    a1 = a1
    a2 = a2
    l1 = l1
    l2 = l2
    Agency = {a1, a2}
    Role = {"SYSTEM_ADMIN", "AGENCY_STAFF"}
    Handler = {h1}
    Tenant = {t1}
    Lease = {l1, l2}
    Home <- MCHome
    Thread = {c1}
    Message = {m1}
    MaxTime = 1
    Client = {k1, k2}
    Subject = {p1}
    Residence <- MCResidence
    MaxVersions = 2
INVARIANT PublicViewsUnscoped
CONSTRAINT OneAtATime
CHECK_DEADLOCK FALSE
