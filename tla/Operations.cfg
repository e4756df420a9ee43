SPECIFICATION Spec
CONSTANTS
    None = None
    Unset = Unset
    user = user
    admin = admin
    shared = shared
    own = own
    Request = {r1, r2, r3, r4}
    Client = {user, admin}
    Admin = admin
    Route = {t1}
    Id = {shared, own}
    Fault = {f1}
    Limit <- MCLimit
    Window = 2
    DupWindow = 2
    PruneAge = 2
    Cap = 1
    Cooldown = 2
    Webhook = TRUE
    MaxTime = 3
    Incident = {n1, n2}
INVARIANTS
    TypeOK
    AdmissionsBounded
    EchoesAccounted
    ReportsAccounted
CONSTRAINT Bounds
SYMMETRY Symmetric
CHECK_DEADLOCK FALSE
