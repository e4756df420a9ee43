SPECIFICATION Spec
CONSTANTS
    Handler = {h1, h2}
    Lease = {l1}
    Tenant = {t1}
    None = None
    PatchStatus = {"DRAFT"}
    Window = 0
    MaxTime = 1
    Faults = TRUE
INVARIANTS
    TypeOK
    TenantReviewsOwnLease
PROPERTIES
    LifecycleSpec
    MovesFollowWorkflow
SYMMETRY Symmetric
CHECK_DEADLOCK FALSE
