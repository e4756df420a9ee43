SPECIFICATION Spec
CONSTANTS
    Handler = {h1, h2}
    Lease = {l1}
    Tenant = {t1}
    None = None
    PatchStatus = {}
    Window = 1
    MaxTime = 0
    Faults = FALSE
PROPERTY WorkflowFollowed
CHECK_DEADLOCK FALSE
