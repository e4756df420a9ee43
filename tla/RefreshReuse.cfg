SPECIFICATION Spec
CONSTANTS
    Handler = {h1, h2}
    User = {u1, u2}
    Slug = {s1}
    Token = {k1, k2, k3, k4}
    None = None
    Lifetime = 1
    MaxTime = 2
    Faults = FALSE
INVARIANTS
    SingleUse
SYMMETRY Symmetric
CHECK_DEADLOCK FALSE
