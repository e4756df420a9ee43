SPECIFICATION Spec
CONSTANTS
    Handler = {h1, h2}
    Tenant = {t1, t2}
    Email = {e1}
    Invite = {i1, i2}
    Token = {k1, k2, k3}
    None = None
    InviteLifetime = 0
    Lifetime = 0
    MaxTime = 1
INVARIANTS
    TypeOK
    InvitedCanEnter
    InviteUsesBounded
    SessionsRestOnInvites
PROPERTIES
    SessionsSpec
    SpentTokensRefused
SYMMETRY Symmetric
CHECK_DEADLOCK FALSE
