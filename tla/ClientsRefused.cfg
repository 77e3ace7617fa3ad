SPECIFICATION PresenceSpec
CONSTANTS
    Sockets = {k1, k2}
    Users = {u1, u2}
    u1 = u1
    u2 = u2
    OrgOf <- MCOrgOf
    None = None
INVARIANTS
    ValidTokenIsAdmitted
CHECK_DEADLOCK FALSE
