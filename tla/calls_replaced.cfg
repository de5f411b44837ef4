SPECIFICATION Spec
CONSTANTS
    b1 = b1
    b2 = b2
    u1 = u1
    None = None
    Conn = {b1, b2, u1}
    Name = {n1}
    RoleOf <- MCRoleOf
    NameOf <- MCNameOf
    MaxCalls = 1
    MaxCallId = 2
    CallerIds = {1}
    MaxInflight = 1
    MaxCredit = 0
    MaxGranted = 3
    Drains = FALSE
INVARIANTS
    CallsEndWithTheirPeers
    BothEndsAreTold
SYMMETRY MCSymmetric
CHECK_DEADLOCK FALSE
