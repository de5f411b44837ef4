SPECIFICATION FairSpec
CONSTANTS
    k1 = k1
    k2 = k2
    u1 = u1
    u2 = u2
    A = A
    H = H
    G = G
    Conn = {k1, k2}
    RoleOf <- MCRole
    NameOf <- MCName
    HomeOf <- MCHome
    HomeId = {H}
    Name = {A}
    None = None
    MaxHomes = 1
    MaxPresence = 2
    MaxCoordinators = 2
    Faults = {}
    Drains = FALSE
    Closes = TRUE
INVARIANTS
    CloseLeavesNoHome
PROPERTIES
    CloseTerminates
    ReplacedCoordinatorLeaves
    HomesAreReclaimed
