SPECIFICATION FairSpec
CONSTANTS
    k1 = k1
    k2 = k2
    u1 = u1
    u2 = u2
    A = A
    H = H
    G = G
    Conn = {u1, u2}
    RoleOf <- MCRole
    NameOf <- MCName
    HomeOf <- MCTwoHomes
    HomeId = {H, G}
    Name = {A}
    None = None
    MaxHomes = 1
    MaxPresence = 2
    MaxCoordinators = 2
    Faults = {"timeout", "rejected", "slow", "expired", "lost"}
    Drains = TRUE
    Closes = FALSE
PROPERTIES
    DeadlineClosesPeers
    StoppedPeersEnd
