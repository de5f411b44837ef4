SPECIFICATION Spec
CONSTANTS
    k1 = k1
    k2 = k2
    u1 = u1
    u2 = u2
    A = A
    H = H
    G = G
    Conn = {k1, k2, u1}
    RoleOf <- MCRole
    NameOf <- MCName
    HomeOf <- MCHome
    HomeId = {H}
    Name = {A}
    None = None
    MaxHomes = 2
    MaxPresence = 2
    MaxCoordinators = 2
    Faults = {"lost"}
    Drains = FALSE
    Closes = FALSE
SYMMETRY MCSymmetry
VIEW MCView
INVARIANTS
    RefsMatchHolders
    RegistryHoldsUsedHomes
    OfflineSlotExpires
    SlotNamesItsConnection
    PresenceAgrees
    UsersKnowCoordinators

    
