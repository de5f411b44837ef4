SPECIFICATION Spec
CONSTANTS
    a1 = a1
    a2 = a2
    b1 = b1
    A = A
    B = B
    p = p
    q = q
    t = t
    f = f
    v = v
    w = w
    Conn = {a1, b1}
    NameOf <- MCName
    Name = {A, B}
    Entry = {p, q, f}
    KindOf <- MCKind
    Value = {v}
    Acl = {v, w}
    None = None
    MaxStatePaths = 1
    MaxDictionary = 2
    Oversized = {"EVENT_SYNC_OK", "FUNCTION_SYNC_OK"}
    MaxStages = 2
    MaxId = 2
    MaxSets = 1
SYMMETRY MCSymmetricNames
VIEW MCView
CHECK_DEADLOCK FALSE
INVARIANTS
    OwnersMatchConfigs
    DictionaryAgrees
    StateMatchesConfigs
    WithinHomeLimits
PROPERTIES
    IdsKeepTheirMeaning
    ImplementsOwnership
    StateChangesRevision
    PolicyChangesRevision
