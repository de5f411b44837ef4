SPECIFICATION Spec
CONSTANTS
    a1 = a1
    a2 = a2
    b1 = b1
    A = A
    B = B
    p = p
    q = q
    t = t
    f = f
    v = v
    w = w
    Conn = {a1, b1}
    NameOf <- MCName
    Name = {A, B}
    Entry = {p}
    KindOf <- MCKind
    Value = {v}
    Acl = {v}
    None = None
    MaxStatePaths = 2
    MaxDictionary = 2
    Oversized = {"STATE_SYNC_OK"}
    MaxStages = 2
    MaxId = 3
    MaxSets = 0
CHECK_DEADLOCK FALSE
INVARIANTS
    StageHasDeadline
