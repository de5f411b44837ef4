SPECIFICATION Spec
CONSTANTS
    a = a
    b = b
    u = u
    p = p
    q = q
    t = t
    v = v
    User = {u}
    Name = {a, b}
    Path = {p, q}
    Topic = {t}
    Value = {v}
    NoValue = NoValue
    NoConfig = NoConfig
    Offers <- MCOffers
    MaxRevision = 5
    MaxIds = 2
    MaxSubscriptions = 1
INVARIANTS
    ViewsFollowTheHome
    SubscriptionsStayAuthorized
    EventsAreExpected
PROPERTIES
    RevisionTellsViewsApart
CHECK_DEADLOCK FALSE
