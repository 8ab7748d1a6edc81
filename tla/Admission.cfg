SPECIFICATION MCSpec
CONSTANTS
    first = first
    retry = retry
    other = other
    clash = clash
    k1 = k1
    k2 = k2
    b1 = b1
    b2 = b2
    Requests = {first, retry, other, clash}
    Keys = {k1, k2}
    Bodies = {b1, b2}
    Key <- MCKey
    Body <- MCBody
    Limit = 1
    MaxFaults = 1
    MaxEdits = 2
    NoOne = NoOne
    NoBody = NoBody
    Users = {"ann", "bob"}
    Destinations = {"d1", "d2"}
    Tokens = {"t1", "t2"}
    Updates = {"m1", "m2"}
    Senders <- MCSenders
    LinkRequests = {"q1", "q2"}
    MaxLinkFaults = 1
    Combinations = {"c1", "c2"}
    Changes = {"s1", "s2", "s3"}
    SubscriptionLimit = 1
    MaxChangeFaults = 1
    Nobody = "nobody"
INVARIANTS
    ActiveLimitHolds
    KeyMeansOneAlert
    LinksAndSubscriptionsAreSound
PROPERTIES
    CreatedWhileConnected
    EveryRequestAnswered
    LinkedByOpenToken
    CreatedBelowLimit
CHECK_DEADLOCK FALSE
