SPECIFICATION FairSpec
CONSTANTS
    s1 = s1   s2 = s2
    i1 = i1   i2 = i2
    c1 = c1   c2 = c2
    v = v     w = w
    Null = Null
    Sub = {s1, s2}
    Item = {i1, i2}
    CodeOf <- MCCodeOf
    Filter <- MCFilter
    Refused = {s2}
    Value = {v, w}
    Objects = {w}
    MinDelay = 1
    MaxDelay = 3
    Long <- MCLong
    MaxPut = 3
    MaxLoss = 2
INVARIANTS
    Mirror
    ReadyShown
    BackoffDoubles
PROPERTIES
    SubscribersFollow
CHECK_DEADLOCK FALSE
