SPECIFICATION Spec
CONSTANTS
    r1 = r1   r2 = r2   r3 = r3
    a = a     b = b     o = o
    p = p
    t1 = t1   t2 = t2
    None = None
    blank = blank
    Blank = {blank}
    Request = {r1, r2, r3}
    ActionOf <- MCActionOf
    Open = {o}
    Signed = {r1, r2}
    From <- MCFrom
    Length <- MCLength
    PrivsOf <- MCPrivsOf
    Table = {t1, t2}
    Needs <- MCNeeds
    Validity = 2
    MaxFetch = 1
    MaxTime = 5
INVARIANTS
    WithdrawnInTime
    TicketWasGood
CHECK_DEADLOCK FALSE
