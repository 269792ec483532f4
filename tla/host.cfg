SPECIFICATION FairSpec
CONSTANTS
    c1 = c1   c2 = c2
    r1 = r1   r2 = r2   r3 = r3
    Conn = {c1, c2}
    Request = {r1, r2, r3}
    ConnOf <- MCConnOf
    Kind = {"unknown", "whole", "later", "mute", "twice"}
INVARIANTS
    RequestsKeepOpen
    CountsAgree
    StopWaits
PROPERTIES
    StopEnds
CHECK_DEADLOCK FALSE
