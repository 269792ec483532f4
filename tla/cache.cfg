SPECIFICATION FairSpec
CONSTANTS
    wa = wa   wb = wb
    Worker = {wa, wb}
    Interval = 2
    Ttl = 5
    Grace = 4
    MaxAge = 10
    Undefined = Undefined
    MaxVersion <- MCMaxVersion
    MaxCrash = 1
INVARIANTS
    FileIsBag
    FileFresh
    StaysListed
PROPERTIES
    NewestWins
    Follows
