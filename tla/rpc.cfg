SPECIFICATION OrderedSpec
CONSTANTS
    Request = {1, 2, 3}
    Address = {a1}
INVARIANTS
    AnsweredOnce
    RunsOnce
    CacheAlive
    NobodyStranded
PROPERTIES
    SuspectUnused
    ImplementsCall
    EventuallyAnswered
CHECK_DEADLOCK FALSE
