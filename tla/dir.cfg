SPECIFICATION FairSpec
CONSTANTS
    wa = wa   wb = wb   k1 = k1   k2 = k2
    a1 = a1   a2 = a2   b1 = b1   b0 = b0
    None = None
    Worker = {wa, wb}
    Key = {k1, k2}
    Blob = {a1, a2, b1, b0}
    Usable = {a1, a2, b1}
    WorkerOf <- MCWorkerOf
    KeysOf <- MCKeysOf
    Files <- MCFiles
INVARIANTS
    IndexConsistent
    LoadKeepsRegistrations
PROPERTIES
    ImplementsDirectory
    Converges
