SPECIFICATION Spec
CONSTANTS
    a = a
    b = b
    w1 = w1
    w2 = w2
    w3 = w3
    Workers = {w1, w2, w3}
    Names = {a, b}
    MaxFindResults = 2
    MaxCopy = 1
    MaxCalls = 3
    Initial <- MCInitial
    Requests <- MCRequests
INVARIANTS
    TreeIntact
    AppendsKept
PROPERTIES
    ExistingFilesKeptInTurn
    FailureHarmsOnlyItsOutput
    OtherFilesCopied
    FindIsFaithful
SYMMETRY Goroutines
