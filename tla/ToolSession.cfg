SPECIFICATION FairSession
CONSTANTS
    MaxCalls = 5
    MaxNoise = 1
    ChanCap = 1
    PipeCap = 1
    Handshake = 2
INVARIANTS
    AnswerInTransit
    NoStraggler
    NotAllWaiting
PROPERTIES
    ImplementsRpc
    ServesAsToolServer
    LossIsNoticed
    CancelReturns
    CloseReaps
