SPECIFICATION FairSpec
CONSTANTS
    MaxModelRounds = 3
    MaxTotalToolCalls = 2
    MaxExposedTools = 1
    MaxResultBytes = 64
    MaxToolResultBytes = 32
    ContextTokens = 128
    ReservedTokens = 8
    Profile <- MCProfile
    Tools <- MCTools
    CallIds = {c1, c2}
    c1 = c1
    c2 = c2
    NoId = NoId
    Requests <- MCRequests
    MaxReplyCalls = 2
    Overheads = {60, 120}
    ReplyBytes = {0}
    CallTokens = 10
    ResultBytes = {4, 80}
    ErrorBytes = 16
    WrapBytes = 12
    MarkBytes = 4
INVARIANTS
    ConversationWellFormed
    PromptWellFormed
    LongestFittingHistory
    ExecutionPolicy
PROPERTIES
    CancelStops
    Terminates
