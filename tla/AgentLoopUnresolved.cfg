SPECIFICATION Spec
CONSTANTS
    MaxModelRounds = 3
    MaxTotalToolCalls = 5
    MaxExposedTools = 6
    MaxResultBytes = 16384
    MaxToolResultBytes = 4096
    ContextTokens = 4096
    ReservedTokens = 256
    Profile <- MCBigProfile
    Tools <- MCBigTools
    CallIds = {c1, c2}
    c1 = c1
    c2 = c2
    NoId = NoId
    Requests <- MCBigRequests
    MaxReplyCalls = 3
    Overheads = {646, 900}
    ReplyBytes = {0}
    CallTokens = 30
    ResultBytes = {4096}
    ErrorBytes = 100
    WrapBytes = 45
    MarkBytes = 14
INVARIANT UnresolvedActivityKept
