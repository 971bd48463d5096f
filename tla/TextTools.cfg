SPECIFICATION Spec
CONSTANTS
    MaxText = 3
    Files <- MCFiles
    Arguments <- MCArguments
    MaxCalls = 2
    MaxLineLength = 2
    MaxFileReadBytes = 3
    MaxResultBytes = 5
    MaxStdin = 16
    MaxStdout = 24
    MaxGrepMatches = 2
    MaxCount = 8
INVARIANTS
    UnflaggedIsComplete
    CommandsAgree
CHECK_DEADLOCK FALSE
