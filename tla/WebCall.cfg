SPECIFICATION Spec
CONSTANTS
    InadequateTextRunes = 12
    MaxURLLength = 2048
    MaxSearchQueryRunes = 300
    SearchPrefix = 31
    AllowedTextChars = 12000
    AllowedResults = 10
    RequestedTextChars = 12288
    RequestedResults = 200
    Defaults <- MCDefaults
    Configured <- MCConfigured
    Proposals <- MCProposals
    Pages <- MCPages
    Policy <- MCPolicy
INVARIANTS
    AcceptedIsUsable
    ChecksAgree
    UnflaggedPageIsComplete
    ContentChosen
