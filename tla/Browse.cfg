SPECIFICATION FairSpec
CONSTANTS
    doc = doc
    script = script
    late = late
    Requests = {doc, script, late}
    Doc = doc
    Late = {late}
    MaxRedirects = 1
    MaxHops = 2
INVARIANTS
    OnlyAllowedSent
    CauseIsReported
    NothingLeftBehind
PROPERTIES
    BrowseReturns
CHECK_DEADLOCK FALSE
