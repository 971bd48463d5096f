SPECIFICATION Spec
CONSTANTS
    doc = doc
    script = script
    late = late
    Requests = {doc, script}
    Doc = doc
    Late = {}
    MaxRedirects = 1
    MaxHops = 2
INVARIANT
    BlockedFailsBrowse
CHECK_DEADLOCK FALSE
