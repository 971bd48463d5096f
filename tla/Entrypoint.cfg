SPECIFICATION FairSpec
CONSTANTS
    Statuses <- ExitStatuses
    MaxSignals = 3
INVARIANTS
    NothingAbandoned
    SuccessIsTheAgents
PROPERTIES
    SupervisesToTheEnd
    ContainerEnds
CHECK_DEADLOCK FALSE
