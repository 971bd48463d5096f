SPECIFICATION FairSpec
CONSTANTS
    Tools <- MCTools
    Allowed <- MCAllowed
    NoServer = NoServer
INVARIANTS
    NoChildSurvives
    RoutedByPolicy
PROPERTIES
    SignalEnds
    StartupEnds
