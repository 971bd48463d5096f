SPECIFICATION FairServerSpec
CONSTANTS
    m1 = m1
    m2 = m2
    m3 = m3
    Requests = {m1, m2, m3}
INVARIANTS
    CleanExitLeavesNothing
PROPERTIES
    StopsWhenTold
CHECK_DEADLOCK FALSE
