\* Two runs, two threads that cancel, agents over HTTP.
CONSTANTS
    h1 = h1
    h2 = h2
    MaxRuns = 2
    Cancellers = {h1, h2}
    Transport = "http"
SPECIFICATION FairSpec
CHECK_DEADLOCK FALSE
INVARIANTS
    TypeOK
    CancelMeetsItsRun
    ViewIsTrue
PROPERTIES
    RunsEnd
