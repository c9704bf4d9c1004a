\* Three calls of one session, so that a late answer meets the next call.
CONSTANTS
    MaxCalls = 3
SPECIFICATION FairSpec
CHECK_DEADLOCK FALSE
INVARIANTS
    TypeOK
    AnswersItsCall
    DeliveredIsReturned
    MapsFollowTheCall
    CloseReleasesCall
PROPERTIES
    RequestEnds
