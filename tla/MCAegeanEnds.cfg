\* Two steady agents of three, the third answers anything, late or never.
CONSTANTS
    Experts <- ThreeExperts
    LeaderIdx = 1
    MaxElectionAttempts = 3
    F = 1
    Alpha = 2
    Beta = 2
    MaxRounds = 3
    OutputsOf <- TwoSteady
    MayFail = {3}
    AckLists <- RecoveryAcks
    TrackInits <- FreshTracks
    MayCancel = TRUE
SPECIFICATION FairSpec
CHECK_DEADLOCK FALSE
PROPERTIES
    SessionEnds
    SteadyAgentsCommit
