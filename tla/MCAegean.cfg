\* Fresh sessions and stale round tracks, any answers, cancellation at any time.
CONSTANTS
    Experts <- ThreeExperts
    LeaderIdx = 1
    MaxElectionAttempts = 1
    F = 1
    Alpha = 2
    Beta = 2
    MaxRounds = 3
    OutputsOf <- OneMayReturnNone
    MayFail = {2, 3}
    AckLists <- SomeAcks
    TrackInits <- StaleTrack
    MayCancel = TRUE
SPECIFICATION Spec
CHECK_DEADLOCK FALSE
INVARIANTS
    TypeOK
    CommitIsBacked
    BarFollowsQuorum
    CertificateIsSound
    SolnSessionsReplay
    OneRoundAfterCancel
    EndsForAReason
PROPERTIES
    ImplementsBetaStability
