\* One session without late calls: threads implement the atomic peer.
CONSTANTS
    p1 = p1
    p2 = p2
    p3 = p3
    c1 = c1
    c2 = c2
    Coordinators = {c1}
    Peers <- MCPeers
    Experts <- MCExperts
    LeaderIdx <- MCLeaderIdx
    InitialTerms <- PersistedTerms
    F = 1
    MaxElectionAttempts = 4
    MaxTimeouts = 0
    MaxCrashes = 1
SPECIFICATION HttpFairSpec
CHECK_DEADLOCK FALSE
PROPERTIES
    ImplementsElection
    LoneElectionSucceeds
