\* Two sessions on threaded peers.
CONSTANTS
    p1 = p1
    p2 = p2
    p3 = p3
    c1 = c1
    c2 = c2
    Coordinators = {c1, c2}
    Peers <- MCPeers
    Experts <- MCExperts
    LeaderIdx <- MCLeaderIdx
    InitialTerms <- MixedTerms
    F = 1
    MaxElectionAttempts = 2
    MaxTimeouts = 1
    MaxCrashes = 0
SPECIFICATION HttpSpec
CHECK_DEADLOCK FALSE
INVARIANTS
    HttpTypeOK
    CountedVotesWereRecorded
