\* Two sessions, two threads in record_vote of one peer.
CONSTANTS
    p1 = p1
    p2 = p2
    p3 = p3
    c1 = c1
    c2 = c2
    Coordinators = {c1, c2}
    Peers <- MCPeers
    Experts <- MCExperts
    LeaderIdx <- MCLeaderIdx
    InitialTerms <- FreshTerms
    F = 1
    MaxElectionAttempts = 2
    MaxTimeouts = 0
    MaxCrashes = 0
SPECIFICATION HttpSpec
CHECK_DEADLOCK FALSE
INVARIANTS
    OneVotePerTerm
