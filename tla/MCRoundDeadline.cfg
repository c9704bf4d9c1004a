\* One agent may never return: the round does not end.
CONSTANTS
    a1 = a1
    a2 = a2
    a3 = a3
    Agents = {a1, a2, a3}
    MaxRounds = 2
    TrackInit <- OneStale
    MayHang = {a2}
SPECIFICATION FairSpec
CHECK_DEADLOCK FALSE
PROPERTIES
    RoundEndsAfterDeadline
