\* Three rounds, any labels, answers that agree, paraphrase, or differ.
CONSTANTS
    Agents = {1, 2, 3}
    Outputs = {1, 2, 3, 4}
    Conclusion <- Stated
    Similarity <- Close
    Unit = 6
    R = 2
    Alpha = 2
    RBarSimilarity = 4
    Threshold = 16
    DiscardNoise = FALSE
    MaxRounds = 3
SPECIFICATION Spec
CHECK_DEADLOCK FALSE
INVARIANTS
    TypeOK
    PromptIsCoherent
    ScoreIsAccounted
PROPERTIES
    ImplementsWeightedStability
