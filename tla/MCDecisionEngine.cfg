\* None and two other outputs, two supporters, two steps in a row, two terms.
CONSTANTS
    a1 = a1
    a2 = a2
    a3 = a3
    Agents = {a1, a2, a3}
    Outputs = {0, 1, 2}
    Alpha = 2
    Beta = 2
    MaxTerm = 2
    MaxSteps = 4
SPECIFICATION Spec
CHECK_DEADLOCK FALSE
INVARIANTS
    CountIsRun
PROPERTIES
    ImplementsBetaStability
