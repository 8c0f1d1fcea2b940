SPECIFICATION AssignmentSpec
CONSTANTS
    Size = 3
    Matrices <- MCMatrices
    CostMod = 64
INVARIANT EverySolverMinimizes
CHECK_DEADLOCK FALSE
