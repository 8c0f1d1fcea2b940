SPECIFICATION JobSpec
CONSTANTS
    Satellites = {"p1", "p2", "p3", "p4", "r"}
    Ground = "ground"
    JobPlan <- MCCenterPlan
    MaxChunks = 1
INVARIANTS
    PhasesInOrder
CHECK_DEADLOCK FALSE
