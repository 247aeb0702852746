SPECIFICATION MCSpec
CONSTANTS
    m = m
    w = w
    p1 = p1
    p2 = p2
    k1 = k1
    cd = cd
    None = None
    Names = {m, w}
    Projects <- Started
    Procs = {p1, p2}
    Keys = {k1, cd}
    WorkflowKeys = {k1}
    CommitDocs = cd
    MaxShelf = 1
    MaxOps = 3
    MaxFaults = 1
SYMMETRY Symmetry
INVARIANTS TypeOK NothingLost StaysTogether SettingsKept TodoKept
PROPERTIES RepliesAreTrue RepairSettles
CHECK_DEADLOCK FALSE
