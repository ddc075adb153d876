CONSTANTS
    N = 2
    MaxRounds = 2
    p1 = p1
    p2 = p2
    p3 = p3
    Procs <- TwoProcs
    Tops <- FreshTop
SPECIFICATION Spec
INVARIANTS
    CompletedByCondition
