CONSTANTS
    t1 = t1
    t2 = t2
    k1 = k1
    k2 = k2
    d1 = d1
    d2 = d2
    ty1 = ty1
    ty2 = ty2
    None = None
    Tasks = {t1}
    Keys = {k1}
    Data = {d1, d2}
    MappingTypes = {ty1, ty2}
    Majors = {1, 2}
    InitMajor = 1
    InitType = ty1
    TaskKey <- MCTaskKeyDistinct
    OpsBound = 2
    DisconnectBound = 1
    RestartBound = 1
    ReplaceBound = 1
    CancelBound = 0
    FailBound = 1
SPECIFICATION Spec
INVARIANTS TypeOK PropertyConsistency
PROPERTIES Converges RegisterRefinement
CHECK_DEADLOCK FALSE
