CONSTANTS
    t1 = t1
    t2 = t2
    k1 = k1
    k2 = k2
    d1 = d1
    d2 = d2
    ty1 = ty1
    ty2 = ty2
    None = None
    Tasks = {t1, t2}
    Keys = {k1}
    Data = {d1, d2}
    MappingTypes = {ty1, ty2}
    Majors = {1, 2}
    InitMajor = 1
    InitType = ty1
    TaskKey <- MCTaskKeyShared
    OpsBound = 1
    DisconnectBound = 0
    RestartBound = 0
    ReplaceBound = 0
    CancelBound = 0
    FailBound = 0
SYMMETRY MCSymmetry
SPECIFICATION Spec
PROPERTY RegisterRefinement
CHECK_DEADLOCK FALSE
