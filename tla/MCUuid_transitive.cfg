CONSTANTS
    u1 = u1
    u2 = u2
    u3 = u3
    integer = integer
    double = double
    Bad = Bad
    Uuids = {u1, u2, u3}
    OtherKinds = {integer, double}
SPECIFICATION Spec
INVARIANT EqTransitive
CHECK_DEADLOCK FALSE
