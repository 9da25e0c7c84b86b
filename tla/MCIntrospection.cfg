CONSTANTS
    c1 = c1
    c2 = c2
    i1 = i1
    i2 = i2
    i3 = i3
    Clients = {c1, c2}
    Ifaces = {i1, i2, i3}
    Owner <- MCOwner
    OpsBound = 1
    DataBound = 1
    DropBound = 1
    Sessions = {"kept"}
SPECIFICATION Spec
INVARIANTS TypeOK DataAfterIntrospection
PROPERTIES Converges BrokerRefinement
CHECK_DEADLOCK FALSE
