CONSTANTS
    foo = foo
    baz = baz
    bar = bar
    major_minor = major_minor
    not_found = not_found
    Paths = {foo, bar, baz}
    IfaceCauses = {major_minor}
    IoCauses = {not_found}
    ContextBound = 3
SPECIFICATION Spec
INVARIANTS ContextNamesLastPath
CHECK_DEADLOCK FALSE
