SPECIFICATION Spec
CONSTANTS
    Lines = {l1, l2, l3}
    Callbacks = {c1, c2}
    NoLine = NoLine
    NULL = NULL
    NumSlots = 4
INVARIANT NeverCallsNull
