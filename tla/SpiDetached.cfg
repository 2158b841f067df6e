SPECIFICATION SpiSpec
CONSTANTS
    Lines = {l1, l2}
    Callbacks = {c1}
    NoLine = NoLine
    NULL = NULL
    NumSlots = 2
    SpiLines = {l1, l2}
    Careful = FALSE
INVARIANT EntryServes
