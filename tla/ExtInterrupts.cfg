SPECIFICATION FairSpec
CONSTANTS
    Lines = {l1, l2, l3}
    Callbacks = {c1, c2}
    NoLine = NoLine
    NULL = NULL
    NumSlots = 3
INVARIANTS InOrderOfAttachment EnabledListed
PROPERTIES Served
