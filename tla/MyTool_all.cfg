\* Four tasks that take turns with two blocks of memory.
SPECIFICATION Spec
CONSTANTS
    g = g
    h = h
    NULL = NULL
    Junk = Junk
    Tasks = {named, symbol, bare, stray}
    Named = {named}
    Resolvable = {symbol}
    Symbolless = {named, bare}
    Blocks = {b1, b2}
    GUIDs = {g, h}
    Inputs <- Arrays
    MAX_PARENTS = 3
    MAX_CHILDREN = 2
INVARIANTS TypeOK LabelOwn CrashesOverNameless
PROPERTIES ParentsSpec ChildrenSpec
SYMMETRY Symmetry
CHECK_DEADLOCK FALSE
