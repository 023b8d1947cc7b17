SPECIFICATION Spec
CONSTANTS
    Heads = {g, h}
    Entries = {x, y, z}
    Nil = Nil
SYMMETRY Alike
\* The program ends where it writes to memory it could not have.
CHECK_DEADLOCK FALSE
INVARIANTS
    LinksExact
    SafeWalkVisitsAll
PROPERTIES
    CallsRearrange
    ImplementsMultiMap
