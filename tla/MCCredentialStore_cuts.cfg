SPECIFICATION Spec
CONSTANTS
    a = a  b = b  c = c
    Pairs <- MCPairs
    None = None  Bad = Bad
    Faults = FALSE
INVARIANTS
    AlwaysOneComplete
PROPERTY
    SlotSpec
