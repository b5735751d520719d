SPECIFICATION Spec
CONSTANTS
    a = a  b = b  c = c
    Pairs <- MCPairs
    None = None  Bad = Bad
    Faults = TRUE
INVARIANT
    OkIsStored
