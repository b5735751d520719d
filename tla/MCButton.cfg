SPECIFICATION Spec
CONSTANTS
    HoldMs = 2
    WindowMs = 3
    Presses = 3
    TimeMod = 15
    MaxGap = 2
INVARIANTS
    RequestsAsPromised
