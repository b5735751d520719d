SPECIFICATION Spec
CONSTANTS
    DataSymbols = 4
    ReadMinBits = 3
    MaxRoom = 3
    MaxJitter = 1
    Timings <- MCTimings
INVARIANTS
    FrameOnWire SendMeasured ReadMeasured
CHECK_DEADLOCK FALSE
