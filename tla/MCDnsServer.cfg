SPECIFICATION Spec
CONSTANTS
    ReceiveTimeout = 3
    StopTimeout = 9
    Poll = 2
    Cleanup = 2
    Lag = 1
    TickMod = 24
INVARIANTS
    StoppedMeansReleased StartedMeansServing
