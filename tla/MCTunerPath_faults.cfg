SPECIFICATION Spec
CONSTANTS
    MaxSubmit = 2
    QueueLength = 2
    Submits <- MCSubmits
    RxFaults = TRUE
    TxFaults = TRUE
INVARIANTS
    CaptureBelongsToArm OneOutcome AnswerOfItsKind
PROPERTIES
    RestartAbortsOwn AnswerStays
CHECK_DEADLOCK FALSE
