SPECIFICATION FairSpec
CONSTANTS
    MaxSubmit = 2
    QueueLength = 8
    Submits <- MCSubmits
    RxFaults = TRUE
    TxFaults = FALSE
PROPERTIES
    ArmedIsAnswered StripConverges NewestSendAnswered
CHECK_DEADLOCK FALSE
