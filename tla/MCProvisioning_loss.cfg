SPECIFICATION FairSpec
CONSTANTS
    home = home
    guest = guest
    NoCreds = NoCreds
    Creds <- MCCreds
    Addresses <- MCAddresses
    QueueLength = 2
    BootAttemptMax = 2
    MaxInputs = 4
    SilentFaults = FALSE
    SlowServer = FALSE
PROPERTIES
    LossIsRepaired
CHECK_DEADLOCK FALSE
