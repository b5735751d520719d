SPECIFICATION FairSpec
CONSTANTS
    home = home
    guest = guest
    NoCreds = NoCreds
    Creds <- MCCreds
    Addresses <- MCAddresses
    QueueLength = 3
    BootAttemptMax = 2
    MaxInputs = 4
    SilentFaults = FALSE
    SlowServer = FALSE
INVARIANTS
    ServicesFitState PortalIsAlive StationUsesStored NoBackgroundRetry ViewCatchesUp
PROPERTIES
    StoredDidConnect Settles SubmissionIsAnswered
CHECK_DEADLOCK FALSE
