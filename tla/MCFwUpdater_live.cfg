SPECIFICATION FairSpec
CONSTANTS
    v1 = v1  v2 = v2  badHead = badHead  badBody = badBody
    short = short  empty = empty  huge = huge
    NoImage = NoImage
    Bodies <- MCBodies
    BodyLen <- MCBodyLen
    HeadOk <- MCHeadOk
    Verified <- MCVerified
    OtaSize = 3  HeadLen = 2
    CrashResetLimit = 3  CountMax = 255
    RecvRetries = 1
    Faults = FALSE
    Cuts = TRUE
INVARIANT
    PowerCycleReturns
PROPERTIES
    UploadEnds NewFirmwareStarts BootSettles
