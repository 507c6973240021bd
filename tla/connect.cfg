SPECIFICATION PatientSpec
CONSTANTS
    MaxClients = 4
    MaxFds <- FourFds
    MaxAddrs = 2
    None = None
INVARIANTS Inv OneLeakPerFailure
PROPERTIES PendingIsAccepted AskedIsClosed
CHECK_DEADLOCK FALSE
