SPECIFICATION ThreadSpec
CONSTANTS
    MaxClients = 2
    MaxFds = 5
    MaxAddrs = 1
    None = None
PROPERTIES NobodyWaitsForAnother
CHECK_DEADLOCK FALSE
