SPECIFICATION Spec
CONSTANTS
    MaxClients = 2
    MaxLen = 2
    MaxAlarms = 2
    Requests <- TwoHosts
    Env = {}
    response_405 = response_405
    response_505 = response_505
    response_409 = response_409
    Null = Null
    NoRecord = NoRecord
INVARIANTS OwnResponse UndercountIsExplained 
PROPERTIES CountsNeverRecover ImplementsService
CHECK_DEADLOCK FALSE
