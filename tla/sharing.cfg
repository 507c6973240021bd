SPECIFICATION Spec
CONSTANTS
    MaxClients = 3
    MaxLen = 2
    MaxAlarms = 0
    Requests <- OnePage
    Env = {}
    response_405 = response_405
    response_505 = response_505
    response_409 = response_409
    Null = Null
    NoRecord = NoRecord
INVARIANTS NoOvercount
PROPERTIES ImplementsService
CHECK_DEADLOCK FALSE
