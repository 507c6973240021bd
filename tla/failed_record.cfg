SPECIFICATION Spec
CONSTANTS
    MaxClients = 1
    MaxLen = 2
    MaxAlarms = 1
    Requests <- OnePage
    Env = {"originFails"}
    response_405 = response_405
    response_505 = response_505
    response_409 = response_409
    Null = Null
    NoRecord = NoRecord
PROPERTIES FailedCashIsRemoved
CHECK_DEADLOCK FALSE
