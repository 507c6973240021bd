SPECIFICATION Spec
CONSTANTS
    MaxClients = 2
    MaxLen = 2
    MaxAlarms = 1
    Requests <- OnePageAndPost
    Env = {"originRefuses", "terminate", "brokenPipe"}
    response_405 = response_405
    response_505 = response_505
    response_409 = response_409
    Null = Null
    NoRecord = NoRecord
INVARIANTS Progress Delivery DeletedOnce CleanExit
PROPERTIES ImplementsService
CHECK_DEADLOCK FALSE
