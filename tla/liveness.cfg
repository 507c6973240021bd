SPECIFICATION FairSpec
CONSTANTS
    MaxClients = 2
    MaxLen = 2
    MaxAlarms = 0
    Requests <- OnePage
    Env = {"originRefuses"}
    response_405 = response_405
    response_505 = response_505
    response_409 = response_409
    Null = Null
    NoRecord = NoRecord
PROPERTIES EveryClientIsAnswered
CHECK_DEADLOCK FALSE
