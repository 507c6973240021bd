SPECIFICATION Spec
CONSTANTS
    MaxClients = 2
    MaxLen = 2
    MaxAlarms = 2
    Requests <- OnePage
    Env = {"clientLeaves", "originFails"}
    response_405 = response_405
    response_505 = response_505
    response_409 = response_409
    Null = Null
    NoRecord = NoRecord
INVARIANTS CachedResponsesLive HandlersFindObjects NoCorruption
PROPERTIES AnswersAreFinal
CHECK_DEADLOCK FALSE
