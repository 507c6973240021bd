SPECIFICATION Spec
CONSTANTS
    MaxClients = 2
    MaxLen = 4
    MaxAlarms = 0
    Requests <- OnePage
    Env = {"originRefuses", "oneByteRead", "originTruncates", "clientLeaves"}
    response_405 = response_405
    response_505 = response_505
    response_409 = response_409
    Null = Null
    NoRecord = NoRecord
INVARIANTS Inv UndisturbedProgress NoLostWakeup DeliveredInFull OnlyOkCached StrandedOnlyByOrigin
PROPERTIES NeverForgetsBytes
CHECK_DEADLOCK FALSE
