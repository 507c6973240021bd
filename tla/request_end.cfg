SPECIFICATION Spec
CONSTANTS
    Step = 10
    Width = 4
    Streams <- HostStreams
    Rests <- SomeRests
INVARIANTS ForwardedIsComplete
CHECK_DEADLOCK FALSE
