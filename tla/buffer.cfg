SPECIFICATION Spec
CONSTANTS
    Step = 10
    Width = 4
    Streams <- SomeStreams
    Rests <- SomeRests
INVARIANTS LacksAtMostOneByte Inv ResolveStaysInside SameFieldsHoweverCut TargetIsTheHost
PROPERTIES SilenceIsNoFailure
CHECK_DEADLOCK FALSE
