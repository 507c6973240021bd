SPECIFICATION FairSpec
CONSTANTS
    Conns = {c1, c2}
    MaxAlarms = 3
    PipeRoom <- TwoMessages
    None = None
INVARIANTS Inv TwiceOnlyInTheWindow CleanExit
PROPERTIES TerminationFinishes AlarmsAreHandled
CHECK_DEADLOCK FALSE
