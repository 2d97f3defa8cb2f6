CONSTANTS
    f1 = f1
    f2 = f2
    Flows = {f1}
    MaxEntries = 1
    EvictFrom = 1
    None = None
    Streams <- PlayerOnce
    Faults = {"reset"}
    Patient = FALSE
    Window <- TwoAhead
    MaxInFlight = 2
    MaxRestarts = 0
SPECIFICATION FairSpec
PROPERTIES ResetIsForgotten
\* Clients have a finite number of connections to make: the system may stop.
CHECK_DEADLOCK FALSE
