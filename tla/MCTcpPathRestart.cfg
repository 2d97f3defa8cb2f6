CONSTANTS
    f1 = f1
    f2 = f2
    Flows = {f1}
    MaxEntries = 1
    EvictFrom = 1
    None = None
    Streams <- LongPlayerTwice
    Faults = {"lose", "spurious", "vanish", "restart"}
    Patient = TRUE
    Window <- TwoAhead
    MaxInFlight = 2
    MaxRestarts = 1
SPECIFICATION FairSpec
INVARIANTS PlayersPass
PROPERTIES ServedAfterRestart
\* Clients have a finite number of connections to make: the system may stop.
CHECK_DEADLOCK FALSE
