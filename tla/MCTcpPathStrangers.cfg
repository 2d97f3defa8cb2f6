CONSTANTS
    f1 = f1
    f2 = f2
    Flows = {f1, f2}
    MaxEntries = 1
    EvictFrom = 1
    None = None
    Streams <- Strangers
    Faults = {"lose", "spurious", "vanish", "reset", "restart"}
    Patient = FALSE
    Window <- StrangersAhead
    MaxInFlight = 2
    MaxRestarts = 1
SPECIFICATION Spec
INVARIANTS TypeOK StrangersAreNotHeard StaysBlocked
\* Clients have a finite number of connections to make: the system may stop.
CHECK_DEADLOCK FALSE
