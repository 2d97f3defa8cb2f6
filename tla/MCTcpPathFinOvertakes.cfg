CONSTANTS
    f1 = f1
    f2 = f2
    Flows = {f1}
    MaxEntries = 1
    EvictFrom = 1
    None = None
    Streams <- PlayerOnce
    Faults = {"lose"}
    Patient = FALSE
    Window <- Ahead
    MaxInFlight = 3
    MaxRestarts = 0
SPECIFICATION FairSpec
PROPERTIES EverythingArrives
\* Clients have a finite number of connections to make: the system may stop.
CHECK_DEADLOCK FALSE
